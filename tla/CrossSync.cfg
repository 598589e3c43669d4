SPECIFICATION LiveSpec
CONSTANTS
    N = 3
    Gtid = {g1, g2}
    Errant = {g2}
    g1 = g1
    g2 = g2
INVARIANTS
    SyncInv
    CrossSynced
    NilMeansNoErrant
    SessionsBalanced
PROPERTIES
    CallReturns
CHECK_DEADLOCK FALSE

SPECIFICATION DataSpec
CONSTANTS
    N = 2
    R = 1
    Flaw <- MCFlaw
    Params <- MCParams
    Txn = {"t1", "t2"}
    Creates = {"t1"}
    Rejected = {"reportPrimary", "missing", "errant", "tables"}
    MaxTrials = 2
    MaxLooks = 2
    MaxPolls = 2
    MaxChanges = 2
INVARIANTS
    DataIsCompared
CHECK_DEADLOCK FALSE

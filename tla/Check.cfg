SPECIFICATION DataSpec
CONSTANTS
    N = 2
    R = 1
    Flaw <- MCFlaw
    Params <- MCParams
    Txn = {"t1", "t2"}
    Creates = {"t1"}
    Rejected = {}
    MaxTrials = 2
    MaxLooks = 2
    MaxPolls = 2
    MaxChanges = 2
INVARIANTS
    CheckInv
    QuietVerdict
    NilWasTrue
    SessionsAccounted
    NothingMissing
PROPERTIES
    ChecksAreBounded
CHECK_DEADLOCK FALSE

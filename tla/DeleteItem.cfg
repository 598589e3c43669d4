SPECIFICATION LiveSpec
CONSTANTS
    pod = pod  sts = sts
    Object = {pod, sts}
    Calls = 3
    Target <- MCTarget
    MaxCreates = 2
INVARIANTS
    AnswerInv
PROPERTIES
    DeletesAreAccountedFor
    PromiseKept
    DeleteReturns
CHECK_DEADLOCK FALSE

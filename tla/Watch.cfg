SPECIFICATION LiveSpec
CONSTANTS
    target = target  other = other  wanted = wanted  unwanted = unwanted
    AnyVersion = AnyVersion
    Name = {target, other}
    State = {wanted, unwanted}
    Operation <- MCOperation
    MaxVersion = 3
INVARIANTS
    WaitInv
    NilIsTrue
    TimeoutIsHonest
    NothingMissed
PROPERTIES
    MatchIsFound
CHECK_DEADLOCK FALSE

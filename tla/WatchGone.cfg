SPECIFICATION Spec
CONSTANTS
    target = target  other = other  wanted = wanted  unwanted = unwanted
    AnyVersion = AnyVersion
    Name = {target}
    State = {wanted, unwanted}
    Operation <- MCGone
    MaxVersion = 2
INVARIANTS
    GoneIsNoticed
CHECK_DEADLOCK FALSE

SPECIFICATION ScenarioSpec
CONSTANTS
    cluster = cluster  partial = partial  online = online
    AnyVersion = AnyVersion
    Name = {cluster}
    State = {partial, online}
    Degraded = {partial}
    Restored = {online}
    Operation <- MCOperation
    Scenario <- MCScenario
    Wanted <- MCWanted
    MaxLooks = 2
    MaxVersion = 5
    MaxTrials = 2
INVARIANTS
    EventInv
    RecoveryProven
    AssertionIsHonest
PROPERTIES
    VerdictComes
CHECK_DEADLOCK FALSE

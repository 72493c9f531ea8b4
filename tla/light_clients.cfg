SPECIFICATION Spec
CONSTANTS
    Width = 4
    InlineLimit = 13
    Keccak <- Paths
    Blocks <- MCBlocks
    L2Blocks <- MCL2Blocks
    Real <- MCReal
    TrustingPeriod = 2
    MaxClockDrift = 2
    MaxTime = 5
    MaxClients <- OneEach
    MaxForces <- FirstOnly
INVARIANTS StoredFollows ProofsSound FixturesAccepted ForksReportable
PROPERTY InactiveHolds
CHECK_DEADLOCK FALSE

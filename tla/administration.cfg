SPECIFICATION Spec
CONSTANTS
    Accounts = {a1, a2}
    InitialAdmin = a1
    Roles = {0, 1, 9}
    AdminRole = 0
    PublicRole = 9
    RelayerRole = 1
    Targets = {core, zkgm}
    Core = core
    Zkgm = zkgm
    Selectors <- Asked
    administer = administer
    RelayerSelectors = {packet_recv}
    PacketRecv = packet_recv
    SetBucket = administer
    SetDisabled = administer
    Pause = administer
    Delays = {0, 3}
    MinSetback = 2
    StartTime = 1
    MaxTime = 5
    MaxUint = 7
    Capacities = {2, 3}
    Rates = {1, 2}
    Amounts = {0, 1, 2}
    MaxCalls = 4
INVARIANTS AdminStays WindowBound
PROPERTY DelaysHold
CHECK_DEADLOCK FALSE

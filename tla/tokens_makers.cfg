SPECIFICATION Spec
CONSTANTS
    Denoms <- MakerDenoms
    Accounts <- MCAccounts
    Proxy = "proxy"
    BurnAddress = "burn"
    GRC20Decimals <- NoGRC20
    MaxInt64 = 80
    MaxDecimals = 18
    Packets <- MakerPackets
    Relayers = {"mia"}
    RelayerMsgs <- MakerMsgs
    Endowment <- MCEndowment
    Gifts <- BobToMia
INVARIANTS Custody Backed Settleable
CHECK_DEADLOCK FALSE

SPECIFICATION Spec
CONSTANTS
    Denoms <- FillDenoms
    Accounts <- MCAccounts
    Proxy = "proxy"
    BurnAddress = "burn"
    GRC20Decimals <- NoGRC20
    MaxInt64 = 80
    MaxDecimals = 18
    Packets <- FillPackets
    Relayers = {"mia"}
    RelayerMsgs <- NoMsg
    Endowment <- MCEndowment
    Gifts <- BobToProxy
INVARIANTS TypeOK Custody Backed Redeemable Settleable
CHECK_DEADLOCK FALSE

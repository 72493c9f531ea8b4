SPECIFICATION FairSpec
CONSTANTS
    SlotBase = 4
    MaxHops = 4
    Chains = {"A", "M", "N", "C"}
    Channels <- Line
    Receivers <- Registered
    Senders = {"A"}
    Instructions <- MCInstructions
    Timeouts = {1, 2}
    MaxSent = 2
INVARIANTS ParentsWait ToldTruly PathIsRoute
PROPERTY AllSettle
CHECK_DEADLOCK FALSE

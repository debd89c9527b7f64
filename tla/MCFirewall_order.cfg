SPECIFICATION MCSpec
CONSTANTS
    None = None
    WordBits = 8
    NibbleBits = 2
    Untrimmed <- Blanks
    BadTags = {"Long tag"}
    MaxPort = 9
    Submitted = {}
    Proxies = {{}, {d4}}
    a4 = a4
    b4 = b4
    d4 = d4
    a6 = a6
    Addresses <- AddressTable
    Configs <- ExceptionsOnly
    Contents <- AllContents
    Selections = {"vpn"}
    Packets <- AllPackets
    Resolved = {b4}
    MaxApplies = 1
    MaxTrouble = 0
INVARIANTS
    FirstMatchWins
CHECK_DEADLOCK FALSE

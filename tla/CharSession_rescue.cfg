\* A rescue takes a character from a running server.
SPECIFICATION Spec
CONSTANTS
    Chars = {c1}
    Servers = {"A", "B"}
    AreaOf <- TwoAreas
    MirrorOf <- OneMirror
    Mirrors = {1}
    Slots = {k1}
    Account <- SameAccount
    TestAccount = 1
    LoginReserve = 0
    MaxVer = 2
    MaxBackup = 0
    MaxPeriodic = 0
    ItemsCanRunOut = FALSE
    NpcSlots = {}
    Fragile = {"B"}
    Stopping = {"B"}
    NoChar = NoChar
    NoServer = NoServer
    NoSlot = NoSlot
PROPERTIES
    NeverOverwriteMoreCurrent

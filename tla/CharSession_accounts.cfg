\* Two areas, two characters of one account.
SPECIFICATION Spec
CONSTANTS
    Chars = {c1, c2}
    Servers = {"A", "B"}
    AreaOf <- TwoAreas
    MirrorOf <- OneMirror
    Mirrors = {1}
    Slots = {k1}
    Account <- SameAccount
    TestAccount = 1
    LoginReserve = 0
    MaxVer = 1
    MaxBackup = 0
    MaxPeriodic = 1
    ItemsCanRunOut = FALSE
    NpcSlots = {}
    Fragile = {}
    Stopping = {}
    NoChar = NoChar
    NoServer = NoServer
    NoSlot = NoSlot
INVARIANTS
    OneCharPerAccount
SYMMETRY CharSymmetry
CONSTRAINT Unrobbed

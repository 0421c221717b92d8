\* Two areas, one character whose data changes; area status goes out of date,
\* servers restart, backups are queued too.
SPECIFICATION Spec
CONSTANTS
    Chars = {c1}
    Servers = {"A", "B"}
    AreaOf <- TwoAreas
    MirrorOf <- OneMirror
    Mirrors = {1}
    Slots = {k1}
    Account <- SameAccount
    TestAccount = 1
    LoginReserve = 0
    MaxVer = 2
    MaxBackup = 1
    MaxPeriodic = 0
    ItemsCanRunOut = FALSE
    NpcSlots = {}
    Fragile = {"B"}
    Stopping = {"B"}
    NoChar = NoChar
    NoServer = NoServer
    NoSlot = NoSlot
INVARIANTS
    TypeOK SingleOwner OwnershipInv MemoryIsFresh
PROPERTIES
    NoLostUpdate
CONSTRAINT Unrobbed

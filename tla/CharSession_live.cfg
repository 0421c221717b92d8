\* One server that is told to quit, two characters of different accounts, NPCs
\* in the same entries.
SPECIFICATION LiveSpec
CONSTANTS
    Chars = {c1, c2}
    Servers = {"A"}
    AreaOf <- TwoAreas
    MirrorOf <- OneMirror
    Mirrors = {1}
    Slots = {k1, k2}
    Account <- OwnAccounts
    TestAccount = 1
    LoginReserve = 1
    MaxVer = 1
    MaxBackup = 0
    MaxPeriodic = 0
    ItemsCanRunOut = TRUE
    NpcSlots = {k1}
    Fragile = {}
    Stopping = {"A"}
    NoChar = NoChar
    NoServer = NoServer
    NoSlot = NoSlot
INVARIANTS
    AnswerIsOwn
PROPERTIES
    LoginAnswered LostconLeaves QuitTerminates

\* A server of area 3 with a keeper and one that reads; statements fail and
\* a server crashes, or nothing of that kind happens.
SPECIFICATION StorageLiveSpec
CONSTANTS
    Servers = {"A", "C"}
    Clans = {"clanA", "clanC"}
    Keepers = {"k1"}
    Home <- OwnServer
    Writers = {"clanA"}
    Blobs = {"clan", "k1"}
    Blob <- OwnBlob
    Changes = {"x"}
    MaxVer = 2
    Crashing = {"A"}
    SqlFails = TRUE
INVARIANTS
    CountedOnce
    KeeperInStep
PROPERTIES
    RequestAnswered
    ReaderCatchesUp

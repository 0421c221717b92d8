\* Two mirrors of area 3 write the clan table.
SPECIFICATION StorageSpec
CONSTANTS
    Servers = {"A", "B"}
    Clans = {"clanA", "clanB"}
    Keepers = {}
    Home <- OwnServer
    Writers = {"clanA", "clanB"}
    Blobs = {"clan"}
    Blob <- OwnBlob
    Changes = {"x", "y"}
    MaxVer = 3
    Crashing = {"A"}
    SqlFails = TRUE
INVARIANTS
    StorageInv
PROPERTIES
    NoLostWrite
    IsRegister
    WriterKeeps

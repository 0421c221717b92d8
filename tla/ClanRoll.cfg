\* Two clan numbers, three clans in all, one character watched, the keeper and a
\* server of another area.
SPECIFICATION Spec
CONSTANTS
    Max = 2
    Chars = {c1}
    NoChar = NoChar
    Servers = {"A", "R"}
    Keeper = "A"
    MaxEras = 3
    MaxSerial = 2
INVARIANTS
    RollInv

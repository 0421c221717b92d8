CONSTANTS
    t1 = t1  t2 = t2  t3 = t3  s1 = s1  s2 = s2
    Tiles = {t1, t2, t3}
    Spots = {s1, s2}
    Home <- Homes
    Nowhere = nowhere
    MaxChars = 3
    ActTicks = 1
    DieTicks = 2
    RespawnTicks = 2
    RetryTicks = 1
SPECIFICATION Spec
INVARIANTS WorldInv Population  TurnsInv
PROPERTIES OnTime
VIEW Seen

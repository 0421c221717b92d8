\* Two clans; the hour of notice is over when the clock has moved, the day
\* when it has moved twice.
SPECIFICATION LiveSpec
CONSTANTS
    Max = 2
    Hour = 0
    Day = 1
    Border = 3
INVARIANTS
    ClanInv
PROPERTIES
    Notice WishGranted

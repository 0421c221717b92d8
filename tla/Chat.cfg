\* Two servers, three connections one after the other, a hub whose buffers hold
\* a packet and a half.
SPECIFICATION LiveSpec
CONSTANTS
    A = A
    B = B
    m1 = m1
    m2 = m2
    junk = junk
    Servers = {A, B}
    Messages = {m1, m2}
    PacketLen = 2
    HubBuffer = 3
    MaxConns = 3
    MaxTrouble = 1
    Junk = junk
\* Connections and messages are bounded: the system may stop.
CHECK_DEADLOCK FALSE
INVARIANTS ChatInv
PROPERTIES IsBus MessageHeard

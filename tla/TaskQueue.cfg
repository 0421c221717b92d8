SPECIFICATION LiveSpec
CONSTANTS
    t1 = t1
    A = A
    B = B
    Servers = {A, B}
    Tasks = {t1}
    Troubles = {"error", "reconnect", "crash"}
    MaxTrouble = 2
    MaxLogins = 2
    MaxQueue = 2
    NoServer = NoServer
INVARIANTS TypeOK TaskOnce TaskKept
PROPERTIES NoTaskUndone TaskDone

---------------------------- MODULE CharSession ----------------------------
(***************************************************************************)
(* The life of a player character across the area servers.                 *)
(*                                                                         *)
(* Every area server keeps the characters that play on it in its own       *)
(* memory and all servers share one database.  A row of the table chars    *)
(* says which server a character is on (current_area, current_mirror);     *)
(* 0/0 means it is nowhere.  The rule the system lives by is that a        *)
(* character is in the memory of at most one server, the one its row       *)
(* names, and that what is written back to the row is never older than     *)
(* what is there.                                                          *)
(*                                                                         *)
(* Each server has two threads.  The main thread runs the game loop; it    *)
(* never talks to the database but appends queries to a FIFO queue         *)
(* (add_query).  The database thread executes the queue.  The two share    *)
(* the structure login, through which at most one login is in progress.    *)
(* An action below is one step of one thread: a handler of the main        *)
(* thread runs under lock_server, a query of the database thread is one    *)
(* SQL statement or runs under LOCK TABLES.                                *)
(***************************************************************************)
EXTENDS Naturals, Sequences, FiniteSets

CONSTANTS
    Chars,          \* player characters: rows of the table chars
    Servers,        \* area server processes, one per pair of area and mirror
    AreaOf,         \* areaID of a server
    MirrorOf,       \* areaM of a server
    Mirrors,        \* mirror numbers a character may prefer
    Slots,          \* entries of the array ch[] of a server
    Account,        \* sID: the subscriber a character belongs to
    TestAccount,    \* sID 1, which may have several characters online
    LoginReserve,   \* free entries of ch[] a login needs (16 in read_login)
    MaxVer,         \* bound: how often a character's data may change
    MaxBackup,      \* bound: no backup while this many queries wait
    MaxPeriodic,    \* bound: no periodic query while this many wait
    ItemsCanRunOut, \* may alloc_item fail while a character is being built?
    NpcSlots,       \* bound: the entries other characters than players use
    Fragile,        \* bound: the servers that crash or fall silent
    Stopping,       \* bound: the servers that are told to quit
    NoChar, NoServer, NoSlot

Areas == {AreaOf[s] : s \in Servers} \cup {1, 3}

ASSUME ServersAssumption ==
    /\ AreaOf \in [Servers -> Nat]
    /\ MirrorOf \in [Servers -> Mirrors]
    /\ Mirrors \subseteq Nat \ {0}

ASSUME CharsAssumption == NoChar \notin Chars

ASSUME SentinelAssumption == NoServer \notin Servers /\ NoSlot \notin Slots

ASSUME BoundsAssumption ==
    /\ MaxVer \in Nat \ {0}
    /\ MaxBackup \in Nat /\ MaxPeriodic \in Nat
    /\ LoginReserve \in Nat
    /\ ItemsCanRunOut \in BOOLEAN

VARIABLES
    row,      \* table chars: owner, allowed_area, preferred mirror, data
    alive,    \* table area: is alive_time younger than five minutes?
    up,       \* phase of the server process
    queue,    \* query list of a server, oldest first
    login,    \* the structure login of a server
    chr,      \* the array ch[] of a server
    view,     \* area[][].status: what a server last read from the table area
    client,   \* characters some player in state ST_CONNECT asks a server for
    robbed    \* history: characters a rescue took from a running server

vars == <<row, alive, up, queue, login, chr, view, client, robbed>>

-----------------------------------------------------------------------------
(* Data.  The data of a character (stats, items, persistent player data)   *)
(* is represented by a version that grows with every change in the game;   *)
(* version 0 is a character whose items were only partly loaded.           *)

HalfBuilt == 0
Versions == 0..MaxVer

Ops == {"backup", "logout", "release", "load", "rescue",
        "alive", "dead", "arealist"}

Queries ==
    {q \in [op : Ops, c : Chars \cup {NoChar}, ver : Versions,
            mirror : Mirrors \cup {0}, area : Areas \cup {0}] :
        /\ q.op \in {"backup", "logout", "load", "rescue"} => q.c \in Chars
        /\ q.op \in {"backup", "logout"} => q.mirror \in Mirrors
        /\ q.op = "logout" => q.area \in Areas}

Query(op, c) == [op |-> op, c |-> c, ver |-> 0, mirror |-> 0, area |-> 0]

(* Mutant: a logout that does not say which area to come back to.          *)
SaveCharNoArea(copy, area) ==
    [op |-> IF area = 0 THEN "backup" ELSE "logout",
     c |-> copy.id, ver |-> copy.ver, mirror |-> copy.mirror, area |-> 0]

(* save_char: a backup when area is 0, a logout to that area otherwise.    *)
SaveChar(copy, area) ==
    [op |-> IF area = 0 THEN "backup" ELSE "logout",
     c |-> copy.id, ver |-> copy.ver, mirror |-> copy.mirror, area |-> area]

(* An entry of ch[].  free_char clears only the flags, so a free entry     *)
(* still carries the ID of its last user.  link tells who drives the       *)
(* character: a player, the driver CDR_LOSTCON, or nobody.                 *)
Copies ==
    {copy \in [used : BOOLEAN, id : Chars \cup {NoChar}, ver : Versions,
               mirror : Mirrors \cup {0}, link : {"none", "player", "lostcon"}] :
        copy.used /\ copy.id \in Chars => copy.mirror \in Mirrors}

Free(id) == [used |-> FALSE, id |-> id, ver |-> 0, mirror |-> 0, link |-> "none"]
Npc == [used |-> TRUE, id |-> NoChar, ver |-> 0, mirror |-> 0, link |-> "none"]
Player(c, v, m) ==
    [used |-> TRUE, id |-> c, ver |-> v, mirror |-> m, link |-> "none"]

Holds(s, k, c) == chr[s][k].used /\ chr[s][k].id = c
Online(s, c) == \E k \in Slots : Holds(s, k, c)

(* The structure login.  "refused" stands for the ten statuses LS_FAILED   *)
(* to LS_TOOMANY that find_login answers with a negative number; stale is  *)
(* ticker > login.age + 2; to is the pair new_area, mirror of LS_NEWAREA,  *)
(* NoServer when it names no server (area -1 or mirror 0).                 *)
Answers == {"ok", "newarea", "refused"}

Logins ==
    {l \in [status : {"empty", "read", "create"} \cup Answers,
            id : Chars \cup {NoChar}, current : BOOLEAN, ver : Versions,
            mirror : Mirrors \cup {0}, cn : Slots \cup {NoSlot},
            didusurp : BOOLEAN, stale : BOOLEAN, to : Servers \cup {NoServer}] :
        /\ l.status \in {"read", "create"} => l.id \in Chars
        /\ l.status = "create" => l.mirror \in Mirrors
        /\ l.status = "ok" => l.cn \in Slots}

EmptyLogin == [status |-> "empty", id |-> NoChar, current |-> FALSE, ver |-> 0,
               mirror |-> 0, cn |-> NoSlot, didusurp |-> FALSE,
               stale |-> FALSE, to |-> NoServer]

Answer(s, status) == [EmptyLogin EXCEPT !.status = status, !.id = login[s].id]

LoginOk(s, k, didusurp) ==
    [Answer(s, "ok") EXCEPT !.cn = k, !.didusurp = didusurp]

(* get_mirror: of the servers of an area a status list calls alive, the    *)
(* one with the highest mirror up to the wanted one, else the one with the *)
(* lowest mirror above it.  Empty when no server of the area is alive.     *)
BestMirror(status, area, mirror) ==
    LET here  == {t \in Servers : AreaOf[t] = area /\ status[t]}
        below == {t \in here : MirrorOf[t] <= mirror}
    IN  IF below # {}
        THEN {t \in below : \A u \in below : MirrorOf[u] <= MirrorOf[t]}
        ELSE {t \in here : \A u \in here : MirrorOf[t] <= MirrorOf[u]}

OrNone(S) == IF S = {} THEN {NoServer} ELSE S

TypeOK ==
    /\ row \in [Chars -> [cur : Servers \cup {NoServer}, allowed : Areas,
                          mirror : Mirrors, ver : Versions]]
    /\ alive \in [Servers -> BOOLEAN]
    /\ up \in [Servers -> {"down", "up", "leaving", "closing"}]
    /\ queue \in [Servers -> Seq(Queries)]
    /\ login \in [Servers -> Logins]
    /\ chr \in [Servers -> [Slots -> Copies]]
    /\ view \in [Servers -> [Servers -> BOOLEAN]]
    /\ client \in [Servers -> SUBSET Chars]
    /\ robbed \subseteq Chars

Init ==
    /\ row \in [Chars -> {[cur |-> NoServer, allowed |-> 1, mirror |-> m, ver |-> 1]
                           : m \in Mirrors}]
    /\ alive = [s \in Servers |-> FALSE]
    /\ up = [s \in Servers |-> "down"]
    /\ queue = [s \in Servers |-> <<>>]
    /\ login = [s \in Servers |-> EmptyLogin]
    /\ chr = [s \in Servers |-> [k \in Slots |-> Free(NoChar)]]
    /\ view = [s \in Servers |-> [t \in Servers |-> FALSE]]
    /\ client = [s \in Servers |-> {}]
    /\ robbed = {}

-----------------------------------------------------------------------------
(* Helpers for the steps of the main thread of server s.                   *)

AddQuery(s, q) == queue' = [queue EXCEPT ![s] = Append(@, q)]
SetLogin(s, l) == login' = [login EXCEPT ![s] = l]
SetChr(s, k, copy) == chr' = [chr EXCEPT ![s][k] = copy]

DropClients(s, C) == client' = [client EXCEPT ![s] = @ \ C]

(* player_to_server: the client of c reconnects to server t.               *)
SendClient(s, t, c) ==
    client' = [u \in Servers |->
                 IF u = t /\ up[t] = "up" THEN client[u] \cup {c}
                 ELSE IF u = s THEN client[u] \ {c}
                 ELSE client[u]]

(* read_login refuses to go on when too few entries of ch[] are free.      *)
HasReserve(s) == Cardinality({k \in Slots : ~chr[s][k].used}) >= LoginReserve

-----------------------------------------------------------------------------
(* Clients.                                                                *)

(* A player connects to server s and asks for character c.                 *)
Connect(s, c) ==
    /\ up[s] = "up"
    /\ client' = [client EXCEPT ![s] = @ \cup {c}]
    /\ UNCHANGED <<row, alive, up, queue, login, chr, view, robbed>>

(* The player gives up, is idle too long, or the server is too full.       *)
Disconnect(s, c) ==
    /\ c \in client[s]
    /\ DropClients(s, {c})
    /\ UNCHANGED <<row, alive, up, queue, login, chr, view, robbed>>

(* Three ticks pass and nobody collects the answer in login.  Players in   *)
(* ST_CONNECT ask in every tick, so this needs the client to be gone.      *)
LoginAges(s) ==
    /\ up[s] = "up"
    /\ login[s].status \in Answers /\ ~login[s].stale
    /\ login[s].id \notin client[s]
    /\ SetLogin(s, [login[s] EXCEPT !.stale = TRUE])
    /\ UNCHANGED <<row, alive, up, queue, chr, view, client, robbed>>

(* find_login on an empty structure: start the login of c.                 *)
FindLoginStart(s, c) ==
    /\ up[s] = "up" /\ c \in client[s] /\ HasReserve(s)
    /\ login[s].status = "empty"
    /\ SetLogin(s, [EmptyLogin EXCEPT !.status = "read", !.id = c])
    /\ AddQuery(s, Query("load", c))
    /\ UNCHANGED <<row, alive, up, chr, view, client, robbed>>

(* Mutant: the row is released but the character is not destroyed.         *)
FindLoginStaleKeep(s, c) ==
    LET k    == login[s].cn
        undo == login[s].status = "ok" /\ ~login[s].didusurp
    IN
    /\ up[s] = "up" /\ c \in client[s] /\ HasReserve(s)
    /\ login[s].status \in Answers /\ login[s].stale
    /\ queue' = [queue EXCEPT ![s] =
                   IF undo THEN Append(Append(@, Query("release", chr[s][k].id)),
                                       Query("load", c))
                   ELSE Append(@, Query("load", c))]
    /\ SetLogin(s, [EmptyLogin EXCEPT !.status = "read", !.id = c])
    /\ UNCHANGED <<row, alive, up, chr, view, client, robbed>>

(* find_login on a stale answer.  A character nobody collected is released *)
(* and destroyed (without saving), an usurped one gets the lost-connection *)
(* driver back.  Both happen to whatever is in entry login.cn by now.      *)
FindLoginStale(s, c) ==
    LET k    == login[s].cn
        left == chr[s][k]
        undo == login[s].status = "ok" /\ ~login[s].didusurp
        back == login[s].status = "ok" /\ login[s].didusurp /\ left.used
    IN
    /\ up[s] = "up" /\ c \in client[s] /\ HasReserve(s)
    /\ login[s].status \in Answers /\ login[s].stale
    /\ chr' = [chr EXCEPT ![s] =
                 [j \in Slots |->
                    IF j = k /\ undo THEN Free(left.id)
                    ELSE IF j = k /\ back THEN [left EXCEPT !.link = "lostcon"]
                    ELSE chr[s][j]]]
    /\ queue' = [queue EXCEPT ![s] =
                   IF undo THEN Append(Append(@, Query("release", left.id)),
                                       Query("load", c))
                   ELSE Append(@, Query("load", c))]
    /\ SetLogin(s, [EmptyLogin EXCEPT !.status = "read", !.id = c])
    /\ UNCHANGED <<row, alive, up, view, client, robbed>>

(* What all three ways to collect an answer have in common.                *)
Collect(s, c) ==
    /\ up[s] = "up" /\ c \in client[s] /\ HasReserve(s)
    /\ login[s].id = c /\ ~login[s].stale
    /\ SetLogin(s, EmptyLogin)

CollectRefusal(s, c) ==
    /\ Collect(s, c) /\ login[s].status = "refused"
    /\ DropClients(s, {c})
    /\ UNCHANGED <<row, alive, up, queue, chr, view, robbed>>

(* LS_NEWAREA: the mirror is looked up again.  When there is no server to  *)
(* go to, a rescue of the character is queued.                             *)
CollectRedirect(s, c) ==
    LET to == login[s].to
        best == IF to = NoServer THEN {}
                ELSE BestMirror(view[s], AreaOf[to], MirrorOf[to])
    IN
    /\ Collect(s, c) /\ login[s].status = "newarea"
    /\ \/ \E t \in best : SendClient(s, t, c) /\ UNCHANGED queue
       \/ best = {} /\ AddQuery(s, Query("rescue", c)) /\ DropClients(s, {c})
    /\ UNCHANGED <<row, alive, up, chr, view, robbed>>

(* LS_OK: the player takes over entry login.cn, whoever is in it now.      *)
CollectChar(s, c) ==
    LET k == login[s].cn IN
    /\ Collect(s, c) /\ login[s].status = "ok" /\ chr[s][k].used
    /\ SetChr(s, k, [chr[s][k] EXCEPT !.link = "player"])
    /\ DropClients(s, {c})
    /\ UNCHANGED <<row, alive, up, queue, view, robbed>>

(* LS_OK but the entry is free again: "kicked in the meantime, try again". *)
CollectNothing(s, c) ==
    /\ Collect(s, c) /\ login[s].status = "ok" /\ ~chr[s][login[s].cn].used
    /\ UNCHANGED <<row, alive, up, queue, chr, view, client, robbed>>

-----------------------------------------------------------------------------
(* tick_login: the main thread acts on a character the database has read.  *)

TickLogin(s) == up[s] = "up" /\ login[s].status = "create"

(* Mutant: the loop over ch[] does not compare the IDs.                    *)
UsurpAnyone(s, k) ==
    /\ TickLogin(s) /\ login[s].current
    /\ chr[s][k].used /\ chr[s][k].id # NoChar
    /\ SetChr(s, k, [chr[s][k] EXCEPT !.link = "none"])
    /\ SetLogin(s, LoginOk(s, k, TRUE))
    /\ UNCHANGED <<row, alive, up, queue, view, client, robbed>>

(* Mutant: the character in memory gets the data that was read, which was  *)
(* older.                                                                  *)
UsurpReload(s, k) ==
    /\ TickLogin(s) /\ login[s].current
    /\ Holds(s, k, login[s].id)
    /\ SetChr(s, k, Player(login[s].id, login[s].ver, login[s].mirror))
    /\ SetLogin(s, LoginOk(s, k, TRUE))
    /\ UNCHANGED <<row, alive, up, queue, view, client, robbed>>

(* The row said the character is already here: take it over.               *)
Usurp(s, k) ==
    /\ TickLogin(s) /\ login[s].current
    /\ Holds(s, k, login[s].id)
    /\ SetChr(s, k, [chr[s][k] EXCEPT !.link = "none"])
    /\ SetLogin(s, LoginOk(s, k, TRUE))
    /\ UNCHANGED <<row, alive, up, queue, view, client, robbed>>

(* Mutant: the login is left alone, to be looked at again in every tick.   *)
UsurpMissedForgotten(s) ==
    /\ TickLogin(s) /\ login[s].current
    /\ ~Online(s, login[s].id)
    /\ UNCHANGED vars

(* ... but it left since the row was read.                                 *)
UsurpMissed(s) ==
    /\ TickLogin(s) /\ login[s].current
    /\ ~Online(s, login[s].id)
    /\ SetLogin(s, Answer(s, "refused"))
    /\ UNCHANGED <<row, alive, up, queue, chr, view, client, robbed>>

(* Mutant: a character that is said to be here already is built again.     *)
CreateCharTwice(s, k) ==
    LET l == login[s] IN
    /\ TickLogin(s)
    /\ ~chr[s][k].used
    /\ SetChr(s, k, Player(l.id, l.ver, l.mirror))
    /\ SetLogin(s, LoginOk(s, k, FALSE))
    /\ UNCHANGED <<row, alive, up, queue, view, client, robbed>>

(* Build the character from the data read and put it on the map.           *)
CreateChar(s, k) ==
    LET l == login[s] IN
    /\ TickLogin(s) /\ ~l.current
    /\ ~chr[s][k].used
    /\ SetChr(s, k, Player(l.id, l.ver, l.mirror))
    /\ SetLogin(s, LoginOk(s, k, FALSE))
    /\ UNCHANGED <<row, alive, up, queue, view, client, robbed>>

(* alloc_char fails.  Nothing releases the row.                            *)
CreateNoSlot(s) ==
    /\ TickLogin(s) /\ ~login[s].current
    /\ \A k \in Slots : chr[s][k].used
    /\ SetLogin(s, Answer(s, "refused"))
    /\ UNCHANGED <<row, alive, up, queue, chr, view, client, robbed>>

(* alloc_item fails halfway.  The half-built character stays in ch[].      *)
CreateNoItem(s, k) ==
    LET l == login[s] IN
    /\ ItemsCanRunOut
    /\ TickLogin(s) /\ ~l.current
    /\ ~chr[s][k].used
    /\ SetChr(s, k, Player(l.id, HalfBuilt, l.mirror))
    /\ SetLogin(s, Answer(s, "refused"))
    /\ UNCHANGED <<row, alive, up, queue, view, client, robbed>>

(* No free tile on the map: destroy the character and release the row.     *)
CreateNoTile(s, k) ==
    LET l == login[s] IN
    /\ TickLogin(s) /\ ~l.current
    /\ ~chr[s][k].used
    /\ SetChr(s, k, Free(l.id))
    /\ AddQuery(s, Query("release", l.id))
    /\ SetLogin(s, Answer(s, "refused"))
    /\ UNCHANGED <<row, alive, up, view, client, robbed>>

-----------------------------------------------------------------------------
(* The game: steps of characters that are in memory.                       *)

(* The character gains or loses something.                                 *)
Progress(s, k) ==
    LET copy == chr[s][k] IN
    /\ up[s] = "up" /\ copy.used /\ copy.id # NoChar
    /\ copy.ver # HalfBuilt /\ copy.ver < MaxVer
    /\ SetChr(s, k, [copy EXCEPT !.ver = @ + 1])
    /\ UNCHANGED <<row, alive, up, queue, login, view, client, robbed>>

(* backup_players: a player's character is saved without leaving.          *)
Backup(s, k) ==
    LET copy == chr[s][k] IN
    /\ up[s] = "up" /\ copy.used /\ copy.id # NoChar /\ copy.link = "player"
    /\ Len(queue[s]) < MaxBackup
    /\ AddQuery(s, SaveChar(copy, 0))
    /\ UNCHANGED <<row, alive, up, login, chr, view, client, robbed>>

(* kick_player: the connection is lost, the character stays.               *)
LoseConnection(s, k) ==
    /\ up[s] = "up" /\ chr[s][k].used /\ chr[s][k].link = "player"
    /\ SetChr(s, k, [chr[s][k] EXCEPT !.link = "lostcon"])
    /\ UNCHANGED <<row, alive, up, queue, login, view, client, robbed>>

(* Mutant: the character is saved but stays.                               *)
KickCharKeep(s, k, area) ==
    /\ queue' = [queue EXCEPT ![s] =
                   IF chr[s][k].id = NoChar THEN @
                   ELSE Append(@, SaveChar(chr[s][k], area))]
    /\ UNCHANGED chr

(* kick_char: save with the area to come back to, then free the entry.     *)
(* save_char does nothing for a character without ID.                      *)
KickChar(s, k, area) ==
    /\ queue' = [queue EXCEPT ![s] =
                   IF chr[s][k].id = NoChar THEN @
                   ELSE Append(@, SaveChar(chr[s][k], area))]
    /\ SetChr(s, k, Free(chr[s][k].id))

(* Mutant: the driver starts its time again instead of leaving.            *)
LostconExitNever(s, k) ==
    /\ up[s] = "up" /\ chr[s][k].used /\ chr[s][k].link = "lostcon"
    /\ UNCHANGED vars

(* lostcon_driver: nobody came back in time.                               *)
LostconExit(s, k) ==
    /\ up[s] = "up" /\ chr[s][k].used /\ chr[s][k].link = "lostcon"
    /\ \E area \in Areas : KickChar(s, k, area)
    /\ UNCHANGED <<row, alive, up, login, view, client, robbed>>

(* Every other way out: logout, idling, a kick, death without a player,    *)
(* payment, an illegal position.                                           *)
ExitChar(s, k) ==
    /\ up[s] = "up" /\ chr[s][k].used /\ chr[s][k].id # NoChar
    /\ \E area \in Areas : KickChar(s, k, area)
    /\ UNCHANGED <<row, alive, up, login, view, client, robbed>>

(* change_area to the mirror m of an area; the commands goto and jump set  *)
(* the preferred mirror first.  When the area is down the character stays. *)
ChangeArea(s, k, area, m) ==
    LET copy == [chr[s][k] EXCEPT !.mirror = m]
        best == BestMirror(view[s], area, m)
    IN
    /\ up[s] = "up" /\ chr[s][k].used /\ chr[s][k].id # NoChar
    /\ \/ \E t \in best :
             /\ AddQuery(s, SaveChar(copy, area))
             /\ SetChr(s, k, Free(copy.id))
             /\ IF copy.link = "player" THEN SendClient(s, t, copy.id)
                                        ELSE UNCHANGED client
       \/ /\ best = {} /\ SetChr(s, k, copy)
          /\ UNCHANGED <<queue, client>>
    /\ UNCHANGED <<row, alive, up, login, view, robbed>>

(* Characters that are no players come (respawn) and go (death).           *)
SpawnNpc(s, k) ==
    /\ up[s] = "up" /\ ~chr[s][k].used /\ k \in NpcSlots
    /\ SetChr(s, k, Npc)
    /\ UNCHANGED <<row, alive, up, queue, login, view, client, robbed>>

RemoveNpc(s, k) ==
    /\ up[s] = "up" /\ Holds(s, k, NoChar)
    /\ SetChr(s, k, Free(NoChar))
    /\ UNCHANGED <<row, alive, up, queue, login, view, client, robbed>>

(* area_alive(0) and call_area_load, which the game loop calls again and   *)
(* again; the calls that would change nothing are left out.                *)
Periodic(s) ==
    /\ up[s] = "up" /\ Len(queue[s]) < MaxPeriodic
    /\ \/ ~alive[s] /\ AddQuery(s, Query("alive", NoChar))
       \/ view[s] # alive /\ AddQuery(s, Query("arealist", NoChar))
    /\ UNCHANGED <<row, alive, up, login, chr, view, client, robbed>>

-----------------------------------------------------------------------------
(* The database thread of server s executes the query at the head of its   *)
(* queue.                                                                  *)

Running(s) == up[s] # "down"

NextQuery(s, ops) ==
    /\ Running(s) /\ queue[s] # <<>> /\ Head(queue[s]).op \in ops
    /\ queue' = [queue EXCEPT ![s] = Tail(@)]

SetRow(c, r) == row' = [row EXCEPT ![c] = r]

(* The UPDATE of save_char.  Its WHERE clause lets it pass only while the  *)
(* row still names this server.                                            *)
DbSave(s) ==
    LET q == Head(queue[s]) IN
    /\ NextQuery(s, {"backup", "logout"})
    /\ IF row[q.c].cur # s THEN UNCHANGED row
       ELSE IF q.op = "backup"
       THEN SetRow(q.c, [row[q.c] EXCEPT !.ver = q.ver, !.mirror = q.mirror])
       ELSE SetRow(q.c, [cur |-> NoServer, allowed |-> q.area,
                         mirror |-> q.mirror, ver |-> q.ver])
    /\ UNCHANGED <<alive, up, login, chr, view, client, robbed>>

(* The UPDATE of release_char: free the row, write no data.                *)
DbRelease(s) ==
    LET q == Head(queue[s]) IN
    /\ NextQuery(s, {"release"})
    /\ IF q.c \in Chars /\ row[q.c].cur = s
       THEN SetRow(q.c, [row[q.c] EXCEPT !.cur = NoServer])
       ELSE UNCHANGED row
    /\ UNCHANGED <<alive, up, login, chr, view, client, robbed>>

(* db_rescue_char: free the row and move the character to area 3, else 1,  *)
(* whoever holds it.                                                       *)
DbRescue(s) ==
    LET c  == Head(queue[s]).c
        to == {a \in {1, 3} : BestMirror(view[s], a, row[c].mirror) # {}}
        a  == IF 3 \in to THEN 3 ELSE 1
    IN
    /\ NextQuery(s, {"rescue"})
    /\ IF to = {} THEN UNCHANGED <<row, robbed>>
       ELSE /\ SetRow(c, [row[c] EXCEPT !.cur = NoServer, !.allowed = a])
            /\ robbed' = IF row[c].cur \in Servers /\ Running(row[c].cur)
                         THEN robbed \cup {c} ELSE robbed
    /\ UNCHANGED <<alive, up, login, chr, view, client>>

(* area_alive and update_arealist.                                         *)
DbArea(s) ==
    LET op == Head(queue[s]).op IN
    /\ NextQuery(s, {"alive", "dead", "arealist"})
    /\ alive' = IF op = "arealist" THEN alive
                ELSE [alive EXCEPT ![s] = (op = "alive")]
    /\ view' = IF op = "arealist" THEN [view EXCEPT ![s] = alive] ELSE view
    /\ UNCHANGED <<row, up, login, chr, client, robbed>>

(* load_char, up to the checks it may fail.                                *)
DbLoad(s, c) ==
    /\ NextQuery(s, {"load"}) /\ c = Head(queue[s]).c
    /\ login[s].status = "read"

(* Mutant: nobody looks for other characters of the account.               *)
AnotherOnlineNever(c) == FALSE

(* load_char_dup: is another character of the same account online?         *)
AnotherOnline(c) ==
    /\ Account[c] # TestAccount
    /\ \E d \in Chars \ {c} : Account[d] = Account[c] /\ row[d].cur # NoServer

(* Wrong password, locked, banned, not paid, no logins: the outcome is the *)
(* environment's.  A duplicate login is always refused.                    *)
DbLoadRefused(s, c) ==
    /\ DbLoad(s, c)
    /\ SetLogin(s, Answer(s, "refused"))
    /\ UNCHANGED <<row, alive, up, chr, view, client, robbed>>

(* The row belongs to another area, or names another server.               *)
DbLoadElsewhere(s, c) ==
    LET r == row[c] IN
    /\ DbLoad(s, c) /\ ~AnotherOnline(c)
    /\ r.allowed # AreaOf[s] \/ r.cur \notin {NoServer, s}
    /\ \E to \in IF r.cur # NoServer
                 THEN IF view[s][r.cur] THEN {r.cur} ELSE {NoServer}
                 ELSE OrNone(BestMirror(view[s], r.allowed, r.mirror)) :
          SetLogin(s, [Answer(s, "newarea") EXCEPT !.to = to])
    /\ UNCHANGED <<row, alive, up, chr, view, client, robbed>>

(* The right area, but the preferred mirror is another one.                *)
DbLoadMirror(s, c) ==
    LET r == row[c] IN
    /\ DbLoad(s, c) /\ ~AnotherOnline(c)
    /\ r.allowed = AreaOf[s] /\ r.cur \in {NoServer, s}
    /\ \E to \in OrNone(BestMirror(view[s], AreaOf[s], r.mirror)) :
          /\ to # s
          /\ SetLogin(s, [Answer(s, "newarea") EXCEPT !.to = to])
    /\ UNCHANGED <<row, alive, up, chr, view, client, robbed>>

(* All checks passed: read the data and mark the row as online here.       *)
DbLoadHere(s, c) ==
    LET r == row[c] IN
    /\ DbLoad(s, c) /\ ~AnotherOnline(c)
    /\ r.allowed = AreaOf[s] /\ r.cur \in {NoServer, s}
    /\ s \in BestMirror(view[s], AreaOf[s], r.mirror)
    /\ SetRow(c, [r EXCEPT !.cur = s])
    /\ SetLogin(s, [Answer(s, "create") EXCEPT !.current = (r.cur = s),
                                               !.ver = r.ver, !.mirror = r.mirror])
    /\ UNCHANGED <<alive, up, chr, view, client, robbed>>

DbThread(s) ==
    \/ DbSave(s) \/ DbRelease(s) \/ DbRescue(s) \/ DbArea(s)
    \/ \E c \in Chars : \/ DbLoadRefused(s, c) \/ DbLoadElsewhere(s, c)
                        \/ DbLoadMirror(s, c) \/ DbLoadHere(s, c)

-----------------------------------------------------------------------------
(* Server processes.                                                       *)

(* init_database sweeps the rows this server left behind and reads the     *)
(* area list; the first round of the game loop queues the alive message    *)
(* and a new list before any client is served.                             *)
Start(s) ==
    /\ up[s] = "down"
    /\ up' = [up EXCEPT ![s] = "up"]
    /\ row' = [c \in Chars |-> IF row[c].cur = s
                               THEN [row[c] EXCEPT !.cur = NoServer] ELSE row[c]]
    /\ view' = [view EXCEPT ![s] = alive]
    /\ queue' = [queue EXCEPT ![s] = <<Query("alive", NoChar),
                                       Query("arealist", NoChar)>>]
    /\ UNCHANGED <<alive, login, chr, client, robbed>>

(* The main thread leaves the game loop ...                                *)
Quit(s) ==
    /\ up[s] = "up" /\ s \in Stopping
    /\ up' = [up EXCEPT ![s] = "leaving"]
    /\ client' = [client EXCEPT ![s] = {}]
    /\ UNCHANGED <<row, alive, queue, login, chr, view, robbed>>

(* Mutant: only characters without a player are logged out.                *)
QuitExitCharLostcon(s, k) ==
    /\ up[s] = "leaving" /\ chr[s][k].used /\ chr[s][k].id # NoChar
    /\ \/ /\ chr[s][k].link = "lostcon"
          /\ \E area \in Areas : KickChar(s, k, area)
          /\ UNCHANGED <<row, alive, up, login, view, client, robbed>>
       \/ chr[s][k].link # "lostcon" /\ UNCHANGED vars

(* ... logs out every player character, one after the other, while the     *)
(* database thread goes on ...                                             *)
QuitExitChar(s, k) ==
    /\ up[s] = "leaving" /\ chr[s][k].used /\ chr[s][k].id # NoChar
    /\ \E area \in Areas : KickChar(s, k, area)
    /\ UNCHANGED <<row, alive, up, login, view, client, robbed>>

(* ... declares the server dead, and waits for the queue to drain.         *)
QuitAlive(s) ==
    /\ up[s] = "leaving"
    /\ \A c \in Chars : ~Online(s, c)
    /\ up' = [up EXCEPT ![s] = "closing"]
    /\ AddQuery(s, Query("dead", NoChar))
    /\ UNCHANGED <<row, alive, login, chr, view, client, robbed>>

(* The process is gone, and with it all its memory.                        *)
Gone(s) ==
    /\ up' = [up EXCEPT ![s] = "down"]
    /\ queue' = [queue EXCEPT ![s] = <<>>]
    /\ login' = [login EXCEPT ![s] = EmptyLogin]
    /\ chr' = [chr EXCEPT ![s] = [k \in Slots |-> Free(NoChar)]]
    /\ client' = [client EXCEPT ![s] = {}]
    /\ UNCHANGED <<row, alive, view, robbed>>

Exit(s) == up[s] = "closing" /\ queue[s] = <<>> /\ Gone(s)

Crash(s) == Running(s) /\ s \in Fragile /\ Gone(s)

(* alive_time gets older than five minutes: the server is down, or its     *)
(* database thread is that far behind.                                     *)
AliveExpires(s) ==
    /\ alive[s] /\ s \in Fragile
    /\ alive' = [alive EXCEPT ![s] = FALSE]
    /\ UNCHANGED <<row, up, queue, login, chr, view, client, robbed>>

-----------------------------------------------------------------------------
Clients(s) ==
    \/ LoginAges(s)
    \/ \E c \in Chars :
          \/ Connect(s, c) \/ Disconnect(s, c)
          \/ FindLoginStart(s, c) \/ FindLoginStale(s, c)
          \/ CollectRefusal(s, c) \/ CollectRedirect(s, c)
          \/ CollectChar(s, c) \/ CollectNothing(s, c)

LoginTick(s) ==
    \/ UsurpMissed(s) \/ CreateNoSlot(s)
    \/ \E k \in Slots : \/ Usurp(s, k) \/ CreateChar(s, k)
                        \/ CreateNoItem(s, k) \/ CreateNoTile(s, k)

Game(s) ==
    \/ Periodic(s)
    \/ \E k \in Slots :
          \/ Progress(s, k) \/ Backup(s, k) \/ LoseConnection(s, k)
          \/ LostconExit(s, k) \/ ExitChar(s, k)
          \/ SpawnNpc(s, k) \/ RemoveNpc(s, k)
          \/ \E area \in Areas, m \in Mirrors : ChangeArea(s, k, area, m)

Process(s) ==
    \/ Start(s) \/ Quit(s) \/ QuitAlive(s) \/ Exit(s) \/ Crash(s)
    \/ AliveExpires(s)
    \/ \E k \in Slots : QuitExitChar(s, k)

Next == \E s \in Servers :
            Clients(s) \/ LoginTick(s) \/ Game(s) \/ DbThread(s) \/ Process(s)

Spec == Init /\ [][Next]_vars
-----------------------------------------------------------------------------
(* Safety.  A rescue decides that a server is down in one thread and acts  *)
(* in another, later one; a character it takes from a running server is    *)
(* robbed, and the promises below are made for all other characters.       *)

Honest == Chars \ robbed

(* A character is in the memory of at most one server, and there once      *)
(* (load_char's check of current_area, save_char's delayed release).       *)
SingleOwner ==
    \A c \in Honest : \A s, t \in Servers : \A k, l \in Slots :
        Holds(s, k, c) /\ Holds(t, l, c) => s = t /\ k = l

(* The row names the server whose memory holds the character, although     *)
(* every change of the row is queued and executed later.                   *)
RowNamesOwner ==
    \A c \in Honest : \A s \in Servers : Online(s, c) => row[c].cur = s

(* Memory is never behind the database: what a player goes on playing with *)
(* contains everything that was ever saved for the character.              *)
MemoryIsFresh ==
    \A c \in Honest : \A s \in Servers : \A k \in Slots :
        Holds(s, k, c) => chr[s][k].ver >= row[c].ver

(* No write replaces the data in a row by older data, however long it was  *)
(* delayed in a queue ("to avoid overwriting more current data").          *)
NoLostUpdate == [][\A c \in Chars \ robbed' : row'[c].ver >= row[c].ver]_vars

(* Two characters of one account are never in the game at the same time,   *)
(* on whatever servers (load_char_dup looks only at the rows).             *)
OneCharPerAccount ==
    \A c, d \in Honest : \A s, t \in Servers :
        /\ c # d /\ Account[c] = Account[d] /\ Account[c] # TestAccount
        /\ Online(s, c)
        => ~Online(t, d)

(* The answer a client collects may be gone by then, or an NPC's entry,    *)
(* but it is never the entry of somebody else's character.                 *)
AnswerIsOwn ==
    \A s \in Servers :
        LET l == login[s] IN
        l.status = "ok" /\ chr[s][l.cn].used
        => chr[s][l.cn].id \in {l.id, NoChar}

-----------------------------------------------------------------------------
(* The inductive invariant behind SingleOwner and RowNamesOwner.  What     *)
(* makes them work is the order of the queries in the queues: all that a   *)
(* server still has to write for a character comes before the query that   *)
(* frees the row, and a login comes after it.                              *)

IsSave(q, c) == q.op \in {"backup", "logout"} /\ q.c = c
IsEnd(q, c) == q.op \in {"logout", "release"} /\ q.c = c

HasSave(qu, c) == \E i \in DOMAIN qu : IsSave(qu[i], c)
HasEnd(qu, c) == \E i \in DOMAIN qu : IsEnd(qu[i], c)

(* Nothing is saved after the row was freed.                               *)
SavesFirst(qu, c) ==
    \A i, j \in DOMAIN qu : i < j /\ IsEnd(qu[i], c) => ~IsSave(qu[j], c)

(* While a login waits, no second one and no release is queued.            *)
LoadLast(qu) ==
    \A i, j \in DOMAIN qu :
        i < j /\ qu[i].op = "load" => qu[j].op \notin {"load", "release"}

LoginInv(s) ==
    /\ LoadLast(queue[s])
    /\ \A i \in DOMAIN queue[s] :
          queue[s][i].op = "load"
          => login[s].status = "read" /\ queue[s][i].c = login[s].id

DownInv(s) ==
    up[s] = "down" => /\ queue[s] = <<>> /\ login[s] = EmptyLogin
                      /\ \A k \in Slots : ~chr[s][k].used

(* What holds of a character c that was not robbed, at each server s.      *)
OwnInv(s, c) ==
    /\ Online(s, c) => row[c].cur = s /\ ~HasEnd(queue[s], c)
    /\ HasSave(queue[s], c) => row[c].cur = s
    /\ SavesFirst(queue[s], c)
    /\ \A k, l \in Slots : Holds(s, k, c) /\ Holds(s, l, c) => k = l
    /\ login[s].status = "create" /\ login[s].id = c /\ ~login[s].current
       => /\ row[c].cur = s /\ ~Online(s, c)
          /\ ~HasSave(queue[s], c) /\ ~HasEnd(queue[s], c)
    /\ \A k \in Slots :
          /\ login[s].status = "ok" /\ Holds(s, k, c)
          /\ chr[s][login[s].cn].id = c
          => k = login[s].cn

ServerInv(s) == /\ LoginInv(s) /\ DownInv(s)
                /\ \A c \in Honest : OwnInv(s, c)

OwnershipInv == \A s \in Servers : ServerInv(s)

-----------------------------------------------------------------------------
(* Liveness.  The game loop runs in every tick and the database thread     *)
(* works as long as its queue is not empty; players and operators owe the  *)
(* system nothing.                                                         *)
Fairness ==
    \A s \in Servers :
        /\ WF_vars(DbThread(s))
        /\ WF_vars(LoginTick(s))
        /\ WF_vars(LoginAges(s))
        /\ \A c \in Chars : /\ WF_vars(FindLoginStart(s, c))
                             /\ WF_vars(FindLoginStale(s, c))
                             /\ WF_vars(CollectRefusal(s, c))
                             /\ WF_vars(CollectRedirect(s, c))
                             /\ WF_vars(CollectChar(s, c))
                             /\ WF_vars(CollectNothing(s, c))
        /\ \A k \in Slots : /\ WF_vars(LostconExit(s, k))
                             /\ WF_vars(QuitExitChar(s, k))
        /\ WF_vars(QuitAlive(s))
        /\ WF_vars(Exit(s))

LiveSpec == Spec /\ Fairness

(* A login that was started gets an answer, whatever the database says.    *)
LoginAnswered ==
    \A s \in Servers :
        login[s].status \in {"read", "create"}
        ~> login[s].status \in Answers \cup {"empty"}

(* A character that lost its connection is taken over or leaves: it does   *)
(* not stand in the game for ever.                                         *)
LostconLeaves ==
    \A s \in Servers : \A k \in Slots :
        chr[s][k].link = "lostcon" ~> chr[s][k].link # "lostcon"

(* A server told to quit logs out everybody and terminates.                *)
QuitTerminates ==
    \A s \in Servers : up[s] \in {"leaving", "closing"} ~> up[s] = "down"

-----------------------------------------------------------------------------
(* A statement of a comment in the code that the code does not keep.       *)

(* "To avoid overwriting more current data, any routine wishing to save    *)
(* character data must use a where current_area=areaID" (head of           *)
(* database.c): data in a row is never replaced by older data.             *)
NeverOverwriteMoreCurrent == [][\A c \in Chars : row'[c].ver >= row[c].ver]_vars
=============================================================================

------------------------------ MODULE Storage ------------------------------
(***************************************************************************)
(* Blobs that outlive a server: the clan table, the lists of the arena,    *)
(* the points of the military masters.  The table storage keeps a blob     *)
(* with a version; an UPDATE names the version it replaces.                *)
(*                                                                         *)
(* The main thread of a server asks through three structures, cs for       *)
(* creating, us for updating and rs for reading, each with room for one    *)
(* request; all users of the storage on a server share them.  The database *)
(* thread executes the request and leaves the answer in the structure,     *)
(* where the user that asked polls for it.                                 *)
(*                                                                         *)
(* There are two kinds of users.  tick_clan of every server reads the clan *)
(* table again and again; only servers of area 3 change and write it.  A   *)
(* keeper is a character of the arena or the military that creates, reads  *)
(* and then keeps writing a blob.                                          *)
(***************************************************************************)
EXTENDS Naturals, Sequences

CONSTANTS
    Servers,    \* area server processes
    Clans,      \* tick_clan of each server
    Keepers,    \* characters that keep a blob
    Home,       \* the server of a user
    Writers,    \* the users in Clans whose areaID is 3
    Blobs,
    Blob,       \* storage ID of a user
    Changes,    \* things that happen to clans and fighters, each at most once
    MaxVer,     \* bound: versions of a blob
    Crashing,   \* bound: the servers that crash
    SqlFails    \* may statements fail, or be sent twice?

Users == Clans \cup Keepers

Data == [Changes -> Nat]
NoData == [x \in Changes |-> 0]

ASSUME UsersAssumption ==
    /\ Clans \cap Keepers = {}
    /\ Writers \subseteq Clans
    /\ Home \in [Users -> Servers]
    /\ Blob \in [Users -> Blobs]
    /\ \A c, d \in Clans : Blob[c] = Blob[d]
    /\ \A c \in Clans, k \in Keepers : Blob[c] # Blob[k]
    /\ \A c, d \in Clans : Home[c] = Home[d] => c = d

ASSUME StorageBounds ==
    /\ MaxVer \in Nat /\ SqlFails \in BOOLEAN
    /\ Crashing \subseteq Servers

VARIABLES
    table,    \* table storage: version (0: no such row) and content
    up,       \* is the server process running?
    queue,    \* the storage queries in the queue of a server
    slot,     \* cs, us and rs of a server
    step,     \* update_state of tick_clan, storage_state of a keeper
    ver,      \* the version a user believes its data has
    data,     \* its data in memory
    dirty,    \* clan_changed
    unsent,   \* bound: changes that have not happened yet
    news,     \* chat messages on the way to each server
    calm      \* history: no request has failed and no server crashed so far

storageVars == <<table, up, queue, slot, step, ver, data, dirty, unsent, news, calm>>
memory == <<step, ver, data, dirty>>
-----------------------------------------------------------------------------
Kinds == {"create", "update", "read"}

NoUser == "none"

(* One of the structures cs, us, rs.  content and desc are pointers into   *)
(* the memory of the user; found is the answer of a read, new is FALSE     *)
(* when the version had not changed and no content was fetched.            *)
Empty == [state |-> "empty", user |-> NoUser, ver |-> 0, found |-> NoData, new |-> FALSE]

Request(c, v) == [Empty EXCEPT !.state = "asked", !.user = c, !.ver = v]

Slots == {r \in [state : {"empty", "asked", "done", "failed"},
                 user : Users \cup {NoUser}, ver : Nat, found : Data, new : BOOLEAN] :
            r.state # "empty" => r.user \in Users}

ClanSteps == {"read", "reading", "fresh", "work", "updating"}
KeeperSteps == {"create", "creating", "read", "reading", "idle", "save", "updating"}

StorageTypeOK ==
    /\ table \in [Blobs -> [ver : Nat, data : Data]]
    /\ up \in [Servers -> BOOLEAN]
    /\ queue \in [Servers -> Seq(Kinds)]
    /\ slot \in [Servers -> [Kinds -> Slots]]
    /\ step \in [Users -> ClanSteps \cup KeeperSteps]
    /\ ver \in [Users -> Nat]
    /\ data \in [Users -> Data]
    /\ dirty \in [Users -> BOOLEAN]
    /\ unsent \subseteq Changes
    /\ news \in [Clans -> SUBSET Changes]
    /\ calm \in BOOLEAN

FirstStep(c) == IF c \in Clans THEN "read" ELSE "create"

(* The clan table comes with the database, a keeper creates its blob.      *)
StorageInit ==
    /\ table \in [Blobs -> [ver : {0, 1}, data : {NoData}]]
    /\ \A c \in Clans : table[Blob[c]].ver = 1
    /\ up = [s \in Servers |-> TRUE]
    /\ queue = [s \in Servers |-> <<>>]
    /\ slot = [s \in Servers |-> [o \in Kinds |-> Empty]]
    /\ step = [c \in Users |-> FirstStep(c)]
    /\ ver = [c \in Users |-> 0]
    /\ data = [c \in Users |-> NoData]
    /\ dirty = [c \in Users |-> FALSE]
    /\ unsent = Changes
    /\ news = [c \in Clans |-> {}]
    /\ calm = TRUE
-----------------------------------------------------------------------------
(* create_storage, update_storage, read_storage: refused while the         *)
(* structure is in use, tried again in the next tick.                      *)
Ask(c, op, waiting) ==
    LET s == Home[c] IN
    /\ up[s] /\ slot[s][op].state = "empty"
    /\ slot' = [slot EXCEPT ![s][op] = Request(c, ver[c])]
    /\ queue' = [queue EXCEPT ![s] = Append(@, op)]
    /\ step' = [step EXCEPT ![c] = waiting]

(* check_create_storage and the like: take the answer out.                 *)
Answered(c, op, waiting, states) ==
    LET s == Home[c] IN
    /\ up[s] /\ step[c] = waiting /\ slot[s][op].state \in states
    /\ slot' = [slot EXCEPT ![s][op] = Empty]

CreateAsk(c) ==
    /\ c \in Keepers /\ step[c] = "create"
    /\ Ask(c, "create", "creating")
    /\ UNCHANGED <<table, up, ver, data, dirty, unsent, news, calm>>

(* Mutant: what has just been created need not be read.                    *)
CreateAnswerNoRead(c) ==
    /\ Answered(c, "create", "creating", {"done", "failed"})
    /\ step' = [step EXCEPT ![c] =
                  IF slot[Home[c]]["create"].state = "done" THEN "idle" ELSE "read"]
    /\ UNCHANGED <<table, up, queue, ver, data, dirty, unsent, news, calm>>

(* A blob that exists already is as good as one just created.              *)
CreateAnswer(c) ==
    /\ Answered(c, "create", "creating", {"done", "failed"})
    /\ step' = [step EXCEPT ![c] = "read"]
    /\ UNCHANGED <<table, up, queue, ver, data, dirty, unsent, news, calm>>

ReadAsk(c) ==
    /\ step[c] = "read"
    /\ Ask(c, "read", "reading")
    /\ UNCHANGED <<table, up, ver, data, dirty, unsent, news, calm>>

(* The memory gets the content unless it had that version already.  What   *)
(* was changed since the last write is gone.                               *)
ReadAnswer(c) ==
    LET r == slot[Home[c]]["read"] IN
    /\ Answered(c, "read", "reading", {"done", "failed"})
    /\ step' = [step EXCEPT ![c] = IF c \in Clans THEN "fresh" ELSE "idle"]
    /\ ver' = IF r.state = "done" THEN [ver EXCEPT ![c] = r.ver] ELSE ver
    /\ data' = IF r.state = "done" /\ r.new THEN [data EXCEPT ![c] = r.found] ELSE data
    /\ UNCHANGED <<table, up, queue, dirty, unsent, news, calm>>

(* tick_clan outside area 3 waits ten seconds and reads again, in area 3   *)
(* it goes on to work.                                                     *)
AfterRead(c) ==
    /\ up[Home[c]] /\ step[c] = "fresh"
    /\ step' = [step EXCEPT ![c] = IF c \in Writers THEN "work" ELSE "read"]
    /\ UNCHANGED <<table, up, queue, slot, ver, data, dirty, unsent, news, calm>>

UpdateAsk(c) ==
    /\ \/ c \in Clans /\ step[c] = "work" /\ dirty[c]
       \/ c \in Keepers /\ step[c] = "save"
    /\ ver[c] < MaxVer
    /\ Ask(c, "update", "updating")
    /\ UNCHANGED <<table, up, ver, data, dirty, unsent, news, calm>>

(* Mutant: the new version is read back instead of counted up.             *)
ClanUpdatedReadBack(c) ==
    /\ c \in Clans /\ Answered(c, "update", "updating", {"done"})
    /\ step' = [step EXCEPT ![c] = "read"]
    /\ dirty' = [dirty EXCEPT ![c] = FALSE]
    /\ UNCHANGED <<table, up, queue, ver, data, unsent, news, calm>>

(* tick_clan: the write went through.                                      *)
ClanUpdated(c) ==
    /\ c \in Clans /\ Answered(c, "update", "updating", {"done"})
    /\ step' = [step EXCEPT ![c] = "work"]
    /\ ver' = [ver EXCEPT ![c] = @ + 1]
    /\ dirty' = [dirty EXCEPT ![c] = FALSE]
    /\ UNCHANGED <<table, up, queue, data, unsent, news, calm>>

(* ... or it did not: read the blob again.                                 *)
ClanUpdateFailed(c) ==
    /\ c \in Clans /\ Answered(c, "update", "updating", {"failed"})
    /\ step' = [step EXCEPT ![c] = "read"]
    /\ UNCHANGED <<table, up, queue, ver, data, dirty, unsent, news, calm>>

(* Mutant: a keeper waits for a write to go through.                       *)
KeeperUpdatedOnly(c) ==
    /\ c \in Keepers /\ Answered(c, "update", "updating", {"done"})
    /\ step' = [step EXCEPT ![c] = "idle"]
    /\ ver' = [ver EXCEPT ![c] = @ + 1]
    /\ UNCHANGED <<table, up, queue, data, dirty, unsent, news, calm>>

(* A keeper counts its version up, whatever the answer.                    *)
KeeperUpdated(c) ==
    /\ c \in Keepers /\ Answered(c, "update", "updating", {"done", "failed"})
    /\ step' = [step EXCEPT ![c] = "idle"]
    /\ ver' = [ver EXCEPT ![c] = @ + 1]
    /\ UNCHANGED <<table, up, queue, data, dirty, unsent, news, calm>>
-----------------------------------------------------------------------------
(* The game.                                                               *)

Happens(c, x) == data' = [data EXCEPT ![c][x] = @ + 1]

(* A clan master takes an order, the treasury pays, a fight ends: the data *)
(* changes in memory.                                                      *)
Change(c, x) ==
    /\ up[Home[c]] /\ x \in unsent
    /\ c \in Writers \cup Keepers
    /\ Happens(c, x)
    /\ dirty' = [dirty EXCEPT ![c] = c \in Clans]
    /\ unsent' = unsent \ {x}
    /\ UNCHANGED <<table, up, queue, slot, step, ver, news, calm>>

(* The keeper's time to save has come: a fight is over, or some minutes.   *)
SaveDue(c) ==
    /\ up[Home[c]] /\ c \in Keepers /\ step[c] = "idle"
    /\ step' = [step EXCEPT ![c] = "save"]
    /\ UNCHANGED <<table, up, queue, slot, ver, data, dirty, unsent, news, calm>>

(* A clan dungeon, in another area, tells by chat what happened.  Chat     *)
(* goes to all servers.                                                    *)
Raid(x) ==
    /\ x \in unsent
    /\ unsent' = unsent \ {x}
    /\ news' = [c \in Clans |-> IF up[Home[c]] THEN news[c] \cup {x} ELSE news[c]]
    /\ UNCHANGED <<table, up, queue, slot, step, ver, data, dirty, calm>>

(* Mutant: every server listens.                                           *)
DeliverAnywhere(c, x) ==
    /\ up[Home[c]] /\ x \in news[c]
    /\ news' = [news EXCEPT ![c] = @ \ {x}]
    /\ Happens(c, x)
    /\ dirty' = [dirty EXCEPT ![c] = TRUE]
    /\ UNCHANGED <<table, up, queue, slot, step, ver, unsent, calm>>

(* clan_dungeon_chat: only the servers of area 3 listen.                   *)
Deliver(c, x) ==
    /\ up[Home[c]] /\ x \in news[c]
    /\ news' = [news EXCEPT ![c] = @ \ {x}]
    /\ \/ c \in Writers /\ Happens(c, x) /\ dirty' = [dirty EXCEPT ![c] = TRUE]
       \/ c \notin Writers /\ UNCHANGED <<data, dirty>>
    /\ UNCHANGED <<table, up, queue, slot, step, ver, unsent, calm>>
-----------------------------------------------------------------------------
(* The database thread of server s.                                        *)

NextQuery(s, op) ==
    /\ up[s] /\ queue[s] # <<>> /\ Head(queue[s]) = op
    /\ queue' = [queue EXCEPT ![s] = Tail(@)]

SetSlot(s, op, state) == slot' = [slot EXCEPT ![s][op].state = state]

(* A statement may fail.  One that was executed may be sent again when the *)
(* connection breaks, and then finds nothing to do.                        *)
Reply(s, op) ==
    \/ SetSlot(s, op, "done") /\ UNCHANGED calm
    \/ SqlFails /\ SetSlot(s, op, "failed") /\ calm' = FALSE

DbCreate(s) ==
    LET r == slot[s]["create"]
        b == Blob[r.user]
    IN
    /\ NextQuery(s, "create") /\ r.state = "asked"
    /\ \/ /\ table[b].ver = 0
          /\ table' = [table EXCEPT ![b] = [ver |-> 1, data |-> data[r.user]]]
          /\ Reply(s, "create")
       \/ /\ table[b].ver # 0 \/ SqlFails
          /\ SetSlot(s, "create", "failed") /\ UNCHANGED table
          /\ calm' = (calm /\ table[b].ver # 0)
    /\ UNCHANGED <<up, memory, unsent, news>>

(* Mutant: UPDATE without "and version=".                                  *)
DbUpdateAnyVersion(s) ==
    LET r == slot[s]["update"]
        b == Blob[r.user]
    IN
    /\ NextQuery(s, "update") /\ r.state = "asked"
    /\ table' = [table EXCEPT ![b] = [ver |-> r.ver + 1, data |-> data[r.user]]]
    /\ Reply(s, "update")
    /\ UNCHANGED <<up, memory, unsent, news>>

(* UPDATE ... where ID= and version=.  The content is taken from the       *)
(* memory of the user at this moment.                                      *)
DbUpdate(s) ==
    LET r == slot[s]["update"]
        b == Blob[r.user]
        fits == table[b].ver = r.ver /\ table[b].ver # 0
    IN
    /\ NextQuery(s, "update") /\ r.state = "asked"
    /\ \/ /\ fits
          /\ table' = [table EXCEPT ![b] = [ver |-> r.ver + 1, data |-> data[r.user]]]
          /\ Reply(s, "update")
       \/ /\ ~fits \/ SqlFails
          /\ SetSlot(s, "update", "failed") /\ UNCHANGED table
          /\ calm' = FALSE
    /\ UNCHANGED <<up, memory, unsent, news>>

(* Mutant: the version is taken over, the content is not fetched.          *)
DbReadVersionOnly(s) ==
    LET r == slot[s]["read"]
        t == table[Blob[r.user]]
    IN
    /\ NextQuery(s, "read") /\ r.state = "asked"
    /\ slot' = [slot EXCEPT ![s]["read"] =
                  [r EXCEPT !.state = "done", !.ver = t.ver]]
    /\ UNCHANGED <<table, up, memory, unsent, news, calm>>

(* Mutant: any version will do.                                            *)
DbReadOnce(s) ==
    LET r == slot[s]["read"]
        t == table[Blob[r.user]]
    IN
    /\ NextQuery(s, "read") /\ r.state = "asked"
    /\ slot' = [slot EXCEPT ![s]["read"] =
                  IF r.ver # 0 THEN [r EXCEPT !.state = "done"]
                  ELSE [r EXCEPT !.state = "done", !.ver = t.ver,
                                 !.found = t.data, !.new = TRUE]]
    /\ UNCHANGED <<table, up, memory, unsent, news, calm>>

(* SELECT the version and, when it is another one than the user has, the   *)
(* content together with the version.                                      *)
DbRead(s) ==
    LET r == slot[s]["read"]
        t == table[Blob[r.user]]
    IN
    /\ NextQuery(s, "read") /\ r.state = "asked"
    /\ \/ /\ t.ver # 0
          /\ slot' = [slot EXCEPT ![s]["read"] =
                        IF t.ver = r.ver THEN [r EXCEPT !.state = "done"]
                        ELSE [r EXCEPT !.state = "done", !.ver = t.ver,
                                       !.found = t.data, !.new = TRUE]]
          /\ UNCHANGED calm
       \/ /\ t.ver = 0 \/ SqlFails
          /\ SetSlot(s, "read", "failed") /\ calm' = FALSE
    /\ UNCHANGED <<table, up, memory, unsent, news>>

(* The process dies; chat that did not reach it is lost for it.            *)
Crash(s) ==
    /\ up[s] /\ s \in Crashing
    /\ up' = [up EXCEPT ![s] = FALSE]
    /\ queue' = [queue EXCEPT ![s] = <<>>]
    /\ slot' = [slot EXCEPT ![s] = [o \in Kinds |-> Empty]]
    /\ step' = [c \in Users |-> IF Home[c] = s THEN FirstStep(c) ELSE step[c]]
    /\ ver' = [c \in Users |-> IF Home[c] = s THEN 0 ELSE ver[c]]
    /\ data' = [c \in Users |-> IF Home[c] = s THEN NoData ELSE data[c]]
    /\ dirty' = [c \in Users |-> IF Home[c] = s THEN FALSE ELSE dirty[c]]
    /\ news' = [c \in Clans |-> IF Home[c] = s THEN {} ELSE news[c]]
    /\ calm' = FALSE
    /\ UNCHANGED <<table, unsent>>

Start(s) ==
    /\ ~up[s]
    /\ up' = [up EXCEPT ![s] = TRUE]
    /\ UNCHANGED <<table, queue, slot, memory, unsent, news, calm>>
-----------------------------------------------------------------------------
UserStep(c) ==
    \/ CreateAsk(c) \/ CreateAnswer(c) \/ ReadAsk(c) \/ ReadAnswer(c)
    \/ AfterRead(c) \/ UpdateAsk(c)
    \/ ClanUpdated(c) \/ ClanUpdateFailed(c) \/ KeeperUpdated(c)

DbStep(s) == DbCreate(s) \/ DbUpdate(s) \/ DbRead(s)

World ==
    \/ \E x \in Changes : \/ Raid(x)
                          \/ \E c \in Users : Change(c, x)
                          \/ \E c \in Clans : Deliver(c, x)
    \/ \E c \in Users : SaveDue(c)
    \/ \E s \in Servers : Crash(s) \/ Start(s)

StorageNext ==
    \/ \E c \in Users : UserStep(c)
    \/ \E s \in Servers : DbStep(s)
    \/ World

StorageSpec == StorageInit /\ [][StorageNext]_storageVars

(* The main thread ticks every user of a running server again and again,   *)
(* and the database thread works on its queue.                             *)
StorageFairness ==
    /\ \A c \in Users : WF_storageVars(UserStep(c))
    /\ \A s \in Servers : WF_storageVars(DbStep(s))

StorageLiveSpec == StorageSpec /\ StorageFairness
-----------------------------------------------------------------------------
(* Correctness.                                                            *)

Waiting == [create |-> "creating", read |-> "reading", update |-> "updating"]

(* A structure in use belongs to the one user of that server who waits for *)
(* it, ...                                                                 *)
SlotsAgree == \A s \in Servers, o \in Kinds :
    LET r == slot[s][o] IN
    /\ r.state # "empty" => Home[r.user] = s /\ step[r.user] = Waiting[o]
    /\ \A c \in Users : Home[c] = s /\ step[c] = Waiting[o] =>
          r.state # "empty" /\ r.user = c

(* ... and a request stands in the queue exactly once until it is done.    *)
QueueAgrees == \A s \in Servers :
    /\ \A o \in Kinds :
          slot[s][o].state = "asked" <=> \E i \in DOMAIN queue[s] : queue[s][i] = o
    /\ \A i, j \in DOMAIN queue[s] : queue[s][i] = queue[s][j] => i = j

(* All users of a server poll the same three structures without saying who *)
(* they are, and still take only the answers to their own requests; no     *)
(* query finds its structure without a request ("got called, but no        *)
(* request waiting!").                                                     *)
AnswerToAsker == SlotsAgree /\ QueueAgrees

AtLeast(d, e) == \A x \in Changes : d[x] >= e[x]

(* What a server believes to be version v of the clan table is version v   *)
(* of the clan table, with the changes of a server of area 3 on top of it. *)
ClanSnapshot == \A c \in Clans :
    LET t == table[Blob[c]] IN
    /\ ver[c] <= t.ver
    /\ ver[c] = t.ver => AtLeast(data[c], t.data)
    /\ ver[c] = t.ver /\ c \notin Writers => data[c] = t.data

(* The users keep to their steps; a server outside area 3 only reads.      *)
StepsAgree == \A c \in Users :
    /\ c \in Clans => step[c] \in ClanSteps
    /\ c \in Clans \ Writers => step[c] \in {"read", "reading", "fresh"}
    /\ c \in Keepers => step[c] \in KeeperSteps

(* What the structures hold, compared with the user and the table.         *)
UpdateKnows(r) ==
    LET c == r.user
        t == table[Blob[c]]
    IN
    /\ r.ver = ver[c]
    /\ r.state = "done" => t.ver > r.ver
    /\ r.state = "done" /\ c \in Clans /\ t.ver = r.ver + 1 => AtLeast(data[c], t.data)

ReadKnows(r) ==
    LET c == r.user
        t == table[Blob[c]]
    IN
    /\ r.state = "asked" => ~r.new
    /\ ~r.new => r.ver = ver[c]
    /\ r.new /\ c \in Clans => r.ver <= t.ver
    /\ r.new /\ c \in Clans /\ r.ver = t.ver => r.found = t.data

SlotsKnow == \A s \in Servers :
    /\ slot[s]["update"].state # "empty" => UpdateKnows(slot[s]["update"])
    /\ slot[s]["read"].state # "empty" => ReadKnows(slot[s]["read"])

ClanTableExists == \A c \in Clans : table[Blob[c]].ver >= 1

(* The inductive invariant: what every server knows of the clan table, in  *)
(* its memory, in its requests and in the answers it has not taken yet, is *)
(* what the table was or is.                                               *)
StorageInv ==
    /\ StorageTypeOK /\ StepsAgree /\ SlotsAgree /\ QueueAgrees
    /\ SlotsKnow /\ ClanSnapshot /\ ClanTableExists

(* Whoever writes the clan table has seen what it replaces: nothing that   *)
(* was written once disappears, although several mirrors of area 3 write   *)
(* and writes are reported as failed that were done.                       *)
NoLostWrite == [][\A c \in Clans :
    AtLeast(table'[Blob[c]].data, table[Blob[c]].data)]_storageVars

(* What a dungeon reports by chat counts once, on the servers of area 3    *)
(* and on those that read the table (holds with one server of area 3).     *)
CountedOnce == \A c \in Clans, x \in Changes :
    data[c][x] <= 1 /\ table[Blob[c]].data[x] <= 1

(* A server of area 3 loses no change it has made to the clan table it     *)
(* read, as long as no statement fails or is refused, because the other    *)
(* mirror wrote, and no server stops.                                      *)
WriterKeeps == [][calm' => \A c \in Writers :
    ver[c] # 0 => AtLeast(data'[c], data[c])]_storageVars

(* A keeper that shares its blob with nobody and has read it knows the     *)
(* version in the table, unless a write is under way: its next write will  *)
(* fit.  After a statement that failed this may never be so again.         *)
KeeperInStep == calm => \A k \in Keepers :
    step[k] \in {"idle", "save"} => ver[k] = table[Blob[k]].ver

(* Whoever asked gets on, also when statements fail and servers crash.     *)
RequestAnswered == \A c \in Users, o \in Kinds :
    step[c] = Waiting[o] ~> step[c] # Waiting[o]

(* Every server comes to know every version of the clan table, or a later  *)
(* one, unless something goes wrong.                                       *)
ReaderCatchesUp == \A c \in Clans, v \in 1..MaxVer :
    table[Blob[c]].ver >= v ~> ver[c] >= v \/ ~calm

-----------------------------------------------------------------------------
(* The storage implements the register.                                    *)

CallOf(o, r) ==
    [state |-> r.state, op |-> o, ver |-> r.ver,
     content |-> IF r.new THEN {r.found} ELSE {}]

(* The call of a user is the request or answer it has in a structure.      *)
CallIn(structures, c) ==
    LET in == {o \in Kinds : structures[o].state # "empty" /\ structures[o].user = c}
    IN  IF in = {} THEN [state |-> "idle", op |-> "none", ver |-> 0, content |-> {}]
        ELSE LET o == CHOOSE o \in in : TRUE IN CallOf(o, structures[o])

Calls == [c \in Users |-> CallIn(slot[Home[c]], c)]

Reg == INSTANCE CasRegister WITH
    Clients <- Users, BlobOf <- Blob, Versions <- Nat,
    reg <- table, call <- Calls

(* What the storage promises its users, see CasRegister.                   *)
IsRegister == Reg!RegSpec
=============================================================================

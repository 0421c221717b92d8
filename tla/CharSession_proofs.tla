------------------------- MODULE CharSession_proofs -------------------------
(***************************************************************************)
(* Proofs about CharSession, for any number of servers, characters and     *)
(* entries: types; that a character no rescue took from a running server   *)
(* is in the memory of the one server its row names; that the answer a     *)
(* client collects is not somebody else's character; that two characters   *)
(* of an account are never in the game together; and that neither memory   *)
(* nor a delayed write is ever behind the row.                             *)
(***************************************************************************)
EXTENDS CharSession, TLAPS

-----------------------------------------------------------------------------
(* Types.                                                                  *)

(* What a get_mirror lookup returns are servers.                           *)
LEMMA BestMirrorServers ==
    ASSUME NEW status, NEW area, NEW mirror
    PROVE  BestMirror(status, area, mirror) \subseteq Servers
  BY DEF BestMirror

(* The query save_char appends is a query.                                 *)
LEMMA SaveCharType ==
    ASSUME NEW copy \in Copies, copy.used, copy.id \in Chars, NEW area \in Areas
    PROVE  SaveChar(copy, area) \in Queries /\ SaveChar(copy, 0) \in Queries
  BY DEF SaveChar, Copies, Queries, Ops

(* So is one without arguments.                                            *)
LEMMA QueryType ==
    /\ \A c \in Chars : \A op \in {"load", "rescue"} : Query(op, c) \in Queries
    /\ \A c \in Chars \cup {NoChar} : Query("release", c) \in Queries
    /\ \A op \in {"alive", "dead", "arealist"} : Query(op, NoChar) \in Queries
  BY BoundsAssumption DEF Query, Queries, Versions, Ops

(* Entries of ch[]: free, with an NPC, with a player character.            *)
LEMMA CopyType ==
    /\ \A c \in Chars \cup {NoChar} : Free(c) \in Copies
    /\ Npc \in Copies
    /\ \A c \in Chars : \A v \in Versions, m \in Mirrors : Player(c, v, m) \in Copies
  <1>1. \A c \in Chars \cup {NoChar} : Free(c) \in Copies
    BY BoundsAssumption DEF Free, Copies, Versions
  <1>2. Npc \in Copies
    BY BoundsAssumption, CharsAssumption DEF Npc, Copies, Versions
  <1>3. \A c \in Chars : \A v \in Versions, m \in Mirrors : Player(c, v, m) \in Copies
    BY DEF Player, Copies
  <1> QED BY <1>1, <1>2, <1>3

(* Answers of the structure login.                                         *)
LEMMA EmptyLoginType ==
    /\ EmptyLogin \in Logins
    /\ EmptyLogin.status = "empty"
  BY BoundsAssumption DEF EmptyLogin, Logins, Answers, Versions

(* A login find_login has just started.                                    *)
LEMMA ReadType ==
    ASSUME NEW c \in Chars
    PROVE  [EmptyLogin EXCEPT !.status = "read", !.id = c] \in Logins
  BY EmptyLoginType DEF Logins, Answers

(* The answers of load_char and tick_login.                                *)
LEMMA AnswerType ==
    ASSUME NEW s \in Servers, login[s] \in Logins
    PROVE  /\ Answer(s, "refused") \in Logins
           /\ \A k \in Slots, d \in BOOLEAN : LoginOk(s, k, d) \in Logins
           /\ \A t \in Servers \cup {NoServer} :
                 [Answer(s, "newarea") EXCEPT !.to = t] \in Logins
           /\ login[s].id \in Chars =>
                 \A v \in Versions, m \in Mirrors, b \in BOOLEAN :
                    [Answer(s, "create") EXCEPT !.current = b, !.ver = v,
                                                !.mirror = m] \in Logins
  <1> DEFINE Fields ==
            [status : {"empty", "read", "create"} \cup Answers,
             id : Chars \cup {NoChar}, current : BOOLEAN, ver : Versions,
             mirror : Mirrors \cup {0}, cn : Slots \cup {NoSlot},
             didusurp : BOOLEAN, stale : BOOLEAN, to : Servers \cup {NoServer}]
  <1>1. EmptyLogin \in Fields /\ login[s].id \in Chars \cup {NoChar}
    BY EmptyLoginType DEF Logins
  <1>2. \A st \in Answers \cup {"create"} :
           Answer(s, st) \in Fields /\ Answer(s, st).status = st
                                    /\ Answer(s, st).id = login[s].id
    BY <1>1 DEF Answer
  <1> HIDE DEF Fields
  <1>3. Answer(s, "refused") \in Logins
    BY <1>2 DEF Fields, Logins, Answers
  <1>4. \A k \in Slots, d \in BOOLEAN : LoginOk(s, k, d) \in Logins
    BY <1>2 DEF Fields, Logins, Answers, LoginOk
  <1>5. \A t \in Servers \cup {NoServer} :
           [Answer(s, "newarea") EXCEPT !.to = t] \in Logins
    BY <1>2 DEF Fields, Logins, Answers
  <1>6. login[s].id \in Chars =>
           \A v \in Versions, m \in Mirrors, b \in BOOLEAN :
              [Answer(s, "create") EXCEPT !.current = b, !.ver = v,
                                          !.mirror = m] \in Logins
    BY <1>2 DEF Fields, Logins, Answers
  <1> QED BY <1>3, <1>4, <1>5, <1>6

(* All servers have just started.                                          *)
LEMMA InitType == Init => TypeOK
  <1> SUFFICES ASSUME Init PROVE TypeOK
    OBVIOUS
  <1>1. row \in [Chars -> [cur : Servers \cup {NoServer}, allowed : Areas,
                           mirror : Mirrors, ver : Versions]]
    BY BoundsAssumption DEF Init, Areas, Versions
  <1>2. chr \in [Servers -> [Slots -> Copies]]
    BY CopyType DEF Init
  <1> QED BY <1>1, <1>2, EmptyLoginType DEF Init, TypeOK

(* What the helpers of the main thread write is of the right type.         *)
LEMMA HelperType ==
    ASSUME TypeOK, NEW s \in Servers
    PROVE  /\ \A q \in Queries : AddQuery(s, q) => queue' \in [Servers -> Seq(Queries)]
           /\ \A l \in Logins : SetLogin(s, l) => login' \in [Servers -> Logins]
           /\ \A k \in Slots, copy \in Copies :
                 SetChr(s, k, copy) => chr' \in [Servers -> [Slots -> Copies]]
           /\ \A C : DropClients(s, C) => client' \in [Servers -> SUBSET Chars]
           /\ \A t : \A c \in Chars :
                 SendClient(s, t, c) => client' \in [Servers -> SUBSET Chars]
  <1>1. \A q \in Queries : AddQuery(s, q) => queue' \in [Servers -> Seq(Queries)]
    BY DEF TypeOK, AddQuery
  <1>2. \A l \in Logins : SetLogin(s, l) => login' \in [Servers -> Logins]
    BY DEF TypeOK, SetLogin
  <1>3. \A k \in Slots, copy \in Copies :
           SetChr(s, k, copy) => chr' \in [Servers -> [Slots -> Copies]]
    BY DEF TypeOK, SetChr
  <1>4. \A C : DropClients(s, C) => client' \in [Servers -> SUBSET Chars]
    BY DEF TypeOK, DropClients
  <1>5. \A t : \A c \in Chars :
           SendClient(s, t, c) => client' \in [Servers -> SUBSET Chars]
    BY DEF TypeOK, SendClient
  <1> QED BY <1>1, <1>2, <1>3, <1>4, <1>5

(* Clients connect, start logins (find_login) and collect the answers.     *)
LEMMA ClientsType ==
    ASSUME TypeOK, NEW s \in Servers, Clients(s)
    PROVE  TypeOK'
  <1> USE HelperType
  <1>1. CASE LoginAges(s)
    <2>1. login[s] \in Logins
      BY DEF TypeOK
    <2>2. [login[s] EXCEPT !.stale = TRUE] \in Logins
      BY <2>1 DEF Logins
    <2> QED BY <1>1, <2>2 DEF LoginAges, TypeOK
  <1>2. ASSUME NEW c \in Chars, Connect(s, c) PROVE TypeOK'
    BY <1>2 DEF Connect, TypeOK
  <1>3. ASSUME NEW c \in Chars, Disconnect(s, c) PROVE TypeOK'
    BY <1>3 DEF Disconnect, TypeOK
  <1>4. ASSUME NEW c \in Chars, FindLoginStart(s, c) PROVE TypeOK'
    BY <1>4, ReadType, QueryType DEF FindLoginStart, TypeOK
  <1>5. ASSUME NEW c \in Chars, FindLoginStale(s, c) PROVE TypeOK'
    <2> DEFINE k == login[s].cn
               left == chr[s][k]
    <2>1. login[s].status = "ok" => left \in Copies
      BY DEF TypeOK, Logins
    <2>2. login' \in [Servers -> Logins]
      BY <1>5, ReadType DEF FindLoginStale
    <2>3. queue' \in [Servers -> Seq(Queries)]
      <3>1. Query("load", c) \in Queries
        BY QueryType
      <3>2. login[s].status = "ok" => Query("release", left.id) \in Queries
        BY <2>1, QueryType DEF Copies
      <3> QED BY <1>5, <3>1, <3>2 DEF FindLoginStale, TypeOK
    <2>4. chr' \in [Servers -> [Slots -> Copies]]
      <3>1. login[s].status = "ok" => Free(left.id) \in Copies
        BY <2>1, CopyType DEF Copies
      <3>2. login[s].status = "ok" => [left EXCEPT !.link = "lostcon"] \in Copies
        BY <2>1 DEF Copies
      <3> DEFINE new == [j \in Slots |->
                    IF j = k /\ login[s].status = "ok" /\ ~login[s].didusurp
                    THEN Free(left.id)
                    ELSE IF j = k /\ login[s].status = "ok" /\ login[s].didusurp
                                  /\ left.used
                    THEN [left EXCEPT !.link = "lostcon"]
                    ELSE chr[s][j]]
      <3>3. new \in [Slots -> Copies]
        BY <3>1, <3>2 DEF TypeOK
      <3>4. chr' = [chr EXCEPT ![s] = new]
        BY <1>5 DEF FindLoginStale
      <3> HIDE DEF new
      <3> QED BY <3>3, <3>4 DEF TypeOK
    <2> QED BY <1>5, <2>2, <2>3, <2>4 DEF FindLoginStale, TypeOK
  <1>6. ASSUME NEW c \in Chars, CollectRefusal(s, c) PROVE TypeOK'
    BY <1>6, EmptyLoginType DEF CollectRefusal, Collect, TypeOK
  <1>7. ASSUME NEW c \in Chars, CollectRedirect(s, c) PROVE TypeOK'
    <2>1. login' \in [Servers -> Logins]
      BY <1>7, EmptyLoginType DEF CollectRedirect, Collect
    <2>2. queue' \in [Servers -> Seq(Queries)]
      BY <1>7, QueryType DEF CollectRedirect, TypeOK
    <2>3. client' \in [Servers -> SUBSET Chars]
      BY <1>7 DEF CollectRedirect
    <2> QED BY <1>7, <2>1, <2>2, <2>3 DEF CollectRedirect, TypeOK
  <1>8. ASSUME NEW c \in Chars, CollectChar(s, c) PROVE TypeOK'
    <2>1. login[s].cn \in Slots /\ chr[s][login[s].cn] \in Copies
      BY <1>8 DEF CollectChar, TypeOK, Logins
    <2>2. [chr[s][login[s].cn] EXCEPT !.link = "player"] \in Copies
      BY <2>1 DEF Copies
    <2> QED BY <1>8, <2>1, <2>2, EmptyLoginType DEF CollectChar, Collect, TypeOK
  <1>9. ASSUME NEW c \in Chars, CollectNothing(s, c) PROVE TypeOK'
    BY <1>9, EmptyLoginType DEF CollectNothing, Collect, TypeOK
  <1> QED BY <1>1, <1>2, <1>3, <1>4, <1>5, <1>6, <1>7, <1>8, <1>9 DEF Clients

(* tick_login of the main thread.                                          *)
LEMMA LoginTickType ==
    ASSUME TypeOK, NEW s \in Servers, LoginTick(s)
    PROVE  TypeOK'
  <1> USE HelperType
  <1>1. login[s] \in Logins
    BY DEF TypeOK
  <1>2. \A k \in Slots : chr[s][k] \in Copies
    BY DEF TypeOK
  <1>3. login[s].id \in Chars /\ login[s].mirror \in Mirrors /\ login[s].ver \in Versions
    BY <1>1 DEF LoginTick, UsurpMissed, CreateNoSlot, Usurp, CreateChar,
                CreateNoItem, CreateNoTile, TickLogin, Logins
  <1> USE <1>1, <1>2, <1>3
  <1>4. CASE UsurpMissed(s)
    BY <1>4, AnswerType DEF UsurpMissed, TypeOK
  <1>5. CASE CreateNoSlot(s)
    BY <1>5, AnswerType DEF CreateNoSlot, TypeOK
  <1>6. ASSUME NEW k \in Slots, Usurp(s, k) PROVE TypeOK'
    <2>1. [chr[s][k] EXCEPT !.link = "none"] \in Copies
      BY DEF Copies
    <2> QED BY <1>6, <2>1, AnswerType DEF Usurp, TypeOK
  <1>7. ASSUME NEW k \in Slots, CreateChar(s, k) PROVE TypeOK'
    BY <1>7, AnswerType, CopyType DEF CreateChar, TypeOK
  <1>8. ASSUME NEW k \in Slots, CreateNoItem(s, k) PROVE TypeOK'
    <2>1. HalfBuilt \in Versions
      BY BoundsAssumption DEF HalfBuilt, Versions
    <2> QED BY <1>8, <2>1, AnswerType, CopyType DEF CreateNoItem, TypeOK
  <1>9. ASSUME NEW k \in Slots, CreateNoTile(s, k) PROVE TypeOK'
    BY <1>9, AnswerType, CopyType, QueryType DEF CreateNoTile, TypeOK
  <1> QED BY <1>4, <1>5, <1>6, <1>7, <1>8, <1>9 DEF LoginTick

(* kick_char keeps the types.                                              *)
LEMMA KickCharType ==
    ASSUME TypeOK, NEW s \in Servers, NEW k \in Slots, chr[s][k].used,
           NEW area \in Areas, KickChar(s, k, area)
    PROVE  /\ queue' \in [Servers -> Seq(Queries)]
           /\ chr' \in [Servers -> [Slots -> Copies]]
  <1>1. chr[s][k] \in Copies
    BY DEF TypeOK
  <1>2. chr[s][k].id \in Chars \cup {NoChar}
    BY <1>1 DEF Copies
  <1>3. chr[s][k].id # NoChar => SaveChar(chr[s][k], area) \in Queries
    BY <1>1, <1>2, SaveCharType
  <1>4. queue' \in [Servers -> Seq(Queries)]
    BY <1>3 DEF KickChar, TypeOK
  <1>5. chr' \in [Servers -> [Slots -> Copies]]
    BY <1>2, CopyType, HelperType DEF KickChar
  <1> QED BY <1>4, <1>5

(* Characters change, leave, and are backed up.                            *)
LEMMA GameType ==
    ASSUME TypeOK, NEW s \in Servers, Game(s)
    PROVE  TypeOK'
  <1> USE HelperType
  <1>1. CASE Periodic(s)
    BY <1>1, QueryType DEF Periodic, TypeOK
  <1> SUFFICES ASSUME NEW k \in Slots,
                      \/ Progress(s, k) \/ Backup(s, k) \/ LoseConnection(s, k)
                      \/ LostconExit(s, k) \/ ExitChar(s, k)
                      \/ SpawnNpc(s, k) \/ RemoveNpc(s, k)
                      \/ \E area \in Areas, m \in Mirrors : ChangeArea(s, k, area, m)
               PROVE  TypeOK'
    BY <1>1 DEF Game
  <1>2. chr[s][k] \in Copies
    BY DEF TypeOK
  <1>3. chr[s][k].id \in Chars \cup {NoChar}
    BY <1>2 DEF Copies
  <1>4. CASE Progress(s, k)
    <2>1. chr[s][k].ver + 1 \in Versions
      BY <1>2, <1>4, BoundsAssumption DEF Progress, Copies, Versions
    <2>2. [chr[s][k] EXCEPT !.ver = @ + 1] \in Copies
      BY <1>2, <2>1 DEF Copies
    <2> QED BY <1>4, <2>2 DEF Progress, TypeOK
  <1>5. CASE Backup(s, k)
    <2>1. 3 \in Areas
      BY DEF Areas
    <2>2. SaveChar(chr[s][k], 0) \in Queries
      BY <1>2, <1>3, <1>5, <2>1, SaveCharType DEF Backup
    <2> QED BY <1>5, <2>2 DEF Backup, TypeOK
  <1>6. CASE LoseConnection(s, k)
    <2>1. [chr[s][k] EXCEPT !.link = "lostcon"] \in Copies
      BY <1>2 DEF Copies
    <2> QED BY <1>6, <2>1 DEF LoseConnection, TypeOK
  <1>7. CASE LostconExit(s, k)
    BY <1>7, KickCharType DEF LostconExit, TypeOK
  <1>8. CASE ExitChar(s, k)
    BY <1>8, KickCharType DEF ExitChar, TypeOK
  <1>9. CASE SpawnNpc(s, k)
    BY <1>9, CopyType DEF SpawnNpc, TypeOK
  <1>10. CASE RemoveNpc(s, k)
    BY <1>10, CopyType DEF RemoveNpc, TypeOK
  <1>11. ASSUME NEW area \in Areas, NEW m \in Mirrors, ChangeArea(s, k, area, m)
         PROVE  TypeOK'
    <2> DEFINE copy == [chr[s][k] EXCEPT !.mirror = m]
    <2>1. copy \in Copies /\ copy.used /\ copy.id \in Chars
      BY <1>2, <1>3, <1>11 DEF ChangeArea, Copies
    <2>2. SaveChar(copy, area) \in Queries /\ Free(copy.id) \in Copies
      BY <2>1, SaveCharType, CopyType
    <2> HIDE DEF copy
    <2>3. queue' \in [Servers -> Seq(Queries)]
      BY <1>11, <2>2 DEF ChangeArea, TypeOK, copy
    <2>4. chr' \in [Servers -> [Slots -> Copies]]
      BY <1>11, <2>1, <2>2 DEF ChangeArea, copy
    <2>5. client' \in [Servers -> SUBSET Chars]
      BY <1>11, <2>1 DEF ChangeArea, TypeOK, copy
    <2> QED BY <1>11, <2>3, <2>4, <2>5 DEF ChangeArea, TypeOK
  <1> QED BY <1>4, <1>5, <1>6, <1>7, <1>8, <1>9, <1>10, <1>11

(* A query of the database thread is taken from the queue of its server.   *)
LEMMA NextQueryType ==
    ASSUME TypeOK, NEW s \in Servers, NEW ops, NextQuery(s, ops)
    PROVE  /\ Head(queue[s]) \in Queries
           /\ Head(queue[s]).op \in ops
           /\ queue' \in [Servers -> Seq(Queries)]
  BY DEF TypeOK, NextQuery

(* The database thread executes the query at the head of its queue.        *)
LEMMA DbThreadType ==
    ASSUME TypeOK, NEW s \in Servers, DbThread(s)
    PROVE  TypeOK'
  <1> DEFINE q == Head(queue[s])
             Rows == [cur : Servers \cup {NoServer}, allowed : Areas,
                      mirror : Mirrors, ver : Versions]
  <1>1. \A c \in Chars : row[c] \in Rows
    BY DEF TypeOK
  <1>2. \A c \in Chars, r \in Rows : SetRow(c, r) => row' \in [Chars -> Rows]
    BY DEF SetRow, TypeOK
  <1>3. CASE DbSave(s)
    <2>1. q \in Queries /\ q.op \in {"backup", "logout"}
          /\ queue' \in [Servers -> Seq(Queries)]
      BY <1>3, NextQueryType DEF DbSave
    <2>2. /\ q.c \in Chars /\ q.mirror \in Mirrors /\ q.ver \in Versions
          /\ q.op # "backup" => q.area \in Areas
      BY <2>1 DEF Queries
    <2>3. [row[q.c] EXCEPT !.ver = q.ver, !.mirror = q.mirror] \in Rows
      BY <1>1, <2>2
    <2>4. q.op # "backup" =>
          [cur |-> NoServer, allowed |-> q.area, mirror |-> q.mirror, ver |-> q.ver]
             \in Rows
      BY <2>2
    <2>5. row' \in [Chars -> Rows]
      BY <1>2, <1>3, <2>2, <2>3, <2>4 DEF DbSave, TypeOK
    <2> QED BY <1>3, <2>1, <2>5 DEF DbSave, TypeOK
  <1>4. CASE DbRelease(s)
    <2>1. q.c \in Chars => [row[q.c] EXCEPT !.cur = NoServer] \in Rows
      BY <1>1
    <2>2. row' \in [Chars -> Rows]
      BY <1>2, <1>4, <2>1 DEF DbRelease, TypeOK
    <2> QED BY <1>4, <2>2, NextQueryType DEF DbRelease, TypeOK
  <1>5. CASE DbRescue(s)
    <2>1. q \in Queries /\ q.op = "rescue" /\ queue' \in [Servers -> Seq(Queries)]
      BY <1>5, NextQueryType DEF DbRescue
    <2>2. q.c \in Chars
      BY <2>1 DEF Queries
    <2>3. \A a \in {1, 3} : [row[q.c] EXCEPT !.cur = NoServer, !.allowed = a] \in Rows
      BY <1>1, <2>2 DEF Areas
    <2>4. row' \in [Chars -> Rows] /\ robbed' \subseteq Chars
      BY <1>2, <1>5, <2>2, <2>3 DEF DbRescue, TypeOK
    <2> QED BY <1>5, <2>1, <2>4 DEF DbRescue, TypeOK
  <1>6. CASE DbArea(s)
    <2>1. alive' \in [Servers -> BOOLEAN] /\ view' \in [Servers -> [Servers -> BOOLEAN]]
      BY <1>6 DEF DbArea, TypeOK
    <2> QED BY <1>6, <2>1, NextQueryType DEF DbArea, TypeOK
  <1>7. ASSUME NEW c \in Chars, DbLoad(s, c)
        PROVE  /\ queue' \in [Servers -> Seq(Queries)]
               /\ login[s] \in Logins /\ login[s].id \in Chars
    BY <1>7, NextQueryType DEF DbLoad, TypeOK, Logins
  <1>8. ASSUME NEW c \in Chars, DbLoadRefused(s, c) PROVE TypeOK'
    <2>1. login' \in [Servers -> Logins]
      BY <1>7, <1>8, HelperType, AnswerType DEF DbLoadRefused
    <2> QED BY <1>7, <1>8, <2>1 DEF DbLoadRefused, TypeOK
  <1>9. ASSUME NEW c \in Chars, DbLoadElsewhere(s, c) PROVE TypeOK'
    <2>1. \A st, area, m : OrNone(BestMirror(st, area, m)) \subseteq Servers \cup {NoServer}
      BY BestMirrorServers DEF OrNone
    <2>2. PICK to \in Servers \cup {NoServer} :
             SetLogin(s, [Answer(s, "newarea") EXCEPT !.to = to])
      BY <1>1, <1>9, <2>1 DEF DbLoadElsewhere
    <2>3. login' \in [Servers -> Logins]
      BY <1>7, <1>9, <2>2, HelperType, AnswerType DEF DbLoadElsewhere
    <2> QED BY <1>7, <1>9, <2>3 DEF DbLoadElsewhere, TypeOK
  <1>10. ASSUME NEW c \in Chars, DbLoadMirror(s, c) PROVE TypeOK'
    <2>1. \A st, area, m : OrNone(BestMirror(st, area, m)) \subseteq Servers \cup {NoServer}
      BY BestMirrorServers DEF OrNone
    <2>2. PICK to \in Servers \cup {NoServer} :
             SetLogin(s, [Answer(s, "newarea") EXCEPT !.to = to])
      BY <1>10, <2>1 DEF DbLoadMirror
    <2>3. login' \in [Servers -> Logins]
      BY <1>7, <1>10, <2>2, HelperType, AnswerType DEF DbLoadMirror
    <2> QED BY <1>7, <1>10, <2>3 DEF DbLoadMirror, TypeOK
  <1>11. ASSUME NEW c \in Chars, DbLoadHere(s, c) PROVE TypeOK'
    <2>1. [row[c] EXCEPT !.cur = s] \in Rows
      BY <1>1
    <2>2. row' \in [Chars -> Rows]
      BY <1>2, <1>11, <2>1 DEF DbLoadHere
    <2>3. (row[c].cur = s) \in BOOLEAN /\ row[c].ver \in Versions /\ row[c].mirror \in Mirrors
      BY <1>1
    <2>4. login' \in [Servers -> Logins]
      BY <1>7, <1>11, <2>3, HelperType, AnswerType DEF DbLoadHere
    <2> QED BY <1>7, <1>11, <2>2, <2>4 DEF DbLoadHere, TypeOK
  <1> QED BY <1>3, <1>4, <1>5, <1>6, <1>8, <1>9, <1>10, <1>11 DEF DbThread

(* Servers start, quit, crash and fall silent.                             *)
LEMMA ProcessType ==
    ASSUME TypeOK, NEW s \in Servers, Process(s)
    PROVE  TypeOK'
  <1> USE HelperType
  <1>1. CASE Start(s)
    <2>1. \A c \in Chars : row[c] \in [cur : Servers \cup {NoServer}, allowed : Areas,
                                      mirror : Mirrors, ver : Versions]
      BY DEF TypeOK
    <2>2. row' \in [Chars -> [cur : Servers \cup {NoServer}, allowed : Areas,
                             mirror : Mirrors, ver : Versions]]
      BY <1>1, <2>1 DEF Start
    <2>3. <<Query("alive", NoChar), Query("arealist", NoChar)>> \in Seq(Queries)
      BY QueryType
    <2>4. queue' \in [Servers -> Seq(Queries)]
      BY <1>1, <2>3 DEF Start, TypeOK
    <2> QED BY <1>1, <2>2, <2>4 DEF Start, TypeOK
  <1>2. CASE Quit(s)
    BY <1>2 DEF Quit, TypeOK
  <1>3. CASE QuitAlive(s)
    BY <1>3, QueryType DEF QuitAlive, TypeOK
  <1>4. ASSUME Gone(s) PROVE TypeOK'
    <2>1. login' \in [Servers -> Logins]
      BY <1>4, EmptyLoginType DEF Gone, TypeOK
    <2>2. chr' \in [Servers -> [Slots -> Copies]]
      BY <1>4, CopyType DEF Gone, TypeOK
    <2> QED BY <1>4, <2>1, <2>2 DEF Gone, TypeOK
  <1>5. CASE AliveExpires(s)
    BY <1>5 DEF AliveExpires, TypeOK
  <1>6. ASSUME NEW k \in Slots, QuitExitChar(s, k) PROVE TypeOK'
    BY <1>6, KickCharType DEF QuitExitChar, TypeOK
  <1> QED BY <1>1, <1>2, <1>3, <1>4, <1>5, <1>6 DEF Process, Exit, Crash

(* In every reachable state the variables have their types; in particular  *)
(* an answer LS_OK names an entry of ch[], queued saves name a character,  *)
(* and a login being worked on belongs to one.                             *)
THEOREM TypeCorrect == Spec => []TypeOK
  <1>1. TypeOK /\ [Next]_vars => TypeOK'
    <2> SUFFICES ASSUME TypeOK, [Next]_vars PROVE TypeOK'
      OBVIOUS
    <2>1. CASE UNCHANGED vars
      BY <2>1 DEF vars, TypeOK
    <2>2. ASSUME NEW s \in Servers,
                 Clients(s) \/ LoginTick(s) \/ Game(s) \/ DbThread(s) \/ Process(s)
          PROVE  TypeOK'
      BY <2>2, ClientsType, LoginTickType, GameType, DbThreadType, ProcessType
    <2> QED BY <2>1, <2>2 DEF Next
  <1> QED BY <1>1, InitType, PTL DEF Spec

-----------------------------------------------------------------------------
(* Queues: what appending a query and taking the first one away do to the  *)
(* predicates OwnershipInv is made of.                                     *)

(* A query is put at the end of a queue.                                   *)
LEMMA AppendQuery ==
    ASSUME NEW qu \in Seq(Queries), NEW q \in Queries, NEW c
    PROVE  /\ HasSave(Append(qu, q), c) <=> HasSave(qu, c) \/ IsSave(q, c)
           /\ HasEnd(Append(qu, q), c) <=> HasEnd(qu, c) \/ IsEnd(q, c)
           /\ SavesFirst(qu, c) /\ (HasEnd(qu, c) => ~IsSave(q, c))
              => SavesFirst(Append(qu, q), c)
  <1> DEFINE new == Append(qu, q)
  <1>1. /\ DOMAIN new = DOMAIN qu \cup {Len(qu) + 1}
        /\ \A i \in DOMAIN qu : new[i] = qu[i] /\ i < Len(qu) + 1
        /\ new[Len(qu) + 1] = q
        /\ DOMAIN qu \subseteq Nat /\ Len(qu) \in Nat
    OBVIOUS
  <1> HIDE DEF new
  <1>2. HasSave(new, c) <=> HasSave(qu, c) \/ IsSave(q, c)
    BY <1>1 DEF HasSave
  <1>3. HasEnd(new, c) <=> HasEnd(qu, c) \/ IsEnd(q, c)
    BY <1>1 DEF HasEnd
  <1>4. SavesFirst(qu, c) /\ (HasEnd(qu, c) => ~IsSave(q, c)) => SavesFirst(new, c)
    <2> SUFFICES ASSUME SavesFirst(qu, c), HasEnd(qu, c) => ~IsSave(q, c),
                        NEW i \in DOMAIN new, NEW j \in DOMAIN new,
                        i < j, IsEnd(new[i], c)
                 PROVE  ~IsSave(new[j], c)
      BY DEF SavesFirst
    <2>1. i \in DOMAIN qu
      BY <1>1
    <2>2. CASE j \in DOMAIN qu
      BY <1>1, <2>1, <2>2 DEF SavesFirst
    <2>3. CASE j = Len(qu) + 1
      BY <1>1, <2>1, <2>3 DEF HasEnd
    <2> QED BY <1>1, <2>2, <2>3
  <1> QED BY <1>2, <1>3, <1>4 DEF new

(* A query that is no login may always be appended, a release or a login   *)
(* when no login waits.                                                    *)
NoLoads(qu) == \A i \in DOMAIN qu : qu[i].op # "load"

(* A load is put at the end of a queue.                                    *)
LEMMA AppendLoad ==
    ASSUME NEW qu \in Seq(Queries), NEW q \in Queries, LoadLast(qu)
    PROVE  /\ q.op \notin {"load", "release"} => LoadLast(Append(qu, q))
           /\ NoLoads(qu) => LoadLast(Append(qu, q))
           /\ NoLoads(qu) /\ q.op # "load" => NoLoads(Append(qu, q))
           /\ \A i \in DOMAIN Append(qu, q) :
                 Append(qu, q)[i].op = "load"
                 => \/ Append(qu, q)[i] = q
                    \/ \E j \in DOMAIN qu : qu[j].op = "load" /\ Append(qu, q)[i] = qu[j]
  <1> DEFINE new == Append(qu, q)
  <1>1. /\ DOMAIN new = DOMAIN qu \cup {Len(qu) + 1}
        /\ \A i \in DOMAIN qu : new[i] = qu[i] /\ i < Len(qu) + 1
        /\ new[Len(qu) + 1] = q
        /\ DOMAIN qu \subseteq Nat /\ Len(qu) \in Nat
    OBVIOUS
  <1> HIDE DEF new
  <1>2. q.op \notin {"load", "release"} => LoadLast(new)
    BY <1>1 DEF LoadLast
  <1>3. NoLoads(qu) => LoadLast(new)
    BY <1>1 DEF LoadLast, NoLoads
  <1>4. NoLoads(qu) /\ q.op # "load" => NoLoads(new)
    BY <1>1 DEF NoLoads
  <1>5. \A i \in DOMAIN new :
           new[i].op = "load"
           => new[i] = q \/ \E j \in DOMAIN qu : qu[j].op = "load" /\ new[i] = qu[j]
    BY <1>1
  <1> QED BY <1>2, <1>3, <1>4, <1>5 DEF new

(* The first query is taken off a queue.                                   *)
LEMMA TailQuery ==
    ASSUME NEW qu \in Seq(Queries), qu # <<>>, NEW c
    PROVE  /\ HasSave(Tail(qu), c) => HasSave(qu, c)
           /\ HasEnd(Tail(qu), c) => HasEnd(qu, c)
           /\ IsSave(Head(qu), c) => HasSave(qu, c)
           /\ IsEnd(Head(qu), c) => HasEnd(qu, c)
           /\ SavesFirst(qu, c) => SavesFirst(Tail(qu), c)
           /\ SavesFirst(qu, c) /\ IsEnd(Head(qu), c) => ~HasSave(Tail(qu), c)
           /\ LoadLast(qu) => LoadLast(Tail(qu))
           /\ LoadLast(qu) /\ Head(qu).op = "load"
              => /\ NoLoads(Tail(qu))
                 /\ HasEnd(Tail(qu), c) => HasSave(Tail(qu), c)
           /\ \A i \in DOMAIN Tail(qu) :
                 i + 1 \in DOMAIN qu /\ Tail(qu)[i] = qu[i + 1]
  <1> DEFINE rest == Tail(qu)
  <1>1. /\ \A i \in DOMAIN rest : /\ i \in Nat /\ i + 1 \in DOMAIN qu /\ 1 < i + 1
                                  /\ rest[i] = qu[i + 1]
        /\ 1 \in DOMAIN qu /\ Head(qu) = qu[1]
    OBVIOUS
  <1> HIDE DEF rest
  <1>2. HasSave(rest, c) => HasSave(qu, c)
    BY <1>1 DEF HasSave
  <1>3. HasEnd(rest, c) => HasEnd(qu, c)
    BY <1>1 DEF HasEnd
  <1>4. /\ IsSave(Head(qu), c) => HasSave(qu, c)
        /\ IsEnd(Head(qu), c) => HasEnd(qu, c)
    BY <1>1 DEF HasSave, HasEnd
  <1>5. SavesFirst(qu, c) => SavesFirst(rest, c)
    <2> SUFFICES ASSUME SavesFirst(qu, c),
                        NEW i \in DOMAIN rest, NEW j \in DOMAIN rest,
                        i < j, IsEnd(rest[i], c)
                 PROVE  ~IsSave(rest[j], c)
      BY DEF SavesFirst
    <2>1. i + 1 < j + 1
      BY <1>1
    <2> QED BY <1>1, <2>1 DEF SavesFirst
  <1>6. SavesFirst(qu, c) /\ IsEnd(Head(qu), c) => ~HasSave(rest, c)
    BY <1>1 DEF SavesFirst, HasSave
  <1>7. LoadLast(qu) => LoadLast(rest)
    <2> SUFFICES ASSUME LoadLast(qu),
                        NEW i \in DOMAIN rest, NEW j \in DOMAIN rest,
                        i < j, rest[i].op = "load"
                 PROVE  rest[j].op \notin {"load", "release"}
      BY DEF LoadLast
    <2>1. i + 1 < j + 1
      BY <1>1
    <2> QED BY <1>1, <2>1 DEF LoadLast
  <1>8. LoadLast(qu) /\ Head(qu).op = "load"
        => NoLoads(rest) /\ (HasEnd(rest, c) => HasSave(rest, c))
    BY <1>1 DEF LoadLast, NoLoads, HasEnd, HasSave, IsEnd, IsSave
  <1> QED BY <1>1, <1>2, <1>3, <1>4, <1>5, <1>6, <1>7, <1>8 DEF rest

-----------------------------------------------------------------------------
(* OwnershipInv, for the server that takes a step and for the others.      *)

(* Nothing in the memory of the other servers changes.                     *)
OnlyAt(s) ==
    \A t \in Servers \ {s} : /\ queue'[t] = queue[t] /\ login'[t] = login[t]
                             /\ chr'[t] = chr[t] /\ up'[t] = up[t]

(* A step in the memory of server s that frees only rows of s, or takes    *)
(* free ones, cannot disturb what holds of the other servers.              *)
LEMMA OtherServers ==
    ASSUME OwnershipInv, NEW s \in Servers, OnlyAt(s), robbed \subseteq robbed',
           \A c \in Honest' : row[c].cur \in Servers \ {s} => row'[c].cur = row[c].cur,
           ServerInv(s)'
    PROVE  OwnershipInv'
  <1> SUFFICES ASSUME NEW t \in Servers \ {s} PROVE ServerInv(t)'
    BY DEF OwnershipInv
  <1>1. /\ queue'[t] = queue[t] /\ login'[t] = login[t]
        /\ chr'[t] = chr[t] /\ up'[t] = up[t]
    BY DEF OnlyAt
  <1>2. ServerInv(t)
    BY DEF OwnershipInv
  <1>3. LoginInv(t)'
    BY <1>1, <1>2 DEF ServerInv, LoginInv
  <1>4. DownInv(t)'
    BY <1>1, <1>2 DEF ServerInv, DownInv
  <1>5. ASSUME NEW c \in Honest' PROVE OwnInv(t, c)'
    <2>1. OwnInv(t, c)
      BY <1>2 DEF ServerInv, Honest
    <2>2. row[c].cur = t => row'[c].cur = t
      OBVIOUS
    <2>3. \A k \in Slots : Holds(t, k, c)' <=> Holds(t, k, c)
      BY <1>1 DEF Holds
    <2>4. Online(t, c)' <=> Online(t, c)
      BY <2>3 DEF Online
    <2> QED BY <1>1, <2>1, <2>2, <2>3, <2>4 DEF OwnInv
  <1> QED BY <1>3, <1>4, <1>5 DEF ServerInv

(* The same for steps that leave all rows and robbed alone.                *)
LEMMA OtherServersNoRow ==
    ASSUME OwnershipInv, NEW s \in Servers, OnlyAt(s), UNCHANGED <<row, robbed>>,
           ServerInv(s)'
    PROVE  OwnershipInv'
  BY OtherServers

(* What the helpers of the main thread do to the server and to the others. *)
LEMMA HelperAt ==
    ASSUME TypeOK, NEW s \in Servers
    PROVE  /\ \A q : AddQuery(s, q) => /\ queue'[s] = Append(queue[s], q)
                                     /\ \A t \in Servers \ {s} : queue'[t] = queue[t]
           /\ \A l : SetLogin(s, l) => /\ login'[s] = l
                                     /\ \A t \in Servers \ {s} : login'[t] = login[t]
           /\ \A k \in Slots : \A copy : SetChr(s, k, copy) =>
                 /\ \A j \in Slots : chr'[s][j] = IF j = k THEN copy ELSE chr[s][j]
                 /\ \A t \in Servers \ {s} : chr'[t] = chr[t]
  BY DEF TypeOK, AddQuery, SetLogin, SetChr

(* Steps that change nothing OwnInv looks at.                              *)
LEMMA SameOwner ==
    ASSUME NEW s \in Servers, NEW c, OwnInv(s, c),
           row'[c].cur = row[c].cur, queue'[s] = queue[s],
           \A k \in Slots : /\ chr'[s][k].used = chr[s][k].used
                            /\ chr'[s][k].id = chr[s][k].id,
           login'[s].status \in {"create", "ok"}
           => /\ login'[s].status = login[s].status /\ login'[s].id = login[s].id
              /\ login'[s].cn = login[s].cn /\ login'[s].current = login[s].current
              /\ login'[s].cn \in Slots \/ login'[s].status = "create"
    PROVE  OwnInv(s, c)'
  <1>1. \A k \in Slots : Holds(s, k, c)' <=> Holds(s, k, c)
    BY DEF Holds
  <1>2. Online(s, c)' <=> Online(s, c)
    BY <1>1 DEF Online
  <1> QED BY <1>1, <1>2 DEF OwnInv

(* Steps that change nothing OwnInv looks at except that a login ends, or  *)
(* that a query about no particular character is appended.                 *)
LEMMA QuietStep ==
    ASSUME TypeOK, OwnershipInv, NEW s \in Servers, OnlyAt(s),
           UNCHANGED <<row, robbed>>, up'[s] # "down",
           \/ queue'[s] = queue[s]
           \/ \E q \in Queries : /\ q.op \in {"alive", "dead", "arealist", "rescue"}
                                 /\ queue'[s] = Append(queue[s], q),
           \A k \in Slots : /\ chr'[s][k].used = chr[s][k].used
                            /\ chr'[s][k].id = chr[s][k].id,
           \/ login'[s] = login[s]
           \/ login[s].status # "read" /\ login'[s].status \in {"empty", "refused"}
           \/ login[s].status # "read" /\ login' = [login EXCEPT ![s].stale = TRUE]
    PROVE  OwnershipInv'
  <1>1. ServerInv(s) /\ queue[s] \in Seq(Queries) /\ login[s] \in Logins
    BY DEF OwnershipInv, TypeOK
  <1>2. \/ login'[s].status \in {"empty", "refused"}
        \/ /\ login'[s].status = login[s].status /\ login'[s].id = login[s].id
           /\ login'[s].cn = login[s].cn /\ login'[s].current = login[s].current
    BY <1>1 DEF TypeOK, Logins
  <1>3. LoginInv(s)'
    <2>1. CASE queue'[s] = queue[s]
      BY <1>1, <1>2, <2>1 DEF ServerInv, LoginInv
    <2>2. ASSUME NEW q \in Queries, q.op \in {"alive", "dead", "arealist", "rescue"},
                 queue'[s] = Append(queue[s], q)
          PROVE  LoginInv(s)'
      BY <1>1, <1>2, <2>2, AppendLoad DEF ServerInv, LoginInv
    <2> QED BY <2>1, <2>2
  <1>4. ASSUME NEW c \in Honest' PROVE OwnInv(s, c)'
    <2>1. OwnInv(s, c)
      BY <1>1 DEF ServerInv, Honest
    <2>2. CASE queue'[s] = queue[s]
      BY <1>1, <1>2, <2>1, <2>2, SameOwner DEF Logins
    <2>3. ASSUME NEW q \in Queries, q.op \in {"alive", "dead", "arealist", "rescue"},
                 queue'[s] = Append(queue[s], q)
          PROVE  OwnInv(s, c)'
      <3>1. ~IsSave(q, c) /\ ~IsEnd(q, c)
        BY <2>3 DEF IsSave, IsEnd
      <3>2. /\ HasSave(queue'[s], c) <=> HasSave(queue[s], c)
            /\ HasEnd(queue'[s], c) <=> HasEnd(queue[s], c)
            /\ SavesFirst(queue'[s], c)
        BY <1>1, <2>1, <2>3, <3>1, AppendQuery DEF OwnInv
      <3>3. \A k \in Slots : Holds(s, k, c)' <=> Holds(s, k, c)
        BY DEF Holds
      <3>4. Online(s, c)' <=> Online(s, c)
        BY <3>3 DEF Online
      <3> QED BY <1>1, <1>2, <2>1, <3>2, <3>3, <3>4 DEF OwnInv, Logins
    <2> QED BY <2>2, <2>3
  <1>5. ServerInv(s)'
    BY <1>3, <1>4 DEF ServerInv, DownInv
  <1> QED BY <1>5, OtherServersNoRow

(* Of all the steps of clients only the two that start a login need more:  *)
(* the structure is not in LS_READ then, so no login waits in the queue;   *)
(* a stale character is destroyed in the step that appends its release.    *)
LEMMA FindLoginOwner ==
    ASSUME TypeOK, OwnershipInv, NEW s \in Servers, NEW c \in Chars,
           FindLoginStart(s, c) \/ FindLoginStale(s, c)
    PROVE  OwnershipInv'
  <1> DEFINE k == login[s].cn
             left == chr[s][k]
             undo == FindLoginStale(s, c) /\ login[s].status = "ok" /\ ~login[s].didusurp
             gone == Query("release", left.id)
             mid == IF undo THEN Append(queue[s], gone) ELSE queue[s]
             load == Query("load", c)
  <1>1. /\ ServerInv(s) /\ queue[s] \in Seq(Queries) /\ login[s] \in Logins
        /\ chr[s] \in [Slots -> Copies]
    BY DEF OwnershipInv, TypeOK
  <1>2. /\ login[s].status # "read" /\ up'[s] = "up" /\ UNCHANGED <<row, robbed>>
        /\ login'[s].status = "read" /\ login'[s].id = c
    <2>1. login'[s] = [EmptyLogin EXCEPT !.status = "read", !.id = c]
      BY DEF FindLoginStart, FindLoginStale, SetLogin, TypeOK
    <2>2. login'[s].status = "read" /\ login'[s].id = c
      BY <2>1, EmptyLoginType DEF Logins
    <2> QED BY <2>2 DEF FindLoginStart, FindLoginStale, Answers
  <1>3. OnlyAt(s)
    BY DEF FindLoginStart, FindLoginStale, OnlyAt, TypeOK, AddQuery, SetLogin
  <1>4. queue'[s] = Append(mid, load)
    BY DEF FindLoginStart, FindLoginStale, AddQuery, TypeOK
  <1>5. undo => k \in Slots /\ left \in Copies /\ left.id \in Chars \cup {NoChar}
    BY <1>1 DEF Logins, Copies
  <1>6. /\ load \in Queries /\ load.op = "load" /\ load.c = c
        /\ undo => gone \in Queries
        /\ gone.op = "release" /\ gone.c = left.id
    BY <1>5, QueryType DEF Query
  <1>7. mid \in Seq(Queries)
    BY <1>1, <1>6
  <1>8. NoLoads(queue[s]) /\ LoadLast(queue[s])
    BY <1>1, <1>2 DEF ServerInv, LoginInv, NoLoads
  <1>9. NoLoads(mid) /\ LoadLast(mid)
    BY <1>1, <1>6, <1>8, AppendLoad
  <1>10. \A j \in Slots : /\ chr'[s][j].id = chr[s][j].id
                          /\ chr'[s][j].used
                             <=> chr[s][j].used /\ ~(undo /\ j = k)
    <2>1. CASE FindLoginStart(s, c) /\ ~FindLoginStale(s, c)
      BY <2>1 DEF FindLoginStart
    <2>2. CASE FindLoginStale(s, c)
      <3>1. \A j \in Slots : chr'[s][j] =
                 IF j = k /\ undo THEN Free(left.id)
                 ELSE IF j = k /\ login[s].status = "ok" /\ login[s].didusurp /\ left.used
                 THEN [left EXCEPT !.link = "lostcon"]
                 ELSE chr[s][j]
        BY <2>2 DEF FindLoginStale, TypeOK
      <3>2. Free(left.id).id = left.id /\ ~Free(left.id).used
        BY DEF Free
      <3>3. \A j \in Slots : [chr[s][j] EXCEPT !.link = "lostcon"].id = chr[s][j].id
                /\ [chr[s][j] EXCEPT !.link = "lostcon"].used = chr[s][j].used
        BY <1>1 DEF Copies
      <3> HIDE DEF undo
      <3> QED BY <3>1, <3>2, <3>3
    <2> QED BY <2>1, <2>2
  <1> HIDE DEF undo, gone, mid, load
  <1>11. LoginInv(s)'
    <2>1. LoadLast(queue'[s])
      BY <1>4, <1>6, <1>7, <1>9, AppendLoad
    <2>2. \A i \in DOMAIN queue'[s] :
             queue'[s][i].op = "load" => queue'[s][i].c = c
      BY <1>4, <1>6, <1>7, <1>9, AppendLoad DEF NoLoads
    <2> QED BY <1>2, <2>1, <2>2 DEF LoginInv
  <1>12. ASSUME NEW d \in Honest' PROVE OwnInv(s, d)'
    <2>1. OwnInv(s, d) /\ d \in Chars /\ row'[d] = row[d]
      BY <1>1, <1>2 DEF ServerInv, Honest
    <2>2. /\ HasSave(queue'[s], d) <=> HasSave(mid, d)
          /\ HasEnd(queue'[s], d) <=> HasEnd(mid, d)
          /\ SavesFirst(mid, d) => SavesFirst(queue'[s], d)
      BY <1>4, <1>6, <1>7, AppendQuery DEF IsSave, IsEnd
    <2>3. \A j \in Slots : Holds(s, j, d)' <=> Holds(s, j, d) /\ ~(undo /\ j = k)
      BY <1>10 DEF Holds
    <2>4. /\ HasSave(mid, d) <=> HasSave(queue[s], d)
          /\ HasEnd(mid, d) <=> HasEnd(queue[s], d) \/ (undo /\ left.id = d)
          /\ SavesFirst(mid, d)
      BY <1>1, <1>6, <2>1, AppendQuery DEF mid, IsSave, IsEnd, OwnInv
    <2>5. undo /\ left.id = d => \A j \in Slots : Holds(s, j, d) => j = k
      BY <2>1 DEF OwnInv, undo
    <2>6. Online(s, d)' => Online(s, d) /\ ~(undo /\ left.id = d)
      BY <2>3, <2>5 DEF Online
    <2> QED BY <1>2, <2>1, <2>2, <2>3, <2>4, <2>6 DEF OwnInv
  <1>13. ServerInv(s)'
    BY <1>2, <1>11, <1>12 DEF ServerInv, DownInv
  <1> QED BY <1>2, <1>3, <1>13, OtherServersNoRow

(* Clients do not touch rows, queues or ch[] beyond their own entry.       *)
LEMMA ClientsOwner ==
    ASSUME TypeOK, OwnershipInv, NEW s \in Servers, Clients(s)
    PROVE  OwnershipInv'
  <1>1. CASE LoginAges(s)
    BY <1>1, QuietStep DEF LoginAges, SetLogin, OnlyAt, TypeOK, Answers
  <1>2. ASSUME NEW c \in Chars, Connect(s, c) \/ Disconnect(s, c) PROVE OwnershipInv'
    BY <1>2 DEF Connect, Disconnect, OwnershipInv, ServerInv, LoginInv, DownInv,
                OwnInv, Honest, Online, Holds
  <1>3. ASSUME NEW c \in Chars, FindLoginStart(s, c) \/ FindLoginStale(s, c)
        PROVE  OwnershipInv'
    BY <1>3, FindLoginOwner
  <1>4. ASSUME NEW c \in Chars,
               \/ CollectRefusal(s, c) \/ CollectRedirect(s, c)
               \/ CollectChar(s, c) \/ CollectNothing(s, c)
        PROVE  OwnershipInv'
    <2>1. /\ OnlyAt(s) /\ up'[s] = "up" /\ UNCHANGED <<row, robbed>>
          /\ login[s].status # "read" /\ login'[s].status = "empty"
      BY <1>4, EmptyLoginType
      DEF CollectRefusal, CollectRedirect, CollectChar, CollectNothing, Collect,
          OnlyAt, SetLogin, SetChr, AddQuery, TypeOK
    <2>2. \/ queue'[s] = queue[s]
          \/ queue'[s] = Append(queue[s], Query("rescue", c))
      BY <1>4 DEF CollectRefusal, CollectRedirect, CollectChar, CollectNothing,
                  AddQuery, TypeOK
    <2>3. Query("rescue", c) \in Queries /\ Query("rescue", c).op = "rescue"
      BY QueryType DEF Query
    <2>4. \A k \in Slots : /\ chr'[s][k].used = chr[s][k].used
                           /\ chr'[s][k].id = chr[s][k].id
      <3>1. \A k \in Slots : chr[s][k] \in Copies
        BY DEF TypeOK
      <3>2. CollectChar(s, c) => login[s].cn \in Slots
        BY DEF CollectChar, TypeOK, Logins
      <3>3. \A k \in Slots : \/ chr'[s][k] = chr[s][k]
                             \/ chr'[s][k] = [chr[s][k] EXCEPT !.link = "player"]
        BY <1>4, <3>2, HelperAt
        DEF CollectRefusal, CollectRedirect, CollectChar, CollectNothing
      <3> QED BY <3>1, <3>3 DEF Copies
    <2> QED BY <2>1, <2>2, <2>3, <2>4, QuietStep
  <1> QED BY <1>1, <1>2, <1>3, <1>4 DEF Clients

(* The main thread acts on a login: the character it creates was nowhere,  *)
(* and nothing of it waits in the queue.                                   *)
LEMMA LoginTickOwner ==
    ASSUME TypeOK, OwnershipInv, NEW s \in Servers, LoginTick(s)
    PROVE  OwnershipInv'
  <1> DEFINE l == login[s]
  <1>1. /\ ServerInv(s) /\ queue[s] \in Seq(Queries) /\ l \in Logins
        /\ chr[s] \in [Slots -> Copies]
    BY DEF OwnershipInv, TypeOK
  <1>2. /\ l.status = "create" /\ l.id \in Chars /\ up[s] = "up" /\ up' = up
        /\ UNCHANGED <<row, robbed>>
    BY <1>1 DEF LoginTick, UsurpMissed, CreateNoSlot, Usurp, CreateChar,
                CreateNoItem, CreateNoTile, TickLogin, Logins
  <1>3. OnlyAt(s)
    BY HelperAt DEF LoginTick, UsurpMissed, CreateNoSlot, Usurp, CreateChar,
                    CreateNoItem, CreateNoTile, OnlyAt
  <1>4. /\ Answer(s, "refused").status = "refused"
        /\ \A k \in Slots :
              /\ LoginOk(s, k, TRUE).status = "ok" /\ LoginOk(s, k, TRUE).cn = k
              /\ LoginOk(s, k, FALSE).status = "ok" /\ LoginOk(s, k, FALSE).cn = k
    <2>1. EmptyLogin \in Logins /\ l.id \in Chars
      BY <1>2, EmptyLoginType
    <2>2. \A st : Answer(s, st).status = st
      BY <2>1 DEF Answer, Logins
    <2>3. \A st \in Answers : Answer(s, st) \in
              [status : {"empty", "read", "create"} \cup Answers,
               id : Chars \cup {NoChar}, current : BOOLEAN, ver : Versions,
               mirror : Mirrors \cup {0}, cn : Slots \cup {NoSlot},
               didusurp : BOOLEAN, stale : BOOLEAN, to : Servers \cup {NoServer}]
      BY <2>1 DEF Answer, Logins
    <2> QED BY <2>2, <2>3 DEF LoginOk, Answers
  <1>5. NoLoads(queue[s]) /\ LoadLast(queue[s])
    BY <1>1, <1>2 DEF ServerInv, LoginInv, NoLoads
  <1>6. CASE UsurpMissed(s) \/ CreateNoSlot(s)
    BY <1>2, <1>3, <1>4, <1>6, QuietStep, HelperAt DEF UsurpMissed, CreateNoSlot
  <1>7. ASSUME NEW k \in Slots, Usurp(s, k) PROVE OwnershipInv'
    <2>1. /\ queue' = queue /\ login'[s].status = "ok" /\ login'[s].cn = k
          /\ Holds(s, k, l.id)
      <3>1. login'[s] = LoginOk(s, k, TRUE)
        BY <1>7, HelperAt DEF Usurp
      <3> QED BY <1>4, <1>7, <3>1 DEF Usurp
    <2>2. \A j \in Slots : /\ chr'[s][j].used = chr[s][j].used
                           /\ chr'[s][j].id = chr[s][j].id
      BY <1>1, <1>7, HelperAt DEF Usurp, Copies
    <2>3. LoginInv(s)'
      BY <1>5, <2>1 DEF LoginInv, NoLoads
    <2>4. ASSUME NEW c \in Honest' PROVE OwnInv(s, c)'
      <3>1. OwnInv(s, c) /\ row' = row
        BY <1>1, <1>2 DEF ServerInv, Honest
      <3>2. \A j \in Slots : Holds(s, j, c)' <=> Holds(s, j, c)
        BY <2>2 DEF Holds
      <3>3. Online(s, c)' <=> Online(s, c)
        BY <3>2 DEF Online
      <3>4. chr'[s][k].id = c => Holds(s, k, c)
        BY <2>1, <2>2 DEF Holds
      <3> QED BY <2>1, <3>1, <3>2, <3>3, <3>4 DEF OwnInv
    <2>5. ServerInv(s)'
      BY <1>2, <2>3, <2>4 DEF ServerInv, DownInv
    <2> QED BY <1>2, <1>3, <2>5, OtherServersNoRow
  <1>8. ASSUME NEW k \in Slots, CreateChar(s, k) \/ CreateNoItem(s, k)
        PROVE  OwnershipInv'
    <2>1. /\ queue' = queue /\ ~l.current /\ ~chr[s][k].used
          /\ login'[s].status \in {"ok", "refused"}
          /\ login'[s].status = "ok" => login'[s].cn = k
      <3>1. login'[s] = LoginOk(s, k, FALSE) \/ login'[s] = Answer(s, "refused")
        BY <1>8, HelperAt DEF CreateChar, CreateNoItem
      <3> QED BY <1>4, <1>8, <3>1 DEF CreateChar, CreateNoItem
    <2>2. /\ chr'[s][k].used /\ chr'[s][k].id = l.id
          /\ \A j \in Slots \ {k} : chr'[s][j] = chr[s][j]
      <3>1. \A c, v, m : Player(c, v, m).used /\ Player(c, v, m).id = c
        BY DEF Player
      <3>2. PICK v, m : SetChr(s, k, Player(l.id, v, m))
        BY <1>8 DEF CreateChar, CreateNoItem
      <3> QED BY <3>1, <3>2, HelperAt
    <2>3. LoginInv(s)'
      BY <1>5, <2>1 DEF LoginInv, NoLoads
    <2>4. ASSUME NEW c \in Honest' PROVE OwnInv(s, c)'
      <3>1. OwnInv(s, c) /\ row' = row
        BY <1>1, <1>2 DEF ServerInv, Honest
      <3>2. \A j \in Slots : Holds(s, j, c)' <=> Holds(s, j, c) \/ (j = k /\ c = l.id)
        BY <2>1, <2>2 DEF Holds
      <3>3. c = l.id => /\ row[c].cur = s /\ ~Online(s, c) /\ ~HasEnd(queue[s], c)
        BY <1>2, <2>1, <3>1 DEF OwnInv
      <3>4. Online(s, c)' <=> Online(s, c) \/ c = l.id
        BY <3>2 DEF Online
      <3>5. c = l.id => \A j \in Slots : ~Holds(s, j, c)
        BY <3>3 DEF Online
      <3> QED BY <2>1, <2>2, <3>1, <3>2, <3>3, <3>4, <3>5 DEF OwnInv
    <2>5. ServerInv(s)'
      BY <1>2, <2>3, <2>4 DEF ServerInv, DownInv
    <2> QED BY <1>2, <1>3, <2>5, OtherServersNoRow
  <1>9. ASSUME NEW k \in Slots, CreateNoTile(s, k) PROVE OwnershipInv'
    <2> DEFINE q == Query("release", l.id)
    <2>1. /\ queue'[s] = Append(queue[s], q) /\ q \in Queries
          /\ q.op = "release" /\ q.c = l.id
          /\ login'[s].status = "refused" /\ ~l.current /\ ~chr[s][k].used
      BY <1>2, <1>4, <1>9, HelperAt, QueryType DEF CreateNoTile, Query
    <2>2. /\ ~chr'[s][k].used
          /\ \A j \in Slots \ {k} : chr'[s][j] = chr[s][j]
      BY <1>9, HelperAt DEF CreateNoTile, Free
    <2> HIDE DEF q
    <2>3. LoginInv(s)'
      <3>1. LoadLast(queue'[s]) /\ NoLoads(queue'[s])
        BY <1>1, <1>5, <2>1, AppendLoad
      <3> QED BY <2>1, <3>1 DEF LoginInv, NoLoads
    <2>4. ASSUME NEW c \in Honest' PROVE OwnInv(s, c)'
      <3>1. OwnInv(s, c) /\ row' = row
        BY <1>1, <1>2 DEF ServerInv, Honest
      <3>2. \A j \in Slots : Holds(s, j, c)' <=> Holds(s, j, c)
        BY <2>1, <2>2 DEF Holds
      <3>3. Online(s, c)' <=> Online(s, c)
        BY <3>2 DEF Online
      <3>4. c = l.id => ~Online(s, c)
        BY <1>2, <2>1, <3>1 DEF OwnInv
      <3>5. /\ HasSave(queue'[s], c) <=> HasSave(queue[s], c)
            /\ HasEnd(queue'[s], c) <=> HasEnd(queue[s], c) \/ c = l.id
            /\ SavesFirst(queue'[s], c)
        BY <1>1, <2>1, <3>1, AppendQuery DEF IsSave, IsEnd, OwnInv
      <3> QED BY <2>1, <3>1, <3>2, <3>3, <3>4, <3>5 DEF OwnInv
    <2>5. ServerInv(s)'
      BY <1>2, <2>3, <2>4 DEF ServerInv, DownInv
    <2> QED BY <1>2, <1>3, <2>5, OtherServersNoRow
  <1> QED BY <1>6, <1>7, <1>8, <1>9 DEF LoginTick

(* A character leaves: in the step that frees its entry its last save is   *)
(* appended, after everything else the server writes for it.               *)
LEMMA LeaveOwner ==
    ASSUME TypeOK, OwnershipInv, NEW s \in Servers, OnlyAt(s),
           UNCHANGED <<row, robbed>>, up'[s] # "down", login'[s] = login[s],
           NEW k \in Slots, chr[s][k].used,
           \A j \in Slots : /\ chr'[s][j].used <=> chr[s][j].used /\ j # k
                            /\ chr'[s][j].id = chr[s][j].id,
           \/ chr[s][k].id = NoChar /\ queue'[s] = queue[s]
           \/ \E q \in Queries : /\ q.op \in {"backup", "logout"} /\ q.c = chr[s][k].id
                                 /\ queue'[s] = Append(queue[s], q)
    PROVE  OwnershipInv'
  <1> DEFINE id == chr[s][k].id
  <1>1. ServerInv(s) /\ queue[s] \in Seq(Queries) /\ login[s] \in Logins
    BY DEF OwnershipInv, TypeOK
  <1>2. ASSUME NEW c \in Honest'
        PROVE  /\ OwnInv(s, c) /\ row' = row /\ c # NoChar
               /\ \A j \in Slots : Holds(s, j, c)' <=> Holds(s, j, c) /\ j # k
               /\ Online(s, c)' => Online(s, c) /\ c # id
    <2>1. OwnInv(s, c) /\ row' = row /\ c # NoChar
      BY <1>1, CharsAssumption DEF ServerInv, Honest
    <2>2. \A j \in Slots : Holds(s, j, c)' <=> Holds(s, j, c) /\ j # k
      BY DEF Holds
    <2>3. c = id => \A j \in Slots : Holds(s, j, c) => j = k
      BY <2>1 DEF OwnInv, Holds
    <2> QED BY <2>1, <2>2, <2>3 DEF Online
  <1>3. CASE id = NoChar /\ queue'[s] = queue[s]
    <2>1. LoginInv(s)'
      BY <1>1, <1>3 DEF ServerInv, LoginInv
    <2>2. ASSUME NEW c \in Honest' PROVE OwnInv(s, c)'
      BY <1>1, <1>2, <1>3 DEF OwnInv, Logins
    <2>3. ServerInv(s)'
      BY <2>1, <2>2 DEF ServerInv, DownInv
    <2> QED BY <2>3, OtherServersNoRow
  <1>4. ASSUME NEW q \in Queries, q.op \in {"backup", "logout"}, q.c = id,
               queue'[s] = Append(queue[s], q)
        PROVE  OwnershipInv'
    <2>1. LoginInv(s)'
      BY <1>1, <1>4, AppendLoad DEF ServerInv, LoginInv
    <2>2. ASSUME NEW c \in Honest' PROVE OwnInv(s, c)'
      <3>1. c = id => Online(s, c) /\ row[c].cur = s /\ ~HasEnd(queue[s], c)
        BY <1>2 DEF OwnInv, Online, Holds
      <3>2. /\ HasSave(queue'[s], c) <=> HasSave(queue[s], c) \/ c = id
            /\ HasEnd(queue'[s], c) => HasEnd(queue[s], c) \/ c = id
            /\ SavesFirst(queue'[s], c)
        BY <1>1, <1>2, <1>4, <3>1, AppendQuery DEF IsSave, IsEnd, OwnInv
      <3>3. login[s].status = "ok" => login[s].cn \in Slots
        BY <1>1 DEF Logins
      <3> QED BY <1>2, <3>1, <3>2, <3>3 DEF OwnInv
    <2>3. ServerInv(s)'
      BY <2>1, <2>2 DEF ServerInv, DownInv
    <2> QED BY <2>3, OtherServersNoRow
  <1> QED BY <1>3, <1>4

(* The same, for the steps that call kick_char.                            *)
LEMMA KickCharOwner ==
    ASSUME TypeOK, OwnershipInv, NEW s \in Servers, NEW k \in Slots, NEW area \in Areas,
           chr[s][k].used, KickChar(s, k, area), up[s] # "down",
           UNCHANGED <<row, up, login, robbed>>
    PROVE  OwnershipInv'
  <1> DEFINE id == chr[s][k].id
  <1>1. chr[s][k] \in Copies /\ id \in Chars \cup {NoChar}
    BY DEF TypeOK, Copies
  <1>2. OnlyAt(s)
    BY HelperAt DEF KickChar, OnlyAt, TypeOK
  <1>3. \A j \in Slots : /\ chr'[s][j].used <=> chr[s][j].used /\ j # k
                         /\ chr'[s][j].id = chr[s][j].id
    BY HelperAt DEF KickChar, Free
  <1>4. \/ id = NoChar /\ queue'[s] = queue[s]
        \/ id \in Chars /\ queue'[s] = Append(queue[s], SaveChar(chr[s][k], area))
    BY <1>1 DEF KickChar, TypeOK
  <1>5. id \in Chars => /\ SaveChar(chr[s][k], area) \in Queries
                        /\ SaveChar(chr[s][k], area).op \in {"backup", "logout"}
                        /\ SaveChar(chr[s][k], area).c = id
    BY <1>1, SaveCharType DEF SaveChar
  <1> QED BY <1>2, <1>3, <1>4, <1>5, LeaveOwner

(* What leaves the game queues its save before the release of the row.     *)
LEMMA GameOwner ==
    ASSUME TypeOK, OwnershipInv, NEW s \in Servers, Game(s)
    PROVE  OwnershipInv'
  <1>1. ServerInv(s) /\ queue[s] \in Seq(Queries) /\ login[s] \in Logins
        /\ \A j \in Slots : chr[s][j] \in Copies
    BY DEF OwnershipInv, TypeOK
  <1>2. CASE Periodic(s)
    <2>1. PICK op \in {"alive", "arealist"} : AddQuery(s, Query(op, NoChar))
      BY <1>2 DEF Periodic
    <2>2. Query(op, NoChar) \in Queries /\ Query(op, NoChar).op = op
      BY QueryType DEF Query
    <2> QED BY <1>2, <2>1, <2>2, HelperAt, QuietStep DEF Periodic, OnlyAt
  <1> SUFFICES ASSUME NEW k \in Slots,
                      \/ Progress(s, k) \/ Backup(s, k) \/ LoseConnection(s, k)
                      \/ LostconExit(s, k) \/ ExitChar(s, k)
                      \/ SpawnNpc(s, k) \/ RemoveNpc(s, k)
                      \/ \E area \in Areas, m \in Mirrors : ChangeArea(s, k, area, m)
               PROVE  OwnershipInv'
    BY <1>2 DEF Game
  <1>3. CASE Progress(s, k)
    <2>1. \A j \in Slots : chr'[s][j].used = chr[s][j].used /\ chr'[s][j].id = chr[s][j].id
      BY <1>1, <1>3, HelperAt DEF Progress, Copies
    <2> QED BY <1>3, <2>1, HelperAt, QuietStep DEF Progress, OnlyAt
  <1>4. CASE LoseConnection(s, k)
    <2>1. \A j \in Slots : chr'[s][j].used = chr[s][j].used /\ chr'[s][j].id = chr[s][j].id
      BY <1>1, <1>4, HelperAt DEF LoseConnection, Copies
    <2> QED BY <1>4, <2>1, HelperAt, QuietStep DEF LoseConnection, OnlyAt
  <1>5. CASE LostconExit(s, k)
    BY <1>5, KickCharOwner DEF LostconExit
  <1>6. CASE ExitChar(s, k)
    BY <1>6, KickCharOwner DEF ExitChar
  <1>7. CASE Backup(s, k)
    <2> DEFINE q == SaveChar(chr[s][k], 0)
    <2>1. chr[s][k].id \in Chars /\ chr[s][k].used
      BY <1>1, <1>7 DEF Backup, Copies
    <2>2. 3 \in Areas
      BY DEF Areas
    <2>3. /\ q \in Queries /\ q.op = "backup" /\ q.c = chr[s][k].id
          /\ queue'[s] = Append(queue[s], q)
      BY <1>1, <1>7, <2>1, <2>2, SaveCharType, HelperAt DEF SaveChar, Backup
    <2> HIDE DEF q
    <2>4. LoginInv(s)'
      BY <1>1, <1>7, <2>3, AppendLoad DEF ServerInv, LoginInv, Backup
    <2>5. ASSUME NEW c \in Honest' PROVE OwnInv(s, c)'
      <3>1. OwnInv(s, c) /\ row' = row /\ login' = login
        BY <1>1, <1>7 DEF ServerInv, Honest, Backup
      <3>2. \A j \in Slots : Holds(s, j, c)' <=> Holds(s, j, c)
        BY <1>7 DEF Holds, Backup
      <3>3. Online(s, c)' <=> Online(s, c)
        BY <3>2 DEF Online
      <3>4. c = chr[s][k].id => Online(s, c)
        BY <2>1 DEF Online, Holds
      <3>5. /\ HasSave(queue'[s], c) <=> HasSave(queue[s], c) \/ c = chr[s][k].id
            /\ HasEnd(queue'[s], c) <=> HasEnd(queue[s], c)
            /\ SavesFirst(queue'[s], c)
        BY <1>1, <2>3, <3>1, <3>4, AppendQuery DEF IsSave, IsEnd, OwnInv
      <3> QED BY <1>7, <3>1, <3>2, <3>3, <3>4, <3>5 DEF OwnInv, Backup
    <2>6. ServerInv(s)'
      BY <1>7, <2>4, <2>5 DEF ServerInv, DownInv, Backup
    <2> QED BY <1>7, <2>6, HelperAt, OtherServersNoRow DEF Backup, OnlyAt
  <1>8. CASE SpawnNpc(s, k)
    <2>1. /\ ~chr[s][k].used /\ chr'[s][k].id = NoChar
          /\ \A j \in Slots \ {k} : chr'[s][j] = chr[s][j]
      BY <1>8, HelperAt DEF SpawnNpc, Npc
    <2>2. LoginInv(s)'
      BY <1>1, <1>8 DEF ServerInv, LoginInv, SpawnNpc
    <2>3. ASSUME NEW c \in Honest' PROVE OwnInv(s, c)'
      <3>1. OwnInv(s, c) /\ c # NoChar
        BY <1>1, <1>8, CharsAssumption DEF ServerInv, Honest, SpawnNpc
      <3>2. \A j \in Slots : Holds(s, j, c)' <=> Holds(s, j, c)
        BY <2>1, <3>1 DEF Holds
      <3>3. Online(s, c)' <=> Online(s, c)
        BY <3>2 DEF Online
      <3>4. login[s].status = "ok" => login[s].cn \in Slots
        BY <1>1 DEF Logins
      <3> QED BY <1>8, <2>1, <3>1, <3>2, <3>3, <3>4 DEF OwnInv, SpawnNpc
    <2>4. ServerInv(s)'
      BY <1>8, <2>2, <2>3 DEF ServerInv, DownInv, SpawnNpc
    <2> QED BY <1>8, <2>4, HelperAt, OtherServersNoRow DEF SpawnNpc, OnlyAt
  <1>9. CASE RemoveNpc(s, k)
    <2>1. /\ chr[s][k].used /\ chr[s][k].id = NoChar
          /\ \A j \in Slots : /\ chr'[s][j].used <=> chr[s][j].used /\ j # k
                              /\ chr'[s][j].id = chr[s][j].id
      BY <1>9, HelperAt DEF RemoveNpc, Free, Holds
    <2> QED BY <1>9, <2>1, HelperAt, LeaveOwner DEF RemoveNpc, OnlyAt
  <1>10. ASSUME NEW area \in Areas, NEW m \in Mirrors, ChangeArea(s, k, area, m)
         PROVE  OwnershipInv'
    <2> DEFINE copy == [chr[s][k] EXCEPT !.mirror = m]
               q == SaveChar(copy, area)
    <2>1. /\ copy \in Copies /\ copy.used /\ copy.id \in Chars
          /\ copy.id = chr[s][k].id /\ copy.used = chr[s][k].used
      BY <1>1, <1>10 DEF ChangeArea, Copies
    <2>2. q \in Queries /\ q.op \in {"backup", "logout"} /\ q.c = chr[s][k].id
      BY <2>1, SaveCharType DEF SaveChar
    <2>3. OnlyAt(s) /\ UNCHANGED <<row, robbed, up, login>> /\ up[s] = "up"
      BY <1>10, HelperAt DEF ChangeArea, OnlyAt
    <2>4. \/ AddQuery(s, q) /\ SetChr(s, k, Free(copy.id))
          \/ queue' = queue /\ SetChr(s, k, copy)
      BY <1>10 DEF ChangeArea
    <2> HIDE DEF copy, q
    <2>5. CASE AddQuery(s, q) /\ SetChr(s, k, Free(copy.id))
      <3>1. /\ queue'[s] = Append(queue[s], q) /\ chr[s][k].used
            /\ \A j \in Slots : /\ chr'[s][j].used <=> chr[s][j].used /\ j # k
                                /\ chr'[s][j].id = chr[s][j].id
        BY <2>1, <2>5, HelperAt DEF Free
      <3> QED BY <2>2, <2>3, <3>1, LeaveOwner
    <2>6. CASE queue' = queue /\ SetChr(s, k, copy)
      <3>1. \A j \in Slots : chr'[s][j].used = chr[s][j].used /\ chr'[s][j].id = chr[s][j].id
        BY <2>1, <2>6, HelperAt
      <3> QED BY <2>3, <2>6, <3>1, QuietStep
    <2> QED BY <2>4, <2>5, <2>6
  <1> QED BY <1>3, <1>4, <1>5, <1>6, <1>7, <1>8, <1>9, <1>10

(* The database thread takes a query: every part of OwnInv that looks at   *)
(* the queue only gets weaker.                                             *)
LEMMA TakeQuery ==
    ASSUME TypeOK, OwnershipInv, NEW s \in Servers, NEW ops, NextQuery(s, ops),
           UNCHANGED <<up, chr>>,
           \A t \in Servers \ {s} : login'[t] = login[t]
    PROVE  /\ OnlyAt(s) /\ up'[s] # "down" /\ queue'[s] = Tail(queue[s])
           /\ queue[s] \in Seq(Queries) /\ queue[s] # <<>> /\ Head(queue[s]) \in Queries
           /\ LoadLast(queue'[s])
           /\ \A i \in DOMAIN queue'[s] :
                 queue'[s][i].op = "load"
                 => login[s].status = "read" /\ queue'[s][i].c = login[s].id
           /\ \A c \in Honest : /\ OwnInv(s, c) /\ SavesFirst(queue'[s], c)
                                /\ HasSave(queue'[s], c) => HasSave(queue[s], c)
                                /\ HasEnd(queue'[s], c) => HasEnd(queue[s], c)
           /\ \A c : Online(s, c)' = Online(s, c)
           /\ \A c : \A k \in Slots : Holds(s, k, c)' = Holds(s, k, c)
  <1>1. ServerInv(s) /\ queue[s] \in Seq(Queries) /\ queue[s] # <<>>
    BY DEF OwnershipInv, TypeOK, NextQuery
  <1>2. queue'[s] = Tail(queue[s]) /\ OnlyAt(s) /\ up'[s] # "down"
    BY DEF NextQuery, TypeOK, OnlyAt, Running
  <1>3. Head(queue[s]) \in Queries
    BY NextQueryType
  <1>4. /\ LoadLast(queue'[s])
        /\ \A i \in DOMAIN queue'[s] :
              queue'[s][i].op = "load"
              => login[s].status = "read" /\ queue'[s][i].c = login[s].id
    BY <1>1, <1>2, TailQuery DEF ServerInv, LoginInv
  <1>5. \A c \in Honest : OwnInv(s, c) /\ SavesFirst(queue'[s], c)
                         /\ (HasSave(queue'[s], c) => HasSave(queue[s], c))
                         /\ (HasEnd(queue'[s], c) => HasEnd(queue[s], c))
    BY <1>1, <1>2, TailQuery DEF ServerInv, OwnInv
  <1>6. /\ \A c : Online(s, c)' = Online(s, c)
        /\ \A c : \A k \in Slots : Holds(s, k, c)' = Holds(s, k, c)
    BY DEF Online, Holds
  <1> QED BY <1>1, <1>2, <1>3, <1>4, <1>5, <1>6

(* A write that frees a row of this server: no copy of the character is    *)
(* left then, and no save behind it.                                       *)
LEMMA WriteOwner ==
    ASSUME TypeOK, OwnershipInv, NEW s \in Servers,
           DbSave(s) \/ DbRelease(s)
    PROVE  OwnershipInv'
  <1> DEFINE q == Head(queue[s])
  <1>1. /\ NextQuery(s, {"backup", "logout", "release"})
        /\ UNCHANGED <<alive, up, login, chr, view, client, robbed>>
    BY DEF DbSave, DbRelease, NextQuery
  <1>2. \A c \in Chars : \/ row'[c].cur = row[c].cur
                        \/ /\ row[c].cur = s /\ row'[c].cur = NoServer
                           /\ IsEnd(q, c)
    <2>1. q \in Queries /\ \A c \in Chars : row[c].cur \in Servers \cup {NoServer}
      BY <1>1, NextQueryType DEF TypeOK
    <2>2. CASE DbSave(s)
      <3>1. q.c \in Chars /\ q.op \in {"backup", "logout"}
        BY <2>1, <2>2 DEF DbSave, NextQuery, Queries
      <3>2. CASE row[q.c].cur # s
        BY <2>2, <3>2 DEF DbSave
      <3>3. CASE row[q.c].cur = s /\ q.op = "backup"
        <4>1. row' = [row EXCEPT ![q.c] =
                        [row[q.c] EXCEPT !.ver = q.ver, !.mirror = q.mirror]]
          BY <2>2, <3>3 DEF DbSave, SetRow
        <4> QED BY <3>1, <4>1 DEF TypeOK
      <3>4. CASE row[q.c].cur = s /\ q.op = "logout"
        <4>1. row' = [row EXCEPT ![q.c] = [cur |-> NoServer, allowed |-> q.area,
                                           mirror |-> q.mirror, ver |-> q.ver]]
          BY <2>2, <3>4 DEF DbSave, SetRow
        <4> QED BY <3>1, <3>4, <4>1 DEF TypeOK, IsEnd
      <3> QED BY <3>1, <3>2, <3>3, <3>4
    <2>3. CASE DbRelease(s)
      <3>1. CASE q.c \in Chars /\ row[q.c].cur = s
        <4>1. row' = [row EXCEPT ![q.c] = [row[q.c] EXCEPT !.cur = NoServer]]
          BY <2>3, <3>1 DEF DbRelease, SetRow
        <4> QED BY <2>3, <3>1, <4>1 DEF TypeOK, IsEnd, DbRelease, NextQuery
      <3>2. CASE ~(q.c \in Chars /\ row[q.c].cur = s)
        BY <2>3, <3>2 DEF DbRelease
      <3> QED BY <3>1, <3>2
    <2> QED BY <2>2, <2>3
  <1> HIDE DEF q
  <1>3. LoginInv(s)' /\ DownInv(s)'
    BY <1>1, TakeQuery DEF LoginInv, DownInv
  <1>4. ASSUME NEW c \in Honest' PROVE OwnInv(s, c)'
    <2>1. /\ OwnInv(s, c) /\ SavesFirst(queue'[s], c)
          /\ HasSave(queue'[s], c) => HasSave(queue[s], c)
          /\ HasEnd(queue'[s], c) => HasEnd(queue[s], c)
          /\ Online(s, c)' = Online(s, c)
          /\ \A k \in Slots : Holds(s, k, c)' = Holds(s, k, c)
      BY <1>1, TakeQuery DEF Honest
    <2>2. CASE row'[c].cur = row[c].cur
      BY <1>1, <2>1, <2>2 DEF OwnInv
    <2>3. CASE IsEnd(q, c)
      <3>1. HasEnd(queue[s], c) /\ ~HasSave(queue'[s], c)
        BY <1>1, <2>1, <2>3, TakeQuery, TailQuery DEF q, OwnInv
      <3> QED BY <1>1, <2>1, <3>1 DEF OwnInv
    <2> QED BY <1>2, <2>2, <2>3 DEF Honest
  <1>5. ServerInv(s)'
    BY <1>3, <1>4 DEF ServerInv
  <1> QED BY <1>1, <1>2, <1>5, TakeQuery, OtherServers DEF Honest

(* A login that is refused or sent elsewhere, and queries about areas.     *)
LEMMA HarmlessQuery ==
    ASSUME TypeOK, OwnershipInv, NEW s \in Servers, NEW ops, NextQuery(s, ops),
           UNCHANGED <<row, up, chr, robbed>>,
           \A t \in Servers \ {s} : login'[t] = login[t],
           \/ login' = login
           \/ /\ Head(queue[s]).op = "load"
              /\ login'[s].status \in {"refused", "newarea"}
    PROVE  OwnershipInv'
  <1>1. LoginInv(s)' /\ DownInv(s)'
    <2>1. CASE login' = login
      BY <2>1, TakeQuery DEF LoginInv, DownInv
    <2>2. CASE Head(queue[s]).op = "load" /\ login'[s].status \in {"refused", "newarea"}
      <3>1. NoLoads(queue'[s])
        <4>1. LoadLast(queue[s]) /\ queue[s] \in Seq(Queries) /\ queue[s] # <<>>
          BY TakeQuery DEF OwnershipInv, ServerInv, LoginInv
        <4>2. queue'[s] = Tail(queue[s])
          BY TakeQuery
        <4> QED BY <2>2, <4>1, <4>2, TailQuery
      <3> QED BY <2>2, <3>1, TakeQuery DEF LoginInv, DownInv, NoLoads
    <2> QED BY <2>1, <2>2
  <1>2. ASSUME NEW c \in Honest' PROVE OwnInv(s, c)'
    <2>1. /\ OwnInv(s, c) /\ SavesFirst(queue'[s], c)
          /\ HasSave(queue'[s], c) => HasSave(queue[s], c)
          /\ HasEnd(queue'[s], c) => HasEnd(queue[s], c)
          /\ Online(s, c)' = Online(s, c)
          /\ \A k \in Slots : Holds(s, k, c)' = Holds(s, k, c)
      BY TakeQuery DEF Honest
    <2> QED BY <2>1 DEF OwnInv
  <1>3. ServerInv(s)'
    BY <1>1, <1>2 DEF ServerInv
  <1> QED BY <1>3, TakeQuery, OtherServersNoRow

(* A character whose row names no running server is in no memory, in no    *)
(* queue to be saved, and about to be created nowhere.                     *)
LEMMA Nowhere ==
    ASSUME TypeOK, OwnershipInv, NEW c \in Honest, NEW t \in Servers,
           ~(row[c].cur \in Servers /\ Running(row[c].cur))
    PROVE  /\ ~Online(t, c) /\ ~HasSave(queue[t], c)
           /\ ~(/\ login[t].status = "create" /\ login[t].id = c
                /\ ~login[t].current)
  <1>1. OwnInv(t, c) /\ DownInv(t)
    BY DEF OwnershipInv, ServerInv
  <1>2. CASE row[c].cur # t
    BY <1>1, <1>2 DEF OwnInv
  <1>3. CASE row[c].cur = t
    <2>1. up[t] = "down"
      BY <1>3 DEF Running
    <2>2. queue[t] = <<>> /\ login[t] = EmptyLogin /\ \A k \in Slots : ~chr[t][k].used
      BY <1>1, <2>1 DEF DownInv
    <2> QED BY <2>2, EmptyLoginType DEF Online, Holds, HasSave
  <1> QED BY <1>2, <1>3

(* The rescue frees a row without asking who holds the character.  Nobody  *)
(* does, unless the character counts as robbed from now on.                *)
LEMMA RescueOwner ==
    ASSUME TypeOK, OwnershipInv, NEW s \in Servers, DbRescue(s)
    PROVE  OwnershipInv'
  <1> DEFINE c == Head(queue[s]).c
  <1>1. /\ NextQuery(s, {"rescue"})
        /\ UNCHANGED <<alive, up, login, chr, view, client>>
    BY DEF DbRescue
  <1>2. c \in Chars
    BY <1>1, NextQueryType DEF Queries
  <1>3. /\ robbed \subseteq robbed'
        /\ \A d \in Chars \ {c} : row'[d] = row[d]
        /\ row'[c].cur \in {row[c].cur, NoServer}
        /\ c \in Honest' /\ row'[c].cur # row[c].cur
           => ~(row[c].cur \in Servers /\ Running(row[c].cur))
    <2>1. CASE UNCHANGED <<row, robbed>>
      BY <2>1
    <2>2. ASSUME NEW a,
                 SetRow(c, [row[c] EXCEPT !.cur = NoServer, !.allowed = a]),
                 robbed' = IF row[c].cur \in Servers /\ Running(row[c].cur)
                           THEN robbed \cup {c} ELSE robbed
          PROVE  <1>3!:
      <3>1. /\ row'[c].cur = NoServer
            /\ \A d \in Chars \ {c} : row'[d] = row[d]
        BY <1>2, <2>2 DEF SetRow, TypeOK
      <3> QED BY <2>2, <3>1 DEF Honest
    <2> QED BY <2>1, <2>2 DEF DbRescue
  <1> HIDE DEF c
  <1>4. ASSUME NEW t \in Servers, NEW d \in Honest'
        PROVE  OwnInv(t, d)'
    <2>1. d \in Honest /\ OwnInv(t, d)
      BY <1>3 DEF Honest, OwnershipInv, ServerInv
    <2>2. /\ Online(t, d)' = Online(t, d)
          /\ \A k \in Slots : Holds(t, k, d)' = Holds(t, k, d)
      BY <1>1 DEF Online, Holds
    <2>3. /\ SavesFirst(queue'[t], d)
          /\ HasSave(queue'[t], d) => HasSave(queue[t], d)
          /\ HasEnd(queue'[t], d) => HasEnd(queue[t], d)
      BY <1>1, <2>1, TakeQuery DEF OnlyAt, OwnInv
    <2>4. CASE row'[d].cur = row[d].cur
      BY <1>1, <2>1, <2>2, <2>3, <2>4 DEF OwnInv
    <2>5. CASE row'[d].cur # row[d].cur
      <3>1. /\ ~Online(t, d) /\ ~HasSave(queue[t], d)
            /\ ~(/\ login[t].status = "create" /\ login[t].id = d
                 /\ ~login[t].current)
        BY <1>3, <2>1, <2>5, Nowhere DEF Honest
      <3> QED BY <1>1, <2>1, <2>2, <2>3, <3>1 DEF OwnInv
    <2> QED BY <2>4, <2>5
  <1>5. ASSUME NEW t \in Servers PROVE LoginInv(t)' /\ DownInv(t)'
    <2>1. CASE t = s
      BY <1>1, <2>1, TakeQuery DEF LoginInv, DownInv
    <2>2. CASE t # s
      <3>1. OnlyAt(s) /\ LoginInv(t) /\ DownInv(t)
        BY <1>1, TakeQuery DEF OwnershipInv, ServerInv
      <3> QED BY <2>2, <3>1 DEF OnlyAt, LoginInv, DownInv
    <2> QED BY <2>1, <2>2
  <1> QED BY <1>4, <1>5 DEF OwnershipInv, ServerInv

(* A login that goes through.  When the row does not name this server      *)
(* already, the character is nowhere here, no save waits, and no release   *)
(* can be queued behind the login.                                         *)
LEMMA LoadHereOwner ==
    ASSUME TypeOK, OwnershipInv, NEW s \in Servers, NEW c \in Chars, DbLoadHere(s, c)
    PROVE  OwnershipInv'
  <1>1. /\ NextQuery(s, {"load"}) /\ UNCHANGED <<up, chr, robbed>>
        /\ Head(queue[s]).op = "load"
        /\ row[c].cur \in {NoServer, s} /\ login[s] \in Logins
        /\ \A t \in Servers \ {s} : login'[t] = login[t]
    BY HelperAt DEF DbLoadHere, DbLoad, NextQuery, TypeOK
  <1>2. /\ row'[c].cur = s /\ \A d \in Chars \ {c} : row'[d] = row[d]
    BY DEF DbLoadHere, SetRow, TypeOK
  <1>3. /\ login'[s].status = "create"
        /\ login'[s].current <=> row[c].cur = s
        /\ login'[s].id = login[s].id
    <2>1. login'[s] = [Answer(s, "create") EXCEPT !.current = (row[c].cur = s),
                          !.ver = row[c].ver, !.mirror = row[c].mirror]
      BY HelperAt DEF DbLoadHere
    <2>2. /\ Answer(s, "create").id = login[s].id
          /\ Answer(s, "create").status = "create"
          /\ Answer(s, "create") \in
              [status : {"empty", "read", "create"} \cup Answers,
               id : Chars \cup {NoChar}, current : BOOLEAN, ver : Versions,
               mirror : Mirrors \cup {0}, cn : Slots \cup {NoSlot},
               didusurp : BOOLEAN, stale : BOOLEAN, to : Servers \cup {NoServer}]
      BY <1>1, EmptyLoginType DEF Answer, Logins
    <2> QED BY <2>1, <2>2
  <1>4. NoLoads(queue'[s]) /\ \A d : HasEnd(queue'[s], d) => HasSave(queue'[s], d)
    <2>1. LoadLast(queue[s]) /\ queue[s] \in Seq(Queries) /\ queue[s] # <<>>
      BY <1>1, TakeQuery DEF OwnershipInv, ServerInv, LoginInv
    <2>2. queue'[s] = Tail(queue[s])
      BY <1>1, TakeQuery
    <2> QED BY <1>1, <2>1, <2>2, TailQuery
  <1>5. LoginInv(s)' /\ DownInv(s)'
    BY <1>1, <1>3, <1>4, TakeQuery DEF LoginInv, DownInv, NoLoads
  <1>6. login[s].id = c
    <2>1. 1 \in DOMAIN queue[s] /\ Head(queue[s]) = queue[s][1]
      BY <1>1, TakeQuery
    <2> QED BY <1>1, <2>1 DEF OwnershipInv, ServerInv, LoginInv, DbLoadHere, DbLoad
  <1>7. ASSUME NEW d \in Honest' PROVE OwnInv(s, d)'
    <2>1. /\ d \in Chars /\ OwnInv(s, d) /\ SavesFirst(queue'[s], d)
          /\ HasSave(queue'[s], d) => HasSave(queue[s], d)
          /\ HasEnd(queue'[s], d) => HasEnd(queue[s], d)
          /\ Online(s, d)' = Online(s, d)
          /\ \A k \in Slots : Holds(s, k, d)' = Holds(s, k, d)
      BY <1>1, TakeQuery DEF Honest
    <2>2. CASE d # c
      BY <1>2, <1>3, <1>6, <2>1, <2>2 DEF OwnInv
    <2>3. CASE d = c
      <3>1. row[c].cur # s => /\ ~Online(s, c) /\ ~HasSave(queue'[s], c)
                             /\ ~HasEnd(queue'[s], c)
        BY <1>4, <2>1, <2>3 DEF OwnInv
      <3> QED BY <1>2, <1>3, <2>1, <2>3, <3>1 DEF OwnInv
    <2> QED BY <2>2, <2>3
  <1>8. ServerInv(s)'
    BY <1>5, <1>7 DEF ServerInv
  <1>9. \A d \in Honest' : row[d].cur \in Servers \ {s} => row'[d].cur = row[d].cur
    BY <1>1, <1>2, SentinelAssumption DEF Honest
  <1> QED BY <1>1, <1>8, <1>9, TakeQuery, OtherServers

(* Saves, releases, loads and rescues, the steps that change the row.      *)
LEMMA DbThreadOwner ==
    ASSUME TypeOK, OwnershipInv, NEW s \in Servers, DbThread(s)
    PROVE  OwnershipInv'
  <1>1. CASE DbSave(s) \/ DbRelease(s)
    BY <1>1, WriteOwner
  <1>2. CASE DbRescue(s)
    BY <1>2, RescueOwner
  <1>3. CASE DbArea(s)
    BY <1>3, HarmlessQuery DEF DbArea
  <1>4. /\ Answer(s, "refused").status = "refused"
        /\ \A to : [Answer(s, "newarea") EXCEPT !.to = to].status = "newarea"
    <2>1. login[s] \in Logins
      BY DEF TypeOK
    <2>2. \A st \in {"refused", "newarea"} :
             /\ Answer(s, st).status = st
             /\ Answer(s, st) \in
                  [status : {"empty", "read", "create"} \cup Answers,
                   id : Chars \cup {NoChar}, current : BOOLEAN, ver : Versions,
                   mirror : Mirrors \cup {0}, cn : Slots \cup {NoSlot},
                   didusurp : BOOLEAN, stale : BOOLEAN, to : Servers \cup {NoServer}]
      BY <2>1, EmptyLoginType DEF Answer, Logins, Answers
    <2> QED BY <2>2
  <1>5. ASSUME NEW c \in Chars,
               DbLoadRefused(s, c) \/ DbLoadElsewhere(s, c) \/ DbLoadMirror(s, c)
        PROVE  OwnershipInv'
    <2>1. /\ NextQuery(s, {"load"}) /\ Head(queue[s]).op = "load"
          /\ UNCHANGED <<row, up, chr, robbed>>
      BY <1>5 DEF DbLoadRefused, DbLoadElsewhere, DbLoadMirror, DbLoad, NextQuery
    <2>2. /\ login'[s].status \in {"refused", "newarea"}
          /\ \A t \in Servers \ {s} : login'[t] = login[t]
      <3>1. \/ SetLogin(s, Answer(s, "refused"))
            \/ \E to : SetLogin(s, [Answer(s, "newarea") EXCEPT !.to = to])
        BY <1>5 DEF DbLoadRefused, DbLoadElsewhere, DbLoadMirror
      <3>2. CASE SetLogin(s, Answer(s, "refused"))
        BY <1>4, <3>2, HelperAt
      <3>3. ASSUME NEW to, SetLogin(s, [Answer(s, "newarea") EXCEPT !.to = to])
            PROVE  <2>2!:
        <4>1. /\ login'[s] = [Answer(s, "newarea") EXCEPT !.to = to]
              /\ \A t \in Servers \ {s} : login'[t] = login[t]
          BY <3>3, HelperAt
        <4> QED BY <1>4, <4>1
      <3> QED BY <3>1, <3>2, <3>3
    <2> QED BY <2>1, <2>2, HarmlessQuery
  <1>6. ASSUME NEW c \in Chars, DbLoadHere(s, c) PROVE OwnershipInv'
    BY <1>6, LoadHereOwner
  <1> QED BY <1>1, <1>2, <1>3, <1>5, <1>6 DEF DbThread

(* A crash forgets memory and queue, a restart frees the rows of its server*)
(* only.                                                                   *)
LEMMA ProcessOwner ==
    ASSUME TypeOK, OwnershipInv, NEW s \in Servers, Process(s)
    PROVE  OwnershipInv'
  <1>1. ServerInv(s) /\ queue[s] \in Seq(Queries)
    BY DEF OwnershipInv, TypeOK
  <1>2. CASE Start(s)
    <2> DEFINE first == Query("alive", NoChar)
               second == Query("arealist", NoChar)
    <2>1. /\ up'[s] = "up" /\ login'[s] = EmptyLogin /\ UNCHANGED <<chr, robbed>>
          /\ queue'[s] = <<first, second>> /\ \A k \in Slots : ~chr'[s][k].used
      BY <1>1, <1>2 DEF ServerInv, DownInv, Start, TypeOK
    <2>2. OnlyAt(s)
      BY <1>2 DEF Start, OnlyAt, TypeOK
    <2>3. first.op = "alive" /\ second.op = "arealist"
      BY DEF Query
    <2> HIDE DEF first, second
    <2>4. /\ DOMAIN queue'[s] = 1..2
          /\ \A i \in DOMAIN queue'[s] : queue'[s][i].op \in {"alive", "arealist"}
      BY <2>1, <2>3
    <2>5. LoginInv(s)'
      BY <2>1, <2>4, EmptyLoginType DEF LoginInv, LoadLast
    <2>6. ASSUME NEW c \in Honest' PROVE OwnInv(s, c)'
      <3>1. /\ ~HasSave(queue'[s], c) /\ ~HasEnd(queue'[s], c)
            /\ SavesFirst(queue'[s], c)
        BY <2>4 DEF HasSave, HasEnd, SavesFirst, IsSave, IsEnd
      <3>2. \A k \in Slots : ~Holds(s, k, c)'
        BY <2>1 DEF Holds
      <3>3. ~Online(s, c)'
        BY <3>2 DEF Online
      <3>4. login'[s].status = "empty"
        BY <2>1, EmptyLoginType
      <3> QED BY <3>1, <3>2, <3>3, <3>4 DEF OwnInv
    <2>7. ServerInv(s)'
      BY <2>1, <2>5, <2>6 DEF ServerInv, DownInv
    <2>8. \A c \in Honest' : row[c].cur \in Servers \ {s} => row'[c].cur = row[c].cur
      BY <1>2 DEF Start, Honest
    <2> QED BY <2>1, <2>2, <2>7, <2>8, OtherServers
  <1>3. CASE Quit(s)
    BY <1>3, QuietStep DEF Quit, OnlyAt, TypeOK
  <1>4. CASE QuitAlive(s)
    <2>1. Query("dead", NoChar) \in Queries /\ Query("dead", NoChar).op = "dead"
      BY QueryType DEF Query
    <2>2. OnlyAt(s) /\ up'[s] = "closing"
      BY <1>4, HelperAt DEF QuitAlive, OnlyAt, TypeOK
    <2> QED BY <1>4, <2>1, <2>2, HelperAt, QuietStep DEF QuitAlive
  <1>5. ASSUME Gone(s) PROVE OwnershipInv'
    <2>1. /\ up'[s] = "down" /\ queue'[s] = <<>> /\ login'[s] = EmptyLogin
          /\ \A k \in Slots : ~chr'[s][k].used
          /\ UNCHANGED <<row, robbed>>
      BY <1>5 DEF Gone, TypeOK, Free
    <2>2. OnlyAt(s)
      BY <1>5 DEF Gone, OnlyAt, TypeOK
    <2>3. LoginInv(s)' /\ DownInv(s)'
      BY <2>1, EmptyLoginType DEF LoginInv, DownInv, LoadLast
    <2>4. ASSUME NEW c \in Honest' PROVE OwnInv(s, c)'
      <3>1. /\ ~HasSave(queue'[s], c) /\ ~HasEnd(queue'[s], c)
            /\ SavesFirst(queue'[s], c)
        BY <2>1 DEF HasSave, HasEnd, SavesFirst
      <3>2. \A k \in Slots : ~Holds(s, k, c)'
        BY <2>1 DEF Holds
      <3>3. ~Online(s, c)'
        BY <3>2 DEF Online
      <3>4. login'[s].status = "empty"
        BY <2>1, EmptyLoginType
      <3> QED BY <3>1, <3>2, <3>3, <3>4 DEF OwnInv
    <2>5. ServerInv(s)'
      BY <2>3, <2>4 DEF ServerInv
    <2> QED BY <2>1, <2>2, <2>5, OtherServersNoRow
  <1>6. CASE AliveExpires(s)
    BY <1>6 DEF AliveExpires, OwnershipInv, ServerInv, LoginInv, DownInv,
                OwnInv, Honest, Online, Holds
  <1>7. ASSUME NEW k \in Slots, QuitExitChar(s, k) PROVE OwnershipInv'
    BY <1>7, KickCharOwner DEF QuitExitChar
  <1> QED BY <1>2, <1>3, <1>4, <1>5, <1>6, <1>7 DEF Process, Exit, Crash

(* At the start no row names a server and no character is in memory.       *)
LEMMA InitOwner == Init => OwnershipInv
  <1> SUFFICES ASSUME Init, NEW s \in Servers PROVE ServerInv(s)
    BY DEF OwnershipInv
  <1>1. /\ queue[s] = <<>> /\ login[s] = EmptyLogin
        /\ \A k \in Slots : ~chr[s][k].used
    BY DEF Init, Free
  <1>2. login[s].status = "empty"
    BY <1>1, EmptyLoginType
  <1>3. LoginInv(s) /\ DownInv(s)
    BY <1>1, <1>2 DEF LoginInv, DownInv, LoadLast
  <1>4. ASSUME NEW c \in Honest PROVE OwnInv(s, c)
    <2>1. ~HasSave(queue[s], c) /\ ~HasEnd(queue[s], c) /\ SavesFirst(queue[s], c)
      BY <1>1 DEF HasSave, HasEnd, SavesFirst
    <2>2. \A k \in Slots : ~Holds(s, k, c)
      BY <1>1 DEF Holds
    <2> QED BY <1>2, <2>1, <2>2 DEF OwnInv, Online
  <1> QED BY <1>3, <1>4 DEF ServerInv

(* Ownership is invariant: what holds of the queues, the structure login   *)
(* and the rows of all servers in every reachable state.                   *)
THEOREM Ownership == Spec => []OwnershipInv
  <1>1. TypeOK /\ OwnershipInv /\ [Next]_vars => OwnershipInv'
    <2> SUFFICES ASSUME TypeOK, OwnershipInv, [Next]_vars PROVE OwnershipInv'
      OBVIOUS
    <2>1. CASE UNCHANGED vars
      BY <2>1 DEF vars, OwnershipInv, ServerInv, LoginInv, DownInv,
                  OwnInv, Honest, Online, Holds
    <2>2. ASSUME NEW s \in Servers,
                 Clients(s) \/ LoginTick(s) \/ Game(s) \/ DbThread(s) \/ Process(s)
          PROVE  OwnershipInv'
      BY <2>2, ClientsOwner, LoginTickOwner, GameOwner, DbThreadOwner, ProcessOwner
    <2> QED BY <2>1, <2>2 DEF Next
  <1> QED BY <1>1, InitOwner, TypeCorrect, PTL DEF Spec

(* A character that no rescue took from a running server is in the memory  *)
(* of at most one server, and in one entry there, whatever the order in    *)
(* which servers, threads and clients take their steps.                    *)
THEOREM Owner == Spec => []SingleOwner
  <1>1. OwnershipInv => SingleOwner
    <2> SUFFICES ASSUME OwnershipInv,
                        NEW c \in Honest, NEW s \in Servers, NEW t \in Servers,
                        NEW k \in Slots, NEW l \in Slots,
                        Holds(s, k, c), Holds(t, l, c)
                 PROVE  s = t /\ k = l
      BY DEF SingleOwner
    <2>1. OwnInv(s, c) /\ OwnInv(t, c) /\ Online(s, c) /\ Online(t, c)
      BY DEF OwnershipInv, ServerInv, Online
    <2>2. s = t
      BY <2>1 DEF OwnInv
    <2> QED BY <2>1, <2>2 DEF OwnInv
  <1> QED BY <1>1, Ownership, PTL

(* The row of such a character names the server that has it in memory.     *)
THEOREM RowOwner == Spec => []RowNamesOwner
  <1>1. OwnershipInv => RowNamesOwner
    BY DEF OwnershipInv, ServerInv, OwnInv, RowNamesOwner
  <1> QED BY <1>1, Ownership, PTL

-----------------------------------------------------------------------------
(* What a step of server s does to ch[] and to the structure login.        *)

(* No player character appears in an entry, and none gets older data.      *)
Entries(s) ==
    \A k \in Slots :
        chr'[s][k].used =>
        \/ chr'[s][k].id = NoChar
        \/ /\ chr[s][k].used /\ chr'[s][k].id = chr[s][k].id
           /\ chr'[s][k].ver >= chr[s][k].ver

SameLogin(s) ==
    /\ login'[s].status = login[s].status /\ login'[s].id = login[s].id
    /\ login'[s].cn = login[s].cn /\ login'[s].ver = login[s].ver
    /\ login'[s].current = login[s].current

(* No character is read, and no answer LS_OK is given.                     *)
Struct(s) == login'[s].status \notin {"create", "ok"} \/ SameLogin(s)

Smooth(s) == Entries(s) /\ Struct(s)

(* What the saves of c in a queue hold: their versions grow, and are       *)
(* neither below nor above some version.                                   *)
SavesSorted(qu, c) ==
    \A i, j \in DOMAIN qu :
        i < j /\ IsSave(qu[i], c) /\ IsSave(qu[j], c) => qu[i].ver <= qu[j].ver

SavesAtLeast(qu, c, v) == \A i \in DOMAIN qu : IsSave(qu[i], c) => qu[i].ver >= v
SavesAtMost(qu, c, v) == \A i \in DOMAIN qu : IsSave(qu[i], c) => qu[i].ver <= v

(* All the saves of c in the queue new are in old, in the same order.      *)
FewerSaves(new, old, c) ==
    /\ SavesSorted(old, c) => SavesSorted(new, c)
    /\ \A v \in Versions : SavesAtLeast(old, c, v) => SavesAtLeast(new, c, v)
    /\ \A v \in Versions : SavesAtMost(old, c, v) => SavesAtMost(new, c, v)

(* The step appends the save q of the character in entry k ...             *)
SaveStep(s, k, q) ==
    /\ q \in Queries /\ IsSave(q, q.c)
    /\ Holds(s, k, q.c) /\ q.ver = chr[s][k].ver
    /\ queue'[s] = Append(queue[s], q)

(* ... or no save at all.                                                  *)
QueueStep(s) ==
    \/ \A c \in Chars : FewerSaves(queue'[s], queue[s], c)
    \/ \E k \in Slots : \E q \in Queries : SaveStep(s, k, q)

(* Queues that stay, lose their head, or get a query that saves nothing.   *)
LEMMA NoSaveAppended ==
    ASSUME NEW qu \in Seq(Queries), NEW q \in Queries, NEW c, ~IsSave(q, c)
    PROVE  FewerSaves(Append(qu, q), qu, c)
  <1> DEFINE new == Append(qu, q)
  <1>1. /\ DOMAIN new = DOMAIN qu \cup {Len(qu) + 1}
        /\ \A i \in DOMAIN qu : new[i] = qu[i]
        /\ new[Len(qu) + 1] = q
    OBVIOUS
  <1> HIDE DEF new
  <1>2. \A i \in DOMAIN new : IsSave(new[i], c) => i \in DOMAIN qu /\ new[i] = qu[i]
    BY <1>1
  <1>3. FewerSaves(new, qu, c)
    BY <1>2 DEF FewerSaves, SavesSorted, SavesAtLeast, SavesAtMost
  <1> QED BY <1>3 DEF new

(* The queue without its first query.                                      *)
LEMMA TailFewer ==
    ASSUME NEW qu \in Seq(Queries), qu # <<>>, NEW c
    PROVE  FewerSaves(Tail(qu), qu, c)
  <1> DEFINE rest == Tail(qu)
  <1>1. \A i \in DOMAIN rest : i \in Nat /\ i + 1 \in DOMAIN qu /\ rest[i] = qu[i + 1]
    OBVIOUS
  <1> HIDE DEF rest
  <1>2. SavesSorted(qu, c) => SavesSorted(rest, c)
    <2> SUFFICES ASSUME SavesSorted(qu, c),
                        NEW i \in DOMAIN rest, NEW j \in DOMAIN rest,
                        i < j, IsSave(rest[i], c), IsSave(rest[j], c)
                 PROVE  rest[i].ver <= rest[j].ver
      BY DEF SavesSorted
    <2>1. i + 1 < j + 1
      BY <1>1
    <2> QED BY <1>1, <2>1 DEF SavesSorted
  <1>3. FewerSaves(rest, qu, c)
    BY <1>1, <1>2 DEF FewerSaves, SavesAtLeast, SavesAtMost
  <1> QED BY <1>3 DEF rest

(* The first query of a queue among those behind it.                       *)
LEMMA HeadSave ==
    ASSUME NEW qu \in Seq(Queries), qu # <<>>, NEW c, IsSave(Head(qu), c),
           SavesSorted(qu, c)
    PROVE  /\ HasSave(qu, c)
           /\ SavesAtLeast(Tail(qu), c, Head(qu).ver)
           /\ \A v : SavesAtLeast(qu, c, v) => Head(qu).ver >= v
           /\ \A v : SavesAtMost(qu, c, v) => Head(qu).ver <= v
  <1> DEFINE rest == Tail(qu)
  <1>1. /\ \A i \in DOMAIN rest : /\ i \in Nat /\ i + 1 \in DOMAIN qu /\ 1 < i + 1
                                  /\ rest[i] = qu[i + 1]
        /\ 1 \in DOMAIN qu /\ Head(qu) = qu[1]
        /\ \A i \in DOMAIN qu : qu[i] \in Queries
    OBVIOUS
  <1>2. \A q \in Queries : q.ver \in Nat
    BY BoundsAssumption DEF Queries, Versions
  <1> HIDE DEF rest
  <1>3. SavesAtLeast(rest, c, Head(qu).ver)
    BY <1>1, <1>2 DEF SavesSorted, SavesAtLeast
  <1> QED BY <1>1, <1>3 DEF rest, HasSave, SavesAtLeast, SavesAtMost

(* A save that is not older than those before it is appended.              *)
LEMMA SaveAppended ==
    ASSUME NEW qu \in Seq(Queries), NEW q \in Queries, NEW c, NEW v \in Versions,
           SavesSorted(qu, c), SavesAtMost(qu, c, q.ver)
    PROVE  /\ SavesSorted(Append(qu, q), c)
           /\ SavesAtLeast(qu, c, v) /\ q.ver >= v => SavesAtLeast(Append(qu, q), c, v)
           /\ SavesAtMost(qu, c, v) /\ q.ver <= v => SavesAtMost(Append(qu, q), c, v)
  <1> DEFINE new == Append(qu, q)
  <1>1. /\ DOMAIN new = DOMAIN qu \cup {Len(qu) + 1}
        /\ \A i \in DOMAIN qu : new[i] = qu[i] /\ i < Len(qu) + 1 /\ i \in Nat
        /\ new[Len(qu) + 1] = q /\ Len(qu) \in Nat
    OBVIOUS
  <1> HIDE DEF new
  <1>2. SavesSorted(new, c)
    BY <1>1 DEF SavesSorted, SavesAtMost
  <1>3. /\ SavesAtLeast(qu, c, v) /\ q.ver >= v => SavesAtLeast(new, c, v)
        /\ SavesAtMost(qu, c, v) /\ q.ver <= v => SavesAtMost(new, c, v)
    BY <1>1 DEF SavesAtLeast, SavesAtMost
  <1> QED BY <1>2, <1>3 DEF new

(* Queues without a save, and unchanged ones.                              *)
LEMMA NoSaves ==
    ASSUME NEW qu, NEW c, ~HasSave(qu, c)
    PROVE  /\ SavesSorted(qu, c)
           /\ \A v : SavesAtLeast(qu, c, v) /\ SavesAtMost(qu, c, v)
  BY DEF HasSave, SavesSorted, SavesAtLeast, SavesAtMost

(* A queue that stays has the same saves.                                  *)
LEMMA SameSaves == \A qu, c : FewerSaves(qu, qu, c)
  BY DEF FewerSaves

-----------------------------------------------------------------------------
(* Every action in these terms.                                            *)

Plain(s) == /\ Smooth(s) /\ QueueStep(s) /\ OnlyAt(s)
            /\ UNCHANGED <<row, robbed>>

(* The fields of the answers of load_char and tick_login.                  *)
LEMMA AnswerFields ==
    ASSUME TypeOK, NEW s \in Servers, NEW st \in Answers \cup {"create"}
    PROVE  /\ Answer(s, st).status = st /\ Answer(s, st).id = login[s].id
           /\ Answer(s, st) \in
                [status : {"empty", "read", "create"} \cup Answers,
                 id : Chars \cup {NoChar}, current : BOOLEAN, ver : Versions,
                 mirror : Mirrors \cup {0}, cn : Slots \cup {NoSlot},
                 didusurp : BOOLEAN, stale : BOOLEAN, to : Servers \cup {NoServer}]
  <1>1. EmptyLogin \in Logins /\ login[s].id \in Chars \cup {NoChar}
    BY EmptyLoginType DEF Logins, TypeOK
  <1> QED BY <1>1 DEF Answer, Logins

(* ... of a refusal,                                                       *)
LEMMA RefusedFields ==
    ASSUME TypeOK, NEW s \in Servers
    PROVE  Answer(s, "refused").status = "refused"
  BY AnswerFields DEF Answers

(* ... of LS_NEWAREA,                                                      *)
LEMMA RedirectFields ==
    ASSUME TypeOK, NEW s \in Servers, NEW to
    PROVE  [Answer(s, "newarea") EXCEPT !.to = to].status = "newarea"
  BY AnswerFields DEF Answers

(* ... of LS_OK,                                                           *)
LEMMA OkFields ==
    ASSUME TypeOK, NEW s \in Servers, NEW k
    PROVE  /\ LoginOk(s, k, TRUE).status = "ok" /\ LoginOk(s, k, TRUE).cn = k
           /\ LoginOk(s, k, TRUE).id = login[s].id
           /\ LoginOk(s, k, FALSE).status = "ok" /\ LoginOk(s, k, FALSE).cn = k
           /\ LoginOk(s, k, FALSE).id = login[s].id
  BY AnswerFields DEF LoginOk, Answers

(* ... and of a character that was read.                                   *)
LEMMA CreateFields ==
    ASSUME TypeOK, NEW s \in Servers, NEW b, NEW v, NEW m, NEW l,
           l = [Answer(s, "create") EXCEPT !.current = b, !.ver = v, !.mirror = m]
    PROVE  /\ l.status = "create" /\ l.id = login[s].id
           /\ l.current = b /\ l.ver = v
  BY AnswerFields

(* Steps that append nothing, or a query that saves nothing.               *)
LEMMA QuietQueue ==
    ASSUME TypeOK, NEW s \in Servers
    PROVE  /\ queue'[s] = queue[s] => QueueStep(s)
           /\ \A q \in Queries :
                 q.op \notin {"backup", "logout"} /\ queue'[s] = Append(queue[s], q)
                 => QueueStep(s)
           /\ queue'[s] = Tail(queue[s]) /\ queue[s] # <<>> => QueueStep(s)
  <1>1. queue[s] \in Seq(Queries)
    BY DEF TypeOK
  <1>2. queue'[s] = queue[s] => QueueStep(s)
    BY SameSaves DEF QueueStep
  <1>3. ASSUME NEW q \in Queries, q.op \notin {"backup", "logout"},
               queue'[s] = Append(queue[s], q)
        PROVE  QueueStep(s)
    <2>1. \A c : ~IsSave(q, c)
      BY <1>3 DEF IsSave
    <2> QED BY <1>1, <1>3, <2>1, NoSaveAppended DEF QueueStep
  <1>4. ASSUME queue'[s] = Tail(queue[s]), queue[s] # <<>>
        PROVE  QueueStep(s)
    BY <1>1, <1>4, TailFewer DEF QueueStep
  <1> QED BY <1>2, <1>3, <1>4

(* Steps that leave ch[] alone, or only the drivers of its characters.     *)
LEMMA QuietEntries ==
    ASSUME TypeOK, NEW s \in Servers,
           \A k \in Slots : chr'[s][k].used =>
              /\ chr[s][k].used /\ chr'[s][k].id = chr[s][k].id
              /\ chr'[s][k].ver = chr[s][k].ver
    PROVE  Entries(s)
  <1>1. \A k \in Slots : chr[s][k].ver \in Nat
    BY BoundsAssumption DEF TypeOK, Copies, Versions
  <1> QED BY <1>1 DEF Entries

(* A character is freed.                                                   *)
LEMMA FreedEntries ==
    ASSUME TypeOK, NEW s \in Servers, NEW k \in Slots, NEW c,
           SetChr(s, k, Free(c))
    PROVE  Entries(s)
  <1>1. \A j \in Slots : chr'[s][j] = IF j = k THEN Free(c) ELSE chr[s][j]
    BY HelperAt
  <1>2. ~Free(c).used
    BY DEF Free
  <1> QED BY <1>1, <1>2, QuietEntries

(* Clients.                                                                *)
LEMMA ClientsPlain ==
    ASSUME TypeOK, NEW s \in Servers, Clients(s)
    PROVE  Plain(s)
  <1>1. login[s] \in Logins /\ \A k \in Slots : chr[s][k] \in Copies
    BY DEF TypeOK
  <1>2. CASE LoginAges(s)
    <2>1. login'[s] = [login[s] EXCEPT !.stale = TRUE]
      BY <1>2, HelperAt DEF LoginAges
    <2>2. SameLogin(s)
      BY <1>1, <2>1 DEF SameLogin, Logins
    <2> QED BY <1>2, <2>2, QuietQueue, QuietEntries, HelperAt
            DEF LoginAges, Plain, Smooth, Struct, OnlyAt
  <1>3. ASSUME NEW c \in Chars, Connect(s, c) \/ Disconnect(s, c) PROVE Plain(s)
    BY <1>3, QuietQueue, QuietEntries
    DEF Connect, Disconnect, Plain, Smooth, Struct, SameLogin, OnlyAt
  <1>4. ASSUME NEW c \in Chars, FindLoginStart(s, c) PROVE Plain(s)
    <2>1. login'[s] = [EmptyLogin EXCEPT !.status = "read", !.id = c]
      BY <1>4, HelperAt DEF FindLoginStart
    <2>2. login'[s].status = "read"
      BY <2>1, EmptyLoginType DEF Logins
    <2>3. /\ queue'[s] = Append(queue[s], Query("load", c))
          /\ Query("load", c) \in Queries /\ Query("load", c).op = "load"
      BY <1>4, HelperAt, QueryType DEF FindLoginStart, Query
    <2> QED BY <1>4, <2>2, <2>3, QuietQueue, QuietEntries, HelperAt
            DEF FindLoginStart, Plain, Smooth, Struct, OnlyAt
  <1>5. ASSUME NEW c \in Chars, FindLoginStale(s, c) PROVE Plain(s)
    <2> DEFINE k == login[s].cn
               left == chr[s][k]
               undo == login[s].status = "ok" /\ ~login[s].didusurp
               gone == Query("release", left.id)
               load == Query("load", c)
    <2>1. login'[s].status = "read"
      <3>1. login'[s] = [EmptyLogin EXCEPT !.status = "read", !.id = c]
        BY <1>5, HelperAt DEF FindLoginStale
      <3> QED BY <3>1, EmptyLoginType DEF Logins
    <2>2. OnlyAt(s) /\ UNCHANGED <<row, robbed>>
      BY <1>5 DEF FindLoginStale, OnlyAt, TypeOK, SetLogin
    <2>3. undo => left \in Copies /\ left.id \in Chars \cup {NoChar}
      BY <1>1 DEF Logins, Copies
    <2>4. /\ load \in Queries /\ load.op = "load"
          /\ undo => gone \in Queries
          /\ gone.op = "release"
      BY <2>3, QueryType DEF Query
    <2>5. QueueStep(s)
      <3>1. queue'[s] = IF undo THEN Append(Append(queue[s], gone), load)
                        ELSE Append(queue[s], load)
        BY <1>5 DEF FindLoginStale, TypeOK
      <3> HIDE DEF undo, gone, load
      <3>2. CASE undo
        <4> DEFINE mid == Append(queue[s], gone)
        <4>1. queue[s] \in Seq(Queries) /\ mid \in Seq(Queries)
          BY <2>4, <3>2 DEF TypeOK
        <4>2. ASSUME NEW d \in Chars PROVE FewerSaves(queue'[s], queue[s], d)
          <5>1. ~IsSave(gone, d) /\ ~IsSave(load, d)
            BY <2>4 DEF IsSave
          <5>2. FewerSaves(mid, queue[s], d)
            BY <2>4, <3>2, <4>1, <5>1, NoSaveAppended
          <5> HIDE DEF mid
          <5>3. FewerSaves(Append(mid, load), mid, d)
            BY <2>4, <4>1, <5>1, NoSaveAppended
          <5>4. queue'[s] = Append(mid, load)
            BY <3>1, <3>2 DEF mid
          <5> QED BY <5>2, <5>3, <5>4 DEF FewerSaves
        <4> QED BY <4>2 DEF QueueStep
      <3>3. CASE ~undo
        BY <2>4, <3>1, <3>3, QuietQueue
      <3> QED BY <3>2, <3>3
    <2>6. Entries(s)
      <3>1. \A j \in Slots : chr'[s][j] =
                 IF j = k /\ undo THEN Free(left.id)
                 ELSE IF j = k /\ login[s].status = "ok" /\ login[s].didusurp /\ left.used
                 THEN [left EXCEPT !.link = "lostcon"]
                 ELSE chr[s][j]
        BY <1>5 DEF FindLoginStale, TypeOK
      <3>2. ~Free(left.id).used
        BY DEF Free
      <3>3. \A j \in Slots : [chr[s][j] EXCEPT !.link = "lostcon"].id = chr[s][j].id
                /\ [chr[s][j] EXCEPT !.link = "lostcon"].used = chr[s][j].used
                /\ [chr[s][j] EXCEPT !.link = "lostcon"].ver = chr[s][j].ver
        BY <1>1 DEF Copies
      <3> QED BY <3>1, <3>2, <3>3, QuietEntries
    <2> QED BY <2>1, <2>2, <2>5, <2>6 DEF Plain, Smooth, Struct
  <1>6. ASSUME NEW c \in Chars,
               \/ CollectRefusal(s, c) \/ CollectRedirect(s, c)
               \/ CollectChar(s, c) \/ CollectNothing(s, c)
        PROVE  Plain(s)
    <2>1. /\ OnlyAt(s) /\ UNCHANGED <<row, robbed>>
          /\ login'[s].status = "empty"
      BY <1>6, EmptyLoginType
      DEF CollectRefusal, CollectRedirect, CollectChar, CollectNothing, Collect,
          OnlyAt, SetLogin, SetChr, AddQuery, TypeOK
    <2>2. \/ queue'[s] = queue[s]
          \/ queue'[s] = Append(queue[s], Query("rescue", c))
      BY <1>6 DEF CollectRefusal, CollectRedirect, CollectChar, CollectNothing,
                  AddQuery, TypeOK
    <2>3. Query("rescue", c) \in Queries /\ Query("rescue", c).op = "rescue"
      BY QueryType DEF Query
    <2>4. Entries(s)
      <3>1. CollectChar(s, c) => login[s].cn \in Slots
        BY DEF CollectChar, TypeOK, Logins
      <3>2. \A k \in Slots : \/ chr'[s][k] = chr[s][k]
                             \/ chr'[s][k] = [chr[s][k] EXCEPT !.link = "player"]
        BY <1>6, <3>1, HelperAt
        DEF CollectRefusal, CollectRedirect, CollectChar, CollectNothing
      <3>3. \A j \in Slots : [chr[s][j] EXCEPT !.link = "player"].id = chr[s][j].id
                /\ [chr[s][j] EXCEPT !.link = "player"].used = chr[s][j].used
                /\ [chr[s][j] EXCEPT !.link = "player"].ver = chr[s][j].ver
        BY <1>1 DEF Copies
      <3> QED BY <3>2, <3>3, QuietEntries
    <2> QED BY <2>1, <2>2, <2>3, <2>4, QuietQueue DEF Plain, Smooth, Struct
  <1> QED BY <1>2, <1>3, <1>4, <1>5, <1>6 DEF Clients

(* tick_login when the character is not built.                             *)
LEMMA LoginTickPlain ==
    ASSUME TypeOK, NEW s \in Servers,
           \/ UsurpMissed(s) \/ CreateNoSlot(s)
           \/ \E k \in Slots : CreateNoTile(s, k)
    PROVE  Plain(s)
  <1>1. CASE UsurpMissed(s) \/ CreateNoSlot(s)
    <2>1. login'[s].status = "refused"
      BY <1>1, HelperAt, RefusedFields DEF UsurpMissed, CreateNoSlot
    <2> QED BY <1>1, <2>1, QuietQueue, QuietEntries, HelperAt
            DEF UsurpMissed, CreateNoSlot, Plain, Smooth, Struct, OnlyAt
  <1>2. ASSUME NEW k \in Slots, CreateNoTile(s, k) PROVE Plain(s)
    <2>1. login'[s].status = "refused" /\ Entries(s)
      BY <1>2, HelperAt, RefusedFields, FreedEntries DEF CreateNoTile
    <2>2. login[s].id \in Chars
      BY <1>2 DEF CreateNoTile, TickLogin, TypeOK, Logins
    <2>3. /\ queue'[s] = Append(queue[s], Query("release", login[s].id))
          /\ Query("release", login[s].id) \in Queries
          /\ Query("release", login[s].id).op = "release"
      BY <1>2, <2>2, HelperAt, QueryType DEF CreateNoTile, Query
    <2> QED BY <1>2, <2>1, <2>3, QuietQueue, HelperAt
            DEF CreateNoTile, Plain, Smooth, Struct, OnlyAt
  <1> QED BY <1>1, <1>2

(* A character that is taken over.                                         *)
LEMMA UsurpStep ==
    ASSUME TypeOK, NEW s \in Servers, NEW k \in Slots, Usurp(s, k)
    PROVE  /\ Entries(s) /\ QueueStep(s) /\ OnlyAt(s) /\ UNCHANGED <<row, robbed>>
           /\ login'[s].status = "ok" /\ login'[s].cn = k
           /\ login'[s].id = login[s].id /\ chr'[s][k].id = login[s].id
  <1>1. \A j \in Slots : chr[s][j] \in Copies
    BY DEF TypeOK
  <1>2. /\ [chr[s][k] EXCEPT !.link = "none"].id = chr[s][k].id
        /\ [chr[s][k] EXCEPT !.link = "none"].used = chr[s][k].used
        /\ [chr[s][k] EXCEPT !.link = "none"].ver = chr[s][k].ver
    BY <1>1 DEF Copies
  <1>3. \A j \in Slots : chr'[s][j] = IF j = k THEN [chr[s][k] EXCEPT !.link = "none"]
                                      ELSE chr[s][j]
    BY HelperAt DEF Usurp
  <1>4. Entries(s)
    BY <1>2, <1>3, QuietEntries
  <1>5. chr'[s][k].id = login[s].id
    BY <1>2, <1>3 DEF Usurp, Holds
  <1>6. login'[s] = LoginOk(s, k, TRUE)
    BY HelperAt DEF Usurp
  <1>7. OnlyAt(s)
    BY HelperAt DEF Usurp, OnlyAt
  <1>8. /\ login'[s].status = "ok" /\ login'[s].cn = k
        /\ login'[s].id = login[s].id
    <2>1. /\ LoginOk(s, k, TRUE).status = "ok" /\ LoginOk(s, k, TRUE).cn = k
          /\ LoginOk(s, k, TRUE).id = login[s].id
      BY OkFields, Zenon
    <2> QED BY <1>6, <2>1
  <1>9. queue' = queue /\ UNCHANGED <<row, robbed>>
    BY DEF Usurp
  <1>10. QueueStep(s)
    BY <1>9, QuietQueue
  <1> QED BY <1>4, <1>5, <1>7, <1>8, <1>9, <1>10

(* A character that is built, completely or not.                           *)
LEMMA CreateStep ==
    ASSUME TypeOK, NEW s \in Servers, NEW k \in Slots,
           CreateChar(s, k) \/ CreateNoItem(s, k)
    PROVE  /\ queue' = queue /\ OnlyAt(s) /\ UNCHANGED <<row, robbed>>
           /\ login[s].status = "create" /\ ~login[s].current
           /\ chr'[s][k].used /\ chr'[s][k].id = login[s].id
           /\ \A j \in Slots \ {k} : chr'[s][j] = chr[s][j]
           /\ \/ login'[s].status = "refused"
              \/ login'[s].status = "ok" /\ login'[s].cn = k /\ login'[s].id = login[s].id
           /\ CreateChar(s, k) => chr'[s][k].ver = login[s].ver
  <1>1. login'[s] = LoginOk(s, k, FALSE) \/ login'[s] = Answer(s, "refused")
    BY HelperAt DEF CreateChar, CreateNoItem
  <1>2. \A c, v, m : /\ Player(c, v, m).used /\ Player(c, v, m).id = c
                     /\ Player(c, v, m).ver = v
    BY DEF Player
  <1>3. \/ login'[s].status = "refused"
        \/ login'[s].status = "ok" /\ login'[s].cn = k /\ login'[s].id = login[s].id
    <2>1. /\ LoginOk(s, k, FALSE).status = "ok" /\ LoginOk(s, k, FALSE).cn = k
          /\ LoginOk(s, k, FALSE).id = login[s].id
      BY OkFields, Zenon
    <2> QED BY <1>1, <2>1, RefusedFields
  <1>4. PICK v, m : /\ SetChr(s, k, Player(login[s].id, v, m))
                    /\ CreateChar(s, k) => v = login[s].ver
    BY DEF CreateChar, CreateNoItem
  <1>5. \A j \in Slots : chr'[s][j] = IF j = k THEN Player(login[s].id, v, m)
                                      ELSE chr[s][j]
    BY <1>4, HelperAt
  <1>6. /\ chr'[s][k].used /\ chr'[s][k].id = login[s].id
        /\ \A j \in Slots \ {k} : chr'[s][j] = chr[s][j]
        /\ CreateChar(s, k) => chr'[s][k].ver = login[s].ver
    BY <1>2, <1>4, <1>5
  <1>7. /\ queue' = queue /\ UNCHANGED <<up, row, robbed>>
        /\ login[s].status = "create" /\ ~login[s].current
    BY DEF CreateChar, CreateNoItem, TickLogin
  <1>8. \E l : SetLogin(s, l)
    BY DEF CreateChar, CreateNoItem
  <1>9. OnlyAt(s)
    BY <1>4, <1>7, <1>8, HelperAt DEF OnlyAt
  <1> QED BY <1>3, <1>6, <1>7, <1>9

(* kick_char, whoever is kicked.                                           *)
LEMMA KickCharQueue ==
    ASSUME TypeOK, NEW s \in Servers, NEW k \in Slots, NEW area \in Areas,
           chr[s][k].used, KickChar(s, k, area)
    PROVE  Entries(s) /\ QueueStep(s)
           /\ \A t \in Servers \ {s} : queue'[t] = queue[t] /\ chr'[t] = chr[t]
  <1> DEFINE id == chr[s][k].id
             q == SaveChar(chr[s][k], area)
  <1>1. chr[s][k] \in Copies /\ id \in Chars \cup {NoChar}
    BY DEF TypeOK, Copies
  <1>2. \/ id = NoChar /\ queue'[s] = queue[s]
        \/ id \in Chars /\ queue'[s] = Append(queue[s], q)
    BY <1>1 DEF KickChar, TypeOK
  <1>3. id \in Chars => /\ q \in Queries /\ IsSave(q, q.c)
                        /\ q.c = id /\ q.ver = chr[s][k].ver
    BY <1>1, SaveCharType DEF SaveChar, IsSave
  <1>4. QueueStep(s)
    BY <1>2, <1>3, QuietQueue DEF QueueStep, SaveStep, Holds
  <1>5. Entries(s)
    BY FreedEntries DEF KickChar
  <1>6. \A t \in Servers \ {s} : queue'[t] = queue[t] /\ chr'[t] = chr[t]
    BY HelperAt DEF KickChar, TypeOK
  <1> QED BY <1>4, <1>5, <1>6

(* The game.                                                               *)
LEMMA GamePlain ==
    ASSUME TypeOK, NEW s \in Servers, Game(s)
    PROVE  Plain(s)
  <1>1. \A j \in Slots : chr[s][j] \in Copies /\ chr[s][j].ver \in Nat
    BY BoundsAssumption DEF TypeOK, Copies, Versions
  <1>2. login'[s] = login[s] => Struct(s)
    BY DEF Struct, SameLogin
  <1>3. CASE Periodic(s)
    <2>1. PICK op \in {"alive", "arealist"} : AddQuery(s, Query(op, NoChar))
      BY <1>3 DEF Periodic
    <2>2. Query(op, NoChar) \in Queries /\ Query(op, NoChar).op = op
      BY QueryType DEF Query
    <2>3. QueueStep(s)
      BY <2>1, <2>2, HelperAt, QuietQueue
    <2> QED BY <1>2, <1>3, <2>1, <2>3, HelperAt, QuietEntries
            DEF Periodic, Plain, Smooth, OnlyAt
  <1> SUFFICES ASSUME NEW k \in Slots,
                      \/ Progress(s, k) \/ Backup(s, k) \/ LoseConnection(s, k)
                      \/ LostconExit(s, k) \/ ExitChar(s, k)
                      \/ SpawnNpc(s, k) \/ RemoveNpc(s, k)
                      \/ \E area \in Areas, m \in Mirrors : ChangeArea(s, k, area, m)
               PROVE  Plain(s)
    BY <1>3 DEF Game
  <1>4. CASE Progress(s, k)
    <2>1. /\ [chr[s][k] EXCEPT !.ver = @ + 1].id = chr[s][k].id
          /\ [chr[s][k] EXCEPT !.ver = @ + 1].used = chr[s][k].used
          /\ [chr[s][k] EXCEPT !.ver = @ + 1].ver = chr[s][k].ver + 1
      BY <1>1 DEF Copies
    <2>2. \A j \in Slots : chr'[s][j] = IF j = k THEN [chr[s][k] EXCEPT !.ver = @ + 1]
                                        ELSE chr[s][j]
      BY <1>4, HelperAt DEF Progress
    <2>3. \A j \in Slots : /\ chr'[s][j].used = chr[s][j].used
                            /\ chr'[s][j].id = chr[s][j].id
                            /\ \/ chr'[s][j].ver = chr[s][j].ver
                               \/ chr'[s][j].ver = chr[s][j].ver + 1
      BY <2>1, <2>2
    <2>4. \A j \in Slots : chr'[s][j].ver >= chr[s][j].ver
      BY <1>1, <2>3
    <2>5. Entries(s)
      BY <2>3, <2>4 DEF Entries
    <2> QED BY <1>2, <1>4, <2>5, HelperAt, QuietQueue DEF Progress, Plain, Smooth, OnlyAt
  <1>5. CASE Backup(s, k)
    <2> DEFINE q == SaveChar(chr[s][k], 0)
    <2>1. chr[s][k].id \in Chars /\ chr[s][k].used /\ 3 \in Areas
      BY <1>1, <1>5 DEF Backup, Copies, Areas
    <2>2. /\ q \in Queries /\ IsSave(q, q.c) /\ q.c = chr[s][k].id
          /\ q.ver = chr[s][k].ver
      BY <1>1, <2>1, SaveCharType DEF SaveChar, IsSave
    <2>3. queue'[s] = Append(queue[s], q)
      BY <1>5, HelperAt DEF Backup
    <2>4. QueueStep(s)
      BY <2>1, <2>2, <2>3 DEF QueueStep, SaveStep, Holds
    <2> QED BY <1>2, <1>5, <2>4, HelperAt, QuietEntries DEF Backup, Plain, Smooth, OnlyAt
  <1>6. CASE LoseConnection(s, k)
    <2>1. /\ [chr[s][k] EXCEPT !.link = "lostcon"].id = chr[s][k].id
          /\ [chr[s][k] EXCEPT !.link = "lostcon"].used = chr[s][k].used
          /\ [chr[s][k] EXCEPT !.link = "lostcon"].ver = chr[s][k].ver
      BY <1>1 DEF Copies
    <2>2. \A j \in Slots : chr'[s][j] = IF j = k THEN [chr[s][k] EXCEPT !.link = "lostcon"]
                                        ELSE chr[s][j]
      BY <1>6, HelperAt DEF LoseConnection
    <2>3. Entries(s)
      BY <2>1, <2>2, QuietEntries
    <2> QED BY <1>2, <1>6, <2>3, HelperAt, QuietQueue
            DEF LoseConnection, Plain, Smooth, OnlyAt
  <1>7. CASE LostconExit(s, k)
    BY <1>2, <1>7, KickCharQueue DEF LostconExit, Plain, Smooth, OnlyAt
  <1>8. CASE ExitChar(s, k)
    BY <1>2, <1>8, KickCharQueue DEF ExitChar, Plain, Smooth, OnlyAt
  <1>9. CASE SpawnNpc(s, k)
    <2>1. \A j \in Slots : chr'[s][j] = IF j = k THEN Npc ELSE chr[s][j]
      BY <1>9, HelperAt DEF SpawnNpc
    <2>2. Entries(s)
      BY <1>1, <2>1 DEF Entries, Npc
    <2> QED BY <1>2, <1>9, <2>2, HelperAt, QuietQueue DEF SpawnNpc, Plain, Smooth, OnlyAt
  <1>10. CASE RemoveNpc(s, k)
    BY <1>2, <1>10, HelperAt, FreedEntries, QuietQueue
    DEF RemoveNpc, Plain, Smooth, OnlyAt
  <1>11. ASSUME NEW area \in Areas, NEW m \in Mirrors, ChangeArea(s, k, area, m)
         PROVE  Plain(s)
    <2> DEFINE copy == [chr[s][k] EXCEPT !.mirror = m]
               q == SaveChar(copy, area)
    <2>1. /\ copy \in Copies /\ copy.used /\ copy.id \in Chars
          /\ copy.id = chr[s][k].id /\ copy.used = chr[s][k].used
          /\ copy.ver = chr[s][k].ver
      BY <1>1, <1>11 DEF ChangeArea, Copies
    <2>2. /\ q \in Queries /\ IsSave(q, q.c) /\ q.c = chr[s][k].id
          /\ q.ver = chr[s][k].ver
      BY <2>1, SaveCharType DEF SaveChar, IsSave
    <2>3. UNCHANGED <<row, robbed, up, login>>
      BY <1>11 DEF ChangeArea
    <2>4. \/ AddQuery(s, q) /\ SetChr(s, k, Free(copy.id))
          \/ queue' = queue /\ SetChr(s, k, copy)
      BY <1>11 DEF ChangeArea
    <2> HIDE DEF copy, q
    <2>5. CASE AddQuery(s, q) /\ SetChr(s, k, Free(copy.id))
      <3>1. QueueStep(s)
        BY <2>1, <2>2, <2>5, HelperAt DEF QueueStep, SaveStep, Holds
      <3> QED BY <1>2, <2>3, <2>5, <3>1, HelperAt, FreedEntries DEF Plain, Smooth, OnlyAt
    <2>6. CASE queue' = queue /\ SetChr(s, k, copy)
      <3>1. \A j \in Slots : chr'[s][j] = IF j = k THEN copy ELSE chr[s][j]
        BY <2>6, HelperAt
      <3>2. Entries(s)
        BY <2>1, <3>1, QuietEntries
      <3> QED BY <1>2, <2>3, <2>6, <3>2, HelperAt, QuietQueue DEF Plain, Smooth, OnlyAt
    <2> QED BY <2>4, <2>5, <2>6
  <1> QED BY <1>4, <1>5, <1>6, <1>7, <1>8, <1>9, <1>10, <1>11

(* Rows may be freed, but keep their data.                                 *)
RowStep ==
    /\ robbed \subseteq robbed'
    /\ \A c \in Chars : /\ row'[c].ver = row[c].ver
                        /\ row'[c].cur \in {row[c].cur, NoServer}

(* A step of server s that builds no character and writes no data.         *)
Step(s) == Smooth(s) /\ QueueStep(s) /\ OnlyAt(s) /\ RowStep

(* Plain steps are steps.                                                  *)
LEMMA PlainStep == ASSUME NEW s \in Servers, Plain(s) PROVE Step(s)
  BY DEF Plain, Step, RowStep

(* What all steps of the database thread have in common.                   *)
LEMMA DbQueue ==
    ASSUME TypeOK, NEW s \in Servers, NEW ops, NextQuery(s, ops), UNCHANGED <<up, chr>>,
           \A t \in Servers \ {s} : login'[t] = login[t]
    PROVE  /\ Entries(s) /\ QueueStep(s) /\ OnlyAt(s)
           /\ queue[s] \in Seq(Queries) /\ queue[s] # <<>>
           /\ queue'[s] = Tail(queue[s]) /\ Head(queue[s]) \in Queries
           /\ Head(queue[s]).op \in ops
  <1>1. /\ queue[s] \in Seq(Queries) /\ queue[s] # <<>>
        /\ queue'[s] = Tail(queue[s])
        /\ \A t \in Servers \ {s} : queue'[t] = queue[t]
    BY DEF NextQuery, TypeOK
  <1>2. Entries(s)
    BY QuietEntries
  <1> QED BY <1>1, <1>2, QuietQueue, NextQueryType DEF OnlyAt

(* An UPDATE of save_char: data is written while the row names the server. *)
LEMMA SaveWrites ==
    ASSUME TypeOK, NEW s \in Servers, DbSave(s)
    PROVE  LET q == Head(queue[s])
           IN  /\ Smooth(s) /\ QueueStep(s) /\ OnlyAt(s)
               /\ UNCHANGED <<up, chr, login, robbed>>
               /\ q.c \in Chars /\ IsSave(q, q.c)
               /\ \A d \in Chars \ {q.c} : row'[d] = row[d]
               /\ row[q.c].cur # s => row'[q.c] = row[q.c]
               /\ row[q.c].cur = s => row'[q.c].ver = q.ver
               /\ row'[q.c].cur \in {row[q.c].cur, NoServer}
  <1> DEFINE q == Head(queue[s])
  <1>1. /\ NextQuery(s, {"backup", "logout"})
        /\ UNCHANGED <<up, chr, login, robbed>>
    BY DEF DbSave
  <1>2. /\ Entries(s) /\ QueueStep(s) /\ OnlyAt(s) /\ q \in Queries
        /\ q.op \in {"backup", "logout"}
    BY <1>1, DbQueue
  <1>3. q.c \in Chars /\ IsSave(q, q.c)
    BY <1>2 DEF Queries, IsSave
  <1>4. Struct(s)
    BY <1>1 DEF Struct, SameLogin
  <1>5. /\ \A d \in Chars \ {q.c} : row'[d] = row[d]
        /\ row[q.c].cur # s => row'[q.c] = row[q.c]
        /\ row[q.c].cur = s => row'[q.c].ver = q.ver
        /\ row'[q.c].cur \in {row[q.c].cur, NoServer}
    <2>1. CASE row[q.c].cur # s
      BY <2>1 DEF DbSave
    <2>2. CASE row[q.c].cur = s /\ q.op = "backup"
      <3>1. row' = [row EXCEPT ![q.c] = [row[q.c] EXCEPT !.ver = q.ver,
                                                         !.mirror = q.mirror]]
        BY <2>2 DEF DbSave, SetRow
      <3> QED BY <1>3, <2>2, <3>1 DEF TypeOK
    <2>3. CASE row[q.c].cur = s /\ q.op # "backup"
      <3>1. row' = [row EXCEPT ![q.c] = [cur |-> NoServer, allowed |-> q.area,
                                         mirror |-> q.mirror, ver |-> q.ver]]
        BY <2>3 DEF DbSave, SetRow
      <3> QED BY <1>3, <2>3, <3>1 DEF TypeOK
    <2> QED BY <2>1, <2>2, <2>3
  <1> QED BY <1>1, <1>2, <1>3, <1>4, <1>5 DEF Smooth

(* A login that goes through.                                              *)
LEMMA LoadReads ==
    ASSUME TypeOK, NEW s \in Servers, NEW c \in Chars, DbLoadHere(s, c)
    PROVE  /\ Entries(s) /\ QueueStep(s) /\ OnlyAt(s)
           /\ UNCHANGED <<up, chr, robbed>> /\ ~AnotherOnline(c)
           /\ row'[c].cur = s /\ row'[c].ver = row[c].ver
           /\ \A d \in Chars \ {c} : row'[d] = row[d]
           /\ login'[s].status = "create" /\ login'[s].id = login[s].id
           /\ login'[s].ver = row[c].ver /\ login'[s].current = (row[c].cur = s)
           /\ Head(queue[s]).op = "load" /\ Head(queue[s]).c = c
  <1>1. /\ NextQuery(s, {"load"}) /\ UNCHANGED <<up, chr, robbed>> /\ ~AnotherOnline(c)
        /\ Head(queue[s]).c = c
        /\ \A t \in Servers \ {s} : login'[t] = login[t]
    BY HelperAt DEF DbLoadHere, DbLoad
  <1>2. /\ row'[c].cur = s /\ row'[c].ver = row[c].ver
        /\ \A d \in Chars \ {c} : row'[d] = row[d]
    BY DEF DbLoadHere, SetRow, TypeOK
  <1>3. login'[s] = [Answer(s, "create") EXCEPT !.current = (row[c].cur = s),
                        !.ver = row[c].ver, !.mirror = row[c].mirror]
    BY HelperAt DEF DbLoadHere
  <1>4. /\ login'[s].status = "create" /\ login'[s].id = login[s].id
        /\ login'[s].ver = row[c].ver /\ login'[s].current = (row[c].cur = s)
    <2>1. /\ Answer(s, "create").status = "create"
          /\ Answer(s, "create").id = login[s].id
          /\ Answer(s, "create") \in
              [status : {"empty", "read", "create"} \cup Answers,
               id : Chars \cup {NoChar}, current : BOOLEAN, ver : Versions,
               mirror : Mirrors \cup {0}, cn : Slots \cup {NoSlot},
               didusurp : BOOLEAN, stale : BOOLEAN, to : Servers \cup {NoServer}]
      BY AnswerFields
    <2> QED BY <1>3, <2>1
  <1>5. /\ Entries(s) /\ QueueStep(s) /\ OnlyAt(s) /\ Head(queue[s]).op = "load"
    BY <1>1, DbQueue
  <1> QED BY <1>1, <1>2, <1>4, <1>5

(* All other queries.                                                      *)
LEMMA DbThreadStep ==
    ASSUME TypeOK, NEW s \in Servers, DbThread(s), ~DbSave(s),
           \A c \in Chars : ~DbLoadHere(s, c)
    PROVE  Step(s)
  <1>1. row \in [Chars -> [cur : Servers \cup {NoServer}, allowed : Areas,
                          mirror : Mirrors, ver : Versions]]
    BY DEF TypeOK
  <1>2. login' = login => Struct(s)
    BY DEF Struct, SameLogin
  <1>3. CASE DbRelease(s)
    <2> DEFINE q == Head(queue[s])
    <2>1. NextQuery(s, {"release"}) /\ UNCHANGED <<up, login, chr, robbed>>
      BY <1>3 DEF DbRelease
    <2>2. RowStep
      <3>1. CASE row' = row
        BY <2>1, <3>1 DEF RowStep
      <3>2. CASE q.c \in Chars /\ row' = [row EXCEPT ![q.c] =
                                            [row[q.c] EXCEPT !.cur = NoServer]]
        BY <1>1, <2>1, <3>2 DEF RowStep
      <3> QED BY <1>3, <3>1, <3>2 DEF DbRelease, SetRow
    <2>3. Entries(s) /\ QueueStep(s) /\ OnlyAt(s)
      BY <2>1, DbQueue
    <2> QED BY <1>2, <2>1, <2>2, <2>3 DEF Step, Smooth
  <1>4. CASE DbRescue(s)
    <2> DEFINE c == Head(queue[s]).c
    <2>1. NextQuery(s, {"rescue"}) /\ UNCHANGED <<up, login, chr>>
      BY <1>4 DEF DbRescue
    <2>2. c \in Chars
      BY <2>1, NextQueryType, SMTT(30) DEF Queries
    <2>3. RowStep
      <3>1. CASE UNCHANGED <<row, robbed>>
        BY <3>1 DEF RowStep
      <3>2. ASSUME NEW a,
                   SetRow(c, [row[c] EXCEPT !.cur = NoServer, !.allowed = a]),
                   robbed' = IF row[c].cur \in Servers /\ Running(row[c].cur)
                             THEN robbed \cup {c} ELSE robbed
            PROVE  RowStep
        BY <1>1, <2>2, <3>2 DEF RowStep, SetRow
      <3> QED BY <1>4, <3>1, <3>2 DEF DbRescue
    <2>4. Entries(s) /\ QueueStep(s) /\ OnlyAt(s)
      BY <2>1, DbQueue
    <2> QED BY <1>2, <2>1, <2>3, <2>4 DEF Step, Smooth
  <1>5. CASE DbArea(s)
    <2>1. /\ NextQuery(s, {"alive", "dead", "arealist"})
          /\ UNCHANGED <<row, up, login, chr, robbed>>
      BY <1>5 DEF DbArea
    <2>2. Entries(s) /\ QueueStep(s) /\ OnlyAt(s)
      BY <2>1, DbQueue
    <2> QED BY <1>2, <2>1, <2>2 DEF Step, Smooth, RowStep
  <1>6. ASSUME NEW c \in Chars,
               DbLoadRefused(s, c) \/ DbLoadElsewhere(s, c) \/ DbLoadMirror(s, c)
        PROVE  Step(s)
    <2>1. NextQuery(s, {"load"}) /\ UNCHANGED <<row, up, chr, robbed>>
      BY <1>6 DEF DbLoadRefused, DbLoadElsewhere, DbLoadMirror, DbLoad
    <2>2. /\ login'[s].status \in {"refused", "newarea"}
          /\ \A t \in Servers \ {s} : login'[t] = login[t]
      <3>1. \/ SetLogin(s, Answer(s, "refused"))
            \/ \E to : SetLogin(s, [Answer(s, "newarea") EXCEPT !.to = to])
        BY <1>6 DEF DbLoadRefused, DbLoadElsewhere, DbLoadMirror
      <3>2. CASE SetLogin(s, Answer(s, "refused"))
        BY <3>2, HelperAt, RefusedFields
      <3>3. ASSUME NEW to, SetLogin(s, [Answer(s, "newarea") EXCEPT !.to = to])
            PROVE  <2>2!:
        <4>1. /\ login'[s] = [Answer(s, "newarea") EXCEPT !.to = to]
              /\ \A t \in Servers \ {s} : login'[t] = login[t]
          BY <3>3, HelperAt
        <4>2. [Answer(s, "newarea") EXCEPT !.to = to].status = "newarea"
          BY RedirectFields
        <4> QED BY <4>1, <4>2
      <3> QED BY <3>1, <3>2, <3>3
    <2>3. Entries(s) /\ QueueStep(s) /\ OnlyAt(s)
      BY <2>1, <2>2, DbQueue
    <2> QED BY <2>1, <2>2, <2>3 DEF Step, Smooth, Struct, RowStep
  <1> QED BY <1>3, <1>4, <1>5, <1>6 DEF DbThread

(* Servers start, quit, crash and fall silent.                             *)
LEMMA ProcessStep ==
    ASSUME TypeOK, OwnershipInv, NEW s \in Servers, Process(s)
    PROVE  Step(s)
  <1>1. login'[s] = login[s] => Struct(s)
    BY DEF Struct, SameLogin
  <1>2. UNCHANGED <<row, robbed>> => RowStep
    BY DEF RowStep
  <1>3. queue[s] \in Seq(Queries) /\ DownInv(s)
    BY DEF TypeOK, OwnershipInv, ServerInv
  <1>4. CASE Start(s)
    <2>1. UNCHANGED <<login, chr, robbed>> /\ OnlyAt(s)
      BY <1>4 DEF Start, OnlyAt, TypeOK
    <2>2. RowStep
      <3>1. ASSUME NEW c \in Chars
            PROVE  row'[c].ver = row[c].ver /\ row'[c].cur \in {row[c].cur, NoServer}
        BY <1>4 DEF Start, TypeOK
      <3> QED BY <2>1, <3>1 DEF RowStep
    <2>3. QueueStep(s)
      <3>1. /\ queue'[s] = <<Query("alive", NoChar), Query("arealist", NoChar)>>
            /\ Query("alive", NoChar).op = "alive"
            /\ Query("arealist", NoChar).op = "arealist"
        BY <1>4 DEF Start, TypeOK, Query
      <3>2. \A i \in DOMAIN queue'[s] : queue'[s][i].op \in {"alive", "arealist"}
        BY <3>1
      <3>3. ASSUME NEW c \in Chars PROVE FewerSaves(queue'[s], queue[s], c)
        <4>1. ~HasSave(queue'[s], c)
          BY <3>2 DEF HasSave, IsSave
        <4> QED BY <4>1, NoSaves DEF FewerSaves
      <3> QED BY <3>3 DEF QueueStep
    <2> QED BY <1>1, <2>1, <2>2, <2>3, QuietEntries DEF Step, Smooth
  <1>5. CASE Quit(s)
    BY <1>1, <1>2, <1>5, QuietQueue, QuietEntries DEF Quit, Step, Smooth, OnlyAt, TypeOK
  <1>6. CASE QuitAlive(s)
    <2>1. Query("dead", NoChar) \in Queries /\ Query("dead", NoChar).op = "dead"
      BY QueryType DEF Query
    <2>2. queue'[s] = Append(queue[s], Query("dead", NoChar))
      BY <1>6, HelperAt DEF QuitAlive
    <2>3. OnlyAt(s)
      BY <1>6, HelperAt DEF QuitAlive, OnlyAt, TypeOK
    <2>4. UNCHANGED <<row, login, chr, robbed>>
      BY <1>6 DEF QuitAlive
    <2>5. QueueStep(s)
      BY <2>1, <2>2, QuietQueue
    <2> QED BY <1>1, <1>2, <2>3, <2>4, <2>5, QuietEntries DEF Step, Smooth
  <1>7. ASSUME Gone(s) PROVE Step(s)
    <2>1. /\ queue'[s] = <<>> /\ login'[s] = EmptyLogin
          /\ \A k \in Slots : ~chr'[s][k].used
          /\ UNCHANGED <<row, robbed>>
      BY <1>7 DEF Gone, TypeOK, Free
    <2>2. OnlyAt(s)
      BY <1>7 DEF Gone, OnlyAt, TypeOK
    <2>3. \A c : ~HasSave(queue'[s], c)
      BY <2>1 DEF HasSave
    <2>4. QueueStep(s)
      <3>1. ASSUME NEW c \in Chars PROVE FewerSaves(queue'[s], queue[s], c)
        BY <2>3, NoSaves DEF FewerSaves
      <3> QED BY <3>1 DEF QueueStep
    <2>5. Smooth(s)
      BY <2>1, EmptyLoginType DEF Smooth, Entries, Struct
    <2> QED BY <1>2, <2>1, <2>2, <2>4, <2>5 DEF Step
  <1>8. CASE AliveExpires(s)
    BY <1>1, <1>2, <1>8, QuietQueue, QuietEntries
    DEF AliveExpires, Step, Smooth, OnlyAt
  <1>9. ASSUME NEW k \in Slots, QuitExitChar(s, k) PROVE Step(s)
    BY <1>1, <1>2, <1>9, KickCharQueue DEF QuitExitChar, Step, Smooth, OnlyAt
  <1> QED BY <1>4, <1>5, <1>6, <1>7, <1>8, <1>9 DEF Process, Exit, Crash

(* Every step of the system, in these terms.                               *)
LEMMA AnyStep ==
    ASSUME TypeOK, OwnershipInv, Next
    PROVE  \E s \in Servers :
              \/ Step(s) \/ DbSave(s) \/ \E c \in Chars : DbLoadHere(s, c)
              \/ \E k \in Slots : Usurp(s, k) \/ CreateChar(s, k) \/ CreateNoItem(s, k)
  <1>1. PICK s \in Servers :
           Clients(s) \/ LoginTick(s) \/ Game(s) \/ DbThread(s) \/ Process(s)
    BY DEF Next
  <1>2. CASE Clients(s) \/ Game(s)
    BY <1>2, ClientsPlain, GamePlain, PlainStep
  <1>3. CASE LoginTick(s)
    BY <1>3, LoginTickPlain, PlainStep DEF LoginTick
  <1>4. CASE DbThread(s)
    BY <1>4, DbThreadStep
  <1>5. CASE Process(s)
    BY <1>5, ProcessStep
  <1> QED BY <1>1, <1>2, <1>3, <1>4, <1>5

-----------------------------------------------------------------------------
(* Answers and accounts.                                                   *)

(* A step keeps the answers that were given, or gives one of its own.      *)
LEMMA AnswerStep ==
    ASSUME TypeOK, AnswerIsOwn, NEW s \in Servers, OnlyAt(s),
           \/ Smooth(s)
           \/ login'[s].status = "create"
           \/ /\ login'[s].status = "ok"
              /\ chr'[s][login'[s].cn].id = login'[s].id
    PROVE  AnswerIsOwn'
  <1> SUFFICES ASSUME NEW t \in Servers, login'[t].status = "ok",
                      chr'[t][login'[t].cn].used
               PROVE  chr'[t][login'[t].cn].id \in {login'[t].id, NoChar}
    BY DEF AnswerIsOwn
  <1>1. login[t].status = "ok" => login[t].cn \in Slots
    BY DEF TypeOK, Logins
  <1>2. CASE t # s
    BY <1>2 DEF OnlyAt, AnswerIsOwn
  <1>3. CASE t = s /\ Smooth(s)
    <2>1. SameLogin(s)
      BY <1>3 DEF Smooth, Struct
    <2>2. login[s].status = "ok" /\ login'[s].cn = login[s].cn /\ login[s].cn \in Slots
          /\ login'[s].id = login[s].id
      BY <1>1, <1>3, <2>1 DEF SameLogin
    <2> QED BY <1>3, <2>2 DEF Smooth, Entries, AnswerIsOwn
  <1> QED BY <1>2, <1>3

(* The answer a client collects is its own character's entry, or that of   *)
(* no player's character, whatever happened to the entry since.            *)
THEOREM OwnAnswer == Spec => []AnswerIsOwn
  <1>1. Init => AnswerIsOwn
    BY EmptyLoginType DEF Init, AnswerIsOwn
  <1>2. TypeOK /\ OwnershipInv /\ AnswerIsOwn /\ [Next]_vars => AnswerIsOwn'
    <2> SUFFICES ASSUME TypeOK, OwnershipInv, AnswerIsOwn, [Next]_vars
                 PROVE  AnswerIsOwn'
      OBVIOUS
    <2>1. CASE UNCHANGED vars
      BY <2>1 DEF vars, AnswerIsOwn
    <2>2. CASE Next
      <3>1. PICK s \in Servers :
              \/ Step(s) \/ DbSave(s) \/ \E c \in Chars : DbLoadHere(s, c)
              \/ \E k \in Slots : Usurp(s, k) \/ CreateChar(s, k) \/ CreateNoItem(s, k)
        BY <2>2, AnyStep
      <3>2. CASE Step(s)
        BY <3>2, AnswerStep DEF Step
      <3>3. CASE DbSave(s)
        BY <3>3, SaveWrites, AnswerStep
      <3>4. ASSUME NEW c \in Chars, DbLoadHere(s, c) PROVE AnswerIsOwn'
        BY <3>4, LoadReads, AnswerStep
      <3>5. ASSUME NEW k \in Slots, Usurp(s, k) PROVE AnswerIsOwn'
        BY <3>5, UsurpStep, AnswerStep
      <3>6. ASSUME NEW k \in Slots, CreateChar(s, k) \/ CreateNoItem(s, k)
            PROVE  AnswerIsOwn'
        <4>1. CASE login'[s].status = "refused"
          <5>1. OnlyAt(s)
            BY <3>6, CreateStep
          <5> QED BY <4>1, <5>1 DEF AnswerIsOwn, OnlyAt
        <4>2. CASE login'[s].status = "ok" /\ login'[s].cn = k /\ login'[s].id = login[s].id
          BY <3>6, <4>2, CreateStep, AnswerStep
        <4> QED BY <3>6, <4>1, <4>2, CreateStep
      <3> QED BY <3>1, <3>2, <3>3, <3>4, <3>5, <3>6
    <2> QED BY <2>1, <2>2
  <1> QED BY <1>1, <1>2, TypeCorrect, Ownership, PTL DEF Spec

(* The rows of two characters of one account never both name a server.     *)
RowOnce ==
    \A c, d \in Chars :
        c # d /\ Account[c] = Account[d] /\ Account[c] # TestAccount
        => row[c].cur = NoServer \/ row[d].cur = NoServer

(* Only a login makes a row name a server, after it has looked at the rows *)
(* of the account.                                                         *)
LEMMA RowOnceStep ==
    ASSUME TypeOK, OwnershipInv, RowOnce, Next
    PROVE  RowOnce'
  <1>1. PICK s \in Servers :
          \/ Step(s) \/ DbSave(s) \/ \E c \in Chars : DbLoadHere(s, c)
          \/ \E k \in Slots : Usurp(s, k) \/ CreateChar(s, k) \/ CreateNoItem(s, k)
    BY AnyStep
  <1>2. CASE \A c \in Chars : row'[c].cur \in {row[c].cur, NoServer}
    BY <1>2 DEF RowOnce
  <1>3. CASE Step(s)
    BY <1>2, <1>3 DEF Step, RowStep
  <1>4. CASE DbSave(s)
    <2>1. \A c \in Chars : row'[c].cur \in {row[c].cur, NoServer}
      BY <1>4, SaveWrites
    <2> QED BY <1>2, <2>1
  <1>5. ASSUME NEW c \in Chars, DbLoadHere(s, c) PROVE RowOnce'
    <2>1. \A d \in Chars \ {c} : row'[d] = row[d]
      BY <1>5, LoadReads
    <2>2. Account[c] # TestAccount =>
             \A d \in Chars \ {c} : Account[d] = Account[c] => row[d].cur = NoServer
      BY <1>5, LoadReads DEF AnotherOnline
    <2> QED BY <2>1, <2>2 DEF RowOnce
  <1>6. ASSUME NEW k \in Slots, Usurp(s, k) \/ CreateChar(s, k) \/ CreateNoItem(s, k)
        PROVE  RowOnce'
    <2>1. row' = row
      BY <1>6 DEF Usurp, CreateChar, CreateNoItem
    <2> QED BY <1>2, <2>1
  <1> QED BY <1>1, <1>3, <1>4, <1>5, <1>6

(* Two characters of one account, other than the test account, are never   *)
(* in the game at the same time, on whatever servers.                      *)
THEOREM AccountOnce == Spec => []OneCharPerAccount
  <1>1. Init => RowOnce
    BY DEF Init, RowOnce
  <1>2. TypeOK /\ OwnershipInv /\ RowOnce /\ [Next]_vars => RowOnce'
    BY RowOnceStep DEF vars, RowOnce
  <1>3. RowNamesOwner /\ RowOnce => OneCharPerAccount
    BY SentinelAssumption DEF RowNamesOwner, RowOnce, OneCharPerAccount, Honest
  <1> QED BY <1>1, <1>2, <1>3, TypeCorrect, Ownership, RowOwner, PTL DEF Spec

-----------------------------------------------------------------------------
(* Versions.  A character that is about to be built:                       *)
Building(s, c) ==
    login[s].status = "create" /\ login[s].id = c /\ ~login[s].current

(* What holds of a character c that was not robbed, at each server s: row, *)
(* queued saves in their order, and memory hold ever newer data.           *)
FreshInv(s, c) ==
    /\ SavesSorted(queue[s], c)
    /\ SavesAtLeast(queue[s], c, row[c].ver)
    /\ \A k \in Slots : Holds(s, k, c) =>
          chr[s][k].ver >= row[c].ver /\ SavesAtMost(queue[s], c, chr[s][k].ver)
    /\ Building(s, c) => login[s].ver >= row[c].ver

AllFresh == \A c \in Honest : \A s \in Servers : FreshInv(s, c)

(* Versions are numbers.                                                   *)
LEMMA VersionTypes ==
    ASSUME TypeOK
    PROVE  /\ \A c \in Chars : row[c].ver \in Versions
           /\ \A s \in Servers : \A k \in Slots : chr[s][k].ver \in Versions
           /\ \A s \in Servers : login[s].ver \in Versions
           /\ Versions \subseteq Nat
  BY BoundsAssumption DEF TypeOK, Copies, Logins, Versions

(* A server whose name is not in the row has nothing to be stale.          *)
LEMMA Absent ==
    ASSUME NEW s \in Servers, NEW c, OwnInv(s, c)', row'[c].cur # s
    PROVE  FreshInv(s, c)'
  <1>1. ~Online(s, c)' /\ ~HasSave(queue'[s], c) /\ ~Building(s, c)'
    BY DEF OwnInv, Building
  <1>2. \A k \in Slots : ~Holds(s, k, c)'
    BY <1>1 DEF Online
  <1>3. SavesSorted(queue'[s], c) /\ SavesAtLeast(queue'[s], c, row'[c].ver)
    BY <1>1, NoSaves
  <1> QED BY <1>1, <1>2, <1>3 DEF FreshInv

(* A step at server s that keeps the data of the row.                      *)
LEMMA FreshHere ==
    ASSUME TypeOK, TypeOK', NEW s \in Servers, NEW c \in Chars, OwnInv(s, c),
           FreshInv(s, c), Entries(s), QueueStep(s), row'[c].ver = row[c].ver,
           Building(s, c)' => login'[s].ver >= row[c].ver
    PROVE  FreshInv(s, c)'
  <1>1. /\ queue[s] \in Seq(Queries) /\ row[c].ver \in Versions
        /\ \A k \in Slots : chr[s][k].ver \in Versions /\ chr'[s][k].ver \in Versions
        /\ Versions \subseteq Nat
    <2>1. \A k \in Slots : chr'[s][k].ver \in Versions
      BY DEF TypeOK, Copies
    <2> QED BY <2>1, VersionTypes DEF TypeOK
  <1>2. \A k \in Slots : Holds(s, k, c)' =>
           Holds(s, k, c) /\ chr'[s][k].ver >= chr[s][k].ver
    BY CharsAssumption DEF Holds, Entries
  <1>3. \A k \in Slots : Holds(s, k, c)' => chr'[s][k].ver >= row[c].ver
    <2> SUFFICES ASSUME NEW k \in Slots, Holds(s, k, c)'
                 PROVE  chr'[s][k].ver >= row[c].ver
      OBVIOUS
    <2>1. chr'[s][k].ver >= chr[s][k].ver /\ chr[s][k].ver >= row[c].ver
      BY <1>2 DEF FreshInv
    <2>2. /\ chr'[s][k].ver \in Nat /\ chr[s][k].ver \in Nat
          /\ row[c].ver \in Nat
      BY <1>1
    <2> QED BY <2>1, <2>2
  <1>4. \A q, v, w : v \in Nat /\ w \in Nat /\ v <= w /\ q \in Seq(Queries)
           => (SavesAtMost(q, c, v) => SavesAtMost(q, c, w))
    <2>1. \A q \in Queries : q.ver \in Nat
      BY BoundsAssumption DEF Queries, Versions
    <2> QED BY <2>1 DEF SavesAtMost
  <1>5. CASE \A d \in Chars : FewerSaves(queue'[s], queue[s], d)
    <2>1. SavesSorted(queue'[s], c) /\ SavesAtLeast(queue'[s], c, row[c].ver)
      BY <1>1, <1>5 DEF FewerSaves, FreshInv
    <2>2. ASSUME NEW k \in Slots, Holds(s, k, c)'
          PROVE  SavesAtMost(queue'[s], c, chr'[s][k].ver)
      <3>1. SavesAtMost(queue[s], c, chr[s][k].ver)
        BY <1>2, <2>2 DEF FreshInv
      <3>2. SavesAtMost(queue[s], c, chr'[s][k].ver)
        BY <1>1, <1>2, <1>4, <2>2, <3>1
      <3> QED BY <1>1, <1>5, <3>2 DEF FewerSaves
    <2> QED BY <1>3, <2>1, <2>2 DEF FreshInv
  <1>6. ASSUME NEW k \in Slots, NEW q \in Queries, SaveStep(s, k, q)
        PROVE  FreshInv(s, c)'
    <2>1. CASE q.c # c
      <3>1. FewerSaves(queue'[s], queue[s], c)
        BY <1>1, <1>6, <2>1, NoSaveAppended DEF SaveStep, IsSave
      <3>2. SavesSorted(queue'[s], c) /\ SavesAtLeast(queue'[s], c, row[c].ver)
        BY <1>1, <3>1 DEF FewerSaves, FreshInv
      <3>3. ASSUME NEW j \in Slots, Holds(s, j, c)'
            PROVE  SavesAtMost(queue'[s], c, chr'[s][j].ver)
        <4>1. SavesAtMost(queue[s], c, chr[s][j].ver)
          BY <1>2, <3>3 DEF FreshInv
        <4>2. SavesAtMost(queue[s], c, chr'[s][j].ver)
          BY <1>1, <1>2, <1>4, <3>3, <4>1
        <4> QED BY <1>1, <3>1, <4>2 DEF FewerSaves
      <3> QED BY <1>3, <3>2, <3>3 DEF FreshInv
    <2>2. CASE q.c = c
      <3>1. /\ Holds(s, k, c) /\ q.ver = chr[s][k].ver
            /\ queue'[s] = Append(queue[s], q)
        BY <1>6, <2>2 DEF SaveStep
      <3>2. /\ SavesSorted(queue[s], c) /\ SavesAtMost(queue[s], c, q.ver)
            /\ SavesAtLeast(queue[s], c, row[c].ver) /\ q.ver >= row[c].ver
        BY <3>1 DEF FreshInv
      <3>3. SavesSorted(queue'[s], c) /\ SavesAtLeast(queue'[s], c, row[c].ver)
        BY <1>1, <3>1, <3>2, SaveAppended
      <3>4. ASSUME NEW j \in Slots, Holds(s, j, c)'
            PROVE  SavesAtMost(queue'[s], c, chr'[s][j].ver)
        <4>1. j = k
          BY <1>2, <3>1, <3>4 DEF OwnInv
        <4>2. q.ver <= chr'[s][j].ver
          BY <1>1, <1>2, <3>1, <3>4, <4>1
        <4>3. SavesAtMost(queue[s], c, chr'[s][j].ver)
          BY <1>1, <1>2, <1>4, <3>1, <3>2, <3>4, <4>1
        <4> QED BY <1>1, <3>1, <3>2, <4>2, <4>3, SaveAppended
      <3> QED BY <1>3, <3>3, <3>4 DEF FreshInv
    <2> QED BY <2>1, <2>2
  <1> QED BY <1>5, <1>6 DEF QueueStep

(* A step at another server that keeps the data of the row.                *)
LEMMA FreshThere ==
    ASSUME NEW s \in Servers, OnlyAt(s), NEW t \in Servers \ {s}, NEW c \in Chars,
           FreshInv(t, c), row'[c].ver = row[c].ver
    PROVE  FreshInv(t, c)'
  <1>1. queue'[t] = queue[t] /\ login'[t] = login[t] /\ chr'[t] = chr[t]
    BY DEF OnlyAt
  <1>2. \A k \in Slots : Holds(t, k, c)' <=> Holds(t, k, c)
    BY <1>1 DEF Holds
  <1> QED BY <1>1, <1>2 DEF FreshInv, Building

(* A step that keeps the data of all rows, at all servers.                 *)
LEMMA FreshStep ==
    ASSUME TypeOK, TypeOK', OwnershipInv, AllFresh, robbed \subseteq robbed',
           NEW s \in Servers, Entries(s), QueueStep(s), OnlyAt(s),
           \A c \in Chars : row'[c].ver = row[c].ver,
           \A c \in Honest : FreshInv(s, c) =>
              (Building(s, c)' => login'[s].ver >= row[c].ver)
    PROVE  AllFresh'
  <1> SUFFICES ASSUME NEW c \in Honest', NEW t \in Servers PROVE FreshInv(t, c)'
    BY DEF AllFresh
  <1>1. c \in Honest /\ c \in Chars /\ FreshInv(t, c) /\ OwnInv(t, c)
    BY DEF AllFresh, Honest, OwnershipInv, ServerInv
  <1>2. CASE t = s
    BY <1>1, <1>2, FreshHere
  <1>3. CASE t # s
    BY <1>1, <1>3, FreshThere
  <1> QED BY <1>2, <1>3

(* A character is built from the data its row had when it was marked.      *)
LEMMA FreshCreate ==
    ASSUME TypeOK, OwnershipInv, AllFresh,
           NEW s \in Servers, NEW k \in Slots, CreateChar(s, k)
    PROVE  AllFresh'
  <1> DEFINE id == login[s].id
  <1>1. /\ queue' = queue /\ OnlyAt(s) /\ UNCHANGED <<row, robbed>>
        /\ login[s].status = "create" /\ ~login[s].current
        /\ chr'[s][k].used /\ chr'[s][k].id = id /\ chr'[s][k].ver = login[s].ver
        /\ \A j \in Slots \ {k} : chr'[s][j] = chr[s][j]
        /\ login'[s].status \in {"ok", "refused"}
    BY CreateStep
  <1>2. ~chr[s][k].used
    BY DEF CreateChar
  <1> SUFFICES ASSUME NEW c \in Honest', NEW t \in Servers PROVE FreshInv(t, c)'
    BY DEF AllFresh
  <1>3. c \in Honest /\ c \in Chars /\ FreshInv(t, c) /\ OwnInv(t, c)
    BY <1>1 DEF AllFresh, Honest, OwnershipInv, ServerInv
  <1>4. CASE t # s
    BY <1>1, <1>3, <1>4, FreshThere
  <1>5. CASE t = s
    <2>1. ~Building(s, c)'
      BY <1>1 DEF Building
    <2>2. SavesSorted(queue'[s], c) /\ SavesAtLeast(queue'[s], c, row'[c].ver)
      BY <1>1, <1>3, <1>5 DEF FreshInv
    <2>3. ASSUME NEW j \in Slots, Holds(s, j, c)'
          PROVE  chr'[s][j].ver >= row[c].ver /\ SavesAtMost(queue[s], c, chr'[s][j].ver)
      <3>1. CASE j = k
        <4>1. Building(s, c)
          BY <1>1, <2>3, <3>1 DEF Building, Holds
        <4>2. ~HasSave(queue[s], c)
          BY <1>3, <1>5, <4>1 DEF Building, OwnInv
        <4>3. login[s].ver >= row[c].ver
          BY <1>3, <1>5, <4>1 DEF FreshInv
        <4> QED BY <1>1, <3>1, <4>2, <4>3, NoSaves
      <3>2. CASE j # k
        BY <1>1, <1>3, <1>5, <2>3, <3>2 DEF FreshInv, Holds
      <3> QED BY <3>1, <3>2
    <2> QED BY <1>1, <1>5, <2>1, <2>2, <2>3 DEF FreshInv
  <1> QED BY <1>4, <1>5

(* The oldest save of a character replaces the data of its row: newer than *)
(* the row, and not newer than the saves behind it and the memory.         *)
LEMMA FreshSave ==
    ASSUME TypeOK, TypeOK', OwnershipInv, OwnershipInv', AllFresh,
           NEW s \in Servers, DbSave(s)
    PROVE  /\ AllFresh'
           /\ \A c \in Chars \ robbed' : row'[c].ver >= row[c].ver
  <1> DEFINE q == Head(queue[s])
  <1>1. /\ Smooth(s) /\ QueueStep(s) /\ OnlyAt(s)
        /\ UNCHANGED <<up, chr, login, robbed>>
        /\ q.c \in Chars /\ IsSave(q, q.c)
        /\ \A d \in Chars \ {q.c} : row'[d] = row[d]
        /\ row[q.c].cur # s => row'[q.c] = row[q.c]
        /\ row[q.c].cur = s => row'[q.c].ver = q.ver
        /\ row'[q.c].cur \in {row[q.c].cur, NoServer}
    BY SaveWrites
  <1>2. queue[s] \in Seq(Queries) /\ queue[s] # <<>> /\ queue'[s] = Tail(queue[s])
    BY DEF DbSave, NextQuery, TypeOK
  <1>3. \A c \in Chars : row[c].ver \in Nat
    BY VersionTypes
  <1> HIDE DEF q
  <1> SUFFICES ASSUME NEW c \in Honest', NEW t \in Servers
               PROVE  FreshInv(t, c)' /\ row'[c].ver >= row[c].ver
    BY <1>1 DEF AllFresh, Honest
  <1>4. /\ c \in Honest /\ c \in Chars
        /\ \A u \in Servers : FreshInv(u, c) /\ OwnInv(u, c) /\ OwnInv(u, c)'
    BY <1>1 DEF AllFresh, Honest, OwnershipInv, ServerInv
  <1>5. CASE row'[c].ver = row[c].ver
    <2>1. Building(s, c)' => login'[s].ver >= row[c].ver
      BY <1>1, <1>4 DEF FreshInv, Building
    <2>2. FreshInv(t, c)'
      <3>1. CASE t = s
        BY <1>1, <1>4, <1>5, <2>1, <3>1, FreshHere DEF Smooth
      <3>2. CASE t # s
        BY <1>1, <1>4, <1>5, <3>2, FreshThere
      <3> QED BY <3>1, <3>2
    <2> QED BY <1>3, <1>4, <1>5, <2>2
  <1>6. CASE row'[c].ver # row[c].ver
    <2>1. c = q.c /\ row[c].cur = s /\ row'[c].ver = q.ver /\ IsSave(q, c)
      BY <1>1, <1>4, <1>6
    <2>2. /\ SavesSorted(queue[s], c) /\ SavesAtLeast(queue[s], c, row[c].ver)
      BY <1>4 DEF FreshInv
    <2>3. /\ HasSave(queue[s], c) /\ SavesAtLeast(Tail(queue[s]), c, q.ver)
          /\ q.ver >= row[c].ver
          /\ \A v : SavesAtMost(queue[s], c, v) => q.ver <= v
      BY <1>2, <2>1, <2>2, HeadSave DEF q
    <2>4. FreshInv(t, c)'
      <3>1. CASE t # s
        <4>1. row'[c].cur # t
          BY <1>1, <2>1, <3>1, SentinelAssumption
        <4> QED BY <1>4, <4>1, Absent
      <3>2. CASE t = s
        <4>1. FewerSaves(queue'[s], queue[s], c)
          BY <1>2, TailFewer
        <4>2. SavesSorted(queue'[s], c) /\ SavesAtLeast(queue'[s], c, row'[c].ver)
          BY <1>2, <2>1, <2>2, <2>3, <4>1 DEF FewerSaves
        <4>3. ~Building(s, c)'
          BY <1>1, <1>4, <2>3 DEF OwnInv, Building
        <4>4. ASSUME NEW k \in Slots, Holds(s, k, c)'
              PROVE  /\ chr'[s][k].ver >= row'[c].ver
                     /\ SavesAtMost(queue'[s], c, chr'[s][k].ver)
          <5>1. chr'[s][k] = chr[s][k] /\ SavesAtMost(queue[s], c, chr[s][k].ver)
            BY <1>1, <1>4, <4>4 DEF FreshInv, Holds
          <5>2. SavesAtMost(queue'[s], c, chr[s][k].ver)
            BY <4>1, <5>1, VersionTypes DEF FewerSaves
          <5>3. q.ver <= chr[s][k].ver
            BY <2>3, <5>1
          <5>4. q.ver \in Nat /\ chr[s][k].ver \in Nat
            <6>1. q \in Queries
              BY <1>2 DEF q
            <6> QED BY <6>1, VersionTypes DEF Queries
          <5> QED BY <2>1, <5>1, <5>2, <5>3, <5>4
        <4> QED BY <3>2, <4>2, <4>3, <4>4 DEF FreshInv
      <3> QED BY <3>1, <3>2
    <2> QED BY <2>1, <2>3, <2>4
  <1> QED BY <1>5, <1>6

(* While alloc_item does not fail, every step keeps memory and queues ahead*)
(* of the rows, and no step takes data of a row back.                      *)
LEMMA FreshNext ==
    ASSUME ItemsCanRunOut = FALSE, TypeOK, TypeOK', OwnershipInv, OwnershipInv',
           AllFresh, [Next]_vars
    PROVE  /\ AllFresh'
           /\ \A c \in Chars \ robbed' : row'[c].ver >= row[c].ver
  <1>1. \A c \in Chars : row[c].ver \in Nat
    BY VersionTypes
  <1>2. CASE UNCHANGED vars
    <2>1. \A c : \A s \in Servers : \A k \in Slots : Holds(s, k, c)' <=> Holds(s, k, c)
      BY <1>2 DEF vars, Holds
    <2>2. AllFresh'
      BY <1>2, <2>1 DEF vars, AllFresh, FreshInv, Honest, Building
    <2> QED BY <1>1, <1>2, <2>2 DEF vars
  <1>3. CASE Next
    <2>1. PICK s \in Servers :
            \/ Step(s) \/ DbSave(s) \/ \E c \in Chars : DbLoadHere(s, c)
            \/ \E k \in Slots : Usurp(s, k) \/ CreateChar(s, k) \/ CreateNoItem(s, k)
      BY <1>3, AnyStep
    <2>2. CASE Step(s)
      <3>1. /\ robbed \subseteq robbed' /\ \A c \in Chars : row'[c].ver = row[c].ver
            /\ Entries(s) /\ QueueStep(s) /\ OnlyAt(s) /\ Struct(s)
        BY <2>2 DEF Step, Smooth, RowStep
      <3>2. ASSUME NEW c \in Honest, FreshInv(s, c), Building(s, c)'
            PROVE  login'[s].ver >= row[c].ver
        <4>1. SameLogin(s)
          BY <3>1, <3>2 DEF Struct, Building
        <4> QED BY <3>2, <4>1 DEF SameLogin, Building, FreshInv
      <3>3. AllFresh'
        BY <3>1, <3>2, FreshStep
      <3> QED BY <1>1, <3>1, <3>3
    <2>3. CASE DbSave(s)
      BY <2>3, FreshSave
    <2>4. ASSUME NEW c \in Chars, DbLoadHere(s, c)
          PROVE  /\ AllFresh'
                 /\ \A d \in Chars \ robbed' : row'[d].ver >= row[d].ver
      <3>1. /\ Entries(s) /\ QueueStep(s) /\ OnlyAt(s)
            /\ robbed' = robbed
            /\ row'[c].ver = row[c].ver
            /\ \A d \in Chars \ {c} : row'[d] = row[d]
            /\ login'[s].id = login[s].id
            /\ login'[s].ver = row[c].ver
            /\ Head(queue[s]).op = "load" /\ Head(queue[s]).c = c
        BY <2>4, LoadReads
      <3>2. login[s].id = c
        <4>1. queue[s] \in Seq(Queries) /\ queue[s] # <<>>
          BY <2>4 DEF DbLoadHere, DbLoad, NextQuery, TypeOK
        <4>2. 1 \in DOMAIN queue[s] /\ Head(queue[s]) = queue[s][1]
          BY <4>1
        <4> QED BY <3>1, <4>2 DEF OwnershipInv, ServerInv, LoginInv
      <3>3. \A d \in Chars : row'[d].ver = row[d].ver
        BY <3>1
      <3>4. \A d : Building(s, d)' => login'[s].ver >= row[d].ver
        BY <1>1, <3>1, <3>2 DEF Building
      <3>5. AllFresh'
        BY <3>1, <3>3, <3>4, FreshStep
      <3> QED BY <1>1, <3>3, <3>5
    <2>5. ASSUME NEW k \in Slots, Usurp(s, k)
          PROVE  /\ AllFresh'
                 /\ \A d \in Chars \ robbed' : row'[d].ver >= row[d].ver
      <3>1. /\ Entries(s) /\ QueueStep(s) /\ OnlyAt(s)
            /\ robbed' = robbed /\ row' = row /\ login'[s].status = "ok"
        BY <2>5, UsurpStep
      <3>2. \A d : ~Building(s, d)'
        BY <3>1 DEF Building
      <3>3. AllFresh'
        BY <3>1, <3>2, FreshStep
      <3> QED BY <1>1, <3>1, <3>3
    <2>6. ASSUME NEW k \in Slots, CreateChar(s, k)
          PROVE  /\ AllFresh'
                 /\ \A d \in Chars \ robbed' : row'[d].ver >= row[d].ver
      BY <1>1, <2>6, CreateStep, FreshCreate
    <2>7. \A k \in Slots : ~CreateNoItem(s, k)
      BY DEF CreateNoItem
    <2> QED BY <2>1, <2>2, <2>3, <2>4, <2>5, <2>6, <2>7
  <1> QED BY <1>2, <1>3

(* At the start nothing is in memory or in a queue.                        *)
LEMMA InitFresh == Init => AllFresh
  <1> SUFFICES ASSUME Init, NEW c \in Honest, NEW s \in Servers PROVE FreshInv(s, c)
    BY DEF AllFresh
  <1>1. queue[s] = <<>> /\ login[s].status = "empty" /\ \A k \in Slots : ~chr[s][k].used
    BY EmptyLoginType DEF Init, Free
  <1>2. ~HasSave(queue[s], c)
    BY <1>1 DEF HasSave
  <1> QED BY <1>1, <1>2, NoSaves DEF FreshInv, Holds, Building

(* The inductive invariant behind both.                                    *)
LEMMA FreshAlways == ASSUME ItemsCanRunOut = FALSE PROVE Spec => []AllFresh
  <1>1. TypeOK /\ TypeOK' /\ OwnershipInv /\ OwnershipInv' /\ AllFresh /\ [Next]_vars
        => AllFresh'
    BY FreshNext
  <1> QED BY <1>1, InitFresh, TypeCorrect, Ownership, PTL DEF Spec

(* As long as alloc_item does not fail, what a player goes on playing with *)
(* contains everything that was ever saved for the character.              *)
THEOREM Fresh == ASSUME ItemsCanRunOut = FALSE PROVE Spec => []MemoryIsFresh
  <1>1. AllFresh => MemoryIsFresh
    BY DEF AllFresh, FreshInv, MemoryIsFresh
  <1> QED BY <1>1, FreshAlways, PTL

(* ... and no delayed write ever replaces data of a row by older data.     *)
THEOREM NoneLost == ASSUME ItemsCanRunOut = FALSE PROVE Spec => NoLostUpdate
  <1>1. TypeOK /\ TypeOK' /\ OwnershipInv /\ OwnershipInv' /\ AllFresh /\ [Next]_vars
        => [\A c \in Chars \ robbed' : row'[c].ver >= row[c].ver]_vars
    BY FreshNext
  <1> QED BY <1>1, FreshAlways, TypeCorrect, Ownership, PTL DEF Spec, NoLostUpdate
=============================================================================

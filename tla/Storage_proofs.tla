--------------------------- MODULE Storage_proofs ---------------------------
(***************************************************************************)
(* Proofs about Storage, for any number of servers, users, blobs and       *)
(* changes: types, that users take the answers to their own requests, that *)
(* no write to the clan table is lost, and that the storage implements     *)
(* the compare-and-set register.                                           *)
(***************************************************************************)
EXTENDS Storage, TLAPS

-----------------------------------------------------------------------------
(* Values.                                                                 *)

(* No change has happened yet; an empty structure holds nothing.           *)
LEMMA EmptyType ==
    /\ NoData \in Data
    /\ Empty \in Slots
    /\ Empty.state = "empty" /\ Empty.new = FALSE
  <1>1. NoData \in Data
    BY DEF NoData, Data
  <1>2. Empty \in Slots /\ Empty.state = "empty" /\ Empty.new = FALSE
    BY <1>1 DEF Empty, Slots, NoUser
  <1> QED BY <1>1, <1>2

(* A request carries the user and the version it knows.                    *)
LEMMA RequestType ==
    ASSUME NEW c \in Users, NEW v \in Nat
    PROVE  /\ Request(c, v) \in Slots
           /\ Request(c, v).state = "asked"
           /\ Request(c, v).user = c
           /\ Request(c, v).ver = v
           /\ Request(c, v).new = FALSE
  BY EmptyType DEF Request, Empty, Slots, NoUser

(* One more thing happens.                                                 *)
LEMMA HappensType ==
    ASSUME data \in [Users -> Data], NEW c \in Users, NEW x \in Changes, Happens(c, x)
    PROVE  /\ data' \in [Users -> Data]
           /\ \A d \in Users : d # c => data'[d] = data[d]
           /\ AtLeast(data'[c], data[c])
  <1>1. data[c] \in [Changes -> Nat]
    BY DEF Data
  <1>2. data' = [data EXCEPT ![c] = [data[c] EXCEPT ![x] = data[c][x] + 1]]
    BY DEF Happens
  <1>3. [data[c] EXCEPT ![x] = data[c][x] + 1] \in [Changes -> Nat]
    BY <1>1
  <1>4. data' \in [Users -> Data]
    BY <1>2, <1>3 DEF Data
  <1>5. data'[c] = [data[c] EXCEPT ![x] = data[c][x] + 1]
    BY <1>2
  <1>6. \A y \in Changes : data'[c][y] = IF y = x THEN data[c][y] + 1 ELSE data[c][y]
    BY <1>1, <1>5
  <1>7. \A y \in Changes : data[c][y] \in Nat
    BY <1>1
  <1>8. AtLeast(data'[c], data[c])
    BY <1>6, <1>7 DEF AtLeast
  <1> QED BY <1>2, <1>4, <1>8

(* The structures after one of them got another content.                   *)
LEMMA SlotAt ==
    ASSUME slot \in [Servers -> [Kinds -> Slots]], NEW s \in Servers, NEW o \in Kinds,
           NEW r \in Slots, slot' = [slot EXCEPT ![s][o] = r]
    PROVE  /\ slot' \in [Servers -> [Kinds -> Slots]]
           /\ slot'[s][o] = r
           /\ \A t \in Servers, p \in Kinds :
                 (t # s \/ p # o) => slot'[t][p] = slot[t][p]
  OBVIOUS

(* An answer is put into a structure.                                      *)
LEMMA SetSlotAt ==
    ASSUME slot \in [Servers -> [Kinds -> Slots]], NEW s \in Servers, NEW o \in Kinds,
           slot[s][o].state = "asked", NEW st \in {"done", "failed"}, SetSlot(s, o, st)
    PROVE  \E r \in Slots :
              /\ slot' = [slot EXCEPT ![s][o] = r]
              /\ r.state = st /\ r.user = slot[s][o].user /\ r.ver = slot[s][o].ver
              /\ r.found = slot[s][o].found /\ r.new = slot[s][o].new
  <1> DEFINE q == slot[s][o]
             r == [q EXCEPT !.state = st]
  <1>1. q \in Slots
    OBVIOUS
  <1>2. /\ r.state = st /\ r.user = q.user /\ r.ver = q.ver
        /\ r.found = q.found /\ r.new = q.new
        /\ r \in Slots
    BY <1>1 DEF Slots
  <1>3. slot' = [slot EXCEPT ![s][o] = r]
    BY DEF SetSlot
  <1> QED BY <1>2, <1>3

-----------------------------------------------------------------------------
(* Requests and answers.                                                   *)

(* The step in which a user waits tells which structure it waits for.      *)
LEMMA WaitingSteps ==
    /\ \A o \in Kinds : Waiting[o] \in {"creating", "reading", "updating"}
    /\ \A o, p \in Kinds : Waiting[o] = Waiting[p] => o = p
    /\ Waiting["create"] = "creating" /\ Waiting["read"] = "reading"
    /\ Waiting["update"] = "updating"
  BY DEF Waiting, Kinds

(* A query is put at the end of the queue.                                 *)
LEMMA AppendAt ==
    ASSUME NEW q \in Seq(Kinds), NEW o \in Kinds
    PROVE  /\ Append(q, o) \in Seq(Kinds)
           /\ DOMAIN q = 1..Len(q) /\ Len(q) \in Nat
           /\ DOMAIN Append(q, o) = 1..(Len(q) + 1)
           /\ \A i \in 1..Len(q) : Append(q, o)[i] = q[i]
           /\ Append(q, o)[Len(q) + 1] = o
  OBVIOUS

(* The first query is taken off the queue.                                 *)
LEMMA TailAt ==
    ASSUME NEW q \in Seq(Kinds), q # <<>>
    PROVE  /\ Tail(q) \in Seq(Kinds)
           /\ DOMAIN q = 1..Len(q) /\ Len(q) \in Nat /\ Len(q) >= 1
           /\ DOMAIN Tail(q) = 1..(Len(q) - 1)
           /\ \A i \in 1..(Len(q) - 1) : Tail(q)[i] = q[i + 1]
           /\ Head(q) = q[1]
  OBVIOUS

(* The types of the variables, one by one.                                 *)
LEMMA Types ==
    ASSUME StorageTypeOK
    PROVE  /\ slot \in [Servers -> [Kinds -> Slots]]
           /\ queue \in [Servers -> Seq(Kinds)]
           /\ table \in [Blobs -> [ver : Nat, data : Data]]
           /\ data \in [Users -> Data]
           /\ ver \in [Users -> Nat]
           /\ step \in [Users -> ClanSteps \cup KeeperSteps]
           /\ dirty \in [Users -> BOOLEAN]
           /\ up \in [Servers -> BOOLEAN]
           /\ Home \in [Users -> Servers]
           /\ Blob \in [Users -> Blobs]
  BY UsersAssumption DEF StorageTypeOK

(* A structure in use has a user of that server; an empty one no matter.   *)
LEMMA SlotUser ==
    ASSUME StorageTypeOK, NEW s \in Servers, NEW o \in Kinds, slot[s][o].state # "empty"
    PROVE  slot[s][o].user \in Users
  <1>1. slot[s][o] \in Slots
    BY Types
  <1> QED BY <1>1 DEF Slots

(* A user that did not wait makes a request.                               *)
LEMMA AskAgrees ==
    ASSUME StorageTypeOK, SlotsAgree, QueueAgrees,
           NEW c \in Users, NEW o \in Kinds,
           step[c] \notin {"creating", "reading", "updating"},
           Ask(c, o, Waiting[o])
    PROVE  /\ slot' \in [Servers -> [Kinds -> Slots]]
           /\ queue' \in [Servers -> Seq(Kinds)]
           /\ slot'[Home[c]][o] = Request(c, ver[c])
           /\ \A t \in Servers, p \in Kinds :
                 (t # Home[c] \/ p # o) => slot'[t][p] = slot[t][p]
           /\ SlotsAgree' /\ QueueAgrees'
  <1> DEFINE s == Home[c]
  <1>0. s \in Servers /\ ver[c] \in Nat
    BY Types
  <1>1. /\ Request(c, ver[c]) \in Slots
        /\ Request(c, ver[c]).state = "asked"
        /\ Request(c, ver[c]).user = c
    BY <1>0, RequestType, ZenonT(60)
  <1>2. slot' = [slot EXCEPT ![s][o] = Request(c, ver[c])]
    BY DEF Ask
  <1>3. /\ slot' \in [Servers -> [Kinds -> Slots]]
        /\ slot'[s][o] = Request(c, ver[c])
        /\ \A t \in Servers, p \in Kinds :
              (t # s \/ p # o) => slot'[t][p] = slot[t][p]
    BY <1>0, <1>1, <1>2, Types, SlotAt
  <1>4. /\ slot[s][o].state = "empty"
        /\ queue' = [queue EXCEPT ![s] = Append(queue[s], o)]
        /\ step' = [step EXCEPT ![c] = Waiting[o]]
    BY DEF Ask
  <1>5. /\ step'[c] = Waiting[o]
        /\ \A d \in Users : d # c => step'[d] = step[d]
    BY <1>4, Types
  <1>6. queue[s] \in Seq(Kinds)
    BY <1>0, Types
  <1>7. queue' \in [Servers -> Seq(Kinds)] /\ queue'[s] = Append(queue[s], o)
        /\ \A t \in Servers : t # s => queue'[t] = queue[t]
    BY <1>0, <1>4, <1>6, AppendAt, Types
  <1>8. SlotsAgree'
    <2> SUFFICES ASSUME NEW t \in Servers, NEW p \in Kinds
                 PROVE  LET r == slot'[t][p] IN
                        /\ r.state # "empty" => Home[r.user] = t /\ step'[r.user] = Waiting[p]
                        /\ \A d \in Users : Home[d] = t /\ step'[d] = Waiting[p] =>
                              r.state # "empty" /\ r.user = d
      BY DEF SlotsAgree
    <2>1. CASE t = s /\ p = o
      <3>1. \A d \in Users : d # c /\ Home[d] = s => step[d] # Waiting[o]
        BY <1>0, <1>4 DEF SlotsAgree
      <3> QED BY <2>1, <3>1, <1>1, <1>3, <1>5
    <2>2. CASE t # s \/ p # o
      <3>1. slot'[t][p] = slot[t][p]
        BY <1>3, <2>2
      <3>2. slot[t][p].state # "empty" =>
               /\ slot[t][p].user \in Users
               /\ Home[slot[t][p].user] = t /\ step[slot[t][p].user] = Waiting[p]
               /\ slot[t][p].user # c
        BY SlotUser, WaitingSteps DEF SlotsAgree
      <3>3. \A d \in Users : Home[d] = t /\ step'[d] = Waiting[p] =>
               d # c /\ step[d] = Waiting[p]
        BY <1>5, <2>2, WaitingSteps
      <3> QED BY <3>1, <3>2, <3>3, <1>5 DEF SlotsAgree
    <2> QED BY <2>1, <2>2
  <1>9. QueueAgrees'
    <2> SUFFICES ASSUME NEW t \in Servers
                 PROVE  /\ \A p \in Kinds :
                             slot'[t][p].state = "asked"
                             <=> \E i \in DOMAIN queue'[t] : queue'[t][i] = p
                        /\ \A i, j \in DOMAIN queue'[t] :
                             queue'[t][i] = queue'[t][j] => i = j
      BY DEF QueueAgrees
    <2>1. /\ \A p \in Kinds :
                slot[t][p].state = "asked" <=> \E i \in DOMAIN queue[t] : queue[t][i] = p
          /\ \A i, j \in DOMAIN queue[t] : queue[t][i] = queue[t][j] => i = j
      BY DEF QueueAgrees
    <2>2. CASE t # s
      <3>1. queue'[t] = queue[t] /\ \A p \in Kinds : slot'[t][p] = slot[t][p]
        BY <2>2, <1>3, <1>7
      <3> QED BY <2>1, <3>1
    <2>3. CASE t = s
      <3> DEFINE q == queue[s]
                 n == Len(q)
      <3>1. /\ DOMAIN q = 1..n /\ n \in Nat /\ DOMAIN queue'[s] = 1..(n + 1)
            /\ \A i \in 1..n : queue'[s][i] = q[i]
            /\ queue'[s][n + 1] = o
        BY <1>6, <1>7, AppendAt
      <3>2. \A i \in 1..n : q[i] # o
        BY <2>1, <2>3, <1>4, <3>1
      <3>3. \A p \in Kinds : slot'[s][p].state = "asked"
                             <=> p = o \/ slot[s][p].state = "asked"
        BY <1>0, <1>1, <1>3
      <3> HIDE DEF q, n
      <3>4. \A p \in Kinds : (\E i \in 1..(n + 1) : queue'[s][i] = p)
                             <=> p = o \/ \E i \in 1..n : q[i] = p
        BY <3>1
      <3>5. \A i, j \in 1..(n + 1) : queue'[s][i] = queue'[s][j] => i = j
        <4>1. \A i, j \in 1..n : q[i] = q[j] => i = j
          BY <2>1, <2>3, <3>1 DEF q
        <4> QED BY <4>1, <3>1, <3>2
      <3>6. \A p \in Kinds : slot[s][p].state = "asked" <=> \E i \in 1..n : q[i] = p
        BY <2>1, <2>3, <3>1 DEF q
      <3>7. \A p \in Kinds : slot'[s][p].state = "asked"
                             <=> \E i \in 1..(n + 1) : queue'[s][i] = p
        BY <3>3, <3>4, <3>6
      <3>8. DOMAIN queue'[s] = 1..(n + 1)
        BY <3>1
      <3> QED BY <2>3, <3>5, <3>7, <3>8
    <2> QED BY <2>2, <2>3
  <1> QED BY <1>3, <1>7, <1>8, <1>9

(* A user takes its answer.                                                *)
LEMMA AnswerAgrees ==
    ASSUME StorageTypeOK, SlotsAgree, QueueAgrees,
           NEW c \in Users, NEW o \in Kinds, NEW states \in SUBSET {"done", "failed"},
           Answered(c, o, Waiting[o], states),
           NEW st, st \notin {"creating", "reading", "updating"},
           step' = [step EXCEPT ![c] = st],
           queue' = queue
    PROVE  /\ slot' \in [Servers -> [Kinds -> Slots]]
           /\ slot[Home[c]][o].user = c /\ slot[Home[c]][o].state \in states
           /\ slot'[Home[c]][o] = Empty
           /\ \A t \in Servers, p \in Kinds :
                 (t # Home[c] \/ p # o) => slot'[t][p] = slot[t][p]
           /\ SlotsAgree' /\ QueueAgrees'
  <1> DEFINE s == Home[c]
  <1>0. s \in Servers
    BY Types
  <1>1. slot' = [slot EXCEPT ![s][o] = Empty]
        /\ step[c] = Waiting[o] /\ slot[s][o].state \in states
    BY DEF Answered
  <1>2. slot[s][o].user = c /\ slot[s][o].state \in {"done", "failed"}
    BY <1>0, <1>1 DEF SlotsAgree
  <1>3. /\ slot' \in [Servers -> [Kinds -> Slots]]
        /\ slot'[s][o] = Empty
        /\ \A t \in Servers, p \in Kinds :
              (t # s \/ p # o) => slot'[t][p] = slot[t][p]
    BY <1>0, <1>1, EmptyType, Types, SlotAt
  <1>4. /\ step'[c] = st
        /\ \A d \in Users : d # c => step'[d] = step[d]
    BY Types
  <1>5. SlotsAgree'
    <2> SUFFICES ASSUME NEW t \in Servers, NEW p \in Kinds
                 PROVE  LET r == slot'[t][p] IN
                        /\ r.state # "empty" => Home[r.user] = t /\ step'[r.user] = Waiting[p]
                        /\ \A d \in Users : Home[d] = t /\ step'[d] = Waiting[p] =>
                              r.state # "empty" /\ r.user = d
      BY DEF SlotsAgree
    <2>0. \A d \in Users : step'[d] = Waiting[p] => d # c /\ step[d] = Waiting[p]
      BY <1>4, WaitingSteps
    <2>1. CASE t = s /\ p = o
      <3>1. \A d \in Users : ~(d # c /\ Home[d] = s /\ step[d] = Waiting[o])
        BY <1>0, <1>2 DEF SlotsAgree
      <3> QED BY <2>0, <2>1, <3>1, <1>3, EmptyType
    <2>2. CASE t # s \/ p # o
      <3>1. slot'[t][p] = slot[t][p]
        BY <1>3, <2>2
      <3>2. slot[t][p].state # "empty" =>
               /\ slot[t][p].user \in Users
               /\ Home[slot[t][p].user] = t /\ step[slot[t][p].user] = Waiting[p]
        BY SlotUser DEF SlotsAgree
      <3>3. slot[t][p].state # "empty" => slot[t][p].user # c
        BY <3>2, <2>2, <1>1, WaitingSteps
      <3> QED BY <2>0, <3>1, <3>2, <3>3, <1>4 DEF SlotsAgree
    <2> QED BY <2>1, <2>2
  <1>6. QueueAgrees'
    <2>1. \A t \in Servers, p \in Kinds :
             slot'[t][p].state = "asked" <=> slot[t][p].state = "asked"
      <3> SUFFICES ASSUME NEW t \in Servers, NEW p \in Kinds
                   PROVE  slot'[t][p].state = "asked" <=> slot[t][p].state = "asked"
        OBVIOUS
      <3>1. CASE t = s /\ p = o
        BY <3>1, <1>2, <1>3, EmptyType
      <3>2. CASE t # s \/ p # o
        BY <3>2, <1>3
      <3> QED BY <3>1, <3>2
    <2> QED BY <2>1 DEF QueueAgrees
  <1> QED BY <1>1, <1>2, <1>3, <1>5, <1>6

(* The database thread answers a request.                                  *)
LEMMA DbAgrees ==
    ASSUME StorageTypeOK, SlotsAgree, QueueAgrees,
           NEW s \in Servers, NEW o \in Kinds,
           NextQuery(s, o), slot[s][o].state = "asked",
           NEW r \in Slots, r.user = slot[s][o].user, r.state \in {"done", "failed"},
           slot' = [slot EXCEPT ![s][o] = r],
           step' = step
    PROVE  /\ slot' \in [Servers -> [Kinds -> Slots]]
           /\ queue' \in [Servers -> Seq(Kinds)]
           /\ slot'[s][o] = r
           /\ \A t \in Servers, p \in Kinds :
                 (t # s \/ p # o) => slot'[t][p] = slot[t][p]
           /\ SlotsAgree' /\ QueueAgrees'
  <1>1. /\ slot' \in [Servers -> [Kinds -> Slots]]
        /\ slot'[s][o] = r
        /\ \A t \in Servers, p \in Kinds :
              (t # s \/ p # o) => slot'[t][p] = slot[t][p]
    BY Types, SlotAt
  <1>2. /\ queue[s] \in Seq(Kinds) /\ queue[s] # <<>> /\ Head(queue[s]) = o
        /\ queue' = [queue EXCEPT ![s] = Tail(queue[s])]
    BY Types DEF NextQuery
  <1>3. queue' \in [Servers -> Seq(Kinds)] /\ queue'[s] = Tail(queue[s])
        /\ \A t \in Servers : t # s => queue'[t] = queue[t]
    BY <1>2, TailAt, Types
  <1>4. SlotsAgree'
    <2>1. \A t \in Servers, p \in Kinds :
             /\ slot'[t][p].state # "empty" <=> slot[t][p].state # "empty"
             /\ slot'[t][p].user = slot[t][p].user
      <3> SUFFICES ASSUME NEW t \in Servers, NEW p \in Kinds
                   PROVE  /\ slot'[t][p].state # "empty" <=> slot[t][p].state # "empty"
                          /\ slot'[t][p].user = slot[t][p].user
        OBVIOUS
      <3>1. CASE t = s /\ p = o
        BY <3>1, <1>1
      <3>2. CASE t # s \/ p # o
        BY <3>2, <1>1
      <3> QED BY <3>1, <3>2
    <2> QED BY <2>1 DEF SlotsAgree
  <1>5. QueueAgrees'
    <2> SUFFICES ASSUME NEW t \in Servers
                 PROVE  /\ \A p \in Kinds :
                             slot'[t][p].state = "asked"
                             <=> \E i \in DOMAIN queue'[t] : queue'[t][i] = p
                        /\ \A i, j \in DOMAIN queue'[t] :
                             queue'[t][i] = queue'[t][j] => i = j
      BY DEF QueueAgrees
    <2>1. /\ \A p \in Kinds :
                slot[t][p].state = "asked" <=> \E i \in DOMAIN queue[t] : queue[t][i] = p
          /\ \A i, j \in DOMAIN queue[t] : queue[t][i] = queue[t][j] => i = j
      BY DEF QueueAgrees
    <2>2. CASE t # s
      <3>1. queue'[t] = queue[t] /\ \A p \in Kinds : slot'[t][p] = slot[t][p]
        BY <2>2, <1>1, <1>3
      <3> QED BY <2>1, <3>1
    <2>3. CASE t = s
      <3> DEFINE q == queue[s]
                 n == Len(q)
      <3>1. /\ DOMAIN q = 1..n /\ n \in Nat /\ n >= 1 /\ DOMAIN queue'[s] = 1..(n - 1)
            /\ \A i \in 1..(n - 1) : queue'[s][i] = q[i + 1]
            /\ q[1] = o
        BY <1>2, <1>3, TailAt
      <3>2. \A i, j \in 1..n : q[i] = q[j] => i = j
        BY <2>1, <2>3, <3>1
      <3>3. \A p \in Kinds : slot[s][p].state = "asked" <=> \E i \in 1..n : q[i] = p
        BY <2>1, <2>3, <3>1
      <3>4. \A p \in Kinds : slot'[s][p].state = "asked"
                             <=> p # o /\ slot[s][p].state = "asked"
        BY <1>1
      <3> HIDE DEF q, n
      <3>5. \A i \in 1..n : q[i] = o => i = 1
        BY <3>1, <3>2
      <3>6. \A p \in Kinds : (\E i \in 1..(n - 1) : queue'[s][i] = p)
                             <=> p # o /\ \E i \in 1..n : q[i] = p
        <4> SUFFICES ASSUME NEW p \in Kinds
                     PROVE  (\E i \in 1..(n - 1) : queue'[s][i] = p)
                            <=> p # o /\ \E i \in 1..n : q[i] = p
          OBVIOUS
        <4>1. ASSUME NEW i \in 1..(n - 1), queue'[s][i] = p
              PROVE  p # o /\ \E j \in 1..n : q[j] = p
          <5>1. i + 1 \in 1..n /\ q[i + 1] = p /\ i + 1 # 1
            BY <4>1, <3>1
          <5> QED BY <5>1, <3>5
        <4>2. ASSUME p # o, NEW i \in 1..n, q[i] = p
              PROVE  \E j \in 1..(n - 1) : queue'[s][j] = p
          <5>1. i # 1
            BY <4>2, <3>1
          <5>2. i - 1 \in 1..(n - 1) /\ (i - 1) + 1 = i
            BY <5>1, <3>1
          <5>3. queue'[s][i - 1] = p
            BY <4>2, <5>2, <3>1
          <5> QED BY <5>2, <5>3
        <4> QED BY <4>1, <4>2
      <3>7. \A i, j \in 1..(n - 1) : queue'[s][i] = queue'[s][j] => i = j
        <4> SUFFICES ASSUME NEW i \in 1..(n - 1), NEW j \in 1..(n - 1),
                            queue'[s][i] = queue'[s][j]
                     PROVE  i = j
          OBVIOUS
        <4>1. i + 1 \in 1..n /\ j + 1 \in 1..n /\ q[i + 1] = q[j + 1]
          BY <3>1
        <4>2. i + 1 = j + 1
          BY <4>1, <3>2
        <4> QED BY <4>2, <3>1
      <3> QED BY <2>3, <3>1, <3>3, <3>4, <3>6, <3>7
    <2> QED BY <2>2, <2>3
  <1> QED BY <1>1, <1>3, <1>4, <1>5

(* Steps of users that neither ask nor take an answer.                     *)
LEMMA StepAgrees ==
    ASSUME StorageTypeOK, SlotsAgree, QueueAgrees, NEW c \in Users,
           step[c] \notin {"creating", "reading", "updating"},
           NEW st, st \notin {"creating", "reading", "updating"},
           step' = [step EXCEPT ![c] = st],
           slot' = slot, queue' = queue
    PROVE  SlotsAgree' /\ QueueAgrees'
  <1>1. step'[c] = st /\ \A d \in Users : d # c => step'[d] = step[d]
    BY Types
  <1>2. \A d \in Users, p \in Kinds : step'[d] = Waiting[p] <=> step[d] = Waiting[p]
    BY <1>1, WaitingSteps
  <1>3. SlotsAgree'
    <2> SUFFICES ASSUME NEW t \in Servers, NEW p \in Kinds
                 PROVE  LET r == slot[t][p] IN
                        /\ r.state # "empty" => Home[r.user] = t /\ step'[r.user] = Waiting[p]
                        /\ \A d \in Users : Home[d] = t /\ step'[d] = Waiting[p] =>
                              r.state # "empty" /\ r.user = d
      BY DEF SlotsAgree
    <2> QED BY <1>2, SlotUser DEF SlotsAgree
  <1> QED BY <1>3 DEF QueueAgrees

-----------------------------------------------------------------------------
(* What is known of the clan table.                                        *)

(* What has at least e, which has at least f, has at least f.              *)
LEMMA AtLeastTrans ==
    ASSUME NEW d \in Data, NEW e \in Data, NEW f \in Data, AtLeast(d, e), AtLeast(e, f)
    PROVE  AtLeast(d, f)
  <1> SUFFICES ASSUME NEW x \in Changes PROVE d[x] >= f[x]
    BY DEF AtLeast
  <1>1. d[x] \in Nat /\ e[x] \in Nat /\ f[x] \in Nat
    BY DEF Data
  <1>2. d[x] >= e[x] /\ e[x] >= f[x]
    BY DEF AtLeast
  <1> QED BY <1>1, <1>2

(* Data has at least what it has.                                          *)
LEMMA AtLeastSame ==
    ASSUME NEW d \in Data
    PROVE  AtLeast(d, d)
  BY DEF AtLeast, Data

(* A clan table is not the blob of a keeper.                               *)
LEMMA OtherBlob ==
    /\ Clans \subseteq Users /\ Keepers \subseteq Users /\ Writers \subseteq Clans
    /\ \A c, d \in Clans : Blob[c] = Blob[d]
    /\ \A c \in Clans, k \in Keepers : Blob[c] # Blob[k] /\ c # k
    /\ \A c \in Users : c \in Clans \/ c \in Keepers
  BY UsersAssumption DEF Users

(* While the table and the memory of users stay, only new contents of the  *)
(* structures matter.                                                      *)
LEMMA KnowsStay ==
    ASSUME SlotsKnow, UNCHANGED <<table, ver, data>>,
           \A t \in Servers :
              /\ \/ slot'[t]["update"] = slot[t]["update"]
                 \/ slot'[t]["update"].state = "empty"
                 \/ UpdateKnows(slot'[t]["update"])
              /\ \/ slot'[t]["read"] = slot[t]["read"]
                 \/ slot'[t]["read"].state = "empty"
                 \/ ReadKnows(slot'[t]["read"])
    PROVE  SlotsKnow'
  <1> SUFFICES ASSUME NEW t \in Servers
               PROVE  /\ slot'[t]["update"].state # "empty" => UpdateKnows(slot[t]["update"])'
                      /\ slot'[t]["read"].state # "empty" => ReadKnows(slot[t]["read"])'
    BY DEF SlotsKnow
  <1>1. slot'[t]["update"].state # "empty" => UpdateKnows(slot'[t]["update"])
    BY DEF SlotsKnow
  <1>2. slot'[t]["read"].state # "empty" => ReadKnows(slot'[t]["read"])
    BY DEF SlotsKnow
  <1>3. slot'[t]["update"].state # "empty" => UpdateKnows(slot[t]["update"])'
    BY <1>1 DEF UpdateKnows
  <1>4. slot'[t]["read"].state # "empty" => ReadKnows(slot[t]["read"])'
    BY <1>2 DEF ReadKnows
  <1> QED BY <1>3, <1>4

(* While the table stays, what other users know does not change when one   *)
(* user's memory does.                                                     *)
LEMMA KnowsOthers ==
    ASSUME SlotsKnow, table' = table, NEW c \in Users,
           \A d \in Users : d # c => ver'[d] = ver[d] /\ data'[d] = data[d],
           \A t \in Servers, p \in {"update", "read"} :
              \/ slot'[t][p].state = "empty"
              \/ /\ slot'[t][p] = slot[t][p]
                 /\ slot[t][p].user \in Users /\ slot[t][p].user # c
    PROVE  SlotsKnow'
  <1> SUFFICES ASSUME NEW t \in Servers
               PROVE  /\ slot'[t]["update"].state # "empty" => UpdateKnows(slot[t]["update"])'
                      /\ slot'[t]["read"].state # "empty" => ReadKnows(slot[t]["read"])'
    BY DEF SlotsKnow
  <1>1. ASSUME slot'[t]["update"].state # "empty"
        PROVE  UpdateKnows(slot[t]["update"])'
    <2>1. /\ slot'[t]["update"] = slot[t]["update"]
          /\ slot[t]["update"].user \in Users /\ slot[t]["update"].user # c
      BY <1>1
    <2>2. UpdateKnows(slot[t]["update"])
      BY <1>1, <2>1 DEF SlotsKnow
    <2> QED BY <2>1, <2>2 DEF UpdateKnows
  <1>2. ASSUME slot'[t]["read"].state # "empty"
        PROVE  ReadKnows(slot[t]["read"])'
    <2>1. /\ slot'[t]["read"] = slot[t]["read"]
          /\ slot[t]["read"].user \in Users /\ slot[t]["read"].user # c
      BY <1>2
    <2>2. ReadKnows(slot[t]["read"])
      BY <1>2, <2>1 DEF SlotsKnow
    <2> QED BY <2>1, <2>2 DEF ReadKnows
  <1> QED BY <1>1, <1>2

-----------------------------------------------------------------------------
(* The steps of users.                                                     *)

(* A user of one kind or the other, and the steps it can be in.            *)
LEMMA UserKind ==
    ASSUME StorageInv, NEW c \in Users
    PROVE  /\ c \in Clans => c \notin Keepers /\ step[c] \in ClanSteps
           /\ c \notin Clans => c \in Keepers /\ step[c] \in KeeperSteps
           /\ c \in Clans /\ c \notin Writers => step[c] \in {"read", "reading", "fresh"}
  BY UsersAssumption DEF StorageInv, StepsAgree, Users

(* A request changes neither the table nor what its user knows.            *)
LEMMA AskInv ==
    ASSUME StorageInv, NEW c \in Users, NEW o \in Kinds,
           step[c] \notin {"creating", "reading", "updating"},
           Ask(c, o, Waiting[o]),
           o = "create" => c \in Keepers,
           o = "update" => c \in Keepers \cup Writers,
           UNCHANGED <<table, up, ver, data, dirty, unsent, news, calm>>
    PROVE  StorageInv'
  <1>1. /\ slot' \in [Servers -> [Kinds -> Slots]]
        /\ queue' \in [Servers -> Seq(Kinds)]
        /\ slot'[Home[c]][o] = Request(c, ver[c])
        /\ \A t \in Servers, p \in Kinds :
              (t # Home[c] \/ p # o) => slot'[t][p] = slot[t][p]
        /\ SlotsAgree' /\ QueueAgrees'
    BY AskAgrees DEF StorageInv
  <1>2. step' = [step EXCEPT ![c] = Waiting[o]]
    BY DEF Ask
  <1>3. step'[c] = Waiting[o] /\ \A d \in Users : d # c => step'[d] = step[d]
    BY <1>2, Types DEF StorageInv
  <1>4. Waiting[o] \in ClanSteps \cup KeeperSteps
    BY DEF Waiting, Kinds, ClanSteps, KeeperSteps
  <1>5. step' \in [Users -> ClanSteps \cup KeeperSteps]
    BY <1>2, <1>4, Types DEF StorageInv
  <1>6. StorageTypeOK'
    BY <1>1, <1>5 DEF StorageInv, StorageTypeOK
  <1>7. StepsAgree'
    <2>1. /\ c \in Clans => Waiting[o] \in ClanSteps
          /\ c \in Clans \ Writers => Waiting[o] \in {"read", "reading", "fresh"}
          /\ c \in Keepers => Waiting[o] \in KeeperSteps
      BY WaitingSteps, OtherBlob DEF Kinds, ClanSteps, KeeperSteps
    <2> QED BY <1>3, <2>1 DEF StepsAgree, StorageInv
  <1>8. SlotsKnow'
    <2>1. Request(c, ver[c]).ver = ver[c] /\ Request(c, ver[c]).user = c
          /\ Request(c, ver[c]).state = "asked" /\ ~Request(c, ver[c]).new
      <3>1. ver[c] \in Nat
        BY Types DEF StorageInv
      <3> QED BY <3>1, RequestType, ZenonT(60)
    <2>2. UpdateKnows(Request(c, ver[c])) /\ ReadKnows(Request(c, ver[c]))
      BY <2>1 DEF UpdateKnows, ReadKnows
    <2>3. \A t \in Servers, p \in Kinds :
             slot'[t][p] = slot[t][p] \/ slot'[t][p] = Request(c, ver[c])
      BY <1>1
    <2>4. "update" \in Kinds /\ "read" \in Kinds
      BY DEF Kinds
    <2> QED BY <2>2, <2>3, <2>4, KnowsStay DEF StorageInv
  <1>9. ClanSnapshot' /\ ClanTableExists'
    BY DEF StorageInv, ClanSnapshot, ClanTableExists
  <1> QED BY <1>1, <1>6, <1>7, <1>8, <1>9 DEF StorageInv

(* create_storage, read_storage and update_storage keep the invariant.     *)
LEMMA AsksInv ==
    ASSUME StorageInv, NEW c \in Users, CreateAsk(c) \/ ReadAsk(c) \/ UpdateAsk(c)
    PROVE  StorageInv'
  <1>1. CASE CreateAsk(c)
    BY <1>1, AskInv, WaitingSteps DEF CreateAsk, Kinds
  <1>2. CASE ReadAsk(c)
    BY <1>2, AskInv, WaitingSteps DEF ReadAsk, Kinds
  <1>3. CASE UpdateAsk(c)
    <2>1. c \in Keepers \cup Writers
      BY <1>3, UserKind DEF UpdateAsk
    <2> QED BY <1>3, <2>1, AskInv, WaitingSteps DEF UpdateAsk, Kinds
  <1> QED BY <1>1, <1>2, <1>3

(* Steps of users that change nothing but where they are.                  *)
LEMMA StepOnlyInv ==
    ASSUME StorageInv, NEW c \in Users,
           step[c] \notin {"creating", "reading", "updating"},
           NEW st \in ClanSteps \cup KeeperSteps,
           st \notin {"creating", "reading", "updating"},
           c \in Clans => st \in ClanSteps,
           c \in Clans \ Writers => st \in {"read", "reading", "fresh"},
           c \in Keepers => st \in KeeperSteps,
           step' = [step EXCEPT ![c] = st],
           UNCHANGED <<table, up, queue, slot, ver, data, dirty, unsent, news, calm>>
    PROVE  StorageInv'
  <1>1. SlotsAgree' /\ QueueAgrees'
    BY StepAgrees DEF StorageInv
  <1>2. StorageTypeOK'
    BY DEF StorageInv, StorageTypeOK
  <1>3. step'[c] = st /\ \A d \in Users : d # c => step'[d] = step[d]
    BY Types DEF StorageInv
  <1>4. StepsAgree'
    BY <1>3 DEF StepsAgree, StorageInv
  <1>5. SlotsKnow'
    BY KnowsStay DEF StorageInv
  <1>6. ClanSnapshot' /\ ClanTableExists'
    BY DEF StorageInv, ClanSnapshot, ClanTableExists
  <1> QED BY <1>1, <1>2, <1>4, <1>5, <1>6 DEF StorageInv

(* tick_clan goes on after a read; the time to save has come.              *)
LEMMA StepsOnlyInv ==
    ASSUME StorageInv, NEW c \in Users, AfterRead(c) \/ SaveDue(c)
    PROVE  StorageInv'
  <1>1. CASE AfterRead(c)
    <2> DEFINE st == IF c \in Writers THEN "work" ELSE "read"
    <2>1. c \in Clans
      BY <1>1, UserKind DEF AfterRead, KeeperSteps
    <2>2. step[c] = "fresh" /\ step' = [step EXCEPT ![c] = st]
          /\ UNCHANGED <<table, up, queue, slot, ver, data, dirty, unsent, news, calm>>
      BY <1>1 DEF AfterRead
    <2>3. c \notin Keepers /\ st \in ClanSteps /\ st \in ClanSteps \cup KeeperSteps
          /\ st \notin {"creating", "reading", "updating"}
          /\ (c \in Clans \ Writers => st \in {"read", "reading", "fresh"})
      BY <2>1, UserKind DEF ClanSteps, KeeperSteps
    <2> QED BY <2>1, <2>2, <2>3, StepOnlyInv
  <1>2. CASE SaveDue(c)
    <2>1. c \in Keepers /\ c \notin Clans /\ step[c] = "idle"
          /\ step' = [step EXCEPT ![c] = "save"]
          /\ UNCHANGED <<table, up, queue, slot, ver, data, dirty, unsent, news, calm>>
      BY <1>2, UserKind DEF SaveDue
    <2>2. "save" \in KeeperSteps
      BY DEF KeeperSteps
    <2> QED BY <2>1, <2>2, StepOnlyInv
  <1> QED BY <1>1, <1>2

(* A user takes an answer that tells it nothing about the blob.            *)
LEMMA CreateAnswerInv ==
    ASSUME StorageInv, NEW c \in Users, CreateAnswer(c)
    PROVE  StorageInv'
  <1>1. /\ Answered(c, "create", Waiting["create"], {"done", "failed"})
        /\ step' = [step EXCEPT ![c] = "read"]
        /\ UNCHANGED <<table, up, queue, ver, data, dirty, unsent, news, calm>>
    BY WaitingSteps DEF CreateAnswer
  <1>2. /\ slot' \in [Servers -> [Kinds -> Slots]]
        /\ slot'[Home[c]]["create"] = Empty
        /\ \A t \in Servers, p \in Kinds :
              (t # Home[c] \/ p # "create") => slot'[t][p] = slot[t][p]
        /\ SlotsAgree' /\ QueueAgrees'
    <2>1. "create" \in Kinds /\ queue' = queue
      BY <1>1 DEF Kinds
    <2>2. {"done", "failed"} \in SUBSET {"done", "failed"}
      OBVIOUS
    <2> QED BY <1>1, <2>1, <2>2, AnswerAgrees, ZenonT(60) DEF StorageInv
  <1>3. step'[c] = "read" /\ \A d \in Users : d # c => step'[d] = step[d]
    BY <1>1, Types DEF StorageInv
  <1>4. "read" \in ClanSteps /\ "read" \in KeeperSteps
    BY DEF ClanSteps, KeeperSteps
  <1>5. StorageTypeOK'
    BY <1>1, <1>2, <1>4 DEF StorageInv, StorageTypeOK
  <1>6. StepsAgree'
    BY <1>3, <1>4 DEF StepsAgree, StorageInv
  <1>7. SlotsKnow'
    BY <1>1, <1>2, KnowsStay DEF StorageInv, Kinds
  <1>8. ClanSnapshot' /\ ClanTableExists'
    BY <1>1 DEF StorageInv, ClanSnapshot, ClanTableExists
  <1> QED BY <1>2, <1>5, <1>6, <1>7, <1>8 DEF StorageInv

(* A user waits in one structure only: when it takes its answer, none of   *)
(* the others is its.                                                      *)
LEMMA OnlyOneSlot ==
    ASSUME StorageInv, NEW c \in Users, NEW o \in Kinds, step[c] = Waiting[o],
           NEW t \in Servers, NEW p \in Kinds, slot[t][p].state # "empty",
           t # Home[c] \/ p # o
    PROVE  slot[t][p].user \in Users /\ slot[t][p].user # c
  <1>1. slot[t][p].user \in Users
    BY SlotUser DEF StorageInv
  <1>2. Home[slot[t][p].user] = t /\ step[slot[t][p].user] = Waiting[p]
    BY DEF StorageInv, SlotsAgree
  <1> QED BY <1>1, <1>2, WaitingSteps

(* What the answers to a read and to a write told a clan server.           *)
LEMMA ReadAnswerKnows ==
    ASSUME StorageInv, NEW c \in Users, NEW s, s = Home[c],
           slot[s]["read"].user = c, slot[s]["read"].state = "done"
    PROVE  /\ ~slot[s]["read"].new => slot[s]["read"].ver = ver[c]
           /\ slot[s]["read"].new /\ c \in Clans =>
                 slot[s]["read"].ver <= table[Blob[c]].ver
           /\ slot[s]["read"].new /\ c \in Clans
              /\ slot[s]["read"].ver = table[Blob[c]].ver =>
                 slot[s]["read"].found = table[Blob[c]].data
  <1>1. s \in Servers
    BY Types DEF StorageInv
  <1>2. ReadKnows(slot[s]["read"])
    BY <1>1 DEF StorageInv, SlotsKnow
  <1> QED BY <1>2 DEF ReadKnows

(* A user reads the blob.                                                  *)
LEMMA ReadAnswerInv ==
    ASSUME StorageInv, NEW c \in Users, ReadAnswer(c)
    PROVE  StorageInv'
  <1> DEFINE s == Home[c]
             r == slot[s]["read"]
             st == IF c \in Clans THEN "fresh" ELSE "idle"
  <1>0. StorageTypeOK /\ s \in Servers /\ "read" \in Kinds
    BY Types DEF StorageInv, Kinds
  <1>1. /\ Answered(c, "read", Waiting["read"], {"done", "failed"})
        /\ step' = [step EXCEPT ![c] = st]
        /\ ver' = IF r.state = "done" THEN [ver EXCEPT ![c] = r.ver] ELSE ver
        /\ data' = IF r.state = "done" /\ r.new THEN [data EXCEPT ![c] = r.found] ELSE data
        /\ UNCHANGED <<table, up, queue, dirty, unsent, news, calm>>
    BY WaitingSteps DEF ReadAnswer
  <1>2. /\ slot' \in [Servers -> [Kinds -> Slots]]
        /\ r.user = c /\ r.state \in {"done", "failed"}
        /\ slot'[s]["read"] = Empty
        /\ \A t \in Servers, p \in Kinds :
              (t # s \/ p # "read") => slot'[t][p] = slot[t][p]
        /\ SlotsAgree' /\ QueueAgrees'
    <2>1. {"done", "failed"} \in SUBSET {"done", "failed"}
      OBVIOUS
    <2>2. st \notin {"creating", "reading", "updating"} /\ queue' = queue
      BY <1>1
    <2> HIDE DEF st
    <2> QED BY <1>0, <1>1, <2>1, <2>2, AnswerAgrees DEF StorageInv
  <1>3. step[c] = Waiting["read"]
    BY <1>1 DEF Answered
  <1>4. r.ver \in Nat /\ r.found \in Data
    <2>1. r \in Slots
      BY <1>0, Types
    <2> QED BY <2>1 DEF Slots
  <1> HIDE DEF r
  <1>5. /\ ver' \in [Users -> Nat] /\ data' \in [Users -> Data]
        /\ ver'[c] = (IF r.state = "done" THEN r.ver ELSE ver[c])
        /\ data'[c] = (IF r.state = "done" /\ r.new THEN r.found ELSE data[c])
        /\ \A d \in Users : d # c => ver'[d] = ver[d] /\ data'[d] = data[d]
    BY <1>0, <1>1, <1>4, Types
  <1>6. step'[c] = st /\ \A d \in Users : d # c => step'[d] = step[d]
    BY <1>0, <1>1, Types
  <1>7. /\ st \in ClanSteps \cup KeeperSteps
        /\ c \in Clans => st \in {"read", "reading", "fresh"} /\ st \in ClanSteps
        /\ c \in Keepers => st \in KeeperSteps
    BY UserKind DEF ClanSteps, KeeperSteps
  <1> HIDE DEF st
  <1>8. StorageTypeOK'
    BY <1>0, <1>1, <1>2, <1>5, <1>7 DEF StorageTypeOK
  <1>9. StepsAgree'
    BY <1>6, <1>7 DEF StepsAgree, StorageInv
  <1>10. SlotsKnow'
    <2>1. \A t \in Servers, p \in Kinds :
             slot'[t][p].state # "empty" =>
                slot'[t][p] = slot[t][p]
                /\ slot[t][p].user \in Users /\ slot[t][p].user # c
      <3> SUFFICES ASSUME NEW t \in Servers, NEW p \in Kinds, slot'[t][p].state # "empty"
                   PROVE  slot'[t][p] = slot[t][p]
                          /\ slot[t][p].user \in Users /\ slot[t][p].user # c
        OBVIOUS
      <3>1. t # s \/ p # "read"
        BY <1>2, EmptyType
      <3>2. slot'[t][p] = slot[t][p]
        BY <1>2, <3>1
      <3> QED BY <1>0, <1>3, <3>1, <3>2, OnlyOneSlot
    <2>2. "update" \in Kinds
      BY DEF Kinds
    <2> QED BY <1>0, <1>1, <1>5, <2>1, <2>2, KnowsOthers DEF StorageInv
  <1>11. ClanSnapshot'
    <2> SUFFICES ASSUME NEW d \in Clans
                 PROVE  LET t == table[Blob[d]] IN
                        /\ ver'[d] <= t.ver
                        /\ ver'[d] = t.ver => AtLeast(data'[d], t.data)
                        /\ ver'[d] = t.ver /\ d \notin Writers => data'[d] = t.data
      BY <1>1 DEF ClanSnapshot
    <2>1. CASE d # c
      BY <2>1, <1>5, OtherBlob DEF StorageInv, ClanSnapshot
    <2>2. CASE d = c /\ ver'[c] = ver[c] /\ data'[c] = data[c]
      BY <2>2, <1>5 DEF StorageInv, ClanSnapshot
    <2>3. CASE d = c /\ ~(ver'[c] = ver[c] /\ data'[c] = data[c])
      <3>1. r.state = "done"
        BY <1>5, <2>3
      <3>2. /\ ~r.new => r.ver = ver[c]
            /\ r.new => r.ver <= table[Blob[c]].ver
            /\ r.new /\ r.ver = table[Blob[c]].ver => r.found = table[Blob[c]].data
        BY <1>2, <3>1, <2>3, ReadAnswerKnows DEF r
      <3>3. r.new
        BY <1>5, <2>3, <3>1, <3>2
      <3>4. AtLeast(r.found, r.found)
        BY <1>4, AtLeastSame
      <3> QED BY <1>5, <2>3, <3>1, <3>2, <3>3, <3>4
    <2> QED BY <2>1, <2>2, <2>3
  <1>12. ClanTableExists'
    BY <1>1 DEF StorageInv, ClanTableExists
  <1> QED BY <1>2, <1>8, <1>9, <1>10, <1>11, <1>12 DEF StorageInv

(* A user takes the answer to a write: the structure is empty, and nobody  *)
(* else's request is touched.                                              *)
LEMMA UpdateAnswered ==
    ASSUME StorageInv, NEW c \in Users, NEW states \in SUBSET {"done", "failed"},
           Answered(c, "update", "updating", states),
           NEW st \in {"work", "read", "idle"}, c \in Clans => st # "idle",
           c \in Keepers => st = "idle",
           step' = [step EXCEPT ![c] = st], queue' = queue, table' = table,
           data' = data, \A d \in Users : d # c => ver'[d] = ver[d]
    PROVE  /\ slot' \in [Servers -> [Kinds -> Slots]]
           /\ SlotsAgree' /\ QueueAgrees' /\ StepsAgree' /\ SlotsKnow'
           /\ step' \in [Users -> ClanSteps \cup KeeperSteps]
           /\ c \in Keepers \/ c \in Writers
           /\ slot[Home[c]]["update"].state \in states
           /\ slot[Home[c]]["update"].ver = ver[c]
           /\ slot[Home[c]]["update"].state = "done" => table[Blob[c]].ver > ver[c]
           /\ slot[Home[c]]["update"].state = "done" /\ c \in Clans
              /\ table[Blob[c]].ver = ver[c] + 1 => AtLeast(data[c], table[Blob[c]].data)
  <1> DEFINE s == Home[c]
             r == slot[s]["update"]
  <1>0. StorageTypeOK /\ s \in Servers /\ "update" \in Kinds /\ "read" \in Kinds
    BY Types DEF StorageInv, Kinds
  <1>1. /\ slot' \in [Servers -> [Kinds -> Slots]]
        /\ r.user = c /\ r.state \in states
        /\ slot'[s]["update"] = Empty
        /\ \A t \in Servers, p \in Kinds :
              (t # s \/ p # "update") => slot'[t][p] = slot[t][p]
        /\ SlotsAgree' /\ QueueAgrees'
    <2>1. st \notin {"creating", "reading", "updating"}
      OBVIOUS
    <2>2. Answered(c, "update", Waiting["update"], states)
      BY WaitingSteps
    <2> QED BY <1>0, <2>1, <2>2, AnswerAgrees DEF StorageInv
  <1>2. step[c] = "updating"
    BY DEF Answered
  <1>3. c \in Keepers \/ c \in Writers
    BY <1>2, UserKind
  <1>4. step'[c] = st /\ \A d \in Users : d # c => step'[d] = step[d]
    BY <1>0, Types
  <1>5. st \in ClanSteps \cup KeeperSteps
        /\ (c \in Clans => st \in ClanSteps) /\ (c \in Keepers => st \in KeeperSteps)
    BY DEF ClanSteps, KeeperSteps
  <1>6. StepsAgree'
    BY <1>3, <1>4, <1>5, OtherBlob DEF StepsAgree, StorageInv
  <1>7. step' \in [Users -> ClanSteps \cup KeeperSteps]
    BY <1>0, <1>5, Types
  <1>8. UpdateKnows(r)
    BY <1>0, <1>1 DEF StorageInv, SlotsKnow
  <1>9. /\ r.ver = ver[c]
        /\ r.state = "done" => table[Blob[c]].ver > ver[c]
        /\ r.state = "done" /\ c \in Clans /\ table[Blob[c]].ver = ver[c] + 1
              => AtLeast(data[c], table[Blob[c]].data)
    BY <1>1, <1>8 DEF UpdateKnows
  <1>10. SlotsKnow'
    <2>1. \A t \in Servers, p \in Kinds :
             slot'[t][p].state # "empty" =>
                slot'[t][p] = slot[t][p]
                /\ slot[t][p].user \in Users /\ slot[t][p].user # c
      <3> SUFFICES ASSUME NEW t \in Servers, NEW p \in Kinds, slot'[t][p].state # "empty"
                   PROVE  slot'[t][p] = slot[t][p]
                          /\ slot[t][p].user \in Users /\ slot[t][p].user # c
        OBVIOUS
      <3>1. t # s \/ p # "update"
        BY <1>1, EmptyType
      <3>2. slot'[t][p] = slot[t][p]
        BY <1>1, <3>1
      <3> QED BY <1>0, <1>2, <3>1, <3>2, OnlyOneSlot, WaitingSteps
    <2> QED BY <1>0, <2>1, KnowsOthers DEF StorageInv
  <1> QED BY <1>1, <1>3, <1>6, <1>7, <1>9, <1>10

(* tick_clan: the write went through.                                      *)
LEMMA ClanUpdatedInv ==
    ASSUME StorageInv, NEW c \in Users, ClanUpdated(c)
    PROVE  StorageInv'
  <1>0. StorageTypeOK /\ c \in Clans /\ c \notin Keepers
    BY UserKind DEF StorageInv, ClanUpdated
  <1>1. /\ Answered(c, "update", "updating", {"done"})
        /\ step' = [step EXCEPT ![c] = "work"]
        /\ ver' = [ver EXCEPT ![c] = ver[c] + 1]
        /\ dirty' = [dirty EXCEPT ![c] = FALSE]
        /\ UNCHANGED <<table, up, queue, data, unsent, news, calm>>
    BY DEF ClanUpdated
  <1>2. ver' \in [Users -> Nat] /\ ver'[c] = ver[c] + 1 /\ ver[c] \in Nat
        /\ (\A d \in Users : d # c => ver'[d] = ver[d])
    BY <1>0, <1>1, Types
  <1>3. /\ slot' \in [Servers -> [Kinds -> Slots]]
        /\ SlotsAgree' /\ QueueAgrees' /\ StepsAgree' /\ SlotsKnow'
        /\ step' \in [Users -> ClanSteps \cup KeeperSteps]
        /\ c \in Writers
        /\ table[Blob[c]].ver > ver[c]
        /\ table[Blob[c]].ver = ver[c] + 1 => AtLeast(data[c], table[Blob[c]].data)
    <2>1. {"done"} \in SUBSET {"done", "failed"} /\ "work" \in {"work", "read", "idle"}
      OBVIOUS
    <2> QED BY <1>0, <1>1, <1>2, <2>1, UpdateAnswered, ZenonT(60)
  <1>4. dirty' \in [Users -> BOOLEAN]
    BY <1>0, <1>1, Types
  <1>5. StorageTypeOK'
    BY <1>0, <1>1, <1>2, <1>3, <1>4 DEF StorageTypeOK
  <1>6. table[Blob[c]].ver \in Nat
    BY <1>0, Types
  <1>7. ClanSnapshot'
    <2> SUFFICES ASSUME NEW d \in Clans
                 PROVE  LET t == table[Blob[d]] IN
                        /\ ver'[d] <= t.ver
                        /\ ver'[d] = t.ver => AtLeast(data[d], t.data)
                        /\ ver'[d] = t.ver /\ d \notin Writers => data[d] = t.data
      BY <1>1 DEF ClanSnapshot
    <2>1. CASE d # c
      BY <2>1, <1>2, OtherBlob DEF StorageInv, ClanSnapshot
    <2>2. CASE d = c
      BY <2>2, <1>2, <1>3, <1>6
    <2> QED BY <2>1, <2>2
  <1>8. ClanTableExists'
    BY <1>1 DEF StorageInv, ClanTableExists
  <1> QED BY <1>3, <1>5, <1>7, <1>8 DEF StorageInv

(* tick_clan: the write failed.                                            *)
LEMMA ClanUpdateFailedInv ==
    ASSUME StorageInv, NEW c \in Users, ClanUpdateFailed(c)
    PROVE  StorageInv'
  <1>0. StorageTypeOK /\ c \in Clans /\ c \notin Keepers
    BY UserKind DEF StorageInv, ClanUpdateFailed
  <1>1. /\ Answered(c, "update", "updating", {"failed"})
        /\ step' = [step EXCEPT ![c] = "read"]
        /\ UNCHANGED <<table, up, queue, ver, data, dirty, unsent, news, calm>>
    BY DEF ClanUpdateFailed
  <1>2. /\ slot' \in [Servers -> [Kinds -> Slots]]
        /\ SlotsAgree' /\ QueueAgrees' /\ StepsAgree' /\ SlotsKnow'
        /\ step' \in [Users -> ClanSteps \cup KeeperSteps]
    <2>1. {"failed"} \in SUBSET {"done", "failed"} /\ "read" \in {"work", "read", "idle"}
      OBVIOUS
    <2> QED BY <1>0, <1>1, <2>1, UpdateAnswered
  <1>3. StorageTypeOK'
    BY <1>0, <1>1, <1>2 DEF StorageTypeOK
  <1>4. ClanSnapshot' /\ ClanTableExists'
    BY <1>1 DEF StorageInv, ClanSnapshot, ClanTableExists
  <1> QED BY <1>2, <1>3, <1>4 DEF StorageInv

(* A keeper has written, or believes so.                                   *)
LEMMA KeeperUpdatedInv ==
    ASSUME StorageInv, NEW c \in Users, KeeperUpdated(c)
    PROVE  StorageInv'
  <1>0. StorageTypeOK /\ c \in Keepers /\ c \notin Clans
    BY UserKind DEF StorageInv, KeeperUpdated
  <1>1. /\ Answered(c, "update", "updating", {"done", "failed"})
        /\ step' = [step EXCEPT ![c] = "idle"]
        /\ ver' = [ver EXCEPT ![c] = ver[c] + 1]
        /\ UNCHANGED <<table, up, queue, data, dirty, unsent, news, calm>>
    BY DEF KeeperUpdated
  <1>2. ver' \in [Users -> Nat] /\ (\A d \in Users : d # c => ver'[d] = ver[d])
    BY <1>0, <1>1, Types
  <1>3. /\ slot' \in [Servers -> [Kinds -> Slots]]
        /\ SlotsAgree' /\ QueueAgrees' /\ StepsAgree' /\ SlotsKnow'
        /\ step' \in [Users -> ClanSteps \cup KeeperSteps]
    <2>1. {"done", "failed"} \in SUBSET {"done", "failed"} /\ "idle" \in {"work", "read", "idle"}
      OBVIOUS
    <2> QED BY <1>0, <1>1, <1>2, <2>1, UpdateAnswered
  <1>4. StorageTypeOK'
    BY <1>0, <1>1, <1>2, <1>3 DEF StorageTypeOK
  <1>5. ClanSnapshot' /\ ClanTableExists'
    BY <1>0, <1>1, <1>2, OtherBlob DEF StorageInv, ClanSnapshot, ClanTableExists
  <1> QED BY <1>3, <1>4, <1>5 DEF StorageInv

-----------------------------------------------------------------------------
(* The game.                                                               *)

(* What a user knows stays true when its data grows.                       *)
LEMMA GrowthInv ==
    ASSUME StorageInv, NEW c \in Users, c \in Writers \cup Keepers,
           data' \in [Users -> Data],
           \A d \in Users : d # c => data'[d] = data[d],
           AtLeast(data'[c], data[c]),
           UNCHANGED <<table, queue, slot, step, ver>>
    PROVE  SlotsAgree' /\ QueueAgrees' /\ StepsAgree' /\ SlotsKnow'
           /\ ClanSnapshot' /\ ClanTableExists'
  <1>0. StorageTypeOK /\ table \in [Blobs -> [ver : Nat, data : Data]]
        /\ data \in [Users -> Data] /\ Blob \in [Users -> Blobs]
    BY Types DEF StorageInv
  <1>1. \A d \in Users : \A e \in Data : AtLeast(data[d], e) => AtLeast(data'[d], e)
    <2> SUFFICES ASSUME NEW d \in Users, NEW e \in Data, AtLeast(data[d], e)
                 PROVE  AtLeast(data'[d], e)
      OBVIOUS
    <2>1. data[d] \in Data /\ data'[d] \in Data
      BY <1>0
    <2>2. AtLeast(data'[d], data[d])
      BY <2>1, AtLeastSame
    <2> QED BY <2>1, <2>2, AtLeastTrans
  <1>2. \A d \in Users : table[Blob[d]].data \in Data
    BY <1>0
  <1>3. SlotsAgree' /\ QueueAgrees' /\ StepsAgree' /\ ClanTableExists'
    BY DEF StorageInv, SlotsAgree, QueueAgrees, StepsAgree, ClanTableExists
  <1>4. SlotsKnow'
    <2> SUFFICES ASSUME NEW t \in Servers
                 PROVE  /\ slot[t]["update"].state # "empty" => UpdateKnows(slot[t]["update"])'
                        /\ slot[t]["read"].state # "empty" => ReadKnows(slot[t]["read"])'
      BY DEF SlotsKnow
    <2>1. ASSUME slot[t]["update"].state # "empty"
          PROVE  UpdateKnows(slot[t]["update"])'
      <3>1. slot[t]["update"].user \in Users
        BY <1>0, <2>1, SlotUser DEF Kinds
      <3>2. UpdateKnows(slot[t]["update"])
        BY <2>1 DEF StorageInv, SlotsKnow
      <3> QED BY <1>1, <1>2, <3>1, <3>2 DEF UpdateKnows
    <2>2. ASSUME slot[t]["read"].state # "empty"
          PROVE  ReadKnows(slot[t]["read"])'
      <3>1. ReadKnows(slot[t]["read"])
        BY <2>2 DEF StorageInv, SlotsKnow
      <3> QED BY <3>1 DEF ReadKnows
    <2> QED BY <2>1, <2>2
  <1>5. ClanSnapshot'
    <2> SUFFICES ASSUME NEW d \in Clans
                 PROVE  LET t == table[Blob[d]] IN
                        /\ ver[d] <= t.ver
                        /\ ver[d] = t.ver => AtLeast(data'[d], t.data)
                        /\ ver[d] = t.ver /\ d \notin Writers => data'[d] = t.data
      BY DEF ClanSnapshot
    <2>1. d \in Users /\ (d \notin Writers => d # c)
      BY OtherBlob
    <2> QED BY <1>1, <1>2, <2>1 DEF StorageInv, ClanSnapshot
  <1> QED BY <1>3, <1>4, <1>5

(* Things happen to clans and fighters.                                    *)
LEMMA ChangeInv ==
    ASSUME StorageInv, NEW c \in Users, NEW x \in Changes, Change(c, x)
    PROVE  StorageInv'
  <1>1. /\ c \in Writers \cup Keepers /\ Happens(c, x)
        /\ dirty' = [dirty EXCEPT ![c] = c \in Clans]
        /\ unsent' = unsent \ {x}
        /\ UNCHANGED <<table, up, queue, slot, step, ver, news, calm>>
    BY DEF Change
  <1>2. StorageTypeOK
    BY DEF StorageInv
  <1>3. data' \in [Users -> Data] /\ (\A d \in Users : d # c => data'[d] = data[d])
        /\ AtLeast(data'[c], data[c])
    BY <1>1, <1>2, HappensType, Types
  <1>4. SlotsAgree' /\ QueueAgrees' /\ StepsAgree' /\ SlotsKnow'
        /\ ClanSnapshot' /\ ClanTableExists'
    BY <1>1, <1>3, GrowthInv
  <1>5. dirty' \in [Users -> BOOLEAN]
    <2>1. (c \in Clans) \in BOOLEAN
      OBVIOUS
    <2> QED BY <1>1, <1>2, <2>1, Types
  <1>6. StorageTypeOK'
    BY <1>1, <1>2, <1>3, <1>5 DEF StorageTypeOK
  <1> QED BY <1>4, <1>6 DEF StorageInv

(* A chat message arrives.                                                 *)
LEMMA DeliverInv ==
    ASSUME StorageInv, NEW c \in Clans, NEW x \in Changes, Deliver(c, x)
    PROVE  StorageInv'
  <1>1. StorageTypeOK /\ c \in Users
    BY OtherBlob DEF StorageInv
  <1>2. /\ news' = [news EXCEPT ![c] = news[c] \ {x}]
        /\ \/ c \in Writers /\ Happens(c, x) /\ dirty' = [dirty EXCEPT ![c] = TRUE]
           \/ c \notin Writers /\ UNCHANGED <<data, dirty>>
        /\ UNCHANGED <<table, up, queue, slot, step, ver, unsent, calm>>
    BY DEF Deliver
  <1>3. news' \in [Clans -> SUBSET Changes]
    BY <1>1, <1>2 DEF StorageTypeOK
  <1>4. CASE c \in Writers /\ Happens(c, x) /\ dirty' = [dirty EXCEPT ![c] = TRUE]
    <2>1. data' \in [Users -> Data] /\ (\A d \in Users : d # c => data'[d] = data[d])
          /\ AtLeast(data'[c], data[c])
      BY <1>1, <1>4, HappensType, Types
    <2>2. SlotsAgree' /\ QueueAgrees' /\ StepsAgree' /\ SlotsKnow'
          /\ ClanSnapshot' /\ ClanTableExists'
      BY <1>1, <1>2, <1>4, <2>1, GrowthInv
    <2>3. dirty' \in [Users -> BOOLEAN]
      BY <1>1, <1>4, Types
    <2>4. StorageTypeOK'
      BY <1>1, <1>2, <1>3, <2>1, <2>3, SMTT(30) DEF StorageTypeOK
    <2> QED BY <2>2, <2>4 DEF StorageInv
  <1>5. CASE UNCHANGED <<data, dirty>>
    BY <1>1, <1>2, <1>3, <1>5, SMTT(30) DEF StorageInv, StorageTypeOK, SlotsAgree, QueueAgrees,
       StepsAgree, SlotsKnow, UpdateKnows, ReadKnows, ClanSnapshot, ClanTableExists
  <1> QED BY <1>2, <1>4, <1>5

(* Chat messages are sent, servers start.                                  *)
LEMMA AroundInv ==
    ASSUME StorageInv, UNCHANGED <<table, queue, slot, step, ver, data, dirty>>,
           up' \in [Servers -> BOOLEAN], unsent' \subseteq Changes,
           calm' \in BOOLEAN, news' \in [Clans -> SUBSET Changes]
    PROVE  StorageInv'
  BY DEF StorageInv, StorageTypeOK, SlotsAgree, QueueAgrees, StepsAgree, SlotsKnow,
     UpdateKnows, ReadKnows, ClanSnapshot, ClanTableExists

(* A clan dungeon reports by chat.                                         *)
LEMMA RaidInv ==
    ASSUME StorageInv, NEW x \in Changes, Raid(x)
    PROVE  StorageInv'
  <1>1. news' \in [Clans -> SUBSET Changes] /\ unsent' \subseteq Changes
        /\ calm' \in BOOLEAN
    BY DEF Raid, StorageInv, StorageTypeOK
  <1>2. up' \in [Servers -> BOOLEAN]
        /\ UNCHANGED <<table, queue, slot, step, ver, data, dirty>>
    BY DEF Raid, StorageInv, StorageTypeOK
  <1> QED BY <1>1, <1>2, AroundInv

(* A server is started again.                                              *)
LEMMA StartInv ==
    ASSUME StorageInv, NEW s \in Servers, Start(s)
    PROVE  StorageInv'
  <1>1. up' \in [Servers -> BOOLEAN] /\ unsent' \subseteq Changes
        /\ calm' \in BOOLEAN /\ news' \in [Clans -> SUBSET Changes]
        /\ UNCHANGED <<table, queue, slot, step, ver, data, dirty>>
    BY DEF Start, StorageInv, StorageTypeOK, memory
  <1> QED BY <1>1, AroundInv

-----------------------------------------------------------------------------
(* The database thread.                                                    *)

(* A blob gets its next version: what was known of the version it had says *)
(* nothing about the new one, and stays true.                              *)
LEMMA NextVersion ==
    ASSUME StorageInv, NEW b \in Blobs, NEW e \in Data,
           table' = [table EXCEPT ![b] = [ver |-> table[b].ver + 1, data |-> e]],
           UNCHANGED <<step, ver, data>>
    PROVE  /\ table' \in [Blobs -> [ver : Nat, data : Data]]
           /\ table'[b].ver = table[b].ver + 1 /\ table'[b].data = e
           /\ \A a \in Blobs : a # b => table'[a] = table[a]
           /\ StepsAgree' /\ ClanSnapshot' /\ ClanTableExists'
           /\ \A r \in Slots : r.user \in Users /\ UpdateKnows(r) => UpdateKnows(r)'
           /\ \A r \in Slots : r.user \in Users /\ ReadKnows(r) => ReadKnows(r)'
  <1>0. StorageTypeOK /\ table \in [Blobs -> [ver : Nat, data : Data]]
        /\ ver \in [Users -> Nat] /\ Blob \in [Users -> Blobs]
    BY Types DEF StorageInv
  <1>1. \A a \in Blobs : table[a].ver \in Nat
    BY <1>0
  <1>2. [ver |-> table[b].ver + 1, data |-> e] \in [ver : Nat, data : Data]
    BY <1>1
  <1>3. /\ table' \in [Blobs -> [ver : Nat, data : Data]]
        /\ table'[b] = [ver |-> table[b].ver + 1, data |-> e]
        /\ \A a \in Blobs : a # b => table'[a] = table[a]
    BY <1>0, <1>2
  <1>4. table'[b].ver = table[b].ver + 1 /\ table'[b].data = e
    BY <1>3
  <1>5. StepsAgree'
    BY DEF StorageInv, StepsAgree
  <1>6. \A c \in Clans : c \in Users /\ Blob[c] \in Blobs
    BY <1>0, OtherBlob
  <1>7. ClanTableExists'
    <2> SUFFICES ASSUME NEW c \in Clans PROVE table'[Blob[c]].ver >= 1
      BY DEF ClanTableExists
    <2>1. table[Blob[c]].ver >= 1
      BY DEF StorageInv, ClanTableExists
    <2>2. CASE Blob[c] = b
      BY <1>1, <1>4, <2>1, <2>2
    <2>3. CASE Blob[c] # b
      BY <1>3, <1>6, <2>1, <2>3
    <2> QED BY <2>2, <2>3
  <1>8. ClanSnapshot'
    <2> SUFFICES ASSUME NEW c \in Clans
                 PROVE  LET t == table'[Blob[c]] IN
                        /\ ver[c] <= t.ver
                        /\ ver[c] = t.ver => AtLeast(data[c], t.data)
                        /\ ver[c] = t.ver /\ c \notin Writers => data[c] = t.data
      BY DEF ClanSnapshot
    <2>1. CASE Blob[c] = b
      <3>1. ver[c] <= table[b].ver /\ ver[c] \in Nat /\ table[b].ver \in Nat
        BY <1>0, <1>1, <1>6, <2>1 DEF StorageInv, ClanSnapshot
      <3>2. ver[c] <= table'[b].ver /\ ver[c] # table'[b].ver
        BY <3>1, <1>4
      <3> QED BY <2>1, <3>2
    <2>2. CASE Blob[c] # b
      BY <1>3, <1>6, <2>2 DEF StorageInv, ClanSnapshot
    <2> QED BY <2>1, <2>2
  <1>9. ASSUME NEW r \in Slots, r.user \in Users, UpdateKnows(r)
        PROVE  UpdateKnows(r)'
    <2>1. r.ver \in Nat /\ Blob[r.user] \in Blobs
      BY <1>0, <1>9 DEF Slots
    <2>2. CASE Blob[r.user] = b
      <3>1. r.ver = ver[r.user] /\ (r.state = "done" => table[b].ver > r.ver)
        BY <1>9, <2>2 DEF UpdateKnows
      <3>2. r.state = "done" => table'[b].ver > r.ver /\ table'[b].ver # r.ver + 1
        BY <1>1, <1>4, <2>1, <3>1
      <3> QED BY <2>2, <3>1, <3>2 DEF UpdateKnows
    <2>3. CASE Blob[r.user] # b
      <3>1. table'[Blob[r.user]] = table[Blob[r.user]]
        BY <1>3, <2>1, <2>3
      <3> QED BY <1>9, <3>1 DEF UpdateKnows
    <2> QED BY <2>2, <2>3
  <1>10. ASSUME NEW r \in Slots, r.user \in Users, ReadKnows(r)
         PROVE  ReadKnows(r)'
    <2>1. r.ver \in Nat /\ Blob[r.user] \in Blobs
      BY <1>0, <1>10 DEF Slots
    <2>2. CASE Blob[r.user] = b
      <3>1. /\ r.state = "asked" => ~r.new
            /\ ~r.new => r.ver = ver[r.user]
            /\ r.new /\ r.user \in Clans => r.ver <= table[b].ver
        BY <1>10, <2>2 DEF ReadKnows
      <3>2. r.new /\ r.user \in Clans => r.ver <= table'[b].ver /\ r.ver # table'[b].ver
        BY <1>1, <1>4, <2>1, <3>1
      <3> QED BY <2>2, <3>1, <3>2 DEF ReadKnows
    <2>3. CASE Blob[r.user] # b
      <3>1. table'[Blob[r.user]] = table[Blob[r.user]]
        BY <1>3, <2>1, <2>3
      <3> QED BY <1>10, <3>1 DEF ReadKnows
    <2> QED BY <2>2, <2>3
  <1> QED BY <1>3, <1>4, <1>5, <1>7, <1>8, <1>9, <1>10

(* The query is answered with r; the table keeps its versions or gets the  *)
(* next one.                                                               *)
LEMMA DbInv ==
    ASSUME StorageInv, NEW s \in Servers, NEW o \in Kinds,
           NextQuery(s, o), slot[s][o].state = "asked",
           NEW r \in Slots, r.user = slot[s][o].user, r.state \in {"done", "failed"},
           slot' = [slot EXCEPT ![s][o] = r],
           UNCHANGED <<up, memory, unsent, news>>, calm' \in BOOLEAN,
           \/ table' = table
           \/ \E b \in Blobs, e \in Data :
                 table' = [table EXCEPT ![b] = [ver |-> table[b].ver + 1, data |-> e]],
           o = "update" => UpdateKnows(r)',
           o = "read" => ReadKnows(r)'
    PROVE  StorageInv'
  <1>0. StorageTypeOK /\ SlotsAgree /\ QueueAgrees /\ UNCHANGED <<step, ver, data, dirty>>
    BY DEF StorageInv, memory
  <1>1. /\ slot' \in [Servers -> [Kinds -> Slots]]
        /\ queue' \in [Servers -> Seq(Kinds)]
        /\ slot'[s][o] = r
        /\ \A t \in Servers, p \in Kinds :
              (t # s \/ p # o) => slot'[t][p] = slot[t][p]
        /\ SlotsAgree' /\ QueueAgrees'
    BY <1>0, DbAgrees
  <1>2. /\ table' \in [Blobs -> [ver : Nat, data : Data]]
        /\ StepsAgree' /\ ClanSnapshot' /\ ClanTableExists'
        /\ \A q \in Slots : q.user \in Users /\ UpdateKnows(q) => UpdateKnows(q)'
        /\ \A q \in Slots : q.user \in Users /\ ReadKnows(q) => ReadKnows(q)'
    <2>1. CASE table' = table
      BY <1>0, <2>1, Types DEF StorageInv, StepsAgree, ClanSnapshot, ClanTableExists,
         UpdateKnows, ReadKnows
    <2>2. CASE \E b \in Blobs, e \in Data :
                  table' = [table EXCEPT ![b] = [ver |-> table[b].ver + 1, data |-> e]]
      <3>1. PICK b \in Blobs, e \in Data :
               table' = [table EXCEPT ![b] = [ver |-> table[b].ver + 1, data |-> e]]
        BY <2>2
      <3> QED BY <1>0, <3>1, NextVersion
    <2> QED BY <2>1, <2>2
  <1>3. StorageTypeOK'
    BY <1>0, <1>1, <1>2 DEF StorageTypeOK
  <1>4. SlotsKnow'
    <2> SUFFICES ASSUME NEW t \in Servers
                 PROVE  /\ slot'[t]["update"].state # "empty" => UpdateKnows(slot[t]["update"])'
                        /\ slot'[t]["read"].state # "empty" => ReadKnows(slot[t]["read"])'
      BY DEF SlotsKnow
    <2>0. "update" \in Kinds /\ "read" \in Kinds
      BY DEF Kinds
    <2>1. ASSUME slot'[t]["update"].state # "empty"
          PROVE  UpdateKnows(slot[t]["update"])'
      <3>1. CASE t = s /\ o = "update"
        BY <1>1, <3>1, SMTT(30) DEF UpdateKnows
      <3>2. CASE t # s \/ o # "update"
        <4>1. slot'[t]["update"] = slot[t]["update"]
          BY <1>1, <2>0, <3>2
        <4>2. slot[t]["update"] \in Slots /\ slot[t]["update"].user \in Users
          BY <1>0, <2>0, <2>1, <4>1, SlotUser, Types
        <4>3. UpdateKnows(slot[t]["update"])
          BY <2>1, <4>1 DEF StorageInv, SlotsKnow
        <4> QED BY <1>2, <4>1, <4>2, <4>3 DEF UpdateKnows
      <3> QED BY <3>1, <3>2
    <2>2. ASSUME slot'[t]["read"].state # "empty"
          PROVE  ReadKnows(slot[t]["read"])'
      <3>1. CASE t = s /\ o = "read"
        BY <1>1, <3>1 DEF ReadKnows
      <3>2. CASE t # s \/ o # "read"
        <4>1. slot'[t]["read"] = slot[t]["read"]
          BY <1>1, <2>0, <3>2
        <4>2. slot[t]["read"] \in Slots /\ slot[t]["read"].user \in Users
          BY <1>0, <2>0, <2>2, <4>1, SlotUser, Types
        <4>3. ReadKnows(slot[t]["read"])
          BY <2>2, <4>1 DEF StorageInv, SlotsKnow
        <4> QED BY <1>2, <4>1, <4>2, <4>3 DEF ReadKnows
      <3> QED BY <3>1, <3>2
    <2> QED BY <2>1, <2>2
  <1> QED BY <1>1, <1>2, <1>3, <1>4 DEF StorageInv

(* The request the database thread works on, and who made it.              *)
LEMMA Asked ==
    ASSUME StorageInv, NEW s \in Servers, NEW o \in Kinds, slot[s][o].state = "asked"
    PROVE  /\ slot[s][o] \in Slots /\ slot[s][o].user \in Users /\ slot[s][o].ver \in Nat
           /\ Blob[slot[s][o].user] \in Blobs
           /\ data[slot[s][o].user] \in Data
           /\ table[Blob[slot[s][o].user]].ver \in Nat
           /\ table[Blob[slot[s][o].user]].data \in Data
           /\ o = "create" => slot[s][o].user \in Keepers
           /\ o = "update" => slot[s][o].user \in Keepers \cup Writers
           /\ o = "update" => slot[s][o].ver = ver[slot[s][o].user]
           /\ o = "read" => ~slot[s][o].new /\ slot[s][o].ver = ver[slot[s][o].user]
  <1> DEFINE r == slot[s][o]
  <1>1. StorageTypeOK /\ r \in Slots /\ r.state # "empty"
    BY Types DEF StorageInv
  <1>2. r.user \in Users /\ r.ver \in Nat
    BY <1>1 DEF Slots
  <1>3. step[r.user] = Waiting[o]
    BY <1>1 DEF StorageInv, SlotsAgree
  <1>4. Blob[r.user] \in Blobs /\ data[r.user] \in Data
        /\ table[Blob[r.user]].ver \in Nat /\ table[Blob[r.user]].data \in Data
    BY <1>1, <1>2, Types
  <1>5. o = "create" => r.user \in Keepers
    BY <1>2, <1>3, UserKind, WaitingSteps DEF ClanSteps
  <1>6. o = "update" => r.user \in Keepers \cup Writers
    BY <1>2, <1>3, UserKind, WaitingSteps
  <1>7. o = "update" => r.ver = ver[r.user]
    BY <1>1 DEF StorageInv, SlotsKnow, UpdateKnows
  <1>8. o = "read" => ~r.new /\ r.ver = ver[r.user]
    BY <1>1 DEF StorageInv, SlotsKnow, ReadKnows
  <1> QED BY <1>1, <1>2, <1>4, <1>5, <1>6, <1>7, <1>8

(* No clan loses what has been written for it.                             *)
NothingLost == \A c \in Clans : AtLeast(table'[Blob[c]].data, table[Blob[c]].data)

(* The content of the clan table stays, or a keeper's blob changes.        *)
LEMMA OtherBlobWritten ==
    ASSUME StorageTypeOK, NEW b \in Blobs, NEW t, table' = [table EXCEPT ![b] = t],
           \A c \in Clans : Blob[c] = b => t = table[b] \/ AtLeast(t.data, table[b].data)
    PROVE  NothingLost
  <1> SUFFICES ASSUME NEW c \in Clans
               PROVE  AtLeast(table'[Blob[c]].data, table[Blob[c]].data)
    BY DEF NothingLost
  <1>1. Blob[c] \in Blobs /\ table[Blob[c]].data \in Data
    BY OtherBlob, Types
  <1>2. CASE Blob[c] = b
    <2>1. table'[b] = t
      BY Types
    <2> QED BY <1>1, <1>2, <2>1, AtLeastSame
  <1>3. CASE Blob[c] # b
    <2>1. table'[Blob[c]] = table[Blob[c]]
      BY <1>1, <1>3, Types
    <2> QED BY <1>1, <2>1, AtLeastSame
  <1> QED BY <1>2, <1>3

(* The table is left alone.                                                *)
LEMMA NothingWritten ==
    ASSUME StorageTypeOK, table' = table
    PROVE  NothingLost
  <1> SUFFICES ASSUME NEW c \in Clans
               PROVE  AtLeast(table[Blob[c]].data, table[Blob[c]].data)
    BY DEF NothingLost
  <1>1. table[Blob[c]].data \in Data
    BY OtherBlob, Types
  <1> QED BY <1>1, AtLeastSame

(* db_create_storage.                                                      *)
LEMMA DbCreateInv ==
    ASSUME StorageInv, NEW s \in Servers, DbCreate(s)
    PROVE  StorageInv' /\ NothingLost
  <1> DEFINE q == slot[s]["create"]
             b == Blob[q.user]
  <1>0. StorageTypeOK /\ "create" \in Kinds
    BY DEF StorageInv, Kinds
  <1>1. NextQuery(s, "create") /\ q.state = "asked"
        /\ UNCHANGED <<up, memory, unsent, news>> /\ calm' \in BOOLEAN
    BY <1>0 DEF DbCreate, Reply, StorageTypeOK
  <1>2. /\ q \in Slots /\ q.user \in Users /\ q.ver \in Nat /\ b \in Blobs
        /\ data[q.user] \in Data /\ q.user \in Keepers
    BY <1>0, <1>1, Asked
  <1>3. PICK st \in {"done", "failed"} : SetSlot(s, "create", st)
    BY DEF DbCreate, Reply
  <1>4. PICK r \in Slots : /\ slot' = [slot EXCEPT ![s]["create"] = r]
                           /\ r.state = st /\ r.user = q.user
    <2>1. slot \in [Servers -> [Kinds -> Slots]]
      BY <1>0, Types
    <2>2. SetSlot(s, "create", st) /\ slot[s]["create"].state = "asked"
      BY <1>1, <1>3
    <2> QED BY <1>0, <2>1, <2>2, SetSlotAt
  <1>5. \/ table' = table
        \/ table[b].ver = 0 /\ table' = [table EXCEPT ![b] = [ver |-> 1, data |-> data[q.user]]]
    BY DEF DbCreate
  <1>6. \/ table' = table
        \/ \E a \in Blobs, e \in Data :
              table' = [table EXCEPT ![a] = [ver |-> table[a].ver + 1, data |-> e]]
    <2>1. CASE table[b].ver = 0
               /\ table' = [table EXCEPT ![b] = [ver |-> 1, data |-> data[q.user]]]
      <3>1. table[b].ver + 1 = 1
        BY <2>1
      <3> QED BY <1>2, <2>1, <3>1
    <2> QED BY <1>5, <2>1
  <1>7. StorageInv'
    BY <1>0, <1>1, <1>3, <1>4, <1>6, DbInv
  <1>8. NothingLost
    <2>1. \A c \in Clans : Blob[c] # b
      BY <1>2, OtherBlob
    <2> QED BY <1>0, <1>2, <1>5, <2>1, OtherBlobWritten, NothingWritten
  <1> QED BY <1>7, <1>8

(* db_update_storage.  The version fits only if the user has seen what is  *)
(* in the table, so what it writes has at least that.                      *)
LEMMA DbUpdateInv ==
    ASSUME StorageInv, NEW s \in Servers, DbUpdate(s)
    PROVE  StorageInv' /\ NothingLost
  <1> DEFINE q == slot[s]["update"]
             b == Blob[q.user]
  <1>0. StorageTypeOK /\ "update" \in Kinds
    BY DEF StorageInv, Kinds
  <1>1. NextQuery(s, "update") /\ q.state = "asked"
        /\ UNCHANGED <<up, memory, unsent, news>> /\ calm' \in BOOLEAN
    BY <1>0 DEF DbUpdate, Reply, StorageTypeOK
  <1>2. /\ q \in Slots /\ q.user \in Users /\ q.ver \in Nat /\ b \in Blobs
        /\ data[q.user] \in Data /\ table[b].ver \in Nat
        /\ q.user \in Keepers \cup Writers /\ q.ver = ver[q.user]
    BY <1>0, <1>1, Asked, SMTT(30)
  <1>3. PICK st \in {"done", "failed"} :
           /\ SetSlot(s, "update", st)
           /\ \/ /\ table[b].ver = q.ver
                 /\ table' = [table EXCEPT ![b] = [ver |-> q.ver + 1, data |-> data[q.user]]]
              \/ st = "failed" /\ table' = table
    BY DEF DbUpdate, Reply
  <1>4. PICK r \in Slots : /\ slot' = [slot EXCEPT ![s]["update"] = r]
                           /\ r.state = st /\ r.user = q.user /\ r.ver = q.ver
    <2>1. slot \in [Servers -> [Kinds -> Slots]]
      BY <1>0, Types
    <2>2. SetSlot(s, "update", st) /\ slot[s]["update"].state = "asked"
      BY <1>1, <1>3
    <2> QED BY <1>0, <2>1, <2>2, SetSlotAt
  <1>5. CASE st = "failed" /\ table' = table
    <2>1. UpdateKnows(r)'
      BY <1>1, <1>2, <1>4, <1>5 DEF UpdateKnows, memory
    <2> QED BY <1>0, <1>1, <1>4, <1>5, <2>1, DbInv, NothingWritten
  <1>6. CASE /\ table[b].ver = q.ver
             /\ table' = [table EXCEPT ![b] = [ver |-> q.ver + 1, data |-> data[q.user]]]
    <2>1. table'[b] = [ver |-> q.ver + 1, data |-> data[q.user]]
      BY <1>0, <1>2, <1>6, Types
    <2>2. AtLeast(data[q.user], data[q.user])
      BY <1>2, AtLeastSame
    <2>3. UpdateKnows(r)'
      BY <1>1, <1>2, <1>4, <2>1, <2>2 DEF UpdateKnows, memory
    <2>4. \E a \in Blobs, e \in Data :
             table' = [table EXCEPT ![a] = [ver |-> table[a].ver + 1, data |-> e]]
      BY <1>2, <1>6
    <2>5. StorageInv'
      BY <1>0, <1>1, <1>3, <1>4, <2>3, <2>4, DbInv
    <2>6. ASSUME NEW c \in Clans, Blob[c] = b
          PROVE  AtLeast(data[q.user], table[b].data)
      <3>1. q.user \in Clans
        BY <1>2, <2>6, OtherBlob
      <3> QED BY <1>2, <1>6, <3>1 DEF StorageInv, ClanSnapshot
    <2>7. NothingLost
      <3> DEFINE t == [ver |-> q.ver + 1, data |-> data[q.user]]
      <3>1. t.data = data[q.user]
        OBVIOUS
      <3>2. table' = [table EXCEPT ![b] = t]
        BY <1>6
      <3>3. \A c \in Clans : Blob[c] = b => t = table[b] \/ AtLeast(t.data, table[b].data)
        BY <2>6, <3>1
      <3> HIDE DEF t
      <3> QED BY <1>0, <1>2, <3>2, <3>3, OtherBlobWritten
    <2> QED BY <2>5, <2>7
  <1> QED BY <1>3, <1>5, <1>6

(* db_read_storage: the version and the content are those of one row.      *)
LEMMA DbReadInv ==
    ASSUME StorageInv, NEW s \in Servers, DbRead(s)
    PROVE  StorageInv' /\ NothingLost
  <1> DEFINE q == slot[s]["read"]
             t == table[Blob[q.user]]
             found == [q EXCEPT !.state = "done", !.ver = t.ver, !.found = t.data, !.new = TRUE]
             same == [q EXCEPT !.state = "done"]
             failed == [q EXCEPT !.state = "failed"]
  <1>0. StorageTypeOK /\ "read" \in Kinds
    BY DEF StorageInv, Kinds
  <1>1. NextQuery(s, "read") /\ q.state = "asked" /\ table' = table
        /\ UNCHANGED <<up, memory, unsent, news>> /\ calm' \in BOOLEAN
    BY <1>0 DEF DbRead, StorageTypeOK
  <1>2. /\ q \in Slots /\ q.user \in Users /\ q.ver \in Nat
        /\ t.ver \in Nat /\ t.data \in Data
        /\ ~q.new /\ q.ver = ver[q.user]
    BY <1>0, <1>1, Asked
  <1> HIDE DEF t
  <1>3. \E r \in {found, same, failed} : slot' = [slot EXCEPT ![s]["read"] = r]
    <2>1. \/ slot' = [slot EXCEPT ![s]["read"] = found]
          \/ slot' = [slot EXCEPT ![s]["read"] = same]
          \/ SetSlot(s, "read", "failed")
      BY DEF DbRead, t
    <2>2. SetSlot(s, "read", "failed") => slot' = [slot EXCEPT ![s]["read"] = failed]
      BY DEF SetSlot
    <2> QED BY <2>1, <2>2
  <1>4. \A r \in {found, same, failed} :
           r \in Slots /\ r.user = q.user /\ r.state \in {"done", "failed"}
    BY <1>2 DEF Slots
  <1>5. \A r \in {found, same, failed} : ReadKnows(r)
    <2>1. ReadKnows(found)
      <3>1. found.new /\ found.ver = t.ver /\ found.found = t.data
            /\ found.user = q.user /\ found.state = "done"
        BY <1>2 DEF Slots
      <3>2. table[Blob[found.user]] = t
        BY <3>1 DEF t
      <3> HIDE DEF found
      <3> QED BY <1>2, <3>1, <3>2 DEF ReadKnows
    <2>2. ReadKnows(same) /\ ReadKnows(failed)
      <3>1. ~same.new /\ same.ver = ver[q.user] /\ same.user = q.user
            /\ ~failed.new /\ failed.ver = ver[q.user] /\ failed.user = q.user
        BY <1>2 DEF Slots
      <3> HIDE DEF same, failed
      <3> QED BY <3>1 DEF ReadKnows
    <2> QED BY <2>1, <2>2
  <1> HIDE DEF found, same, failed
  <1>6. PICK r \in {found, same, failed} : slot' = [slot EXCEPT ![s]["read"] = r]
    BY <1>3
  <1>7. ReadKnows(r)'
    <2>1. ReadKnows(r)
      BY <1>5, <1>6
    <2> QED BY <1>1, <2>1 DEF ReadKnows, memory
  <1>8. StorageInv'
    BY <1>0, <1>1, <1>4, <1>6, <1>7, DbInv
  <1> QED BY <1>0, <1>1, <1>8, NothingWritten

-----------------------------------------------------------------------------
(* The process of a server dies: its structures and queue are gone, its    *)
(* users know version 0, which the clan table never has again.             *)
LEMMA CrashInv ==
    ASSUME StorageInv, NEW s \in Servers, Crash(s)
    PROVE  StorageInv'
  <1>0. StorageTypeOK /\ Home \in [Users -> Servers]
    BY Types DEF StorageInv
  <1>1. /\ up' = [up EXCEPT ![s] = FALSE]
        /\ queue' = [queue EXCEPT ![s] = <<>>]
        /\ slot' = [slot EXCEPT ![s] = [o \in Kinds |-> Empty]]
        /\ step' = [c \in Users |-> IF Home[c] = s THEN FirstStep(c) ELSE step[c]]
        /\ ver' = [c \in Users |-> IF Home[c] = s THEN 0 ELSE ver[c]]
        /\ data' = [c \in Users |-> IF Home[c] = s THEN NoData ELSE data[c]]
        /\ dirty' = [c \in Users |-> IF Home[c] = s THEN FALSE ELSE dirty[c]]
        /\ news' = [c \in Clans |-> IF Home[c] = s THEN {} ELSE news[c]]
        /\ UNCHANGED <<table, unsent>> /\ calm' \in BOOLEAN
    BY DEF Crash
  <1>2. \A c \in Users : /\ FirstStep(c) \in ClanSteps \cup KeeperSteps
                         /\ FirstStep(c) \notin {"creating", "reading", "updating"}
                         /\ c \in Clans => FirstStep(c) = "read"
                         /\ c \in Keepers => FirstStep(c) \in KeeperSteps
    BY DEF FirstStep, ClanSteps, KeeperSteps
  <1>3. StorageTypeOK'
    <2>1. up' \in [Servers -> BOOLEAN]
      BY <1>0, <1>1, Types
    <2>2. queue' \in [Servers -> Seq(Kinds)]
      <3>1. <<>> \in Seq(Kinds)
        OBVIOUS
      <3> QED BY <1>0, <1>1, <3>1, Types
    <2>3. slot' \in [Servers -> [Kinds -> Slots]]
      <3>1. [o \in Kinds |-> Empty] \in [Kinds -> Slots]
        BY EmptyType
      <3> QED BY <1>0, <1>1, <3>1, Types
    <2>4. step' \in [Users -> ClanSteps \cup KeeperSteps]
      BY <1>0, <1>1, <1>2, Types
    <2>5. ver' \in [Users -> Nat] /\ dirty' \in [Users -> BOOLEAN]
      BY <1>0, <1>1, Types
    <2>6. data' \in [Users -> Data]
      BY <1>0, <1>1, EmptyType, Types
    <2>7. news' \in [Clans -> SUBSET Changes] /\ unsent' \subseteq Changes
          /\ table' \in [Blobs -> [ver : Nat, data : Data]] /\ calm' \in BOOLEAN
      BY <1>0, <1>1 DEF StorageTypeOK
    <2> QED BY <2>1, <2>2, <2>3, <2>4, <2>5, <2>6, <2>7 DEF StorageTypeOK
  <1>4. \A t \in Servers, p \in Kinds :
           slot'[t][p] = IF t = s THEN Empty ELSE slot[t][p]
    BY <1>0, <1>1, Types
  <1>5. \A t \in Servers : queue'[t] = IF t = s THEN <<>> ELSE queue[t]
    BY <1>0, <1>1, Types
  <1>6. \A c \in Users : /\ step'[c] = IF Home[c] = s THEN FirstStep(c) ELSE step[c]
                         /\ ver'[c] = IF Home[c] = s THEN 0 ELSE ver[c]
                         /\ data'[c] = IF Home[c] = s THEN NoData ELSE data[c]
    BY <1>1
  <1>7. StepsAgree'
    BY <1>2, <1>6, OtherBlob DEF StorageInv, StepsAgree, ClanSteps
  <1>8. SlotsAgree'
    <2> SUFFICES ASSUME NEW t \in Servers, NEW p \in Kinds
                 PROVE  LET r == slot'[t][p] IN
                        /\ r.state # "empty" => Home[r.user] = t /\ step'[r.user] = Waiting[p]
                        /\ \A d \in Users : Home[d] = t /\ step'[d] = Waiting[p] =>
                              r.state # "empty" /\ r.user = d
      BY DEF SlotsAgree
    <2>1. CASE t = s
      <3>1. slot'[t][p].state = "empty"
        BY <1>4, <2>1, EmptyType
      <3>2. \A d \in Users : Home[d] = t => step'[d] # Waiting[p]
        BY <1>2, <1>6, <2>1, WaitingSteps
      <3> QED BY <3>1, <3>2
    <2>2. CASE t # s
      <3>1. slot'[t][p] = slot[t][p]
        BY <1>4, <2>2
      <3>2. slot[t][p].state # "empty" =>
               /\ slot[t][p].user \in Users
               /\ Home[slot[t][p].user] = t /\ step[slot[t][p].user] = Waiting[p]
        BY <1>0, SlotUser DEF StorageInv, SlotsAgree
      <3>3. \A d \in Users : Home[d] = t => step'[d] = step[d]
        BY <1>6, <2>2
      <3> QED BY <3>1, <3>2, <3>3 DEF StorageInv, SlotsAgree
    <2> QED BY <2>1, <2>2
  <1>9. QueueAgrees'
    <2> SUFFICES ASSUME NEW t \in Servers
                 PROVE  /\ \A o \in Kinds :
                             slot'[t][o].state = "asked"
                             <=> \E i \in DOMAIN queue'[t] : queue'[t][i] = o
                        /\ \A i, j \in DOMAIN queue'[t] :
                             queue'[t][i] = queue'[t][j] => i = j
      BY DEF QueueAgrees
    <2>1. CASE t = s
      <3>1. DOMAIN queue'[t] = {}
        BY <1>5, <2>1
      <3>2. \A o \in Kinds : slot'[t][o].state = "empty"
        BY <1>4, <2>1, EmptyType
      <3> QED BY <3>1, <3>2
    <2>2. CASE t # s
      BY <1>4, <1>5, <2>2 DEF StorageInv, QueueAgrees
    <2> QED BY <2>1, <2>2
  <1>10. SlotsKnow'
    <2> SUFFICES ASSUME NEW t \in Servers
                 PROVE  /\ slot'[t]["update"].state # "empty" => UpdateKnows(slot[t]["update"])'
                        /\ slot'[t]["read"].state # "empty" => ReadKnows(slot[t]["read"])'
      BY DEF SlotsKnow
    <2>0. "update" \in Kinds /\ "read" \in Kinds
      BY DEF Kinds
    <2>1. \A p \in Kinds : slot'[t][p].state # "empty" =>
             /\ slot'[t][p] = slot[t][p] /\ slot[t][p].user \in Users
             /\ ver'[slot[t][p].user] = ver[slot[t][p].user]
             /\ data'[slot[t][p].user] = data[slot[t][p].user]
      <3> SUFFICES ASSUME NEW p \in Kinds, slot'[t][p].state # "empty"
                   PROVE  /\ slot'[t][p] = slot[t][p] /\ slot[t][p].user \in Users
                          /\ ver'[slot[t][p].user] = ver[slot[t][p].user]
                          /\ data'[slot[t][p].user] = data[slot[t][p].user]
        OBVIOUS
      <3>1. t # s /\ slot'[t][p] = slot[t][p]
        BY <1>4, EmptyType
      <3>2. slot[t][p].user \in Users /\ Home[slot[t][p].user] = t
        BY <1>0, <3>1, SlotUser DEF StorageInv, SlotsAgree
      <3> QED BY <1>6, <3>1, <3>2
    <2>2. ASSUME slot'[t]["update"].state # "empty"
          PROVE  UpdateKnows(slot[t]["update"])'
      <3>1. UpdateKnows(slot[t]["update"])
        BY <2>0, <2>1, <2>2 DEF StorageInv, SlotsKnow
      <3> QED BY <1>1, <2>0, <2>1, <2>2, <3>1 DEF UpdateKnows
    <2>3. ASSUME slot'[t]["read"].state # "empty"
          PROVE  ReadKnows(slot[t]["read"])'
      <3>1. ReadKnows(slot[t]["read"])
        BY <2>0, <2>1, <2>3 DEF StorageInv, SlotsKnow
      <3> QED BY <1>1, <2>0, <2>1, <2>3, <3>1 DEF ReadKnows
    <2> QED BY <2>2, <2>3
  <1>11. ClanTableExists'
    BY <1>1 DEF StorageInv, ClanTableExists
  <1>12. ClanSnapshot'
    <2> SUFFICES ASSUME NEW c \in Clans
                 PROVE  LET t == table[Blob[c]] IN
                        /\ ver'[c] <= t.ver
                        /\ ver'[c] = t.ver => AtLeast(data'[c], t.data)
                        /\ ver'[c] = t.ver /\ c \notin Writers => data'[c] = t.data
      BY <1>1 DEF ClanSnapshot
    <2>1. c \in Users /\ table[Blob[c]].ver \in Nat
      BY <1>0, OtherBlob, Types
    <2>2. CASE Home[c] = s
      <3>1. ver'[c] = 0 /\ table[Blob[c]].ver >= 1
        BY <1>6, <2>1, <2>2 DEF StorageInv, ClanTableExists
      <3> QED BY <2>1, <3>1
    <2>3. CASE Home[c] # s
      BY <1>6, <2>1, <2>3 DEF StorageInv, ClanSnapshot
    <2> QED BY <2>2, <2>3
  <1> QED BY <1>3, <1>7, <1>8, <1>9, <1>10, <1>11, <1>12 DEF StorageInv

(* The servers have just been started and have asked for nothing.          *)
LEMMA InitInv ==
    ASSUME StorageInit
    PROVE  StorageInv
  <1>1. /\ table \in [Blobs -> [ver : {0, 1}, data : {NoData}]]
        /\ \A c \in Clans : table[Blob[c]].ver = 1
        /\ up = [s \in Servers |-> TRUE]
        /\ queue = [s \in Servers |-> <<>>]
        /\ slot = [s \in Servers |-> [o \in Kinds |-> Empty]]
        /\ step = [c \in Users |-> FirstStep(c)]
        /\ ver = [c \in Users |-> 0]
        /\ data = [c \in Users |-> NoData]
        /\ dirty = [c \in Users |-> FALSE]
        /\ unsent = Changes
        /\ news = [c \in Clans |-> {}]
        /\ calm \in BOOLEAN
    BY DEF StorageInit
  <1>2. \A c \in Users : /\ FirstStep(c) \in ClanSteps \cup KeeperSteps
                         /\ FirstStep(c) \notin {"creating", "reading", "updating"}
                         /\ c \in Clans => FirstStep(c) = "read"
                         /\ c \in Keepers => FirstStep(c) \in KeeperSteps
    BY DEF FirstStep, ClanSteps, KeeperSteps
  <1>3. StorageTypeOK
    <2>1. table \in [Blobs -> [ver : Nat, data : Data]]
      <3>1. \A b \in Blobs : table[b] \in [ver : {0, 1}, data : {NoData}]
        BY <1>1
      <3>2. \A t \in [ver : {0, 1}, data : {NoData}] : t \in [ver : Nat, data : Data]
        BY EmptyType
      <3> QED BY <1>1, <3>1, <3>2
    <2>2. queue \in [Servers -> Seq(Kinds)]
      <3>1. <<>> \in Seq(Kinds)
        OBVIOUS
      <3> QED BY <1>1, <3>1
    <2>3. slot \in [Servers -> [Kinds -> Slots]]
      <3>1. [o \in Kinds |-> Empty] \in [Kinds -> Slots]
        BY EmptyType
      <3> QED BY <1>1, <3>1
    <2>4. step \in [Users -> ClanSteps \cup KeeperSteps]
      BY <1>1, <1>2
    <2>5. data \in [Users -> Data]
      BY <1>1, EmptyType
    <2>6. /\ up \in [Servers -> BOOLEAN] /\ ver \in [Users -> Nat]
          /\ dirty \in [Users -> BOOLEAN] /\ unsent \subseteq Changes
          /\ news \in [Clans -> SUBSET Changes] /\ calm \in BOOLEAN
      BY <1>1
    <2> QED BY <2>1, <2>2, <2>3, <2>4, <2>5, <2>6 DEF StorageTypeOK
  <1>4. \A s \in Servers, o \in Kinds : slot[s][o].state = "empty"
    BY <1>1, EmptyType
  <1>5. SlotsAgree
    <2>1. \A c \in Users, o \in Kinds : step[c] # Waiting[o]
      BY <1>1, <1>2, WaitingSteps
    <2> QED BY <1>4, <2>1 DEF SlotsAgree
  <1>6. QueueAgrees
    <2>1. \A s \in Servers : queue[s] = <<>>
      BY <1>1
    <2>2. ASSUME NEW s \in Servers PROVE DOMAIN queue[s] = {}
      <3>1. queue[s] = <<>>
        BY <2>1
      <3>2. <<>> \in Seq(Kinds) /\ Len(<<>>) = 0
        OBVIOUS
      <3>3. DOMAIN queue[s] = 1..0
        BY <3>1, <3>2
      <3> QED BY <3>3
    <2> QED BY <1>4, <2>2 DEF QueueAgrees
  <1>7. SlotsKnow
    BY <1>4 DEF SlotsKnow, Kinds
  <1>8. StepsAgree
    BY <1>1, <1>2, OtherBlob DEF StepsAgree, ClanSteps
  <1>9. ClanSnapshot /\ ClanTableExists
    BY <1>1, OtherBlob DEF ClanSnapshot, ClanTableExists
  <1> QED BY <1>3, <1>5, <1>6, <1>7, <1>8, <1>9 DEF StorageInv

-----------------------------------------------------------------------------
(* Every step keeps the invariant, and no step loses what a clan has       *)
(* written.                                                                *)
LEMMA NextInv ==
    ASSUME StorageInv, [StorageNext]_storageVars
    PROVE  StorageInv' /\ NothingLost
  <1>0. StorageTypeOK
    BY DEF StorageInv
  <1>1. CASE UNCHANGED storageVars
    <2>1. StorageInv'
      BY <1>1 DEF storageVars, StorageInv, StorageTypeOK, SlotsAgree, QueueAgrees,
         StepsAgree, SlotsKnow, UpdateKnows, ReadKnows, ClanSnapshot, ClanTableExists
    <2> QED BY <1>0, <1>1, <2>1, NothingWritten, SMTT(30) DEF storageVars
  <1>2. ASSUME NEW c \in Users, UserStep(c)
        PROVE  StorageInv' /\ NothingLost
    <2>1. StorageInv'
      BY <1>2, AsksInv, CreateAnswerInv, ReadAnswerInv, StepsOnlyInv,
         ClanUpdatedInv, ClanUpdateFailedInv, KeeperUpdatedInv DEF UserStep
    <2>2. table' = table
      BY <1>2 DEF UserStep, CreateAsk, CreateAnswer, ReadAsk, ReadAnswer, AfterRead,
         UpdateAsk, ClanUpdated, ClanUpdateFailed, KeeperUpdated
    <2> QED BY <1>0, <2>1, <2>2, NothingWritten
  <1>3. ASSUME NEW s \in Servers, DbStep(s)
        PROVE  StorageInv' /\ NothingLost
    BY <1>3, DbCreateInv, DbUpdateInv, DbReadInv DEF DbStep
  <1>4. ASSUME World
        PROVE  StorageInv' /\ NothingLost
    <2>1. StorageInv'
      BY <1>4, OtherBlob, RaidInv, ChangeInv, DeliverInv, StepsOnlyInv, CrashInv, StartInv
         DEF World
    <2>2. table' = table
      BY <1>4 DEF World, Raid, Change, Deliver, SaveDue, Crash, Start
    <2> QED BY <1>0, <2>1, <2>2, NothingWritten
  <1> QED BY <1>1, <1>2, <1>3, <1>4 DEF StorageNext

(* What the servers know of the clan table, in memory, in requests and in  *)
(* answers, is what it was or is (tick_clan, db_update_storage).           *)
THEOREM Invariant == StorageSpec => []StorageInv
  <1>1. StorageInit => StorageInv
    BY InitInv
  <1>2. StorageInv /\ [StorageNext]_storageVars => StorageInv'
    BY NextInv
  <1> QED BY <1>1, <1>2, PTL DEF StorageSpec

(* The variables keep their types.                                         *)
THEOREM StorageTypes == StorageSpec => []StorageTypeOK
  <1>1. StorageInv => StorageTypeOK
    BY DEF StorageInv
  <1> QED BY <1>1, Invariant, PTL

(* The users of a server share cs, us and rs and take only the answers to  *)
(* their own requests; no query finds its structure without a request.     *)
THEOREM Answers == StorageSpec => []AnswerToAsker
  <1>1. StorageInv => AnswerToAsker
    BY DEF StorageInv, AnswerToAsker
  <1> QED BY <1>1, Invariant, PTL

(* A server that believes to have the version in the table has at least    *)
(* its content, and exactly that outside area 3.                           *)
THEOREM Snapshot == StorageSpec => []ClanSnapshot
  <1>1. StorageInv => ClanSnapshot
    BY DEF StorageInv
  <1> QED BY <1>1, Invariant, PTL

(* Nothing once written to the clan table disappears, however many servers *)
(* write it, crash, or see a write fail that was done.                     *)
THEOREM NoWriteLost == StorageSpec => NoLostWrite
  <1>1. StorageInv /\ [StorageNext]_storageVars =>
           [\A c \in Clans : AtLeast(table'[Blob[c]].data, table[Blob[c]].data)]_storageVars
    BY NextInv DEF NothingLost
  <1> QED BY <1>1, Invariant, PTL DEF StorageSpec, NoLostWrite

-----------------------------------------------------------------------------
(* The storage implements the register of CasRegister.                     *)

(* A user with one structure in use: that is its call.                     *)
LEMMA OneHeld ==
    ASSUME NEW f, NEW c, NEW o \in Kinds, f[o].state # "empty", f[o].user = c,
           \A p \in Kinds : p # o => f[p].state = "empty" \/ f[p].user # c
    PROVE  CallIn(f, c) = CallOf(o, f[o])
  <1> DEFINE in == {p \in Kinds : f[p].state # "empty" /\ f[p].user = c}
  <1>1. in = {o}
    OBVIOUS
  <1>2. (CHOOSE p \in in : TRUE) = o
    BY <1>1
  <1> QED BY <1>1, <1>2 DEF CallIn

(* ... with none: it makes no call.                                        *)
LEMMA NoneHeld ==
    ASSUME NEW f, NEW c, \A p \in Kinds : f[p].state = "empty" \/ f[p].user # c
    PROVE  CallIn(f, c) = Reg!Idle
  <1> DEFINE in == {p \in Kinds : f[p].state # "empty" /\ f[p].user = c}
  <1>1. in = {}
    OBVIOUS
  <1> QED BY <1>1 DEF CallIn, Reg!Idle

(* Structures of others do not matter.                                     *)
LEMMA SameHeld ==
    ASSUME NEW f, NEW g, NEW c,
           \A p \in Kinds : \/ f[p] = g[p]
                            \/ /\ f[p].state = "empty" \/ f[p].user # c
                               /\ g[p].state = "empty" \/ g[p].user # c
    PROVE  CallIn(f, c) = CallIn(g, c)
  <1> DEFINE in == {p \in Kinds : f[p].state # "empty" /\ f[p].user = c}
  <1>1. in = {p \in Kinds : g[p].state # "empty" /\ g[p].user = c}
    OBVIOUS
  <1>2. CASE in = {}
    BY <1>1, <1>2 DEF CallIn
  <1>3. CASE in # {}
    <2>1. (CHOOSE p \in in : TRUE) \in in
      BY <1>3
    <2>2. f[CHOOSE p \in in : TRUE] = g[CHOOSE p \in in : TRUE]
      BY <2>1
    <2> QED BY <1>1, <1>3, <2>2 DEF CallIn
  <1> QED BY <1>2, <1>3

(* The call of one user changes, those of the others do not.               *)
LEMMA OneCall ==
    ASSUME NEW c \in Users, NEW a, Calls'[c] = a,
           \A d \in Users : d # c => Calls'[d] = Calls[d]
    PROVE  Calls' = [Calls EXCEPT ![c] = a]
  BY DEF Calls

(* A structure changes that user c has, or had; no other is of c.          *)
LEMMA CallsAt ==
    ASSUME StorageInv, NEW c \in Users, NEW o \in Kinds, NEW r,
           slot'[Home[c]][o] = r,
           \A t \in Servers, p \in Kinds :
              (t # Home[c] \/ p # o) => slot'[t][p] = slot[t][p],
           \A p \in Kinds : p # o =>
              slot[Home[c]][p].state = "empty" \/ slot[Home[c]][p].user # c,
           slot[Home[c]][o].state = "empty" \/ slot[Home[c]][o].user = c,
           r.state = "empty" \/ r.user = c
    PROVE  /\ r.state # "empty" => Calls' = [Calls EXCEPT ![c] = CallOf(o, r)]
           /\ r.state = "empty" => Calls' = [Calls EXCEPT ![c] = Reg!Idle]
           /\ slot[Home[c]][o].state # "empty" => Calls[c] = CallOf(o, slot[Home[c]][o])
           /\ slot[Home[c]][o].state = "empty" => Calls[c] = Reg!Idle
  <1>0. Home \in [Users -> Servers]
    BY UsersAssumption
  <1>1. \A d \in Users : /\ Calls[d] = CallIn(slot[Home[d]], d)
                         /\ Calls'[d] = CallIn(slot'[Home[d]], d)
    BY DEF Calls
  <1>2. ASSUME NEW d \in Users, d # c
        PROVE  Calls'[d] = Calls[d]
    <2>1. \A p \in Kinds :
             \/ slot'[Home[d]][p] = slot[Home[d]][p]
             \/ /\ slot'[Home[d]][p].state = "empty" \/ slot'[Home[d]][p].user # d
                /\ slot[Home[d]][p].state = "empty" \/ slot[Home[d]][p].user # d
      BY <1>0, <1>2
    <2>2. CallIn(slot'[Home[d]], d) = CallIn(slot[Home[d]], d)
      BY <2>1, SameHeld
    <2> QED BY <1>1, <2>2
  <1>3. \A p \in Kinds : p # o =>
           slot'[Home[c]][p].state = "empty" \/ slot'[Home[c]][p].user # c
    BY <1>0
  <1>4. r.state # "empty" => Calls'[c] = CallOf(o, r)
    BY <1>1, <1>3, OneHeld
  <1>5. r.state = "empty" => Calls'[c] = Reg!Idle
    BY <1>1, <1>3, NoneHeld
  <1>6. slot[Home[c]][o].state # "empty" => Calls[c] = CallOf(o, slot[Home[c]][o])
    BY <1>1, OneHeld
  <1>7. slot[Home[c]][o].state = "empty" => Calls[c] = Reg!Idle
    BY <1>1, NoneHeld
  <1> QED BY <1>2, <1>4, <1>5, <1>6, <1>7, OneCall

(* A request is a call.                                                    *)
LEMMA AskIsCall ==
    ASSUME StorageInv, NEW c \in Users, CreateAsk(c) \/ ReadAsk(c) \/ UpdateAsk(c)
    PROVE  Reg!Ask(c)
  <1>0. Home[c] \in Servers /\ ver[c] \in Nat
    BY Types DEF StorageInv
  <1>1. PICK o \in Kinds : /\ Ask(c, o, Waiting[o]) /\ table' = table
                           /\ step[c] \notin {"creating", "reading", "updating"}
    BY WaitingSteps DEF CreateAsk, ReadAsk, UpdateAsk, Kinds
  <1>2. /\ slot'[Home[c]][o] = Request(c, ver[c])
        /\ \A t \in Servers, p \in Kinds :
              (t # Home[c] \/ p # o) => slot'[t][p] = slot[t][p]
    BY <1>1, AskAgrees DEF StorageInv
  <1>3. /\ Request(c, ver[c]).state = "asked" /\ Request(c, ver[c]).user = c
        /\ Request(c, ver[c]).ver = ver[c] /\ Request(c, ver[c]).new = FALSE
    BY <1>0, RequestType
  <1>4. \A p \in Kinds : slot[Home[c]][p].state = "empty" \/ slot[Home[c]][p].user # c
    <2>1. \A p \in Kinds : slot[Home[c]][p].state # "empty" =>
             step[slot[Home[c]][p].user] = Waiting[p]
      BY <1>0 DEF StorageInv, SlotsAgree
    <2> QED BY <1>1, <2>1, WaitingSteps
  <1>5. slot[Home[c]][o].state = "empty"
    BY <1>1 DEF Ask
  <1>6. Calls' = [Calls EXCEPT ![c] = CallOf(o, Request(c, ver[c]))] /\ Calls[c] = Reg!Idle
    BY <1>2, <1>3, <1>4, <1>5, CallsAt
  <1>7. CallOf(o, Request(c, ver[c])) = Reg!Asked(o, ver[c])
    BY <1>3 DEF CallOf, Reg!Asked
  <1>8. Calls'[c] = Reg!Asked(o, ver[c])
    BY <1>6, <1>7 DEF Calls
  <1>9. Calls'[c].op = o /\ Calls'[c].ver = ver[c]
    BY <1>8 DEF Reg!Asked
  <1> QED BY <1>0, <1>1, <1>6, <1>7, <1>9 DEF Reg!Ask, Kinds

(* The steps that take an answer.                                          *)
LEMMA AnswerIsTake ==
    ASSUME StorageInv, NEW c \in Users,
           \/ CreateAnswer(c) \/ ReadAnswer(c)
           \/ ClanUpdated(c) \/ ClanUpdateFailed(c) \/ KeeperUpdated(c)
    PROVE  Reg!Take(c)
  <1>1. PICK o \in Kinds : /\ Answered(c, o, Waiting[o], {"done", "failed"})
                           /\ table' = table
    BY WaitingSteps DEF CreateAnswer, ReadAnswer, ClanUpdated, ClanUpdateFailed,
       KeeperUpdated, Answered, Kinds
  <1>2. /\ step[c] = Waiting[o] /\ slot[Home[c]][o].state \in {"done", "failed"}
        /\ slot' = [slot EXCEPT ![Home[c]][o] = Empty]
    BY <1>1 DEF Answered
  <1>3. StorageTypeOK /\ Home[c] \in Servers
    BY Types DEF StorageInv
  <1>4. /\ slot'[Home[c]][o] = Empty
        /\ \A t \in Servers, p \in Kinds :
              (t # Home[c] \/ p # o) => slot'[t][p] = slot[t][p]
    BY <1>2, <1>3, EmptyType, SlotAt, Types
  <1>5. slot[Home[c]][o].user = c
    BY <1>2, <1>3 DEF StorageInv, SlotsAgree
  <1>6. \A p \in Kinds : p # o =>
           slot[Home[c]][p].state = "empty" \/ slot[Home[c]][p].user # c
    BY <1>2, <1>3, OnlyOneSlot
  <1>7. /\ Calls' = [Calls EXCEPT ![c] = Reg!Idle]
        /\ Calls[c] = CallOf(o, slot[Home[c]][o])
    BY <1>2, <1>4, <1>5, <1>6, EmptyType, CallsAt
  <1>8. Calls[c].state \in {"done", "failed"}
    BY <1>2, <1>7 DEF CallOf
  <1> QED BY <1>1, <1>7, <1>8 DEF Reg!Take

(* The request the database thread works on is the call of its user; with  *)
(* the answer r the call changes to what r says.                           *)
LEMMA DbCalls ==
    ASSUME StorageInv, NEW s \in Servers, NEW o \in Kinds, slot[s][o].state = "asked",
           NEW c, c = slot[s][o].user,
           NEW r \in Slots, r.user = c, r.state \in {"done", "failed"},
           slot'[s][o] = r,
           \A t \in Servers, p \in Kinds :
              (t # s \/ p # o) => slot'[t][p] = slot[t][p]
    PROVE  /\ Calls' = [Calls EXCEPT ![c] = CallOf(o, r)]
           /\ Calls[c].state = "asked" /\ Calls[c].op = o
           /\ Calls[c].ver = slot[s][o].ver
           /\ c \in Users
  <1>0. StorageTypeOK /\ slot \in [Servers -> [Kinds -> Slots]]
    BY Types DEF StorageInv
  <1>1. c \in Users
    BY Asked
  <1>2. Home[c] = s /\ step[c] = Waiting[o]
    BY DEF StorageInv, SlotsAgree
  <1>4. \A p \in Kinds : p # o =>
           slot[s][p].state = "empty" \/ slot[s][p].user # c
    BY <1>1, <1>2, OnlyOneSlot
  <1>5. /\ r.state # "empty" => Calls' = [Calls EXCEPT ![c] = CallOf(o, r)]
        /\ slot[s][o].state # "empty" => Calls[c] = CallOf(o, slot[s][o])
    BY <1>1, <1>2, <1>4, CallsAt
  <1>6. Calls' = [Calls EXCEPT ![c] = CallOf(o, r)] /\ Calls[c] = CallOf(o, slot[s][o])
    BY <1>5
  <1>7. Calls[c].state = "asked" /\ Calls[c].op = o /\ Calls[c].ver = slot[s][o].ver
    BY <1>6 DEF CallOf
  <1> QED BY <1>1, <1>6, <1>7

(* An answer that brought no content, as the register gives it.            *)
LEMMA PlainAnswer ==
    ASSUME NEW o, NEW r, ~r.new
    PROVE  /\ r.state = "done" => CallOf(o, r) = Reg!Done(o, r.ver, {})
           /\ r.state = "failed" => CallOf(o, r) = Reg!Failed(o, r.ver)
  BY DEF CallOf, Reg!Done, Reg!Failed

(* Only answers to reads bring content.                                    *)
OnlyReadsFind == \A s \in Servers, o \in Kinds : slot[s][o].new => o = "read"

(* A structure whose new content, if any, was read.                        *)
LEMMA OneFinds ==
    ASSUME StorageTypeOK, OnlyReadsFind, NEW s \in Servers, NEW o \in Kinds, NEW r,
           slot' = [slot EXCEPT ![s][o] = r], r.new => o = "read"
    PROVE  OnlyReadsFind'
  <1>1. slot \in [Servers -> [Kinds -> Slots]]
    BY Types
  <1>2. \A t \in Servers, p \in Kinds :
           slot'[t][p] = IF t = s /\ p = o THEN r ELSE slot[t][p]
    BY <1>1
  <1> QED BY <1>2 DEF OnlyReadsFind

(* Every step keeps that, too.                                             *)
LEMMA OnlyReadsFindInv ==
    ASSUME StorageInv, OnlyReadsFind, [StorageNext]_storageVars
    PROVE  OnlyReadsFind'
  <1>0. StorageTypeOK /\ Home \in [Users -> Servers] /\ ver \in [Users -> Nat]
        /\ slot \in [Servers -> [Kinds -> Slots]]
    BY Types DEF StorageInv
  <1>1. CASE slot' = slot
    BY <1>1 DEF OnlyReadsFind
  <1>2. ASSUME NEW c \in Users, NEW o \in Kinds, NEW st, Ask(c, o, st)
        PROVE  OnlyReadsFind'
    <2>1. Home[c] \in Servers /\ ver[c] \in Nat
      BY <1>0
    <2>2. slot' = [slot EXCEPT ![Home[c]][o] = Request(c, ver[c])]
      BY <1>2 DEF Ask
    <2>3. Request(c, ver[c]).new = FALSE
      BY <2>1, RequestType
    <2> QED BY <1>0, <2>1, <2>2, <2>3, OneFinds
  <1>3. ASSUME NEW c \in Users, NEW o \in Kinds, NEW st, NEW states,
               Answered(c, o, st, states)
        PROVE  OnlyReadsFind'
    <2>1. Home[c] \in Servers
      BY <1>0
    <2>2. slot' = [slot EXCEPT ![Home[c]][o] = Empty]
      BY <1>3 DEF Answered
    <2> QED BY <1>0, <2>1, <2>2, EmptyType, OneFinds
  <1>4. ASSUME NEW s \in Servers, NEW o \in Kinds, slot[s][o].state = "asked",
               NEW st \in {"done", "failed"}, SetSlot(s, o, st)
        PROVE  OnlyReadsFind'
    <2>1. PICK r \in Slots : slot' = [slot EXCEPT ![s][o] = r] /\ r.new = slot[s][o].new
      BY <1>0, <1>4, SetSlotAt, SMTT(30)
    <2>2. r.new => o = "read"
      BY <2>1 DEF OnlyReadsFind
    <2> QED BY <1>0, <2>1, <2>2, OneFinds
  <1>5. ASSUME NEW c \in Users, UserStep(c)
        PROVE  OnlyReadsFind'
    <2>1. CASE AfterRead(c)
      BY <1>1, <2>1 DEF AfterRead
    <2>2. CASE CreateAsk(c) \/ ReadAsk(c) \/ UpdateAsk(c)
      BY <1>2, <2>2 DEF CreateAsk, ReadAsk, UpdateAsk, Kinds
    <2>3. CASE \/ CreateAnswer(c) \/ ReadAnswer(c)
               \/ ClanUpdated(c) \/ ClanUpdateFailed(c) \/ KeeperUpdated(c)
      BY <1>3, <2>3 DEF CreateAnswer, ReadAnswer, ClanUpdated, ClanUpdateFailed,
         KeeperUpdated, Kinds
    <2> QED BY <1>5, <2>1, <2>2, <2>3 DEF UserStep
  <1>6. ASSUME NEW s \in Servers, DbStep(s)
        PROVE  OnlyReadsFind'
    <2>1. CASE DbCreate(s)
      BY <1>4, <2>1 DEF DbCreate, Reply, Kinds
    <2>2. CASE DbUpdate(s)
      BY <1>4, <2>2 DEF DbUpdate, Reply, Kinds
    <2>3. CASE DbRead(s)
      <3>1. slot[s]["read"].state = "asked"
        BY <2>3 DEF DbRead
      <3>2. CASE SetSlot(s, "read", "failed")
        BY <1>4, <3>1, <3>2 DEF Kinds
      <3>3. CASE \E r : slot' = [slot EXCEPT ![s]["read"] = r]
        BY <1>0, <3>3, OneFinds DEF Kinds
      <3> QED BY <2>3, <3>2, <3>3 DEF DbRead
    <2> QED BY <1>6, <2>1, <2>2, <2>3 DEF DbStep
  <1>7. ASSUME World
        PROVE  OnlyReadsFind'
    <2>1. ASSUME NEW s \in Servers, Crash(s)
          PROVE  OnlyReadsFind'
      <3>1. slot' = [slot EXCEPT ![s] = [o \in Kinds |-> Empty]]
        BY <2>1 DEF Crash
      <3>2. \A t \in Servers, p \in Kinds :
               slot'[t][p] = IF t = s THEN Empty ELSE slot[t][p]
        BY <1>0, <3>1
      <3> QED BY <3>2, EmptyType DEF OnlyReadsFind
    <2>2. slot' = slot \/ \E s \in Servers : Crash(s)
      BY <1>7 DEF World, Raid, Change, Deliver, SaveDue, Start
    <2> QED BY <1>1, <2>1, <2>2
  <1> QED BY <1>1, <1>5, <1>6, <1>7 DEF StorageNext, storageVars

(* A row that gets a version and some content.                             *)
LEMMA RowIsWrite ==
    ASSUME StorageTypeOK, NEW b \in Blobs, NEW e \in Data, NEW v,
           table' = [table EXCEPT ![b] = [ver |-> v, data |-> e]]
    PROVE  Reg!Write(b, v)
  <1>1. table'[b] = [ver |-> v, data |-> e]
    BY Types
  <1>2. table'[b].data = e
    BY <1>1
  <1> QED BY <1>2 DEF Reg!Write

(* db_create_storage creates the register, finds it there, or fails.       *)
LEMMA DbCreateIsCreate ==
    ASSUME StorageInv, OnlyReadsFind, NEW s \in Servers, DbCreate(s)
    PROVE  Reg!Create(slot[s]["create"].user)
  <1> DEFINE q == slot[s]["create"]
             c == q.user
             b == Blob[c]
  <1>0. StorageTypeOK /\ "create" \in Kinds
    BY DEF StorageInv, Kinds
  <1>1. q.state = "asked"
    BY DEF DbCreate
  <1>2. c \in Users /\ b \in Blobs /\ data[c] \in Data
    BY <1>0, <1>1, Asked, SMTT(30)
  <1>3. PICK st \in {"done", "failed"} :
           /\ SetSlot(s, "create", st)
           /\ \/ /\ table[b].ver = 0
                 /\ table' = [table EXCEPT ![b] = [ver |-> 1, data |-> data[c]]]
              \/ st = "failed" /\ table' = table
    BY DEF DbCreate, Reply
  <1>4. PICK r \in Slots : /\ slot' = [slot EXCEPT ![s]["create"] = r]
                           /\ r.state = st /\ r.user = c /\ r.ver = q.ver /\ r.new = q.new
    <2>1. slot \in [Servers -> [Kinds -> Slots]]
      BY <1>0, Types
    <2>2. SetSlot(s, "create", st) /\ slot[s]["create"].state = "asked"
      BY <1>1, <1>3
    <2> QED BY <1>0, <2>1, <2>2, SetSlotAt
  <1>5. /\ Calls' = [Calls EXCEPT ![c] = CallOf("create", r)]
        /\ Calls[c].state = "asked" /\ Calls[c].op = "create" /\ Calls[c].ver = q.ver
    <2>1. /\ slot'[s]["create"] = r
          /\ \A t \in Servers, p \in Kinds :
                (t # s \/ p # "create") => slot'[t][p] = slot[t][p]
      BY <1>0, <1>4, SlotAt, Types
    <2> QED BY <1>0, <1>1, <1>3, <1>4, <2>1, DbCalls
  <1>6. ~r.new
    BY <1>0, <1>4 DEF OnlyReadsFind
  <1>7. /\ st = "done" => CallOf("create", r) = Reg!Done("create", Calls[c].ver, {})
        /\ st = "failed" => CallOf("create", r) = Reg!Failed("create", Calls[c].ver)
    BY <1>4, <1>5, <1>6, PlainAnswer
  <1>8. CASE st = "failed" /\ table' = table
    BY <1>5, <1>7, <1>8 DEF Reg!Create, Reg!Reply
  <1>9. CASE /\ table[b].ver = 0
             /\ table' = [table EXCEPT ![b] = [ver |-> 1, data |-> data[c]]]
    <2>1. Reg!Write(b, 1)
      BY <1>0, <1>2, <1>9, RowIsWrite
    <2>2. Reg!Reply(c, {Reg!Done("create", Calls[c].ver, {}),
                        Reg!Failed("create", Calls[c].ver)})
      BY <1>3, <1>5, <1>7 DEF Reg!Reply
    <2> QED BY <1>5, <1>9, <2>1, <2>2 DEF Reg!Create
  <1> QED BY <1>3, <1>8, <1>9

(* db_update_storage is a compare-and-set on the version.                  *)
LEMMA DbUpdateIsUpdate ==
    ASSUME StorageInv, OnlyReadsFind, NEW s \in Servers, DbUpdate(s)
    PROVE  Reg!Update(slot[s]["update"].user)
  <1> DEFINE q == slot[s]["update"]
             c == q.user
             b == Blob[c]
  <1>0. StorageTypeOK /\ "update" \in Kinds
    BY DEF StorageInv, Kinds
  <1>1. q.state = "asked"
    BY DEF DbUpdate
  <1>2. c \in Users /\ b \in Blobs /\ data[c] \in Data
    BY <1>0, <1>1, Asked, SMTT(30)
  <1>3. PICK st \in {"done", "failed"} :
           /\ SetSlot(s, "update", st)
           /\ \/ /\ table[b].ver = q.ver /\ table[b].ver # 0
                 /\ table' = [table EXCEPT ![b] = [ver |-> q.ver + 1, data |-> data[c]]]
              \/ st = "failed" /\ table' = table
    BY DEF DbUpdate, Reply
  <1>4. PICK r \in Slots : /\ slot' = [slot EXCEPT ![s]["update"] = r]
                           /\ r.state = st /\ r.user = c /\ r.ver = q.ver /\ r.new = q.new
    <2>1. slot \in [Servers -> [Kinds -> Slots]]
      BY <1>0, Types
    <2>2. SetSlot(s, "update", st) /\ slot[s]["update"].state = "asked"
      BY <1>1, <1>3, SMTT(30)
    <2> QED BY <1>0, <2>1, <2>2, SetSlotAt
  <1>5. /\ Calls' = [Calls EXCEPT ![c] = CallOf("update", r)]
        /\ Calls[c].state = "asked" /\ Calls[c].op = "update" /\ Calls[c].ver = q.ver
    <2>1. /\ slot'[s]["update"] = r
          /\ \A t \in Servers, p \in Kinds :
                (t # s \/ p # "update") => slot'[t][p] = slot[t][p]
      BY <1>0, <1>4, SlotAt, Types
    <2> QED BY <1>0, <1>1, <1>3, <1>4, <2>1, DbCalls
  <1>6. ~r.new
    BY <1>0, <1>4 DEF OnlyReadsFind
  <1>7. /\ st = "done" => CallOf("update", r) = Reg!Done("update", Calls[c].ver, {})
        /\ st = "failed" => CallOf("update", r) = Reg!Failed("update", Calls[c].ver)
    BY <1>4, <1>5, <1>6, PlainAnswer
  <1>8. CASE st = "failed" /\ table' = table
    BY <1>5, <1>7, <1>8 DEF Reg!Update, Reg!Reply
  <1>9. CASE /\ table[b].ver = q.ver /\ table[b].ver # 0
             /\ table' = [table EXCEPT ![b] = [ver |-> q.ver + 1, data |-> data[c]]]
    <2>1. Reg!Write(b, Calls[c].ver + 1)
      BY <1>0, <1>2, <1>5, <1>9, RowIsWrite
    <2>2. Reg!Reply(c, {Reg!Done("update", Calls[c].ver, {}),
                        Reg!Failed("update", Calls[c].ver)})
      BY <1>3, <1>5, <1>7 DEF Reg!Reply
    <2> QED BY <1>5, <1>9, <2>1, <2>2 DEF Reg!Update
  <1> QED BY <1>3, <1>8, <1>9

(* db_read_storage answers with the register as it is.                     *)
LEMMA DbReadIsRead ==
    ASSUME StorageInv, NEW s \in Servers, DbRead(s)
    PROVE  Reg!Read(slot[s]["read"].user)
  <1> DEFINE q == slot[s]["read"]
             c == q.user
             t == table[Blob[c]]
             found == [q EXCEPT !.state = "done", !.ver = t.ver, !.found = t.data, !.new = TRUE]
             same == [q EXCEPT !.state = "done"]
             failed == [q EXCEPT !.state = "failed"]
  <1>0. StorageTypeOK /\ "read" \in Kinds
    BY DEF StorageInv, Kinds
  <1>1. q.state = "asked" /\ table' = table
    BY DEF DbRead
  <1>2. q \in Slots /\ c \in Users /\ t.ver \in Nat /\ t.data \in Data /\ ~q.new
    BY <1>0, <1>1, Asked, SMTT(30)
  <1> HIDE DEF t
  <1>3. \/ t.ver # 0 /\ t.ver = q.ver /\ slot' = [slot EXCEPT ![s]["read"] = same]
        \/ t.ver # 0 /\ t.ver # q.ver /\ slot' = [slot EXCEPT ![s]["read"] = found]
        \/ slot' = [slot EXCEPT ![s]["read"] = failed]
    BY DEF DbRead, SetSlot, t
  <1>4. /\ same \in Slots /\ same.user = c /\ same.state = "done"
        /\ same.ver = q.ver /\ ~same.new
        /\ failed \in Slots /\ failed.user = c /\ failed.state = "failed"
        /\ failed.ver = q.ver /\ ~failed.new
        /\ found \in Slots /\ found.user = c /\ found.state = "done"
        /\ found.ver = t.ver /\ found.found = t.data /\ found.new = TRUE
    BY <1>2 DEF Slots
  <1> HIDE DEF same, failed, found
  <1>5. ASSUME NEW r \in {same, failed, found}, slot' = [slot EXCEPT ![s]["read"] = r]
        PROVE  /\ Calls' = [Calls EXCEPT ![c] = CallOf("read", r)]
               /\ Calls[c].state = "asked" /\ Calls[c].op = "read" /\ Calls[c].ver = q.ver
    <2>1. r \in Slots /\ r.user = c /\ r.state \in {"done", "failed"}
      BY <1>4, <1>5
    <2>2. /\ slot'[s]["read"] = r
          /\ \A u \in Servers, p \in Kinds :
                (u # s \/ p # "read") => slot'[u][p] = slot[u][p]
      BY <1>0, <1>5, <2>1, SlotAt, Types
    <2> QED BY <1>0, <1>1, <2>1, <2>2, DbCalls
  <1>6. /\ CallOf("read", same) = Reg!Done("read", q.ver, {})
        /\ CallOf("read", failed) = Reg!Failed("read", q.ver)
        /\ CallOf("read", found) = Reg!Done("read", t.ver, {t.data})
    BY <1>4, PlainAnswer DEF CallOf, Reg!Done
  <1>7. CASE t.ver # 0 /\ t.ver = q.ver /\ slot' = [slot EXCEPT ![s]["read"] = same]
    <2>1. Calls' = [Calls EXCEPT ![c] = CallOf("read", same)]
          /\ Calls[c].state = "asked" /\ Calls[c].op = "read" /\ Calls[c].ver = q.ver
      BY <1>5, <1>7
    <2>2. Reg!Reply(c, {Reg!Done("read", Calls[c].ver, {})})
      BY <1>6, <2>1 DEF Reg!Reply
    <2> QED BY <1>1, <1>7, <2>1, <2>2 DEF Reg!Read, t
  <1>8. CASE t.ver # 0 /\ t.ver # q.ver /\ slot' = [slot EXCEPT ![s]["read"] = found]
    <2>1. Calls' = [Calls EXCEPT ![c] = CallOf("read", found)]
          /\ Calls[c].state = "asked" /\ Calls[c].op = "read" /\ Calls[c].ver = q.ver
      BY <1>5, <1>8
    <2>2. Reg!Reply(c, {Reg!Done("read", t.ver, {t.data})})
      BY <1>6, <2>1 DEF Reg!Reply
    <2> QED BY <1>1, <1>8, <2>1, <2>2 DEF Reg!Read, t
  <1>9. CASE slot' = [slot EXCEPT ![s]["read"] = failed]
    <2>1. Calls' = [Calls EXCEPT ![c] = CallOf("read", failed)]
          /\ Calls[c].state = "asked" /\ Calls[c].op = "read" /\ Calls[c].ver = q.ver
      BY <1>5, <1>9
    <2>2. Reg!Reply(c, {Reg!Failed("read", Calls[c].ver)})
      BY <1>6, <2>1 DEF Reg!Reply
    <2> QED BY <1>1, <1>9, <2>1, <2>2 DEF Reg!Read, t
  <1> QED BY <1>3, <1>7, <1>8, <1>9

(* The users of a server lose their calls with it.                         *)
LEMMA CrashIsAbandon ==
    ASSUME StorageInv, NEW s \in Servers, Crash(s)
    PROVE  Reg!Abandon
  <1> DEFINE C == {c \in Users : Home[c] = s}
  <1>0. Home \in [Users -> Servers] /\ slot \in [Servers -> [Kinds -> Slots]]
    BY Types DEF StorageInv
  <1>1. table' = table /\ slot' = [slot EXCEPT ![s] = [o \in Kinds |-> Empty]]
    BY DEF Crash
  <1>2. \A c \in Users : Calls[c] = CallIn(slot[Home[c]], c)
                         /\ Calls'[c] = CallIn(slot'[Home[c]], c)
    BY DEF Calls
  <1>3. ASSUME NEW c \in Users, c \in C
        PROVE  Calls'[c] = Reg!Idle
    <2>1. \A p \in Kinds : slot'[Home[c]][p].state = "empty"
      BY <1>0, <1>1, <1>3, EmptyType
    <2> QED BY <1>2, <2>1, NoneHeld
  <1>4. ASSUME NEW c \in Users, c \notin C
        PROVE  Calls'[c] = Calls[c]
    <2>1. slot'[Home[c]] = slot[Home[c]]
      BY <1>0, <1>1, <1>4
    <2> QED BY <1>2, <2>1
  <1> HIDE DEF C
  <1>5. Calls' = [c \in Users |-> IF c \in C THEN Reg!Idle ELSE Calls[c]]
    <2>1. Calls' = [c \in Users |-> Calls'[c]]
      BY DEF Calls
    <2> QED BY <1>3, <1>4, <2>1
  <1>6. C \in SUBSET Users
    BY DEF C
  <1> QED BY <1>1, <1>5, <1>6 DEF Reg!Abandon

(* A step of the storage is a step of the register or changes neither the  *)
(* registers nor the calls.                                                *)
LEMMA RegStep ==
    ASSUME StorageInv, OnlyReadsFind, [StorageNext]_storageVars
    PROVE  [Reg!RegNext]_(Reg!regVars)
  <1>1. CASE table' = table /\ slot' = slot
    BY <1>1 DEF Reg!regVars, Calls
  <1>2. ASSUME NEW c \in Users, UserStep(c)
        PROVE  [Reg!RegNext]_(Reg!regVars)
    <2>1. CASE AfterRead(c)
      BY <1>1, <2>1 DEF AfterRead
    <2>2. CASE CreateAsk(c) \/ ReadAsk(c) \/ UpdateAsk(c)
      <3>1. Reg!Ask(c)
        BY <2>2, AskIsCall
      <3> QED BY <3>1 DEF Reg!RegNext
    <2>3. CASE \/ CreateAnswer(c) \/ ReadAnswer(c)
               \/ ClanUpdated(c) \/ ClanUpdateFailed(c) \/ KeeperUpdated(c)
      <3>1. Reg!Take(c)
        BY <2>3, AnswerIsTake
      <3> QED BY <3>1 DEF Reg!RegNext
    <2> QED BY <1>2, <2>1, <2>2, <2>3 DEF UserStep
  <1>3. ASSUME NEW s \in Servers, DbStep(s)
        PROVE  [Reg!RegNext]_(Reg!regVars)
    <2>1. \A o \in Kinds : slot[s][o].state = "asked" => slot[s][o].user \in Users
      BY Asked
    <2>2. CASE DbCreate(s)
      <3>1. slot[s]["create"].user \in Users
        BY <2>1, <2>2 DEF DbCreate, Kinds
      <3> QED BY <2>2, <3>1, DbCreateIsCreate DEF Reg!RegNext
    <2>3. CASE DbUpdate(s)
      <3>1. slot[s]["update"].user \in Users
        BY <2>1, <2>3 DEF DbUpdate, Kinds
      <3> QED BY <2>3, <3>1, DbUpdateIsUpdate DEF Reg!RegNext
    <2>4. CASE DbRead(s)
      <3>1. slot[s]["read"].user \in Users
        BY <2>1, <2>4 DEF DbRead, Kinds
      <3> QED BY <2>4, <3>1, DbReadIsRead DEF Reg!RegNext
    <2> QED BY <1>3, <2>2, <2>3, <2>4 DEF DbStep
  <1>4. ASSUME World
        PROVE  [Reg!RegNext]_(Reg!regVars)
    <2>1. (table' = table /\ slot' = slot) \/ \E s \in Servers : Crash(s)
      BY <1>4 DEF World, Raid, Change, Deliver, SaveDue, Start
    <2>2. ASSUME NEW s \in Servers, Crash(s)
          PROVE  [Reg!RegNext]_(Reg!regVars)
      BY <2>2, CrashIsAbandon DEF Reg!RegNext
    <2> QED BY <1>1, <2>1, <2>2
  <1> QED BY <1>1, <1>2, <1>3, <1>4 DEF StorageNext, storageVars

(* At the start the registers are the rows and nobody has made a call.     *)
LEMMA RegStart ==
    ASSUME StorageInit
    PROVE  Reg!RegInit /\ OnlyReadsFind
  <1>1. slot = [s \in Servers |-> [o \in Kinds |-> Empty]]
        /\ table \in [Blobs -> [ver : {0, 1}, data : {NoData}]]
    BY DEF StorageInit
  <1>2. \A s \in Servers, o \in Kinds : slot[s][o].state = "empty" /\ ~slot[s][o].new
    BY <1>1, EmptyType
  <1>3. OnlyReadsFind
    BY <1>2 DEF OnlyReadsFind
  <1>4. \A c \in Users : CallIn(slot[Home[c]], c) = Reg!Idle
    <2> SUFFICES ASSUME NEW c \in Users PROVE CallIn(slot[Home[c]], c) = Reg!Idle
      OBVIOUS
    <2>1. Home[c] \in Servers
      BY UsersAssumption
    <2> QED BY <1>2, <2>1, NoneHeld
  <1>5. Calls = [c \in Users |-> Reg!Idle]
    BY <1>4 DEF Calls
  <1>6. table \in [Blobs -> [ver : Nat, data : Data]]
    <2>1. StorageTypeOK
      BY InitInv DEF StorageInv
    <2> QED BY <2>1, Types
  <1> QED BY <1>3, <1>5, <1>6 DEF Reg!RegInit

(* storage.c implements a compare-and-set register per blob for its users: *)
(* every call takes effect once, between request and answer, or fails.     *)
THEOREM Register == StorageSpec => IsRegister
  <1>1. StorageInit => Reg!RegInit /\ OnlyReadsFind
    BY RegStart
  <1>2. StorageInv /\ OnlyReadsFind /\ [StorageNext]_storageVars =>
           OnlyReadsFind' /\ [Reg!RegNext]_(Reg!regVars)
    BY OnlyReadsFindInv, RegStep
  <1> QED BY <1>1, <1>2, Invariant, PTL DEF StorageSpec, IsRegister, Reg!RegSpec

-----------------------------------------------------------------------------
(* While nothing goes wrong.                                               *)

(* A server of area 3 reads the clan table once, before it knows a version *)
(* of it, and no write of a clan table or a keeper has failed.             *)
CalmWriters == calm =>
    /\ \A c \in Writers : step[c] \in {"read", "reading"} => ver[c] = 0
    /\ \A s \in Servers : slot[s]["update"].state # "failed"

(* No server of area 3 loses a change in its memory.                       *)
NothingForgotten == \A c \in Writers : ver[c] # 0 => AtLeast(data'[c], data[c])

(* Steps that are not the taking of an answer to a read, nor a crash, only *)
(* add to the memory.                                                      *)
LEMMA MemoryGrows ==
    ASSUME StorageTypeOK, data' = data \/ \E c \in Users, x \in Changes : Happens(c, x)
    PROVE  NothingForgotten
  <1>1. data \in [Users -> Data] /\ Writers \subseteq Users
    BY Types, OtherBlob
  <1>2. CASE data' = data
    BY <1>1, <1>2, AtLeastSame DEF NothingForgotten
  <1>3. ASSUME NEW c \in Users, NEW x \in Changes, Happens(c, x)
        PROVE  NothingForgotten
    <2>1. /\ \A d \in Users : d # c => data'[d] = data[d]
          /\ AtLeast(data'[c], data[c])
      BY <1>1, <1>3, HappensType
    <2>2. \A d \in Users : AtLeast(data[d], data[d])
      BY <1>1, AtLeastSame
    <2> QED BY <1>1, <2>1, <2>2 DEF NothingForgotten
  <1> QED BY <1>2, <1>3

(* The structures for writing, after a step that puts no failure there.    *)
LEMMA NoFailure ==
    ASSUME slot \in [Servers -> [Kinds -> Slots]],
           \A s \in Servers : slot[s]["update"].state # "failed",
           NEW s \in Servers, NEW o \in Kinds, NEW r,
           slot' = [slot EXCEPT ![s][o] = r],
           o = "update" => r.state # "failed"
    PROVE  \A t \in Servers : slot'[t]["update"].state # "failed"
  <1>1. \A t \in Servers : slot'[t]["update"] = IF t = s /\ o = "update" THEN r
                                                ELSE slot[t]["update"]
    BY DEF Kinds
  <1> QED BY <1>1

(* Users on their way: a writer reads first of all.                        *)
LEMMA CalmUserStep ==
    ASSUME StorageInv, CalmWriters, NEW c \in Users, UserStep(c), calm'
    PROVE  CalmWriters' /\ NothingForgotten
  <1>0. /\ StorageTypeOK /\ Home \in [Users -> Servers] /\ ver \in [Users -> Nat]
        /\ slot \in [Servers -> [Kinds -> Slots]]
        /\ step \in [Users -> ClanSteps \cup KeeperSteps]
        /\ data \in [Users -> Data]
        /\ Writers \subseteq Users /\ Home[c] \in Servers
    BY Types, OtherBlob DEF StorageInv
  <1>1. calm
    BY DEF UserStep, CreateAsk, CreateAnswer, ReadAsk, ReadAnswer, AfterRead, UpdateAsk,
       ClanUpdated, ClanUpdateFailed, KeeperUpdated
  <1>2. /\ \A d \in Writers : step[d] \in {"read", "reading"} => ver[d] = 0
        /\ \A s \in Servers : slot[s]["update"].state # "failed"
    BY <1>1 DEF CalmWriters
  <1>3. ASSUME NEW o \in Kinds, NEW st, Ask(c, o, st)
        PROVE  \A s \in Servers : slot'[s]["update"].state # "failed"
    <2>1. slot' = [slot EXCEPT ![Home[c]][o] = Request(c, ver[c])]
      BY <1>3 DEF Ask
    <2>2. Request(c, ver[c]).state = "asked"
      <3>1. ver[c] \in Nat
        BY <1>0
      <3> QED BY <3>1, RequestType
    <2> QED BY <1>0, <1>2, <2>1, <2>2, NoFailure
  <1>4. ASSUME NEW o \in Kinds, NEW st, NEW states, Answered(c, o, st, states)
        PROVE  \A s \in Servers : slot'[s]["update"].state # "failed"
    <2>1. slot' = [slot EXCEPT ![Home[c]][o] = Empty]
      BY <1>4 DEF Answered
    <2> QED BY <1>0, <1>2, <2>1, EmptyType, NoFailure
  <1>5. \A s \in Servers : slot'[s]["update"].state # "failed"
    <2>1. CASE AfterRead(c)
      BY <1>2, <2>1 DEF AfterRead
    <2>2. CASE CreateAsk(c) \/ ReadAsk(c) \/ UpdateAsk(c)
      BY <1>3, <2>2 DEF CreateAsk, ReadAsk, UpdateAsk, Kinds
    <2>3. CASE \/ CreateAnswer(c) \/ ReadAnswer(c)
               \/ ClanUpdated(c) \/ ClanUpdateFailed(c) \/ KeeperUpdated(c)
      BY <1>4, <2>3 DEF CreateAnswer, ReadAnswer, ClanUpdated, ClanUpdateFailed,
         KeeperUpdated, Kinds
    <2> QED BY <2>1, <2>2, <2>3 DEF UserStep
  <1>6. ASSUME NEW d \in Writers, step'[d] \in {"read", "reading"}
        PROVE  ver'[d] = 0
    <2>0. d \in Users /\ d \in Clans /\ d \notin Keepers
      BY OtherBlob
    <2>1. CASE d = c
      <3>1. ~CreateAsk(c) /\ ~CreateAnswer(c) /\ ~KeeperUpdated(c)
        <4>1. step[c] # "creating"
          BY <2>0, <2>1, UserKind DEF ClanSteps
        <4> QED BY <2>0, <2>1, <4>1 DEF CreateAsk, CreateAnswer, KeeperUpdated, Answered
      <3>2. ~ClanUpdateFailed(c)
        BY <1>0, <1>2 DEF ClanUpdateFailed, Answered
      <3>3. ~ReadAnswer(c) /\ ~ClanUpdated(c)
        BY <1>0, <1>6, <2>0, <2>1 DEF ReadAnswer, ClanUpdated
      <3>4. CASE ReadAsk(c)
        BY <1>2, <2>1, <3>4 DEF ReadAsk
      <3>5. ~AfterRead(c) /\ ~UpdateAsk(c)
        BY <1>0, <1>6, <2>0, <2>1 DEF AfterRead, UpdateAsk, Ask
      <3> QED BY <3>1, <3>2, <3>3, <3>4, <3>5 DEF UserStep
    <2>2. CASE d # c
      <3>1. step'[d] = step[d] /\ ver'[d] = ver[d]
        BY <1>0, <2>0, <2>2 DEF UserStep, CreateAsk, CreateAnswer, ReadAsk, ReadAnswer,
           AfterRead, UpdateAsk, ClanUpdated, ClanUpdateFailed, KeeperUpdated, Ask
      <3> QED BY <1>2, <1>6, <3>1
    <2> QED BY <2>1, <2>2
  <1>7. NothingForgotten
    <2>1. CASE ReadAnswer(c)
      <3>1. step[c] = "reading"
        BY <2>1 DEF ReadAnswer, Answered
      <3>2. \A d \in Users : d # c => data'[d] = data[d]
        BY <1>0, <2>1 DEF ReadAnswer
      <3>3. \A d \in Users : AtLeast(data[d], data[d])
        BY <1>0, AtLeastSame
      <3> QED BY <1>0, <1>2, <3>1, <3>2, <3>3 DEF NothingForgotten
    <2>2. CASE ~ReadAnswer(c)
      <3>1. data' = data
        BY <2>2 DEF UserStep, CreateAsk, CreateAnswer, ReadAsk,
           AfterRead, UpdateAsk, ClanUpdated, ClanUpdateFailed, KeeperUpdated
      <3> QED BY <1>0, <3>1, MemoryGrows
    <2> QED BY <2>1, <2>2
  <1> QED BY <1>5, <1>6, <1>7 DEF CalmWriters

(* A write that is refused or fails ends the calm.                         *)
LEMMA CalmDbStep ==
    ASSUME StorageInv, CalmWriters, NEW s \in Servers, DbStep(s), calm'
    PROVE  CalmWriters' /\ NothingForgotten
  <1>0. StorageTypeOK /\ slot \in [Servers -> [Kinds -> Slots]]
    BY Types DEF StorageInv
  <1>1. calm /\ step' = step /\ ver' = ver /\ data' = data
    BY <1>0 DEF DbStep, DbCreate, DbUpdate, DbRead, Reply, memory, StorageTypeOK
  <1>2. \A t \in Servers : slot[t]["update"].state # "failed"
    BY <1>1 DEF CalmWriters
  <1>3. ASSUME NEW o \in Kinds, slot[s][o].state = "asked", NEW st \in {"done", "failed"},
               SetSlot(s, o, st), o = "update" => st = "done"
        PROVE  \A t \in Servers : slot'[t]["update"].state # "failed"
    <2>1. PICK r \in Slots : slot' = [slot EXCEPT ![s][o] = r] /\ r.state = st
      BY <1>0, <1>3, SetSlotAt, SMTT(30)
    <2> QED BY <1>0, <1>2, <1>3, <2>1, NoFailure
  <1>4. \A t \in Servers : slot'[t]["update"].state # "failed"
    <2>1. CASE DbCreate(s)
      <3>1. slot[s]["create"].state = "asked" /\ "create" \in Kinds
        BY <2>1 DEF DbCreate, Kinds
      <3>2. SetSlot(s, "create", "done") \/ SetSlot(s, "create", "failed")
        BY <2>1 DEF DbCreate, Reply
      <3> QED BY <1>3, <3>1, <3>2
    <2>2. CASE DbUpdate(s)
      <3>1. slot[s]["update"].state = "asked" /\ "update" \in Kinds
        BY <2>2 DEF DbUpdate, Kinds
      <3>2. SetSlot(s, "update", "done")
        BY <2>2 DEF DbUpdate, Reply
      <3> QED BY <1>3, <3>1, <3>2
    <2>3. CASE DbRead(s)
      <3>1. PICK r : slot' = [slot EXCEPT ![s]["read"] = r]
        BY <2>3 DEF DbRead, SetSlot
      <3>2. "read" \in Kinds
        BY DEF Kinds
      <3> QED BY <1>0, <1>2, <3>1, <3>2, NoFailure
    <2> QED BY <2>1, <2>2, <2>3 DEF DbStep
  <1>5. NothingForgotten
    BY <1>0, <1>1, MemoryGrows
  <1> QED BY <1>1, <1>4, <1>5 DEF CalmWriters

(* Whatever happens around the storage.                                    *)
LEMMA CalmWorld ==
    ASSUME StorageInv, CalmWriters, World, calm'
    PROVE  CalmWriters' /\ NothingForgotten
  <1>0. StorageTypeOK /\ step \in [Users -> ClanSteps \cup KeeperSteps]
        /\ Clans \subseteq Users
    BY Types, OtherBlob DEF StorageInv
  <1>1. ~\E s \in Servers : Crash(s)
    BY DEF Crash
  <1>2. calm /\ slot' = slot /\ ver' = ver
    BY <1>1 DEF World, Raid, Change, Deliver, SaveDue, Start, memory
  <1>3. \A d \in Writers : step'[d] \in {"read", "reading"} => step[d] \in {"read", "reading"}
    <2>1. CASE step' = step
      BY <2>1
    <2>2. ASSUME NEW c \in Users, SaveDue(c)
          PROVE  \A d \in Writers : step'[d] = step[d]
      BY <1>0, <2>2, OtherBlob DEF SaveDue
    <2> QED BY <1>1, <2>1, <2>2 DEF World, Raid, Change, Deliver, Start, memory
  <1>4. data' = data \/ \E c \in Users, x \in Changes : Happens(c, x)
    BY <1>0, <1>1 DEF World, Raid, Change, Deliver, SaveDue, Start, memory
  <1>5. NothingForgotten
    BY <1>0, <1>4, MemoryGrows
  <1> QED BY <1>2, <1>3, <1>5 DEF CalmWriters

LEMMA CalmInit ==
    ASSUME StorageInit
    PROVE  CalmWriters
  <1>1. \A c \in Writers : ver[c] = 0
    BY OtherBlob DEF StorageInit
  <1>2. \A s \in Servers : slot[s]["update"] = Empty
    BY DEF StorageInit, Kinds
  <1> QED BY <1>1, <1>2, EmptyType DEF CalmWriters

LEMMA CalmNext ==
    ASSUME StorageInv, CalmWriters, [StorageNext]_storageVars
    PROVE  CalmWriters' /\ (calm' => NothingForgotten)
  <1>0. StorageTypeOK
    BY DEF StorageInv
  <1>1. CASE UNCHANGED storageVars
    <2>1. NothingForgotten
      BY <1>0, <1>1, MemoryGrows DEF storageVars
    <2> QED BY <1>1, <2>1 DEF storageVars, CalmWriters
  <1>2. CASE ~calm'
    BY <1>2 DEF CalmWriters
  <1>3. CASE StorageNext /\ calm'
    BY <1>3, CalmUserStep, CalmDbStep, CalmWorld DEF StorageNext
  <1> QED BY <1>1, <1>2, <1>3

(* tick_clan of area 3 loses no change it has made to the table it read,   *)
(* as long as no statement fails or is refused and no server stops.        *)
THEOREM WriterNeverForgets == StorageSpec => WriterKeeps
  <1>1. StorageInit => CalmWriters
    BY CalmInit
  <1>2. StorageInv /\ CalmWriters /\ [StorageNext]_storageVars => CalmWriters'
    BY CalmNext
  <1>3. StorageInv /\ CalmWriters /\ [StorageNext]_storageVars =>
           [calm' => \A c \in Writers :
               ver[c] # 0 => AtLeast(data'[c], data[c])]_storageVars
    BY CalmNext DEF NothingForgotten
  <1> QED BY <1>1, <1>2, <1>3, Invariant, PTL DEF StorageSpec, WriterKeeps

-----------------------------------------------------------------------------
(* Keepers in calm times.                                                  *)

(* Nobody else keeps this blob.                                            *)
OwnBlobs == \A j, k \in Keepers : Blob[j] = Blob[k] => j = k

(* What keeper k knows of the version in the table: nothing at first, then *)
(* all; a write under way may have raised it already.                      *)
VersionKnown(k) ==
    LET t == table[Blob[k]].ver
        r(o) == slot[Home[k]][o]
    IN
    /\ step[k] \in {"create", "creating", "read", "reading"} => ver[k] = 0
    /\ step[k] \in {"read", "reading"} => t # 0
    /\ step[k] \in {"idle", "save"} => ver[k] = t
    /\ step[k] = "creating" /\ r("create").state # "asked" => t # 0
    /\ step[k] = "reading" /\ r("read").state # "asked" =>
          r("read").state = "done" /\ r("read").new /\ r("read").ver = t
    /\ step[k] = "updating" =>
          t = IF r("update").state = "asked" THEN ver[k] ELSE ver[k] + 1

CalmKeepers == calm => \A k \in Keepers : VersionKnown(k)

(* Nothing of that changes.                                                *)
LEMMA VersionStays ==
    ASSUME NEW k \in Keepers, VersionKnown(k),
           step'[k] = step[k], ver'[k] = ver[k],
           table'[Blob[k]].ver = table[Blob[k]].ver,
           \A o \in Kinds : step[k] = Waiting[o] =>
              slot'[Home[k]][o] = slot[Home[k]][o]
    PROVE  VersionKnown(k)'
  <1>1. /\ step[k] = "creating" => slot'[Home[k]]["create"] = slot[Home[k]]["create"]
        /\ step[k] = "reading" => slot'[Home[k]]["read"] = slot[Home[k]]["read"]
        /\ step[k] = "updating" => slot'[Home[k]]["update"] = slot[Home[k]]["update"]
    BY WaitingSteps DEF Kinds
  <1> QED BY <1>1 DEF VersionKnown

(* The structure a keeper waits for is its own.                            *)
LEMMA OwnSlot ==
    ASSUME StorageInv, NEW k \in Keepers, NEW o \in Kinds, step[k] = Waiting[o]
    PROVE  slot[Home[k]][o].state # "empty" /\ slot[Home[k]][o].user = k
  <1>1. k \in Users /\ Home[k] \in Servers
    BY OtherBlob, Types DEF StorageInv
  <1> QED BY <1>1 DEF StorageInv, SlotsAgree

(* A structure of somebody else changes.                                   *)
LEMMA OtherSlot ==
    ASSUME StorageInv, NEW k \in Keepers, NEW s \in Servers, NEW o \in Kinds, NEW r,
           slot' = [slot EXCEPT ![s][o] = r],
           slot[s][o].state = "empty" \/ slot[s][o].user # k
    PROVE  \A p \in Kinds : step[k] = Waiting[p] =>
              slot'[Home[k]][p] = slot[Home[k]][p]
  <1> SUFFICES ASSUME NEW p \in Kinds, step[k] = Waiting[p]
               PROVE  slot'[Home[k]][p] = slot[Home[k]][p]
    OBVIOUS
  <1>1. slot[Home[k]][p].state # "empty" /\ slot[Home[k]][p].user = k
    BY OwnSlot
  <1>2. s # Home[k] \/ o # p
    BY <1>1
  <1>3. slot \in [Servers -> [Kinds -> Slots]] /\ Home[k] \in Servers
    BY Types, OtherBlob DEF StorageInv
  <1> QED BY <1>2, <1>3

(* The steps of another user.                                              *)
LEMMA OthersUserStep ==
    ASSUME StorageInv, NEW k \in Keepers, VersionKnown(k),
           NEW c \in Users, c # k, UserStep(c)
    PROVE  VersionKnown(k)'
  <1>0. /\ StorageTypeOK /\ Home[c] \in Servers /\ k \in Users
        /\ ver \in [Users -> Nat] /\ step \in [Users -> ClanSteps \cup KeeperSteps]
        /\ slot \in [Servers -> [Kinds -> Slots]]
    BY Types, OtherBlob DEF StorageInv
  <1>1. table' = table /\ ver'[k] = ver[k] /\ step'[k] = step[k]
    BY <1>0 DEF UserStep, CreateAsk, CreateAnswer, ReadAsk, ReadAnswer, AfterRead, UpdateAsk,
       ClanUpdated, ClanUpdateFailed, KeeperUpdated, Ask
  <1>2. ASSUME NEW o \in Kinds, NEW st, Ask(c, o, st)
        PROVE  VersionKnown(k)'
    <2>1. slot' = [slot EXCEPT ![Home[c]][o] = Request(c, ver[c])]
          /\ slot[Home[c]][o].state = "empty"
      BY <1>2 DEF Ask
    <2> QED BY <1>0, <1>1, <2>1, OtherSlot, VersionStays
  <1>3. ASSUME NEW o \in Kinds, NEW states, Answered(c, o, Waiting[o], states)
        PROVE  VersionKnown(k)'
    <2>1. slot' = [slot EXCEPT ![Home[c]][o] = Empty] /\ step[c] = Waiting[o]
      BY <1>3 DEF Answered
    <2>2. slot[Home[c]][o].user = c
      BY <1>0, <2>1 DEF StorageInv, SlotsAgree
    <2> QED BY <1>0, <1>1, <2>1, <2>2, OtherSlot, VersionStays
  <1>4. CASE AfterRead(c)
    BY <1>1, <1>4, VersionStays DEF AfterRead
  <1>5. CASE CreateAsk(c) \/ ReadAsk(c) \/ UpdateAsk(c)
    BY <1>2, <1>5 DEF CreateAsk, ReadAsk, UpdateAsk, Kinds
  <1>6. CASE \/ CreateAnswer(c) \/ ReadAnswer(c)
             \/ ClanUpdated(c) \/ ClanUpdateFailed(c) \/ KeeperUpdated(c)
    BY <1>3, <1>6, WaitingSteps DEF CreateAnswer, ReadAnswer, ClanUpdated, ClanUpdateFailed,
       KeeperUpdated, Kinds
  <1> QED BY <1>4, <1>5, <1>6 DEF UserStep

(* A keeper asks: the request carries its version.                         *)
LEMMA OwnAsk ==
    ASSUME StorageInv, calm, NEW k \in Keepers, VersionKnown(k),
           CreateAsk(k) \/ ReadAsk(k) \/ UpdateAsk(k)
    PROVE  VersionKnown(k)'
  <1>0. /\ k \in Users /\ k \notin Clans /\ Home[k] \in Servers /\ ver[k] \in Nat
        /\ step \in [Users -> ClanSteps \cup KeeperSteps]
        /\ slot \in [Servers -> [Kinds -> Slots]]
    BY Types, OtherBlob DEF StorageInv
  <1>1. ASSUME NEW o \in Kinds, Ask(k, o, Waiting[o])
        PROVE  step'[k] = Waiting[o] /\ slot'[Home[k]][o].state = "asked"
    <2>1. slot' = [slot EXCEPT ![Home[k]][o] = Request(k, ver[k])]
          /\ step' = [step EXCEPT ![k] = Waiting[o]]
      BY <1>1 DEF Ask
    <2>2. slot'[Home[k]][o] = Request(k, ver[k])
      BY <1>0, <2>1
    <2> QED BY <1>0, <2>1, <2>2, RequestType
  <1>2. CASE CreateAsk(k)
    <2>1. step'[k] = "creating" /\ slot'[Home[k]]["create"].state = "asked"
      BY <1>1, <1>2, WaitingSteps DEF CreateAsk, Kinds
    <2>2. ver'[k] = 0
      BY <1>2 DEF CreateAsk, VersionKnown
    <2> QED BY <2>1, <2>2 DEF VersionKnown
  <1>3. CASE ReadAsk(k)
    <2>1. step'[k] = "reading" /\ slot'[Home[k]]["read"].state = "asked"
      BY <1>1, <1>3, WaitingSteps DEF ReadAsk, Kinds
    <2>2. ver'[k] = 0 /\ table'[Blob[k]].ver # 0
      BY <1>3 DEF ReadAsk, VersionKnown
    <2> QED BY <2>1, <2>2 DEF VersionKnown
  <1>4. CASE UpdateAsk(k)
    <2>1. step'[k] = "updating" /\ slot'[Home[k]]["update"].state = "asked"
      BY <1>1, <1>4, WaitingSteps DEF UpdateAsk, Kinds
    <2>2. ver'[k] = table'[Blob[k]].ver
      BY <1>0, <1>4 DEF UpdateAsk, VersionKnown
    <2> QED BY <2>1, <2>2 DEF VersionKnown
  <1> QED BY <1>2, <1>3, <1>4

(* A keeper takes an answer: then it knows the version.                    *)
LEMMA OwnAnswer ==
    ASSUME StorageInv, NEW k \in Keepers, VersionKnown(k),
           CreateAnswer(k) \/ ReadAnswer(k) \/ KeeperUpdated(k)
    PROVE  VersionKnown(k)'
  <1>0. /\ k \in Users /\ k \notin Clans /\ Home[k] \in Servers /\ ver \in [Users -> Nat]
        /\ step \in [Users -> ClanSteps \cup KeeperSteps]
    BY Types, OtherBlob DEF StorageInv
  <1>1. CASE CreateAnswer(k)
    <2>1. step'[k] = "read" /\ ver'[k] = 0 /\ table'[Blob[k]].ver # 0
      BY <1>0, <1>1 DEF CreateAnswer, Answered, VersionKnown
    <2> QED BY <2>1 DEF VersionKnown
  <1>2. CASE ReadAnswer(k)
    <2>1. step'[k] = "idle" /\ ver'[k] = table'[Blob[k]].ver
      BY <1>0, <1>2 DEF ReadAnswer, Answered, VersionKnown
    <2> QED BY <2>1 DEF VersionKnown
  <1>3. CASE KeeperUpdated(k)
    <2>1. step'[k] = "idle" /\ ver'[k] = table'[Blob[k]].ver
      BY <1>0, <1>3 DEF KeeperUpdated, Answered, VersionKnown
    <2> QED BY <2>1 DEF VersionKnown
  <1> QED BY <1>1, <1>2, <1>3

(* The database thread.                                                    *)
LEMMA KeeperDbStep ==
    ASSUME OwnBlobs, StorageInv, NEW k \in Keepers, VersionKnown(k),
           NEW s \in Servers, DbStep(s), calm'
    PROVE  VersionKnown(k)'
  <1>0. /\ StorageTypeOK /\ k \in Users /\ Home[k] \in Servers /\ ver[k] \in Nat
        /\ slot \in [Servers -> [Kinds -> Slots]]
        /\ table \in [Blobs -> [ver : Nat, data : Data]]
        /\ Blob \in [Users -> Blobs]
        /\ {"create", "update", "read"} \subseteq Kinds
    BY Types, OtherBlob DEF StorageInv, Kinds
  <1>1. step' = step /\ ver' = ver
    BY DEF DbStep, DbCreate, DbUpdate, DbRead, memory
  <1>2. ASSUME NEW o \in Kinds, slot[s][o].state = "asked",
               NEW st \in {"done", "failed"}, SetSlot(s, o, st)
        PROVE  /\ slot[s][o].user \in Users
               /\ \E r : slot' = [slot EXCEPT ![s][o] = r] /\ r.state = st
    <2>1. PICK r \in Slots : slot' = [slot EXCEPT ![s][o] = r] /\ r.state = st
      BY <1>0, <1>2, SetSlotAt, SMTT(30)
    <2>2. slot[s][o].user \in Users
      BY <1>0, <1>2, SlotUser
    <2> QED BY <2>1, <2>2
  <1>3. \A c \in Users : c # k => Blob[c] # Blob[k]
    BY OtherBlob DEF OwnBlobs
  <1>4. CASE DbCreate(s)
    <2> DEFINE q == slot[s]["create"]
    <2>1. q.state = "asked" /\ q.user \in Users
      BY <1>0, <1>4, Asked DEF DbCreate
    <2>2. PICK r : slot' = [slot EXCEPT ![s]["create"] = r]
      BY <1>4 DEF DbCreate, Reply, SetSlot
    <2>3. \/ \E d : table' = [table EXCEPT ![Blob[q.user]] = [ver |-> 1, data |-> d]]
          \/ table' = table /\ table[Blob[q.user]].ver # 0
      BY <1>4 DEF DbCreate
    <2>4. CASE q.user # k
      <3>1. table'[Blob[k]] = table[Blob[k]]
        BY <1>0, <1>3, <2>1, <2>3, <2>4
      <3> QED BY <1>0, <1>1, <2>2, <2>4, <3>1, OtherSlot, VersionStays
    <2>5. CASE q.user = k
      <3>1. step[k] = "creating" /\ s = Home[k]
        BY <1>0, <2>1, <2>5, WaitingSteps DEF StorageInv, SlotsAgree
      <3>2. table'[Blob[k]].ver # 0
        BY <1>0, <2>3, <2>5
      <3> QED BY <1>1, <3>1, <3>2 DEF VersionKnown
    <2> QED BY <2>4, <2>5
  <1>5. CASE DbUpdate(s)
    <2> DEFINE q == slot[s]["update"]
    <2>1. q.state = "asked" /\ q.user \in Users /\ q.ver = ver[q.user] /\ q.ver \in Nat
      BY <1>0, <1>5, Asked DEF DbUpdate
    <2>2. /\ SetSlot(s, "update", "done")
          /\ \E d : table' = [table EXCEPT ![Blob[q.user]] = [ver |-> q.ver + 1, data |-> d]]
      BY <1>5 DEF DbUpdate, Reply
    <2>3. PICK r : slot' = [slot EXCEPT ![s]["update"] = r] /\ r.state = "done"
      BY <1>0, <1>2, <2>1, <2>2
    <2>4. CASE q.user # k
      <3>1. table'[Blob[k]] = table[Blob[k]]
        BY <1>0, <1>3, <2>1, <2>2, <2>4
      <3> QED BY <1>0, <1>1, <2>3, <2>4, <3>1, OtherSlot, VersionStays
    <2>5. CASE q.user = k
      <3>1. step[k] = "updating" /\ s = Home[k]
        BY <1>0, <2>1, <2>5, WaitingSteps DEF StorageInv, SlotsAgree
      <3>2. table'[Blob[k]].ver = ver[k] + 1
        BY <1>0, <2>1, <2>2, <2>5
      <3>3. slot'[Home[k]]["update"].state = "done"
        BY <1>0, <2>3, <3>1
      <3> QED BY <1>1, <3>1, <3>2, <3>3 DEF VersionKnown
    <2> QED BY <2>4, <2>5
  <1>6. CASE DbRead(s)
    <2> DEFINE q == slot[s]["read"]
               t == table[Blob[q.user]]
               r == IF t.ver = q.ver THEN [q EXCEPT !.state = "done"]
                    ELSE [q EXCEPT !.state = "done", !.ver = t.ver,
                                   !.found = t.data, !.new = TRUE]
    <2>1. /\ q.state = "asked" /\ q.user \in Users /\ q.ver = ver[q.user] /\ q \in Slots
          /\ table' = table
      BY <1>0, <1>6, Asked DEF DbRead
    <2>2. slot' = [slot EXCEPT ![s]["read"] = r]
      BY <1>6 DEF DbRead
    <2>3. CASE q.user # k
      <3> HIDE DEF r
      <3> QED BY <1>0, <1>1, <2>1, <2>2, <2>3, OtherSlot, VersionStays
    <2>4. CASE q.user = k
      <3>1. step[k] = "reading" /\ s = Home[k]
        BY <1>0, <2>1, <2>4, WaitingSteps DEF StorageInv, SlotsAgree
      <3>2. ver[k] = 0 /\ t.ver # 0
        BY <2>4, <3>1 DEF VersionKnown
      <3>3. r.state = "done" /\ r.new /\ r.ver = t.ver
        BY <2>1, <2>4, <3>2 DEF Slots
      <3>4. slot'[Home[k]]["read"] = r
        BY <1>0, <2>2, <3>1
      <3> HIDE DEF r
      <3> QED BY <1>1, <2>1, <2>4, <3>1, <3>2, <3>3, <3>4 DEF VersionKnown
    <2> QED BY <2>3, <2>4
  <1> QED BY <1>4, <1>5, <1>6 DEF DbStep

LEMMA KeeperNext ==
    ASSUME OwnBlobs, StorageInv, CalmKeepers, [StorageNext]_storageVars
    PROVE  CalmKeepers'
  <1> SUFFICES ASSUME calm', NEW k \in Keepers
               PROVE  VersionKnown(k)'
    BY DEF CalmKeepers
  <1>0. StorageTypeOK /\ k \in Users /\ k \notin Clans
        /\ step \in [Users -> ClanSteps \cup KeeperSteps]
    BY Types, OtherBlob DEF StorageInv
  <1>1. calm
    <2>1. CASE UNCHANGED storageVars
      BY <2>1 DEF storageVars
    <2>2. CASE \E c \in Users : UserStep(c)
      BY <2>2 DEF UserStep, CreateAsk, CreateAnswer, ReadAsk, ReadAnswer, AfterRead,
         UpdateAsk, ClanUpdated, ClanUpdateFailed, KeeperUpdated
    <2>3. CASE \E s \in Servers : DbStep(s)
      BY <1>0, <2>3 DEF DbStep, DbCreate, DbUpdate, DbRead, Reply, StorageTypeOK
    <2>4. CASE World
      BY <2>4 DEF World, Raid, Change, Deliver, SaveDue, Crash, Start
    <2> QED BY <2>1, <2>2, <2>3, <2>4 DEF StorageNext
  <1>2. VersionKnown(k)
    BY <1>1 DEF CalmKeepers
  <1>3. CASE UNCHANGED storageVars
    BY <1>2, <1>3, VersionStays DEF storageVars
  <1>4. ASSUME NEW c \in Users, UserStep(c)
        PROVE  VersionKnown(k)'
    <2>1. CASE c # k
      BY <1>2, <1>4, <2>1, OthersUserStep
    <2>2. CASE c = k
      <3>1. ~AfterRead(k) /\ ~ClanUpdated(k) /\ ~ClanUpdateFailed(k)
        BY <1>0, UserKind DEF AfterRead, ClanUpdated, ClanUpdateFailed, KeeperSteps
      <3> QED BY <1>1, <1>2, <1>4, <2>2, <3>1, OwnAsk, OwnAnswer DEF UserStep
    <2> QED BY <2>1, <2>2
  <1>5. ASSUME NEW s \in Servers, DbStep(s)
        PROVE  VersionKnown(k)'
    BY <1>2, <1>5, KeeperDbStep
  <1>6. CASE World
    <2>1. ~\E s \in Servers : Crash(s)
      BY DEF Crash
    <2>2. table' = table /\ slot' = slot /\ ver' = ver
      BY <1>6, <2>1 DEF World, Raid, Change, Deliver, SaveDue, Start, memory
    <2>3. CASE SaveDue(k)
      <3>1. step[k] = "idle" /\ step'[k] = "save"
        BY <1>0, <2>3 DEF SaveDue
      <3> QED BY <1>2, <2>2, <3>1 DEF VersionKnown
    <2>4. CASE ~SaveDue(k)
      <3>1. step'[k] = step[k]
        BY <1>0, <1>6, <2>1, <2>4 DEF World, Raid, Change, Deliver, SaveDue, Start, memory
      <3> QED BY <1>2, <2>2, <3>1, VersionStays
    <2> QED BY <2>3, <2>4
  <1> QED BY <1>3, <1>4, <1>5, <1>6 DEF StorageNext

LEMMA KeeperStart ==
    ASSUME StorageInit
    PROVE  CalmKeepers
  <1>1. \A k \in Keepers : k \in Users /\ k \notin Clans
    BY OtherBlob
  <1>2. \A k \in Keepers : step[k] = "create" /\ ver[k] = 0
    BY <1>1 DEF StorageInit, FirstStep
  <1> QED BY <1>2 DEF CalmKeepers, VersionKnown

(* A keeper that shares its blob with nobody and has read it knows the     *)
(* version in the table, so that its next write will fit, as long as no    *)
(* statement fails and no server stops (the state machine of storage_state *)
(* in arena.c and military.c, which counts its version up blindly).        *)
THEOREM KeeperKnows ==
    ASSUME OwnBlobs
    PROVE  StorageSpec => []KeeperInStep
  <1>1. StorageInit => CalmKeepers
    BY KeeperStart
  <1>2. StorageInv /\ CalmKeepers /\ [StorageNext]_storageVars => CalmKeepers'
    BY KeeperNext
  <1>3. CalmKeepers => KeeperInStep
    BY DEF CalmKeepers, KeeperInStep, VersionKnown
  <1> QED BY <1>1, <1>2, <1>3, Invariant, PTL DEF StorageSpec

-----------------------------------------------------------------------------
(* With one server of area 3.                                              *)

OneWriter == \A c, d \in Writers : c = d

(* x has not happened yet, or is on its way by chat to where it counts.    *)
Pending(x) == x \in unsent \/ \E w \in Writers : x \in news[w]

(* Until then it counts nowhere, from then on at most once: in memory, in  *)
(* the table, in the answers to reads.                                     *)
Limit(x) == IF Pending(x) THEN 0 ELSE 1

OnceInv ==
    /\ \A c \in Clans : news[c] \cap unsent = {}
    /\ \A x \in Changes :
       /\ \A c \in Clans : data[c][x] <= Limit(x) /\ table[Blob[c]].data[x] <= Limit(x)
       /\ \A s \in Servers : slot[s]["read"].new /\ slot[s]["read"].user \in Clans =>
             slot[s]["read"].found[x] <= Limit(x)

(* Counts are numbers.                                                     *)
LEMMA Counts ==
    ASSUME NEW tab \in [Blobs -> [ver : Nat, data : Data]], NEW dat \in [Users -> Data],
           NEW struct \in [Servers -> [Kinds -> Slots]], NEW x \in Changes
    PROVE  /\ \A c \in Users : dat[c][x] \in Nat /\ tab[Blob[c]].data[x] \in Nat
           /\ \A s \in Servers, o \in Kinds : struct[s][o].found[x] \in Nat
  <1>1. \A d \in Data : d[x] \in Nat
    BY DEF Data
  <1>2. \A c \in Users : dat[c] \in Data /\ tab[Blob[c]].data \in Data
    BY UsersAssumption
  <1>3. \A s \in Servers, o \in Kinds : struct[s][o].found \in Data
    <2>1. \A r \in Slots : r.found \in Data
      BY DEF Slots
    <2> QED BY <2>1
  <1> QED BY <1>1, <1>2, <1>3

(* What was pending may stay so, and nothing becomes pending again.        *)
LEMMA LimitGrows ==
    ASSUME NEW x \in Changes, unsent' \subseteq unsent,
           \A w \in Writers : x \in news'[w] => x \in news[w] \/ x \in unsent
    PROVE  Limit(x) <= Limit(x)' /\ Limit(x) \in Nat /\ Limit(x)' \in Nat
  BY DEF Limit, Pending

(* Steps that copy counts from one place to another.                       *)
LEMMA OnceCopied ==
    ASSUME StorageTypeOK, StorageTypeOK', OnceInv,
           unsent' \subseteq unsent,
           \A c \in Clans : news'[c] \cap unsent' = {},
           \A w \in Writers : news'[w] \subseteq news[w] \cup unsent,
           \A x \in Changes :
              /\ \A c \in Clans : data'[c][x] <= Limit(x) /\ table'[Blob[c]].data[x] <= Limit(x)
              /\ \A s \in Servers :
                    slot'[s]["read"].new /\ slot'[s]["read"].user \in Clans =>
                       slot'[s]["read"].found[x] <= Limit(x)
    PROVE  OnceInv'
  <1> SUFFICES ASSUME NEW x \in Changes
               PROVE  /\ \A c \in Clans : data'[c][x] <= Limit(x)'
                                          /\ table'[Blob[c]].data[x] <= Limit(x)'
                      /\ \A s \in Servers :
                            slot'[s]["read"].new /\ slot'[s]["read"].user \in Clans =>
                               slot'[s]["read"].found[x] <= Limit(x)'
    BY DEF OnceInv
  <1>1. Limit(x) <= Limit(x)' /\ Limit(x) \in Nat /\ Limit(x)' \in Nat
    BY LimitGrows
  <1>2. /\ \A c \in Users : data'[c][x] \in Nat /\ table'[Blob[c]].data[x] \in Nat
        /\ \A s \in Servers, o \in Kinds : slot'[s][o].found[x] \in Nat
    <2>1. /\ data' \in [Users -> Data] /\ slot' \in [Servers -> [Kinds -> Slots]]
          /\ table' \in [Blobs -> [ver : Nat, data : Data]]
      BY DEF StorageTypeOK
    <2> QED BY <2>1, Counts
  <1>3. Clans \subseteq Users /\ "read" \in Kinds
    BY OtherBlob DEF Kinds
  <1> QED BY <1>1, <1>2, <1>3

(* The structures, when all but the answers to reads of one server stay.   *)
LEMMA OnceFound ==
    ASSUME OnceInv, slot \in [Servers -> [Kinds -> Slots]],
           NEW s \in Servers, NEW o \in Kinds, NEW r, slot' = [slot EXCEPT ![s][o] = r],
           NEW x \in Changes,
           o = "read" /\ r.new /\ r.user \in Clans => r.found[x] <= Limit(x)
    PROVE  \A t \in Servers :
              slot'[t]["read"].new /\ slot'[t]["read"].user \in Clans =>
                 slot'[t]["read"].found[x] <= Limit(x)
  <1>1. \A t \in Servers : slot'[t]["read"] = IF t = s /\ o = "read" THEN r
                                              ELSE slot[t]["read"]
    BY DEF Kinds
  <1> QED BY <1>1 DEF OnceInv

(* A user asks or takes an answer: a reading gets what the table had.      *)
LEMMA OnceUserStep ==
    ASSUME StorageInv, StorageInv', OnceInv, NEW c \in Users, UserStep(c)
    PROVE  OnceInv'
  <1>0. /\ StorageTypeOK /\ StorageTypeOK' /\ Home[c] \in Servers /\ ver[c] \in Nat
        /\ slot \in [Servers -> [Kinds -> Slots]] /\ data \in [Users -> Data]
        /\ Clans \subseteq Users /\ Writers \subseteq Clans
        /\ "read" \in Kinds
    BY Types, OtherBlob DEF StorageInv, Kinds
  <1>1. table' = table /\ unsent' = unsent /\ news' = news
    BY DEF UserStep, CreateAsk, CreateAnswer, ReadAsk, ReadAnswer, AfterRead, UpdateAsk,
       ClanUpdated, ClanUpdateFailed, KeeperUpdated
  <1>2. ASSUME NEW x \in Changes
        PROVE  \A t \in Servers :
                  slot'[t]["read"].new /\ slot'[t]["read"].user \in Clans =>
                     slot'[t]["read"].found[x] <= Limit(x)
    <2>1. ASSUME NEW o \in Kinds, NEW st, Ask(c, o, st)
          PROVE  \E r : slot' = [slot EXCEPT ![Home[c]][o] = r] /\ r.new = FALSE
      <3>1. slot' = [slot EXCEPT ![Home[c]][o] = Request(c, ver[c])]
        BY <2>1 DEF Ask
      <3> QED BY <1>0, <3>1, RequestType
    <2>2. ASSUME NEW o \in Kinds, NEW st, NEW states, Answered(c, o, st, states)
          PROVE  \E r : slot' = [slot EXCEPT ![Home[c]][o] = r] /\ r.new = FALSE
      BY <2>2, EmptyType DEF Answered
    <2>3. CASE slot' = slot
      BY <2>3 DEF OnceInv
    <2>4. CASE \E o \in Kinds : \E r : slot' = [slot EXCEPT ![Home[c]][o] = r] /\ r.new = FALSE
      BY <1>0, <2>4, OnceFound
    <2>5. CASE AfterRead(c)
      BY <2>3, <2>5 DEF AfterRead
    <2>6. CASE CreateAsk(c) \/ ReadAsk(c) \/ UpdateAsk(c)
      <3>1. \E o \in Kinds : \E st : Ask(c, o, st)
        BY <2>6 DEF CreateAsk, ReadAsk, UpdateAsk, Kinds
      <3> QED BY <2>1, <2>4, <3>1
    <2>7. CASE \/ CreateAnswer(c) \/ ReadAnswer(c)
               \/ ClanUpdated(c) \/ ClanUpdateFailed(c) \/ KeeperUpdated(c)
      <3>1. \E o \in Kinds : \E st, states : Answered(c, o, st, states)
        BY <2>7 DEF CreateAnswer, ReadAnswer, ClanUpdated, ClanUpdateFailed,
           KeeperUpdated, Kinds
      <3> QED BY <2>2, <2>4, <3>1
    <2> QED BY <2>5, <2>6, <2>7 DEF UserStep
  <1>3. ASSUME NEW x \in Changes, NEW d \in Clans
        PROVE  data'[d][x] <= Limit(x)
    <2>1. data[d][x] <= Limit(x)
      BY DEF OnceInv
    <2>2. CASE data'[d] = data[d]
      BY <2>1, <2>2
    <2>3. CASE data'[d] # data[d]
      <3>1. ReadAnswer(c)
        BY <2>3 DEF UserStep, CreateAsk, CreateAnswer, ReadAsk,
           AfterRead, UpdateAsk, ClanUpdated, ClanUpdateFailed, KeeperUpdated
      <3>2. d = c /\ slot[Home[c]]["read"].new /\ data'[c] = slot[Home[c]]["read"].found
        BY <1>0, <2>3, <3>1 DEF ReadAnswer
      <3>3. slot[Home[c]]["read"].user = c
        BY <1>0, <3>1, WaitingSteps DEF ReadAnswer, Answered, StorageInv, SlotsAgree
      <3> QED BY <1>0, <3>2, <3>3 DEF OnceInv
    <2> QED BY <2>2, <2>3
  <1>4. \A d \in Clans : news'[d] \cap unsent' = {}
    BY <1>1 DEF OnceInv
  <1>5. \A x \in Changes, d \in Clans : table'[Blob[d]].data[x] <= Limit(x)
    BY <1>1 DEF OnceInv
  <1> QED BY <1>0, <1>1, <1>2, <1>3, <1>4, <1>5, OnceCopied

(* The database thread copies from memory to the table and back.           *)
LEMMA OnceDbStep ==
    ASSUME StorageInv, StorageInv', OnceInv, NEW s \in Servers, DbStep(s)
    PROVE  OnceInv'
  <1>0. /\ StorageTypeOK /\ StorageTypeOK'
        /\ slot \in [Servers -> [Kinds -> Slots]]
        /\ table \in [Blobs -> [ver : Nat, data : Data]]
        /\ Blob \in [Users -> Blobs]
        /\ Clans \subseteq Users /\ Writers \subseteq Clans
        /\ "read" \in Kinds /\ "update" \in Kinds /\ "create" \in Kinds
    BY Types, OtherBlob DEF StorageInv, Kinds
  <1>1. data' = data /\ unsent' = unsent /\ news' = news
    BY DEF DbStep, DbCreate, DbUpdate, DbRead, memory
  <1>2. ASSUME NEW x \in Changes
        PROVE  \A t \in Servers :
                  slot'[t]["read"].new /\ slot'[t]["read"].user \in Clans =>
                     slot'[t]["read"].found[x] <= Limit(x)
    <2>1. CASE DbCreate(s)
      <3>1. PICK r : slot' = [slot EXCEPT ![s]["create"] = r]
        BY <2>1 DEF DbCreate, Reply, SetSlot
      <3> QED BY <1>0, <3>1, OnceFound
    <2>2. CASE DbUpdate(s)
      <3>1. PICK r : slot' = [slot EXCEPT ![s]["update"] = r]
        BY <2>2 DEF DbUpdate, Reply, SetSlot
      <3> QED BY <1>0, <3>1, OnceFound
    <2>3. CASE DbRead(s)
      <3> DEFINE q == slot[s]["read"]
                 t == table[Blob[q.user]]
      <3>1. q \in Slots /\ ~q.new /\ q.user \in Users
        BY <1>0, <2>3, Asked DEF DbRead
      <3>2. PICK r : /\ slot' = [slot EXCEPT ![s]["read"] = r]
                     /\ r.new => r.user = q.user /\ r.found = t.data
        <4>1. \A st : LET r == [q EXCEPT !.state = st] IN r.new = q.new
          BY <3>1 DEF Slots
        <4>2. LET r == [q EXCEPT !.state = "done", !.ver = t.ver,
                                 !.found = t.data, !.new = TRUE]
              IN r.user = q.user /\ r.found = t.data
          BY <3>1 DEF Slots
        <4>3. CASE SetSlot(s, "read", "failed")
          <5>1. slot' = [slot EXCEPT ![s]["read"] = [q EXCEPT !.state = "failed"]]
            BY <1>0, <4>3 DEF SetSlot
          <5> QED BY <3>1, <4>1, <5>1
        <4>4. CASE slot' = [slot EXCEPT ![s]["read"] = [q EXCEPT !.state = "done"]]
          BY <3>1, <4>1, <4>4
        <4>5. CASE slot' = [slot EXCEPT ![s]["read"] =
                              [q EXCEPT !.state = "done", !.ver = t.ver,
                                        !.found = t.data, !.new = TRUE]]
          BY <4>2, <4>5
        <4> QED BY <2>3, <4>3, <4>4, <4>5 DEF DbRead
      <3>3. r.new /\ r.user \in Clans => r.found[x] <= Limit(x)
        BY <3>2 DEF OnceInv
      <3> QED BY <1>0, <3>2, <3>3, OnceFound
    <2> QED BY <2>1, <2>2, <2>3 DEF DbStep
  <1>3. ASSUME NEW d \in Clans
        PROVE  table'[Blob[d]].data = table[Blob[d]].data
               \/ \E e \in Clans : table'[Blob[d]].data = data[e]
    <2>1. CASE table' = table
      BY <2>1
    <2>2. ASSUME NEW o \in Kinds, slot[s][o].state = "asked", NEW v,
                 table' = [table EXCEPT ![Blob[slot[s][o].user]] =
                             [ver |-> v, data |-> data[slot[s][o].user]]]
          PROVE  table'[Blob[d]].data = table[Blob[d]].data
                 \/ \E e \in Clans : table'[Blob[d]].data = data[e]
      <3> DEFINE u == slot[s][o].user
      <3>1. u \in Users /\ Blob[u] \in Blobs /\ Blob[d] \in Blobs
        BY <1>0, <2>2, SlotUser
      <3>2. CASE u \in Clans
        <4>1. table'[Blob[d]].data = data[u]
          BY <1>0, <2>2, <3>1, <3>2, OtherBlob
        <4> QED BY <3>2, <4>1
      <3>3. CASE u \in Keepers
        <4>1. table'[Blob[d]] = table[Blob[d]]
          BY <1>0, <2>2, <3>1, <3>3, OtherBlob
        <4> QED BY <4>1
      <3> QED BY <3>1, <3>2, <3>3, OtherBlob
    <2>3. CASE DbCreate(s)
      <3>1. \/ table' = table
            \/ \E v : table' = [table EXCEPT ![Blob[slot[s]["create"].user]] =
                                  [ver |-> v, data |-> data[slot[s]["create"].user]]]
        BY <2>3 DEF DbCreate
      <3>2. slot[s]["create"].state = "asked"
        BY <2>3 DEF DbCreate
      <3> QED BY <1>0, <2>1, <2>2, <3>1, <3>2
    <2>4. CASE DbUpdate(s)
      <3>1. \/ table' = table
            \/ \E v : table' = [table EXCEPT ![Blob[slot[s]["update"].user]] =
                                  [ver |-> v, data |-> data[slot[s]["update"].user]]]
        BY <2>4 DEF DbUpdate
      <3>2. slot[s]["update"].state = "asked"
        BY <2>4 DEF DbUpdate
      <3> QED BY <1>0, <2>1, <2>2, <3>1, <3>2
    <2>5. CASE DbRead(s)
      BY <2>1, <2>5 DEF DbRead
    <2> QED BY <2>3, <2>4, <2>5 DEF DbStep
  <1>4. \A x \in Changes, d \in Clans : table'[Blob[d]].data[x] <= Limit(x)
    BY <1>3 DEF OnceInv
  <1>5. \A x \in Changes, d \in Clans : data'[d][x] <= Limit(x)
    BY <1>1 DEF OnceInv
  <1>6. \A d \in Clans : news'[d] \cap unsent' = {}
    BY <1>1 DEF OnceInv
  <1> QED BY <1>0, <1>1, <1>2, <1>4, <1>5, <1>6, OnceCopied

(* The change that happens is the only one that may count more often.      *)
LEMMA OnceHappens ==
    ASSUME OneWriter, StorageInv, StorageInv', OnceInv,
           NEW c \in Users, NEW x \in Changes, Happens(c, x),
           c \in Clans => Pending(x) /\ ~Pending(x)',
           table' = table, slot' = slot,
           unsent' \subseteq unsent,
           \A d \in Clans : news'[d] \subseteq news[d]
    PROVE  OnceInv'
  <1>0. /\ StorageTypeOK /\ StorageTypeOK' /\ data \in [Users -> Data]
        /\ Clans \subseteq Users /\ Writers \subseteq Clans
        /\ "read" \in Kinds
    BY Types, OtherBlob DEF StorageInv, Kinds
  <1>1. \A d \in Clans : news'[d] \cap unsent' = {}
    BY DEF OnceInv
  <1>2. ASSUME NEW y \in Changes, NEW d \in Clans
        PROVE  data'[d][y] <= Limit(y)'
    <2>1. data[d][y] <= Limit(y) /\ data[d][y] \in Nat
      BY <1>0, Types, Counts DEF OnceInv
    <2>2. Limit(y) <= Limit(y)' /\ Limit(y) \in Nat /\ Limit(y)' \in Nat
      BY <1>0, LimitGrows
    <2>3. data'[d][y] = IF d = c /\ y = x THEN data[d][y] + 1 ELSE data[d][y]
      <3>1. data[c] \in [Changes -> Nat]
        BY <1>0 DEF Data
      <3> QED BY <1>0, <3>1 DEF Happens
    <2>4. CASE d = c /\ y = x
      <3>1. Limit(x) = 0 /\ Limit(x)' = 1
        BY <1>2, <2>4 DEF Limit
      <3> QED BY <2>1, <2>3, <2>4, <3>1
    <2>5. CASE ~(d = c /\ y = x)
      BY <2>1, <2>2, <2>3, <2>5
    <2> QED BY <2>4, <2>5
  <1>3. ASSUME NEW y \in Changes
        PROVE  /\ \A d \in Clans : table[Blob[d]].data[y] <= Limit(y)'
               /\ \A s \in Servers :
                     slot[s]["read"].new /\ slot[s]["read"].user \in Clans =>
                        slot[s]["read"].found[y] <= Limit(y)'
    <2>1. Limit(y) <= Limit(y)' /\ Limit(y) \in Nat /\ Limit(y)' \in Nat
      BY <1>0, LimitGrows
    <2>2. /\ \A d \in Users : table[Blob[d]].data[y] \in Nat
          /\ \A s \in Servers : slot[s]["read"].found[y] \in Nat
      BY <1>0, Types, Counts
    <2> QED BY <1>0, <2>1, <2>2 DEF OnceInv
  <1> QED BY <1>1, <1>2, <1>3 DEF OnceInv

(* What happens around the storage.                                        *)
LEMMA OnceWorld ==
    ASSUME OneWriter, StorageInv, StorageInv', OnceInv, World
    PROVE  OnceInv'
  <1>0. /\ StorageTypeOK /\ StorageTypeOK' /\ data \in [Users -> Data]
        /\ Clans \subseteq Users /\ Writers \subseteq Clans
        /\ unsent \subseteq Changes
        /\ news \in [Clans -> SUBSET Changes]
        /\ slot \in [Servers -> [Kinds -> Slots]]
        /\ "read" \in Kinds
    BY Types, OtherBlob DEF StorageInv, StorageTypeOK, Kinds
  <1>1. ASSUME NEW x \in Changes, Raid(x)
        PROVE  OnceInv'
    <2>1. \A c \in Clans : news'[c] \subseteq news[c] \cup {x}
      BY <1>0, <1>1 DEF Raid
    <2>2. x \in unsent /\ unsent' = unsent \ {x}
          /\ table' = table /\ data' = data /\ slot' = slot
      BY <1>1 DEF Raid
    <2>3. \A c \in Clans : news'[c] \cap unsent' = {}
      BY <2>1, <2>2 DEF OnceInv
    <2>4. \A w \in Writers : news'[w] \subseteq news[w] \cup unsent
      BY <1>0, <2>1, <2>2
    <2> QED BY <1>0, <2>2, <2>3, <2>4, OnceCopied DEF OnceInv
  <1>2. ASSUME NEW x \in Changes, NEW c \in Users, Change(c, x)
        PROVE  OnceInv'
    <2>1. /\ x \in unsent /\ unsent' = unsent \ {x} /\ Happens(c, x)
          /\ table' = table /\ slot' = slot /\ news' = news
      BY <1>2 DEF Change
    <2>2. Pending(x) /\ ~Pending(x)'
      BY <1>0, <2>1 DEF Pending, OnceInv
    <2> QED BY <2>1, <2>2, OnceHappens
  <1>3. ASSUME NEW x \in Changes, NEW c \in Clans, Deliver(c, x)
        PROVE  OnceInv'
    <2>1. /\ x \in news[c] /\ news' = [news EXCEPT ![c] = news[c] \ {x}]
          /\ unsent' = unsent /\ table' = table /\ slot' = slot
      BY <1>3 DEF Deliver
    <2>2. \A d \in Clans : news'[d] = IF d = c THEN news[d] \ {x} ELSE news[d]
      BY <1>0, <2>1
    <2>3. CASE c \in Writers
      <3>1. Happens(c, x)
        BY <1>3, <2>3 DEF Deliver
      <3>2. Pending(x)
        BY <2>1, <2>3 DEF Pending
      <3>3. ~Pending(x)'
        BY <1>0, <2>1, <2>2, <2>3 DEF Pending, OnceInv, OneWriter
      <3>4. \A d \in Clans : news'[d] \subseteq news[d]
        BY <2>2
      <3> QED BY <1>0, <2>1, <3>1, <3>2, <3>3, <3>4, OnceHappens
    <2>4. CASE c \notin Writers
      <3>1. data' = data
        BY <1>3, <2>4 DEF Deliver
      <3>2. \A d \in Clans : news'[d] \subseteq news[d] /\ news'[d] \cap unsent' = {}
        BY <2>1, <2>2 DEF OnceInv
      <3> QED BY <1>0, <2>1, <3>1, <3>2, OnceCopied DEF OnceInv
    <2> QED BY <2>3, <2>4
  <1>4. ASSUME NEW s \in Servers, Crash(s)
        PROVE  OnceInv'
    <2>1. /\ slot' = [slot EXCEPT ![s] = [o \in Kinds |-> Empty]]
          /\ data' = [c \in Users |-> IF Home[c] = s THEN NoData ELSE data[c]]
          /\ news' = [c \in Clans |-> IF Home[c] = s THEN {} ELSE news[c]]
          /\ table' = table /\ unsent' = unsent
      BY <1>4 DEF Crash
    <2>2. \A d \in Clans : news'[d] \subseteq news[d] /\ news'[d] \cap unsent' = {}
      BY <2>1 DEF OnceInv
    <2>3. \A t \in Servers : slot'[t]["read"] = IF t = s THEN Empty ELSE slot[t]["read"]
      BY <1>0, <2>1
    <2>4. ASSUME NEW x \in Changes, NEW d \in Clans
          PROVE  data'[d][x] <= Limit(x)
      <3>1. data'[d] = data[d] \/ data'[d] = NoData
        BY <1>0, <2>1
      <3>2. NoData[x] = 0 /\ Limit(x) >= 0
        BY DEF NoData, Limit
      <3> QED BY <3>1, <3>2 DEF OnceInv
    <2> QED BY <1>0, <2>1, <2>2, <2>3, <2>4, EmptyType, OnceCopied DEF OnceInv
  <1>5. ASSUME UNCHANGED <<table, slot, data, unsent, news>>
        PROVE  OnceInv'
    BY <1>5 DEF OnceInv, Limit, Pending
  <1>6. ASSUME NEW c \in Users, SaveDue(c)
        PROVE  OnceInv'
    BY <1>5, <1>6 DEF SaveDue
  <1>7. ASSUME NEW s \in Servers, Start(s)
        PROVE  OnceInv'
    BY <1>5, <1>7 DEF Start, memory
  <1> QED BY <1>1, <1>2, <1>3, <1>4, <1>6, <1>7 DEF World

LEMMA OnceNext ==
    ASSUME OneWriter, StorageInv, OnceInv, [StorageNext]_storageVars
    PROVE  OnceInv'
  <1>1. StorageInv'
    BY NextInv
  <1>2. CASE UNCHANGED storageVars
    BY <1>2 DEF storageVars, OnceInv, Limit, Pending
  <1> QED BY <1>1, <1>2, OnceUserStep, OnceDbStep, OnceWorld DEF StorageNext

LEMMA OnceStart ==
    ASSUME StorageInit
    PROVE  OnceInv
  <1>1. /\ \A c \in Clans : data[c] = NoData /\ table[Blob[c]].data = NoData /\ news[c] = {}
        /\ unsent = Changes
        /\ \A s \in Servers : slot[s]["read"] = Empty
    <2>1. \A c \in Clans : c \in Users /\ Blob[c] \in Blobs
      BY OtherBlob, UsersAssumption
    <2> QED BY <2>1 DEF StorageInit, Kinds
  <1>2. \A x \in Changes : NoData[x] = 0 /\ Limit(x) = 0
    BY <1>1 DEF NoData, Limit, Pending
  <1> QED BY <1>1, <1>2, EmptyType DEF OnceInv

(* With one server of area 3, what a clan dungeon reports by chat and what *)
(* a clan master orders counts at most once, on that server, in the table  *)
(* and on all that read it, although servers crash and writes are repeated *)
(* or fail (clan_dungeon_chat, tick_clan).                                 *)
THEOREM CountsOnce ==
    ASSUME OneWriter
    PROVE  StorageSpec => []CountedOnce
  <1>1. StorageInit => OnceInv
    BY OnceStart
  <1>2. StorageInv /\ OnceInv /\ [StorageNext]_storageVars => OnceInv'
    BY OnceNext
  <1>3. StorageInv /\ OnceInv => CountedOnce
    <2> SUFFICES ASSUME StorageInv, OnceInv, NEW c \in Clans, NEW x \in Changes
                 PROVE  data[c][x] <= 1 /\ table[Blob[c]].data[x] <= 1
      BY DEF CountedOnce
    <2>1. data[c][x] \in Nat /\ table[Blob[c]].data[x] \in Nat
      BY OtherBlob, Types, Counts DEF StorageInv
    <2>2. Limit(x) \in {0, 1}
      BY DEF Limit
    <2> QED BY <2>1, <2>2 DEF OnceInv
  <1> QED BY <1>1, <1>2, <1>3, Invariant, PTL DEF StorageSpec
=============================================================================

-------------------------- MODULE TaskQueue_proofs --------------------------
(***************************************************************************)
(* Proofs about TaskQueue, for any number of servers, tasks and failures:  *)
(* types; that what a task has done to the row of a character is never     *)
(* undone by an older save, as long as no connection breaks; and that a    *)
(* task is neither lost nor, as long as nothing fails, done twice.         *)
(***************************************************************************)
EXTENDS TaskQueue, FiniteSetTheorems, TLAPS

-----------------------------------------------------------------------------
(* Types.                                                                  *)

LoadQuery == [op |-> "load"]
ReleaseQuery == [op |-> "release"]
CheckQuery == [op |-> "check"]

(* The queries the main thread appends.                                    *)
LEMMA QueryTypes ==
    /\ LoadQuery \in Queries /\ ReleaseQuery \in Queries /\ CheckQuery \in Queries
    /\ \A d \in Data : /\ [op |-> "backup", data |-> d] \in Queries
                       /\ [op |-> "logout", data |-> d] \in Queries
    /\ \A t \in Tasks : [op |-> "add", task |-> t] \in Queries
  BY DEF Queries, LoadQuery, ReleaseQuery, CheckQuery

(* Queries that save carry data, those that add a task carry it.           *)
LEMMA QueryFields ==
    ASSUME NEW q \in Queries
    PROVE  /\ q.op \in {"backup", "logout"} => q.data \in Data
           /\ q.op = "add" => q.task \in Tasks
           /\ q.op \in {"backup", "logout", "load", "release", "check", "add"}
  BY DEF Queries

(* A task that is done.                                                    *)
LEMMA DoneData ==
    ASSUME NEW d \in Data, NEW t \in Tasks
    PROVE  /\ Done(d, t) \in Data
           /\ \A u \in Tasks : Done(d, t)[u] >= d[u]
  BY DEF Done, Data

(* The rows a select finds.                                                *)
LEMMA RowsType ==
    ASSUME NEW tab
    PROVE  Rows(tab) \in Seq(Tasks \X (1..2))
  <1> DEFINE S == {p \in Tasks \X (1..2) : p[2] <= tab[p[1]]}
  <1>1. IsFiniteSet(Tasks \X (1..2))
    <2>1. IsFiniteSet(1..2)
      <3>1. 1 \in Int /\ 2 \in Int
        OBVIOUS
      <3> QED BY <3>1, FS_Interval, Zenon
    <2> QED BY <2>1, FS_Product, TaskAssumption
  <1>2. S \subseteq Tasks \X (1..2)
    OBVIOUS
  <1> HIDE DEF S
  <1>3. IsFiniteSet(S)
    BY <1>1, <1>2, FS_Subset
  <1>4. Cardinality(S) \in Nat /\ ExistsBijection(1..Cardinality(S), S)
    BY <1>3, FS_CardinalityType
  <1>5. \E f \in [1..Cardinality(S) -> S] : IsInjective(f)
    BY <1>4 DEF ExistsBijection, Bijection, Injection
  <1>6. SetToSeq(S) \in [1..Cardinality(S) -> S]
    BY <1>5 DEF SetToSeq
  <1>7. SetToSeq(S) \in Seq(S)
    BY <1>4, <1>6
  <1>8. SetToSeq(S) \in Seq(Tasks \X (1..2))
    BY <1>2, <1>7
  <1> QED BY <1>8 DEF Rows, S

(* What the helpers write.                                                 *)
LEMMA PutType ==
    ASSUME TypeOK, NEW s \in Servers, NEW q \in Queries, Put(s, q)
    PROVE  /\ queue' \in [Servers -> Seq(Queries)]
           /\ queue'[s] = Append(queue[s], q)
           /\ \A r \in Servers \ {s} : queue'[r] = queue[r]
  BY DEF TypeOK, Put

(* The next query of a queue, and what is left of the queue.               *)
LEMMA TakesType ==
    ASSUME TypeOK, NEW s \in Servers, NEW op, Takes(s, op)
    PROVE  /\ queue' \in [Servers -> Seq(Queries)]
           /\ queue[s] \in Seq(Queries) /\ queue[s] # <<>>
           /\ Head(queue[s]) \in Queries /\ Head(queue[s]).op = op
           /\ queue'[s] = Tail(queue[s])
           /\ \A r \in Servers \ {s} : queue'[r] = queue[r]
  BY DEF TypeOK, Takes

(* Something goes wrong.                                                   *)
LEMMA GoesType ==
    ASSUME TypeOK, NEW kind, Goes(kind)
    PROVE  trouble' \in Seq(Troubles) /\ Len(trouble') <= MaxTrouble
  BY TaskAssumption DEF TypeOK, Goes

(* The rows of the result that are left.                                   *)
LEMMA FollowingType ==
    ASSUME TypeOK, NEW s \in Servers, todo[s] # <<>>, Following(s)
    PROVE  /\ step' \in [Servers -> Steps] /\ todo' \in [Servers -> Seq(Tasks)]
           /\ copy' = copy
           /\ \A r \in Servers : step'[r] \in {"row", "write", "delete"} => todo'[r] # <<>>
  BY DEF TypeOK, Following, Goto, Steps

RowTypes == [cur : Servers \cup {NoServer}, data : Data]
MemTypes == [state : {"out", "loading", "in"}, data : Data]

(* What is written to the row.                                             *)
LEMMA RowWritten ==
    ASSUME NEW r \in RowTypes, NEW c \in Servers \cup {NoServer}, NEW d \in Data
    PROVE  /\ [r EXCEPT !.cur = c] \in RowTypes /\ [r EXCEPT !.data = d] \in RowTypes
           /\ [cur |-> c, data |-> d] \in RowTypes
           /\ [r EXCEPT !.cur = c].cur = c /\ [r EXCEPT !.cur = c].data = r.data
           /\ [r EXCEPT !.data = d].cur = r.cur /\ [r EXCEPT !.data = d].data = d
  BY DEF RowTypes

(* The main thread.                                                        *)
LEMMA MainType ==
    ASSUME TypeOK, NEW s \in Servers, MainStep(s)
    PROVE  TypeOK'
  <1>1. mem[s].data \in Data
    BY DEF TypeOK
  <1>2. Undone \in Data
    BY DEF Undone, Data
  <1>3. CASE Login(s)
    <2>1. queue' \in [Servers -> Seq(Queries)]
      BY <1>3, PutType, QueryTypes DEF Login, Queue, LoadQuery
    <2>2. logins' \in 0..MaxLogins
      BY <1>3, TaskAssumption DEF Login, TypeOK
    <2> QED BY <1>3, <2>1, <2>2 DEF Login, TypeOK, thread, database
  <1>4. CASE TickLogin(s)
    BY <1>4 DEF TickLogin, TypeOK, thread, database
  <1>5. CASE TickLoginFails(s)
    <2>1. queue' \in [Servers -> Seq(Queries)]
      BY <1>5, PutType, QueryTypes DEF TickLoginFails, Queue, ReleaseQuery
    <2> QED BY <1>2, <1>5, <2>1 DEF TickLoginFails, TypeOK, thread, database, Out
  <1>6. CASE Backup(s)
    <2>1. queue' \in [Servers -> Seq(Queries)]
      BY <1>1, <1>6, PutType, QueryTypes DEF Backup, Queue
    <2> QED BY <1>6, <2>1 DEF Backup, TypeOK, thread, database
  <1>7. CASE Logout(s)
    <2>1. queue' \in [Servers -> Seq(Queries)]
      BY <1>1, <1>7, PutType, QueryTypes DEF Logout, Queue
    <2> QED BY <1>2, <1>7, <2>1 DEF Logout, TypeOK, thread, database, Out
  <1>8. ASSUME NEW t \in Tasks, AddTask(s, t) PROVE TypeOK'
    <2>1. queue' \in [Servers -> Seq(Queries)]
      BY <1>8, PutType, QueryTypes DEF AddTask, Queue
    <2> QED BY <1>8, <2>1 DEF AddTask, TypeOK, thread, database
  <1>9. CASE CallCheckTask(s)
    <2>1. queue' \in [Servers -> Seq(Queries)]
      BY <1>9, PutType, QueryTypes DEF CallCheckTask, CheckQuery
    <2> QED BY <1>9, <2>1 DEF CallCheckTask, TypeOK, thread, database
  <1> QED BY <1>3, <1>4, <1>5, <1>6, <1>7, <1>8, <1>9 DEF MainStep

(* The database thread, also when something fails.                         *)
LEMMA DbType ==
    ASSUME TypeOK, NEW s \in Servers, DbStep(s) \/ Failure(s) \/ Start(s)
    PROVE  TypeOK'
  <1>1. /\ row.cur \in Servers \cup {NoServer} /\ row.data \in Data
        /\ copy[s] \in Data /\ todo[s] \in Seq(Tasks)
        /\ step[s] \in {"row", "write", "delete"} => todo[s] # <<>> /\ Task(s) \in Tasks
    BY DEF TypeOK, Task
  <1>a. row \in RowTypes
    BY DEF TypeOK, RowTypes
  <1>2. Undone \in Data
    BY DEF Undone, Data
  <1>3. CASE DbLoad(s)
    <2>1. queue' \in [Servers -> Seq(Queries)]
      BY <1>3, TakesType DEF DbLoad
    <2>2. row' \in RowTypes
      <3>1. row' \in {row, [row EXCEPT !.cur = s]}
        BY <1>3 DEF DbLoad
      <3>2. [row EXCEPT !.cur = s] \in RowTypes
        BY <1>a DEF RowTypes
      <3> QED BY <1>a, <3>1, <3>2
    <2>3. mem' \in [Servers -> MemTypes]
      <3>1. [state |-> "loading", data |-> row.data] \in MemTypes
        BY <1>1 DEF MemTypes
      <3>2. mem \in [Servers -> MemTypes]
        BY DEF TypeOK, MemTypes
      <3> QED BY <1>3, <3>1, <3>2 DEF DbLoad
    <2> QED BY <1>3, <2>1, <2>2, <2>3 DEF DbLoad, TypeOK, thread, RowTypes, MemTypes
  <1>4. CASE DbSave(s)
    <2>1. queue' \in [Servers -> Seq(Queries)]
      BY <1>4, TakesType DEF DbSave
    <2>2. row' \in [cur : Servers \cup {NoServer}, data : Data]
      <3>1. CASE Takes(s, "backup") \/ Takes(s, "logout")
        <4>1. Head(queue[s]).data \in Data
          BY <3>1, TakesType, QueryFields
        <4>2. row' \in {row, [row EXCEPT !.data = Head(queue[s]).data],
                         [cur |-> NoServer, data |-> Head(queue[s]).data]}
          BY <1>4, <3>1, TakesType DEF DbSave
        <4> QED BY <1>1, <1>a, <4>1, <4>2, RowWritten DEF RowTypes
      <3>2. CASE Takes(s, "release")
        <4>1. row' \in {row, [row EXCEPT !.cur = NoServer]}
          BY <1>4, <3>2, TakesType DEF DbSave
        <4> QED BY <1>1, <1>a, <4>1, RowWritten DEF RowTypes
      <3> QED BY <1>4, <3>1, <3>2 DEF DbSave
    <2> QED BY <1>4, <2>1, <2>2 DEF DbSave, TypeOK, thread
  <1>5. CASE DbAddTask(s)
    <2>1. /\ queue' \in [Servers -> Seq(Queries)]
          /\ Head(queue[s]).task \in Tasks
      BY <1>5, TakesType, QueryFields DEF DbAddTask
    <2>2. trouble' \in Seq(Troubles) /\ Len(trouble') <= MaxTrouble
      BY <1>5, GoesType DEF DbAddTask, TypeOK
    <2>3. table' \in [Tasks -> Nat] /\ issued' \subseteq Tasks
      <3> DEFINE t == Head(queue[s]).task
      <3>1. table \in [Tasks -> Nat] /\ issued \subseteq Tasks
        BY DEF TypeOK
      <3>2. \/ table' = [table EXCEPT ![t] = @ + 1] /\ issued' = issued
            \/ table' = [table EXCEPT ![t] = @ + 2] /\ issued' = issued
            \/ issued' = issued \ {t} /\ table' = table
        BY <1>5 DEF DbAddTask
      <3>3. t \in Tasks
        BY <2>1
      <3>4. table[t] + 1 \in Nat /\ table[t] + 2 \in Nat
        BY <3>1, <3>3
      <3> HIDE DEF t
      <3> QED BY <3>1, <3>2, <3>3, <3>4
    <2> QED BY <1>5, <2>1, <2>2, <2>3 DEF DbAddTask, TypeOK, thread
  <1>6. CASE LockTables(s)
    <2>1. queue' \in [Servers -> Seq(Queries)]
      BY <1>6, TakesType DEF LockTables
    <2>2. trouble' \in Seq(Troubles) /\ Len(trouble') <= MaxTrouble
      BY <1>6, GoesType DEF LockTables, TypeOK
    <2>3. /\ step' \in [Servers -> Steps] /\ lock' \in Servers \cup {NoServer}
          /\ \A r \in Servers : step'[r] \in {"row", "write", "delete"} => todo[r] # <<>>
      BY <1>6 DEF LockTables, Goto, TypeOK, Steps
    <2> QED BY <1>6, <2>1, <2>2, <2>3 DEF LockTables, TypeOK
  <1>7. CASE SelectTasks(s)
    <2>1. [i \in 1..Len(Rows(table)) |-> Rows(table)[i][1]] \in Seq(Tasks)
      <3> DEFINE R == Rows(table)
      <3>1. R \in Seq(Tasks \X (1..2))
        BY RowsType
      <3> HIDE DEF R
      <3>2. Len(R) \in Nat /\ \A i \in 1..Len(R) : R[i][1] \in Tasks
        BY <3>1
      <3> QED BY <3>2 DEF R
    <2>2. /\ step' \in [Servers -> Steps] /\ todo' \in [Servers -> Seq(Tasks)]
          /\ \A r \in Servers : step'[r] \in {"row", "write", "delete"} => todo'[r] # <<>>
      BY <1>7, <2>1 DEF SelectTasks, Goto, TypeOK, Steps
    <2> QED BY <1>7, <2>2 DEF SelectTasks, TypeOK, server, database
  <1>8. CASE SelectTasksFails(s)
    BY <1>8, GoesType DEF SelectTasksFails, Goto, TypeOK, Steps, server, database
  <1>9. CASE FindOnline(s)
    <2>1. Task(s) \in Tasks
      BY <1>1, <1>9 DEF FindOnline, Task
    <2>2. mem' \in [Servers -> MemTypes]
      <3>1. mem \in [Servers -> MemTypes] /\ mem[s].data \in Data
        BY DEF TypeOK, MemTypes
      <3>2. Done(mem[s].data, Task(s)) \in Data
        BY <2>1, <3>1, DoneData
      <3>3. \/ mem' = mem
            \/ mem' = [mem EXCEPT ![s].data = Done(mem[s].data, Task(s))]
        BY <1>9 DEF FindOnline
      <3> QED BY <3>1, <3>2, <3>3 DEF MemTypes
    <2>3. /\ step' \in [Servers -> Steps]
          /\ \A r \in Servers : step'[r] \in {"row", "write", "delete"} => todo[r] # <<>>
      BY <1>9 DEF FindOnline, Goto, TypeOK, Steps
    <2> QED BY <1>9, <2>2, <2>3 DEF FindOnline, TypeOK, database, MemTypes
  <1>10. CASE ReadRow(s)
    <2>1. CASE row.cur = NoServer
      <3>1. /\ step' \in [Servers -> Steps] /\ copy' \in [Servers -> Data]
            /\ \A r \in Servers : step'[r] \in {"row", "write", "delete"} => todo[r] # <<>>
        BY <1>1, <1>10, <2>1 DEF ReadRow, At, Goto, TypeOK, Steps
      <3> QED BY <1>10, <2>1, <3>1 DEF ReadRow, TypeOK, server, database
    <2>2. CASE row.cur # NoServer
      <3>1. todo[s] # <<>> /\ Following(s)
        BY <1>1, <1>10, <2>2 DEF ReadRow, At
      <3>2. /\ step' \in [Servers -> Steps] /\ todo' \in [Servers -> Seq(Tasks)]
            /\ copy' = copy
            /\ \A r \in Servers : step'[r] \in {"row", "write", "delete"} => todo'[r] # <<>>
        BY <3>1, FollowingType
      <3> QED BY <1>10, <3>2 DEF ReadRow, TypeOK, server, database
    <2> QED BY <2>1, <2>2
  <1>11. CASE WriteRow(s)
    <2>1. Task(s) \in Tasks
      BY <1>1, <1>11 DEF WriteRow, At
    <2>2. row' \in [cur : Servers \cup {NoServer}, data : Data]
      BY <1>1, <1>11, <2>1, DoneData DEF WriteRow, TypeOK
    <2>3. /\ step' \in [Servers -> Steps]
          /\ \A r \in Servers : step'[r] \in {"row", "write", "delete"} => todo[r] # <<>>
      BY <1>1, <1>11 DEF WriteRow, At, Goto, TypeOK, Steps
    <2> QED BY <1>11, <2>2, <2>3 DEF WriteRow, TypeOK, server
  <1>12. ASSUME DeleteTask(s) \/ DeleteTaskFails(s) \/ RowFails(s) PROVE TypeOK'
    <2>1. todo[s] # <<>> /\ Following(s)
      BY <1>1, <1>12 DEF DeleteTask, DeleteTaskFails, RowFails, At
    <2>2. /\ step' \in [Servers -> Steps] /\ todo' \in [Servers -> Seq(Tasks)]
          /\ copy' = copy
          /\ \A r \in Servers : step'[r] \in {"row", "write", "delete"} => todo'[r] # <<>>
      BY <2>1, FollowingType
    <2>3. table' \in [Tasks -> Nat]
      BY <1>1, <1>12 DEF DeleteTask, DeleteTaskFails, RowFails, At, TypeOK, database
    <2>4. trouble' \in Seq(Troubles) /\ Len(trouble') <= MaxTrouble
      BY <1>12, GoesType DEF DeleteTask, DeleteTaskFails, RowFails, TypeOK
    <2> QED BY <1>12, <2>2, <2>3, <2>4
            DEF DeleteTask, DeleteTaskFails, RowFails, TypeOK, server, database
  <1>13. CASE UnlockTables(s)
    BY <1>13 DEF UnlockTables, Goto, TypeOK, Steps, server
  <1>14. CASE Reconnect(s)
    BY <1>14, GoesType DEF Reconnect, TypeOK, server, thread
  <1>15. CASE Crash(s)
    <2>1. trouble' \in Seq(Troubles) /\ Len(trouble') <= MaxTrouble
      BY <1>15, GoesType DEF Crash
    <2>2. /\ queue' \in [Servers -> Seq(Queries)] /\ todo' \in [Servers -> Seq(Tasks)]
          /\ step' \in [Servers -> Steps]
          /\ mem' \in [Servers -> [state : {"out", "loading", "in"}, data : Data]]
          /\ \A r \in Servers : step'[r] \in {"row", "write", "delete"} => todo'[r] # <<>>
      BY <1>2, <1>15 DEF Crash, TypeOK, Out, Steps
    <2> QED BY <1>15, <2>1, <2>2 DEF Crash, TypeOK
  <1>16. CASE Start(s)
    BY <1>1, <1>16 DEF Start, TypeOK, thread
  <1> QED BY <1>3, <1>4, <1>5, <1>6, <1>7, <1>8, <1>9, <1>10, <1>11, <1>12, <1>13,
             <1>14, <1>15, <1>16 DEF DbStep, CheckTask, Failure

(* Every reachable state is of the declared types: check_task never works  *)
(* on a row it does not have.                                              *)
THEOREM TypeCorrect == Spec => []TypeOK
  <1>1. Init => TypeOK
    <2> SUFFICES ASSUME Init PROVE TypeOK
      OBVIOUS
    <2>1. Undone \in Data
      BY DEF Undone, Data
    <2>2. mem \in [Servers -> [state : {"out", "loading", "in"}, data : Data]]
      BY <2>1 DEF Init, Out
    <2>3. trouble \in Seq(Troubles) /\ Len(trouble) <= MaxTrouble /\ logins \in 0..MaxLogins
      BY TaskAssumption DEF Init
    <2> QED BY <2>1, <2>2, <2>3 DEF Init, TypeOK, Steps
  <1>2. TypeOK /\ [Next]_vars => TypeOK'
    <2> SUFFICES ASSUME TypeOK, [Next]_vars PROVE TypeOK'
      OBVIOUS
    <2>1. CASE UNCHANGED vars
      BY <2>1 DEF vars, server, thread, database, TypeOK
    <2>2. CASE Next
      BY <2>2, MainType, DbType DEF Next
    <2> QED BY <2>1, <2>2
  <1> QED BY <1>1, <1>2, PTL DEF Spec
-----------------------------------------------------------------------------
(* What holds while no connection breaks.                                  *)

Le(d, e) == \A t \in Tasks : d[t] <= e[t]

Saving == {"backup", "logout"}
Ending == {"logout", "release"}
Asking == {"load", "backup", "logout", "release"}

(* A queue takes a character through one stay: saves that only get newer,  *)
(* the end, and then perhaps the next stay, of which only the load is here.*)
OrderedQueue(q) == \A i, j \in 1..Len(q) : i < j =>
    /\ q[i].op \in Ending => q[j].op \notin Saving
    /\ q[i].op = "load" => q[j].op \notin Asking
    /\ q[i].op \in Saving /\ q[j].op \in Saving => Le(q[i].data, q[j].data)

(* The row is no newer than any save of a queue.                           *)
NewerSaves(q, d) == \A i \in 1..Len(q) : q[i].op \in Saving => Le(d, q[i].data)

(* The queue of a server the character is at: no end, and no newer saves.  *)
OngoingQueue(q, d) == \A i \in 1..Len(q) :
    /\ q[i].op \in Asking => q[i].op = "backup"
    /\ q[i].op \in Saving => Le(q[i].data, d)

HasSaves(q) == \E i \in 1..Len(q) : q[i].op \in Saving

Quiet(s) == ~up[s] => mem[s].state = "out" /\ queue[s] = <<>> /\ step[s] = "idle"

Playing(s) == mem[s].state # "out" =>
    /\ row.cur = s /\ Le(row.data, mem[s].data)
    /\ OngoingQueue(queue[s], mem[s].data)

Saves(s) == HasSaves(queue[s]) => row.cur = s /\ NewerSaves(queue[s], row.data)

Writing(s) ==
    /\ step[s] # "idle" => lock = s
    /\ step[s] = "write" => row.cur = NoServer /\ copy[s] = row.data

At0(s) == Quiet(s) /\ Playing(s) /\ Saves(s) /\ OrderedQueue(queue[s]) /\ Writing(s)

Steady == ~Happened("reconnect") => \A s \in Servers : At0(s)

(* The order of versions.                                                  *)
LEMMA LeFacts ==
    /\ \A d \in Data : Le(d, d)
    /\ \A d, e, f \in Data : Le(d, e) /\ Le(e, f) => Le(d, f)
    /\ \A d \in Data, t \in Tasks : Le(d, Done(d, t))
  <1>1. ASSUME NEW d \in Data, NEW e \in Data, NEW f \in Data, Le(d, e), Le(e, f)
        PROVE  Le(d, f)
    <2> SUFFICES ASSUME NEW t \in Tasks PROVE d[t] <= f[t]
      BY DEF Le
    <2>1. d[t] \in Nat /\ e[t] \in Nat /\ f[t] \in Nat
      BY DEF Data
    <2>2. d[t] <= e[t] /\ e[t] <= f[t]
      BY <1>1 DEF Le
    <2> QED BY <2>1, <2>2
  <1>2. ASSUME NEW d \in Data PROVE Le(d, d)
    BY DEF Le, Data
  <1>3. ASSUME NEW d \in Data, NEW t \in Tasks PROVE Le(d, Done(d, t))
    <2>1. \A u \in Tasks : Done(d, t)[u] \in Nat /\ d[u] \in Nat /\ Done(d, t)[u] >= d[u]
      BY DoneData DEF Data
    <2> QED BY <2>1 DEF Le
  <1> QED BY <1>1, <1>2, <1>3

(* A query at the end of a queue.                                          *)
LEMMA AppendElements ==
    ASSUME NEW q \in Seq(Queries), NEW e \in Queries
    PROVE  /\ Append(q, e) \in Seq(Queries) /\ Len(Append(q, e)) = Len(q) + 1
           /\ Len(q) \in Nat
           /\ \A i \in 1..Len(q) : Append(q, e)[i] = q[i] /\ q[i] \in Queries
           /\ Append(q, e)[Len(q) + 1] = e
  OBVIOUS

(* A query that neither saves the character nor takes or leaves it.        *)
LEMMA AppendOther ==
    ASSUME NEW q \in Seq(Queries), NEW e \in Queries, NEW d,
           OrderedQueue(q), e.op \notin Asking
    PROVE  /\ OrderedQueue(Append(q, e))
           /\ HasSaves(Append(q, e)) => HasSaves(q)
           /\ NewerSaves(q, d) => NewerSaves(Append(q, e), d)
           /\ OngoingQueue(q, d) => OngoingQueue(Append(q, e), d)
  <1> DEFINE a == Append(q, e)
  <1>1. Len(a) = Len(q) + 1 /\ Len(q) \in Nat
    BY AppendElements
  <1>2. \A i \in 1..Len(a) : (i \in 1..Len(q) /\ a[i] = q[i])
                            \/ (i = Len(q) + 1 /\ a[i] = e)
    <2>1. /\ \A i \in 1..Len(q) : a[i] = q[i]
          /\ a[Len(q) + 1] = e
      BY AppendElements
    <2> HIDE DEF a
    <2>2. \A i \in 1..Len(a) : i \in 1..Len(q) \/ i = Len(q) + 1
      BY <1>1
    <2> QED BY <2>1, <2>2
  <1>3. e.op \notin Saving
    BY DEF Saving, Asking
  <1> HIDE DEF a
  <1>4. OrderedQueue(a)
    BY <1>1, <1>2, <1>3 DEF OrderedQueue
  <1>5. HasSaves(a) => HasSaves(q)
    BY <1>2, <1>3 DEF HasSaves
  <1>6. NewerSaves(q, d) => NewerSaves(a, d)
    BY <1>2, <1>3 DEF NewerSaves
  <1>7. OngoingQueue(q, d) => OngoingQueue(a, d)
    BY <1>2, <1>3 DEF OngoingQueue
  <1> QED BY <1>4, <1>5, <1>6, <1>7 DEF a

(* A load, of which there is one at a time.                                *)
LEMMA AppendLoad ==
    ASSUME NEW q \in Seq(Queries), NEW e \in Queries, NEW d,
           OrderedQueue(q), e.op = "load", \A i \in 1..Len(q) : q[i].op # "load"
    PROVE  /\ OrderedQueue(Append(q, e))
           /\ HasSaves(Append(q, e)) => HasSaves(q)
           /\ NewerSaves(q, d) => NewerSaves(Append(q, e), d)
  <1> DEFINE a == Append(q, e)
  <1>1. Len(a) = Len(q) + 1 /\ Len(q) \in Nat
    BY AppendElements
  <1>2. \A i \in 1..Len(a) : (i \in 1..Len(q) /\ a[i] = q[i])
                            \/ (i = Len(q) + 1 /\ a[i] = e)
    <2>1. /\ \A i \in 1..Len(q) : a[i] = q[i]
          /\ a[Len(q) + 1] = e
      BY AppendElements
    <2> HIDE DEF a
    <2>2. \A i \in 1..Len(a) : i \in 1..Len(q) \/ i = Len(q) + 1
      BY <1>1
    <2> QED BY <2>1, <2>2
  <1>3. e.op \notin Saving
    BY DEF Saving
  <1> HIDE DEF a
  <1>4. OrderedQueue(a)
    BY <1>1, <1>2, <1>3 DEF OrderedQueue
  <1>5. HasSaves(a) => HasSaves(q)
    BY <1>2, <1>3 DEF HasSaves
  <1>6. NewerSaves(q, d) => NewerSaves(a, d)
    BY <1>2, <1>3 DEF NewerSaves
  <1> QED BY <1>4, <1>5, <1>6 DEF a

(* A save, or the end, of a character that is here.                        *)
LEMMA AppendSave ==
    ASSUME NEW q \in Seq(Queries), NEW e \in Queries, NEW d \in Data, NEW c \in Data,
           OrderedQueue(q), OngoingQueue(q, d),
           e.op \in {"backup", "logout", "release"}, e.op \in Saving => e.data = d,
           NewerSaves(q, c), Le(c, d)
    PROVE  /\ OrderedQueue(Append(q, e))
           /\ NewerSaves(Append(q, e), c)
           /\ e.op = "backup" => OngoingQueue(Append(q, e), d)
           /\ e.op = "release" /\ HasSaves(Append(q, e)) => HasSaves(q)
  <1> DEFINE a == Append(q, e)
  <1>1. Len(a) = Len(q) + 1 /\ Len(q) \in Nat
    BY AppendElements
  <1>2. \A i \in 1..Len(a) : (i \in 1..Len(q) /\ a[i] = q[i])
                            \/ (i = Len(q) + 1 /\ a[i] = e)
    <2>1. /\ \A i \in 1..Len(q) : a[i] = q[i]
          /\ a[Len(q) + 1] = e
      BY AppendElements
    <2> HIDE DEF a
    <2>2. \A i \in 1..Len(a) : i \in 1..Len(q) \/ i = Len(q) + 1
      BY <1>1
    <2> QED BY <2>1, <2>2
  <1>3. \A i \in 1..Len(q) : /\ q[i].op \notin Ending /\ q[i].op # "load"
                             /\ q[i].op \in Saving => Le(q[i].data, d)
    BY DEF OngoingQueue, Asking, Ending
  <1>4. e.op # "load"
    OBVIOUS
  <1>5. Le(d, d)
    BY LeFacts
  <1> HIDE DEF a
  <1>6. OrderedQueue(a)
    <2> SUFFICES ASSUME NEW i \in 1..Len(a), NEW j \in 1..Len(a), i < j
                 PROVE  /\ a[i].op \in Ending => a[j].op \notin Saving
                        /\ a[i].op = "load" => a[j].op \notin Asking
                        /\ a[i].op \in Saving /\ a[j].op \in Saving => Le(a[i].data, a[j].data)
      BY DEF OrderedQueue
    <2>1. i \in 1..Len(q) /\ a[i] = q[i]
      BY <1>1, <1>2
    <2>2. CASE j \in 1..Len(q) /\ a[j] = q[j]
      BY <2>1, <2>2 DEF OrderedQueue
    <2>3. CASE a[j] = e
      BY <1>3, <2>1, <2>3
    <2> QED BY <1>2, <2>2, <2>3
  <1>7. NewerSaves(a, c)
    BY <1>2 DEF NewerSaves
  <1>8. e.op = "backup" => OngoingQueue(a, d)
    BY <1>2, <1>5 DEF OngoingQueue, Saving
  <1>9. e.op = "release" /\ HasSaves(a) => HasSaves(q)
    BY <1>2 DEF HasSaves, Saving
  <1> QED BY <1>6, <1>7, <1>8, <1>9 DEF a

(* What is left of a queue.                                                *)
LEMMA TailElements ==
    ASSUME NEW q \in Seq(Queries), q # <<>>
    PROVE  /\ Tail(q) \in Seq(Queries) /\ Len(Tail(q)) = Len(q) - 1 /\ Len(q) \in Nat \ {0}
           /\ \A i \in 1..Len(Tail(q)) : i + 1 \in 1..Len(q) /\ Tail(q)[i] = q[i + 1]
           /\ Head(q) = q[1]
  OBVIOUS

(* What is left of a queue, and how its first query is related to it.      *)
LEMMA TailOfQueue ==
    ASSUME NEW q \in Seq(Queries), q # <<>>, NEW d, OrderedQueue(q)
    PROVE  /\ OrderedQueue(Tail(q))
           /\ HasSaves(Tail(q)) => HasSaves(q)
           /\ NewerSaves(q, d) => NewerSaves(Tail(q), d)
           /\ OngoingQueue(q, d) => OngoingQueue(Tail(q), d)
           /\ Head(q).op \in Ending => ~HasSaves(Tail(q))
           /\ Head(q).op \in Saving => NewerSaves(Tail(q), Head(q).data)
           /\ Head(q).op = "load" => OngoingQueue(Tail(q), d) /\ ~HasSaves(Tail(q))
           /\ Head(q).op \in Saving => HasSaves(q)
           /\ Head(q).op \in Saving /\ NewerSaves(q, d) => Le(d, Head(q).data)
           /\ Head(q).op \in Saving /\ OngoingQueue(q, d) => Le(Head(q).data, d)
  <1> DEFINE a == Tail(q)
             h == Head(q)
  <1>1. /\ Len(a) = Len(q) - 1 /\ Len(q) \in Nat \ {0}
        /\ \A i \in 1..Len(a) : i + 1 \in 1..Len(q) /\ a[i] = q[i + 1]
        /\ h = q[1] /\ 1 \in 1..Len(q)
    BY TailElements
  <1> HIDE DEF a, h
  <1>2. OrderedQueue(a)
    <2> SUFFICES ASSUME NEW i \in 1..Len(a), NEW j \in 1..Len(a), i < j
                 PROVE  /\ a[i].op \in Ending => a[j].op \notin Saving
                        /\ a[i].op = "load" => a[j].op \notin Asking
                        /\ a[i].op \in Saving /\ a[j].op \in Saving => Le(a[i].data, a[j].data)
      BY DEF OrderedQueue
    <2>1. /\ i + 1 \in 1..Len(q) /\ j + 1 \in 1..Len(q) /\ i + 1 < j + 1
          /\ a[i] = q[i + 1] /\ a[j] = q[j + 1]
      BY <1>1
    <2> QED BY <2>1 DEF OrderedQueue
  <1>3. HasSaves(a) => HasSaves(q)
    BY <1>1 DEF HasSaves
  <1>4. NewerSaves(q, d) => NewerSaves(a, d)
    BY <1>1 DEF NewerSaves
  <1>5. OngoingQueue(q, d) => OngoingQueue(a, d)
    BY <1>1 DEF OngoingQueue
  <1>6. \A i \in 1..Len(a) :
            /\ h.op \in Ending => a[i].op \notin Saving
            /\ h.op = "load" => a[i].op \notin Asking
            /\ h.op \in Saving /\ a[i].op \in Saving => Le(h.data, a[i].data)
    <2> SUFFICES ASSUME NEW i \in 1..Len(a)
                 PROVE  /\ h.op \in Ending => a[i].op \notin Saving
                        /\ h.op = "load" => a[i].op \notin Asking
                        /\ h.op \in Saving /\ a[i].op \in Saving => Le(h.data, a[i].data)
      OBVIOUS
    <2>1. i + 1 \in 1..Len(q) /\ 1 < i + 1
      BY <1>1
    <2> QED BY <1>1, <2>1 DEF OrderedQueue
  <1>7. h.op \in Ending => ~HasSaves(a)
    BY <1>6 DEF HasSaves
  <1>8. h.op \in Saving => NewerSaves(a, h.data)
    BY <1>6 DEF NewerSaves
  <1>9. h.op = "load" => OngoingQueue(a, d) /\ ~HasSaves(a)
    BY <1>6 DEF OngoingQueue, HasSaves, Asking, Saving
  <1>10. h.op \in Saving => HasSaves(q)
    BY <1>1 DEF HasSaves
  <1>11. h.op \in Saving /\ NewerSaves(q, d) => Le(d, h.data)
    BY <1>1 DEF NewerSaves
  <1>12. h.op \in Saving /\ OngoingQueue(q, d) => Le(h.data, d)
    BY <1>1 DEF OngoingQueue
  <1> QED BY <1>2, <1>3, <1>4, <1>5, <1>7, <1>8, <1>9, <1>10, <1>11, <1>12 DEF a, h

(* Older rows than the saves of a queue.                                   *)
LEMMA EmptySaves ==
    ASSUME NEW q, NEW d, ~HasSaves(q)
    PROVE  NewerSaves(q, d)
  BY DEF HasSaves, NewerSaves

-----------------------------------------------------------------------------
(* A step of one server, for the others and for itself.                    *)

Elsewhere(s) == \A r \in Servers \ {s} :
    /\ up'[r] = up[r] /\ mem'[r] = mem[r] /\ queue'[r] = queue[r]
    /\ step'[r] = step[r] /\ copy'[r] = copy[r]
    /\ lock = r => lock' = r

RowFrom(s) ==
    \/ row' = row
    \/ /\ row.cur \in {s, NoServer} /\ row'.cur \in {s, NoServer}
       /\ \A r \in Servers \ {s} : step[r] = "idle"

StepOK(s) == Elsewhere(s) /\ RowFrom(s) /\ At0(s)' /\ Le(row.data, row'.data)

(* Whoever is not asked keeps what it had.                                 *)
LEMMA OthersStay ==
    ASSUME TypeOK, NEW s \in Servers, NEW r \in Servers \ {s}, At0(r),
           Elsewhere(s), RowFrom(s)
    PROVE  At0(r)'
  <1>1. /\ up'[r] = up[r] /\ mem'[r] = mem[r] /\ queue'[r] = queue[r]
        /\ step'[r] = step[r] /\ copy'[r] = copy[r]
        /\ lock = r => lock' = r
    BY DEF Elsewhere
  <1>2. r # NoServer /\ r # s
    BY TaskAssumption
  <1>3. Quiet(r)'
    BY <1>1 DEF At0, Quiet
  <1>4. row.cur = r => row' = row
    BY <1>2 DEF RowFrom
  <1>5. Playing(r)'
    <2> SUFFICES ASSUME mem'[r].state # "out"
                 PROVE  /\ row'.cur = r /\ Le(row'.data, mem'[r].data)
                        /\ OngoingQueue(queue'[r], mem'[r].data)
      BY DEF Playing, Le, OngoingQueue
    <2>1. /\ row.cur = r /\ Le(row.data, mem[r].data)
          /\ OngoingQueue(queue[r], mem[r].data)
      BY <1>1 DEF At0, Playing
    <2> QED BY <1>1, <1>4, <2>1
  <1>6. Saves(r)'
    <2> SUFFICES ASSUME HasSaves(queue'[r])
                 PROVE  row'.cur = r /\ NewerSaves(queue'[r], row'.data)
      BY DEF Saves, HasSaves, NewerSaves, Le
    <2>1. row.cur = r /\ NewerSaves(queue[r], row.data)
      BY <1>1 DEF At0, Saves
    <2> QED BY <1>1, <1>4, <2>1
  <1>7. OrderedQueue(queue[r])'
    <2>1. OrderedQueue(queue'[r])
      BY <1>1 DEF At0
    <2> QED BY <2>1 DEF OrderedQueue, Le
  <1>8. Writing(r)'
    BY <1>1 DEF At0, Writing, RowFrom
  <1> QED BY <1>3, <1>5, <1>6, <1>7, <1>8 DEF At0

(* What a server has to keep, seen from after the step.                    *)
LEMMA AtNext ==
    ASSUME NEW s \in Servers,
           ~up'[s] => mem'[s].state = "out" /\ queue'[s] = <<>> /\ step'[s] = "idle",
           mem'[s].state # "out" => /\ row'.cur = s /\ Le(row'.data, mem'[s].data)
                                    /\ OngoingQueue(queue'[s], mem'[s].data),
           HasSaves(queue'[s]) => row'.cur = s /\ NewerSaves(queue'[s], row'.data),
           OrderedQueue(queue'[s]),
           step'[s] # "idle" => lock' = s,
           step'[s] = "write" => row'.cur = NoServer /\ copy'[s] = row'.data
    PROVE  At0(s)'
  <1>1. Quiet(s)' /\ Writing(s)'
    BY DEF Quiet, Writing
  <1>2. Playing(s)'
    BY DEF Playing, Le, OngoingQueue
  <1>3. Saves(s)'
    BY DEF Saves, HasSaves, NewerSaves, Le
  <1>4. OrderedQueue(queue[s])'
    BY DEF OrderedQueue, Le
  <1> QED BY <1>1, <1>2, <1>3, <1>4 DEF At0

(* The main thread: it leaves row, locks and the steps of check_task alone.*)
LEMMA MainElsewhere ==
    ASSUME TypeOK, NEW s \in Servers, MainStep(s)
    PROVE  /\ row' = row /\ lock' = lock /\ step' = step /\ copy' = copy /\ up' = up
           /\ up[s] \/ mem[s].state = "loading"
           /\ \A r \in Servers \ {s} : mem'[r] = mem[r] /\ queue'[r] = queue[r]
  <1>1. CASE Login(s) \/ Backup(s) \/ \E t \in Tasks : AddTask(s, t)
    BY <1>1, QueryTypes DEF Login, Backup, AddTask, Queue, Put, TypeOK, thread, database
  <1>2. CASE TickLogin(s) \/ TickLoginFails(s) \/ Logout(s) \/ CallCheckTask(s)
    BY <1>2 DEF TickLogin, TickLoginFails, Logout, CallCheckTask, Queue, Put, TypeOK,
                thread, database
  <1> QED BY <1>1, <1>2 DEF MainStep

(* A step of the main thread.                                              *)
LEMMA MainSteady ==
    ASSUME TypeOK, NEW s \in Servers, At0(s), MainStep(s)
    PROVE  StepOK(s)
  <1> DEFINE q == queue[s]
             d == mem[s].data
  <1>1. /\ row' = row /\ lock' = lock /\ step' = step /\ copy' = copy /\ up' = up
        /\ up[s] \/ mem[s].state = "loading"
        /\ \A r \in Servers \ {s} : mem'[r] = mem[r] /\ queue'[r] = queue[r]
    BY MainElsewhere
  <1>2. q \in Seq(Queries) /\ d \in Data /\ row.data \in Data
    BY DEF TypeOK
  <1>3. /\ OrderedQueue(q)
        /\ HasSaves(q) => row.cur = s /\ NewerSaves(q, row.data)
        /\ mem[s].state # "out" => /\ row.cur = s /\ Le(row.data, d)
                                   /\ OngoingQueue(q, d)
        /\ ~up[s] => mem[s].state = "out" /\ step[s] = "idle"
        /\ step[s] # "idle" => lock = s
        /\ step[s] = "write" => row.cur = NoServer /\ copy[s] = row.data
    BY DEF At0, Quiet, Playing, Saves, Writing
  <1>4. up'[s]
    BY <1>1, <1>3
  <1>5. NewerSaves(q, row.data)
    BY <1>3, EmptySaves
  <1>6. /\ mem'[s].state # "out" => /\ row.cur = s /\ Le(row.data, mem'[s].data)
                                    /\ OngoingQueue(queue'[s], mem'[s].data)
        /\ HasSaves(queue'[s]) => row.cur = s /\ NewerSaves(queue'[s], row.data)
        /\ OrderedQueue(queue'[s])
    <2> HIDE DEF q, d
    <2>1. CASE Login(s)
      <3>1. /\ queue'[s] = Append(q, LoadQuery) /\ LoadQuery \in Queries
            /\ mem' = mem /\ mem[s].state = "out"
            /\ LoadQuery.op = "load" /\ \A i \in 1..Len(q) : q[i].op # "load"
        BY <2>1, PutType, QueryTypes DEF Login, Queue, LoadQuery, Asks, q
      <3>2. /\ OrderedQueue(Append(q, LoadQuery))
            /\ HasSaves(Append(q, LoadQuery)) => HasSaves(q)
            /\ NewerSaves(Append(q, LoadQuery), row.data)
        BY <1>2, <1>3, <1>5, <3>1, AppendLoad
      <3> QED BY <1>3, <3>1, <3>2
    <2>2. CASE TickLogin(s)
      <3>1. queue' = queue /\ mem[s].state = "loading" /\ mem'[s].data = d
        BY <2>2 DEF TickLogin, TypeOK, d
      <3> QED BY <1>3, <3>1 DEF q
    <2>3. CASE TickLoginFails(s)
      <3>1. /\ queue'[s] = Append(q, ReleaseQuery) /\ ReleaseQuery \in Queries
            /\ mem'[s].state = "out" /\ mem[s].state # "out"
            /\ ReleaseQuery.op = "release" /\ ReleaseQuery.op \notin Saving
        BY <2>3, PutType, QueryTypes
           DEF TickLoginFails, Queue, ReleaseQuery, Saving, Out, TypeOK, q
      <3>2. /\ OrderedQueue(Append(q, ReleaseQuery))
            /\ NewerSaves(Append(q, ReleaseQuery), row.data)
        BY <1>2, <1>3, <1>5, <3>1, AppendSave
      <3> QED BY <1>3, <3>1, <3>2
    <2>4. CASE Backup(s)
      <3> DEFINE e == [op |-> "backup", data |-> d]
      <3>1. /\ queue'[s] = Append(q, e) /\ e \in Queries
            /\ mem' = mem /\ mem[s].state # "out"
            /\ e.op = "backup" /\ e.data = d
        BY <1>2, <2>4, PutType, QueryTypes DEF Backup, Queue, q, d
      <3> HIDE DEF e
      <3>2. /\ OrderedQueue(Append(q, e))
            /\ NewerSaves(Append(q, e), row.data)
            /\ OngoingQueue(Append(q, e), d)
        BY <1>2, <1>3, <1>5, <3>1, AppendSave
      <3> QED BY <1>3, <3>1, <3>2 DEF d
    <2>5. CASE Logout(s)
      <3> DEFINE e == [op |-> "logout", data |-> d]
      <3>1. /\ queue'[s] = Append(q, e) /\ e \in Queries
            /\ mem'[s].state = "out" /\ mem[s].state # "out"
            /\ e.op = "logout" /\ e.data = d
        BY <1>2, <2>5, PutType, QueryTypes DEF Logout, Queue, Out, TypeOK, q, d
      <3> HIDE DEF e
      <3>2. /\ OrderedQueue(Append(q, e))
            /\ NewerSaves(Append(q, e), row.data)
        BY <1>2, <1>3, <1>5, <3>1, AppendSave
      <3> QED BY <1>3, <3>1, <3>2
    <2>6. CASE CallCheckTask(s) \/ \E t \in Tasks : AddTask(s, t)
      <3>1. PICK e \in Queries : /\ queue'[s] = Append(q, e) /\ e.op \notin Asking
                                 /\ mem' = mem
        <4>1. CASE CallCheckTask(s)
          BY <4>1, PutType, QueryTypes DEF CallCheckTask, CheckQuery, Asking, q
        <4>2. ASSUME NEW t \in Tasks, AddTask(s, t)
              PROVE  \E e \in Queries : /\ queue'[s] = Append(q, e) /\ e.op \notin Asking
                                        /\ mem' = mem
          BY <4>2, PutType, QueryTypes DEF AddTask, Queue, Asking, q
        <4> QED BY <2>6, <4>1, <4>2
      <3>2. /\ OrderedQueue(Append(q, e))
            /\ HasSaves(Append(q, e)) => HasSaves(q)
            /\ NewerSaves(Append(q, e), row.data)
            /\ OngoingQueue(q, d) => OngoingQueue(Append(q, e), d)
        <4>1. /\ OrderedQueue(Append(q, e))
              /\ HasSaves(Append(q, e)) => HasSaves(q)
              /\ NewerSaves(q, row.data) => NewerSaves(Append(q, e), row.data)
          BY <1>2, <1>3, <3>1, AppendOther
        <4>2. OngoingQueue(q, d) => OngoingQueue(Append(q, e), d)
          BY <1>2, <1>3, <3>1, AppendOther
        <4> QED BY <1>5, <4>1, <4>2
      <3>3. mem'[s].state = mem[s].state /\ mem'[s].data = d
        BY <3>1 DEF d
      <3>4. queue'[s] = Append(q, e)
        BY <3>1
      <3> QED BY <1>3, <3>2, <3>3, <3>4
    <2> QED BY <2>1, <2>2, <2>3, <2>4, <2>5, <2>6 DEF MainStep
  <1>7. At0(s)'
    BY <1>1, <1>3, <1>4, <1>6, AtNext
  <1>8. Elsewhere(s) /\ RowFrom(s)
    BY <1>1 DEF Elsewhere, RowFrom
  <1>9. Le(row.data, row'.data)
    BY <1>1, <1>2, LeFacts
  <1> QED BY <1>7, <1>8, <1>9 DEF StepOK

(* The database thread, for the queries of the character itself: while it  *)
(* may use the tables, nobody else is in check_task.                       *)
LEMMA TakesAlone ==
    ASSUME TypeOK, NEW s \in Servers, \A r \in Servers : At0(r), NEW op, Takes(s, op)
    PROVE  /\ \A r \in Servers \ {s} : step[r] = "idle" /\ lock # r
           /\ \A r \in Servers \ {s} : queue'[r] = queue[r]
           /\ up[s] /\ step[s] = "idle"
           /\ OrderedQueue(queue'[s])
           /\ HasSaves(queue'[s]) => HasSaves(queue[s])
           /\ queue'[s] = Tail(queue[s]) /\ queue[s] # <<>> /\ queue[s] \in Seq(Queries)
           /\ Head(queue[s]).op = op /\ Head(queue[s]) \in Queries
  <1>1. lock \in {s, NoServer}
    BY DEF Takes
  <1>2. \A r \in Servers \ {s} : step[r] = "idle" /\ lock # r
    BY <1>1, TaskAssumption DEF At0, Writing
  <1>3. /\ queue[s] \in Seq(Queries) /\ queue[s] # <<>> /\ queue'[s] = Tail(queue[s])
        /\ Head(queue[s]) \in Queries /\ Head(queue[s]).op = op
        /\ \A r \in Servers \ {s} : queue'[r] = queue[r]
    BY TakesType
  <1>4. OrderedQueue(queue[s])
    BY DEF At0
  <1>5. OrderedQueue(Tail(queue[s])) /\ (HasSaves(Tail(queue[s])) => HasSaves(queue[s]))
    BY <1>3, <1>4, TailOfQueue
  <1> QED BY <1>2, <1>3, <1>5 DEF Takes

(* What the queue of a server that is up promises.                         *)
LEMMA QueuePromise ==
    ASSUME NEW s \in Servers, At0(s)
    PROVE  /\ OrderedQueue(queue[s])
           /\ HasSaves(queue[s]) => row.cur = s
           /\ NewerSaves(queue[s], row.data)
           /\ mem[s].state # "out" => row.cur = s
           /\ mem[s].state # "out" => Le(row.data, mem[s].data)
           /\ mem[s].state # "out" => OngoingQueue(queue[s], mem[s].data)
           /\ step[s] # "idle" => lock = s
           /\ step[s] = "write" => row.cur = NoServer /\ copy[s] = row.data
  BY EmptySaves DEF At0, Playing, Saves, Writing

(* The character is loaded: nobody has it, so that nobody saves it.        *)
LEMMA LoadSteady ==
    ASSUME TypeOK, NEW s \in Servers, \A r \in Servers : At0(r), DbLoad(s)
    PROVE  StepOK(s)
  <1>1. Takes(s, "load")
    BY DEF DbLoad
  <1>2. /\ \A r \in Servers \ {s} : step[r] = "idle" /\ lock # r
        /\ \A r \in Servers \ {s} : queue'[r] = queue[r]
        /\ up[s] /\ step[s] = "idle"
        /\ OrderedQueue(queue'[s])
        /\ queue'[s] = Tail(queue[s]) /\ queue[s] # <<>> /\ queue[s] \in Seq(Queries)
        /\ Head(queue[s]).op = "load"
    BY <1>1, TakesAlone
  <1>3. At0(s) /\ OrderedQueue(queue[s])
    BY DEF At0
  <1>4. ~HasSaves(queue'[s]) /\ \A d \in Data : OngoingQueue(queue'[s], d)
    BY <1>2, <1>3, TailOfQueue
  <1>5. /\ row \in RowTypes /\ row.data \in Data
        /\ \A r \in Servers : mem[r] \in MemTypes /\ mem[r].data \in Data
        /\ mem \in [Servers -> MemTypes]
    BY DEF TypeOK, RowTypes, MemTypes
  <1>6. up' = up /\ step' = step /\ copy' = copy
    BY DEF DbLoad, thread
  <1>7. CASE row.cur = NoServer
    <2>1. /\ row' = [row EXCEPT !.cur = s]
          /\ mem' = [mem EXCEPT ![s] = [state |-> "loading", data |-> row.data]]
      BY <1>7 DEF DbLoad
    <2>2. row'.cur = s /\ row'.data = row.data
      BY <1>5, <2>1 DEF RowTypes
    <2>3. mem'[s].data = row.data /\ \A r \in Servers \ {s} : mem'[r] = mem[r]
      BY <1>5, <2>1
    <2>4. Le(row.data, row'.data) /\ Le(row'.data, mem'[s].data)
      BY <1>5, <2>2, <2>3, LeFacts
    <2>5. OngoingQueue(queue'[s], mem'[s].data)
      BY <1>4, <1>5, <2>3
    <2>6. At0(s)'
      BY <1>2, <1>4, <1>6, <2>2, <2>4, <2>5, AtNext
    <2>7. Elsewhere(s)
      BY <1>2, <1>6, <2>3 DEF Elsewhere
    <2>8. RowFrom(s)
      BY <1>2, <1>7, <2>2 DEF RowFrom
    <2> QED BY <2>4, <2>6, <2>7, <2>8 DEF StepOK
  <1>8. CASE row.cur # NoServer
    <2>1. row' = row /\ mem' = mem
      BY <1>8 DEF DbLoad
    <2>2. mem[s].state # "out" => row.cur = s /\ Le(row.data, mem[s].data)
      BY <1>3, QueuePromise
    <2>3. mem'[s].state # "out" => OngoingQueue(queue'[s], mem'[s].data)
      BY <1>4, <1>5, <2>1
    <2>4. At0(s)'
      BY <1>2, <1>4, <1>6, <2>1, <2>2, <2>3, AtNext
    <2>5. Elsewhere(s) /\ RowFrom(s)
      BY <1>2, <1>6, <2>1 DEF Elsewhere, RowFrom
    <2>6. Le(row.data, row'.data)
      BY <1>5, <2>1, LeFacts
    <2> QED BY <2>4, <2>5, <2>6 DEF StepOK
  <1> QED BY <1>7, <1>8

(* It is saved or released.                                                *)
LEMMA SaveSteady ==
    ASSUME TypeOK, NEW s \in Servers, \A r \in Servers : At0(r), DbSave(s)
    PROVE  StepOK(s)
  <1> DEFINE q == queue[s]
             h == Head(queue[s])
  <1>1. PICK op \in {"backup", "logout", "release"} : Takes(s, op)
    BY DEF DbSave
  <1>2. /\ \A r \in Servers \ {s} : step[r] = "idle" /\ lock # r
        /\ \A r \in Servers \ {s} : queue'[r] = queue[r]
        /\ up[s] /\ step[s] = "idle"
        /\ OrderedQueue(queue'[s])
        /\ HasSaves(queue'[s]) => HasSaves(q)
        /\ queue'[s] = Tail(q) /\ q # <<>> /\ q \in Seq(Queries)
        /\ h.op = op /\ h \in Queries
    BY <1>1, TakesAlone
  <1>3. /\ OrderedQueue(q)
        /\ HasSaves(q) => row.cur = s
        /\ NewerSaves(q, row.data)
        /\ mem[s].state # "out" => row.cur = s
        /\ mem[s].state # "out" => Le(row.data, mem[s].data)
        /\ mem[s].state # "out" => OngoingQueue(q, mem[s].data)
    BY QueuePromise
  <1>4. up' = up /\ mem' = mem /\ step' = step /\ copy' = copy /\ lock' = lock
    BY DEF DbSave, thread
  <1>5. row \in RowTypes /\ row.data \in Data /\ mem[s].data \in Data
    BY DEF TypeOK, RowTypes
  <1>6. /\ NewerSaves(Tail(q), row.data)
        /\ h.op \in Ending => ~HasSaves(Tail(q))
        /\ h.op \in Saving => NewerSaves(Tail(q), h.data)
        /\ h.op \in Saving => HasSaves(q)
        /\ h.op \in Saving => Le(row.data, h.data)
    BY <1>2, <1>3, TailOfQueue
  <1>7. /\ OngoingQueue(q, mem[s].data) => OngoingQueue(Tail(q), mem[s].data)
        /\ h.op \in Saving /\ OngoingQueue(q, mem[s].data) => Le(h.data, mem[s].data)
    BY <1>2, <1>3, TailOfQueue
  <1>8. h.op \in Ending => mem[s].state = "out"
    <2> SUFFICES ASSUME h.op \in Ending, mem[s].state # "out" PROVE FALSE
      OBVIOUS
    <2>1. h = q[1] /\ 1 \in 1..Len(q)
      BY <1>2, TailElements
    <2> QED BY <1>3, <2>1 DEF OngoingQueue, Asking, Ending
  <1>9. Elsewhere(s)
    BY <1>2, <1>4 DEF Elsewhere
  <1>10. CASE op = "backup"
    <2>1. row.cur = s /\ h.op \in Saving /\ h.data \in Data
      BY <1>2, <1>3, <1>6, <1>10, QueryFields DEF Saving
    <2>2. row' = [row EXCEPT !.data = h.data]
      BY <1>2, <1>10, <2>1 DEF DbSave, Takes
    <2>3. row'.cur = s /\ row'.data = h.data
      BY <1>5, <2>1, <2>2 DEF RowTypes
    <2>4. At0(s)'
      BY <1>2, <1>3, <1>4, <1>6, <1>7, <2>1, <2>3, AtNext
    <2> QED BY <1>2, <1>6, <1>9, <2>1, <2>3, <2>4 DEF StepOK, RowFrom
  <1>11. CASE op = "logout"
    <2>1. row.cur = s /\ h.op \in Saving /\ h.op \in Ending /\ h.data \in Data
      BY <1>2, <1>3, <1>6, <1>11, QueryFields DEF Saving, Ending
    <2>2. row' = [cur |-> NoServer, data |-> h.data]
      BY <1>2, <1>11, <2>1 DEF DbSave, Takes
    <2>3. row'.cur = NoServer /\ row'.data = h.data
      BY <2>2
    <2>4. At0(s)'
      BY <1>2, <1>4, <1>6, <1>8, <2>1, <2>3, AtNext
    <2> QED BY <1>2, <1>6, <1>9, <2>1, <2>3, <2>4 DEF StepOK, RowFrom
  <1>12. CASE op = "release"
    <2>1. h.op \in Ending /\ mem[s].state = "out"
      BY <1>2, <1>8, <1>12 DEF Ending
    <2>2. row' = IF row.cur = s THEN [row EXCEPT !.cur = NoServer] ELSE row
      BY <1>2, <1>12 DEF DbSave, Takes
    <2>3. row'.data = row.data /\ (row' = row \/ (row.cur = s /\ row'.cur = NoServer))
      BY <1>5, <2>2 DEF RowTypes
    <2>4. At0(s)'
      BY <1>2, <1>4, <1>6, <2>1, <2>3, AtNext
    <2>5. Le(row.data, row'.data)
      BY <1>5, <2>3, LeFacts
    <2> QED BY <1>2, <1>9, <2>3, <2>4, <2>5 DEF StepOK, RowFrom
  <1> QED BY <1>10, <1>11, <1>12

(* The queries about tasks.                                                *)
LEMMA TakesOther ==
    ASSUME TypeOK, NEW s \in Servers, \A r \in Servers : At0(r), NEW op, Takes(s, op)
    PROVE  /\ up[s] /\ step[s] = "idle"
           /\ \A r \in Servers \ {s} : queue'[r] = queue[r] /\ lock # r
           /\ OrderedQueue(queue'[s])
           /\ HasSaves(queue'[s]) => row.cur = s /\ NewerSaves(queue'[s], row.data)
           /\ mem[s].state # "out" => /\ row.cur = s /\ Le(row.data, mem[s].data)
                                      /\ OngoingQueue(queue'[s], mem[s].data)
  <1> DEFINE q == queue[s]
  <1>1. /\ \A r \in Servers \ {s} : step[r] = "idle" /\ lock # r
        /\ \A r \in Servers \ {s} : queue'[r] = queue[r]
        /\ up[s] /\ step[s] = "idle"
        /\ OrderedQueue(queue'[s])
        /\ HasSaves(queue'[s]) => HasSaves(q)
        /\ queue'[s] = Tail(q) /\ q # <<>> /\ q \in Seq(Queries)
    BY TakesAlone
  <1>2. /\ OrderedQueue(q)
        /\ HasSaves(q) => row.cur = s
        /\ NewerSaves(q, row.data)
        /\ mem[s].state # "out" => row.cur = s
        /\ mem[s].state # "out" => Le(row.data, mem[s].data)
        /\ mem[s].state # "out" => OngoingQueue(q, mem[s].data)
    BY QueuePromise
  <1>3. NewerSaves(Tail(q), row.data)
    BY <1>1, <1>2, TailOfQueue
  <1>4. mem[s].state # "out" => OngoingQueue(Tail(q), mem[s].data)
    BY <1>1, <1>2, TailOfQueue
  <1> QED BY <1>1, <1>2, <1>3, <1>4

(* A task goes into the table, or check_task locks it.                     *)
LEMMA OtherQuerySteady ==
    ASSUME TypeOK, NEW s \in Servers, \A r \in Servers : At0(r),
           DbAddTask(s) \/ LockTables(s)
    PROVE  StepOK(s)
  <1>1. PICK op \in {"add", "check"} : Takes(s, op)
    BY DEF DbAddTask, LockTables
  <1>2. /\ up[s] /\ step[s] = "idle"
        /\ \A r \in Servers \ {s} : queue'[r] = queue[r] /\ lock # r
        /\ OrderedQueue(queue'[s])
        /\ HasSaves(queue'[s]) => row.cur = s /\ NewerSaves(queue'[s], row.data)
        /\ mem[s].state # "out" => /\ row.cur = s /\ Le(row.data, mem[s].data)
                                   /\ OngoingQueue(queue'[s], mem[s].data)
    BY <1>1, TakesOther
  <1>3. row.data \in Data /\ step \in [Servers -> Steps]
    BY DEF TypeOK
  <1>4. /\ up' = up /\ mem' = mem /\ copy' = copy /\ row' = row
        /\ step' = step \/ (lock' = s /\ step' = [step EXCEPT ![s] = "select"])
    BY DEF DbAddTask, LockTables, Goto, thread
  <1>5. /\ step'[s] = "idle" \/ (lock' = s /\ step'[s] = "select")
        /\ \A r \in Servers \ {s} : step'[r] = step[r]
    BY <1>2, <1>3, <1>4
  <1>6. At0(s)'
    BY <1>2, <1>4, <1>5, AtNext
  <1>7. Elsewhere(s) /\ RowFrom(s)
    BY <1>2, <1>4, <1>5 DEF Elsewhere, RowFrom
  <1>8. Le(row.data, row'.data)
    BY <1>3, <1>4, LeFacts
  <1> QED BY <1>6, <1>7, <1>8 DEF StepOK

(* The steps of check_task that leave the server and the row alone.        *)
LEMMA QuietSteady ==
    ASSUME TypeOK, NEW s \in Servers, At0(s), up' = up, mem' = mem, queue' = queue,
           row' = row, \A r \in Servers \ {s} : step'[r] = step[r] /\ copy'[r] = copy[r],
           \A r \in Servers \ {s} : lock = r => lock' = r,
           up[s], step'[s] # "idle" => lock' = s,
           step'[s] = "write" => row.cur = NoServer /\ copy'[s] = row.data
    PROVE  StepOK(s)
  <1>1. /\ OrderedQueue(queue[s])
        /\ HasSaves(queue[s]) => row.cur = s
        /\ NewerSaves(queue[s], row.data)
        /\ mem[s].state # "out" => row.cur = s
        /\ mem[s].state # "out" => Le(row.data, mem[s].data)
        /\ mem[s].state # "out" => OngoingQueue(queue[s], mem[s].data)
    BY QueuePromise
  <1>2. At0(s)'
    BY <1>1, AtNext
  <1>3. row.data \in Data
    BY DEF TypeOK
  <1>4. Le(row.data, row'.data)
    BY <1>3, LeFacts
  <1> QED BY <1>2, <1>4 DEF StepOK, Elsewhere, RowFrom

(* Where a step of check_task leads.                                       *)
LEMMA WayOfCheckTask ==
    ASSUME TypeOK, NEW s \in Servers,
           \/ SelectTasks(s) \/ SelectTasksFails(s) \/ FindOnline(s) \/ ReadRow(s)
           \/ WriteRow(s) \/ RowFails(s) \/ DeleteTask(s) \/ DeleteTaskFails(s)
           \/ UnlockTables(s)
    PROVE  /\ up[s] /\ up' = up /\ queue' = queue
           /\ \A r \in Servers \ {s} : step'[r] = step[r] /\ copy'[r] = copy[r]
           /\ \A r \in Servers \ {s} : lock = r => lock' = r
           /\ step[s] # "idle" /\ (step'[s] # "idle" => lock' = lock)
           /\ step'[s] = "write" => ReadRow(s) /\ row.cur = NoServer
  <1>1. step \in [Servers -> Steps] /\ copy \in [Servers -> Data]
    BY DEF TypeOK
  <1>2. CASE SelectTasks(s) \/ SelectTasksFails(s) \/ FindOnline(s)
    BY <1>1, <1>2 DEF SelectTasks, SelectTasksFails, FindOnline, At, Goto, server, database
  <1>3. CASE ReadRow(s)
    BY <1>1, <1>3 DEF ReadRow, Following, At, Goto, server, database
  <1>4. CASE WriteRow(s) \/ UnlockTables(s)
    BY <1>1, <1>4, TaskAssumption DEF WriteRow, UnlockTables, At, Goto, server
  <1>5. CASE RowFails(s) \/ DeleteTask(s) \/ DeleteTaskFails(s)
    BY <1>1, <1>5 DEF RowFails, DeleteTask, DeleteTaskFails, Following, At, Goto,
                      server, database
  <1> QED BY <1>2, <1>3, <1>4, <1>5

(* check_task alone reads and writes the row, of a character nobody has.   *)
LEMMA CheckTaskSteady ==
    ASSUME TypeOK, NEW s \in Servers, \A r \in Servers : At0(r),
           \/ SelectTasks(s) \/ SelectTasksFails(s) \/ FindOnline(s) \/ ReadRow(s)
           \/ WriteRow(s) \/ RowFails(s) \/ DeleteTask(s) \/ DeleteTaskFails(s)
           \/ UnlockTables(s)
    PROVE  StepOK(s)
  <1>1. /\ up[s] /\ up' = up /\ queue' = queue
        /\ \A r \in Servers \ {s} : step'[r] = step[r] /\ copy'[r] = copy[r]
        /\ \A r \in Servers \ {s} : lock = r => lock' = r
        /\ step[s] # "idle" /\ (step'[s] # "idle" => lock' = lock)
        /\ step'[s] = "write" => ReadRow(s) /\ row.cur = NoServer
    BY WayOfCheckTask
  <1>2. /\ OrderedQueue(queue[s])
        /\ HasSaves(queue[s]) => row.cur = s
        /\ NewerSaves(queue[s], row.data)
        /\ mem[s].state # "out" => row.cur = s
        /\ mem[s].state # "out" => Le(row.data, mem[s].data)
        /\ mem[s].state # "out" => OngoingQueue(queue[s], mem[s].data)
        /\ step[s] # "idle" => lock = s
        /\ step[s] = "write" => row.cur = NoServer /\ copy[s] = row.data
    BY QueuePromise
  <1>3. /\ row \in RowTypes /\ row.data \in Data /\ copy \in [Servers -> Data]
        /\ mem \in [Servers -> MemTypes] /\ mem[s].data \in Data /\ todo[s] \in Seq(Tasks)
        /\ step[s] \in {"row", "write", "delete"} => todo[s] # <<>>
    BY DEF TypeOK, RowTypes, MemTypes
  <1>4. CASE \/ SelectTasks(s) \/ SelectTasksFails(s) \/ ReadRow(s) \/ RowFails(s)
             \/ DeleteTask(s) \/ DeleteTaskFails(s) \/ UnlockTables(s)
    <2>1. mem' = mem /\ row' = row
      BY <1>4 DEF SelectTasks, SelectTasksFails, ReadRow, RowFails, DeleteTask,
                  DeleteTaskFails, UnlockTables, server, database
    <2>2. step'[s] = "write" => copy'[s] = row.data
      BY <1>1, <1>3 DEF ReadRow
    <2> QED BY <1>1, <1>2, <2>1, <2>2, QuietSteady
  <1>5. CASE FindOnline(s)
    <2>1. Task(s) \in Tasks
      BY <1>3, <1>5 DEF FindOnline, Task
    <2>2. row' = row /\ \A r \in Servers \ {s} : mem'[r] = mem[r]
      BY <1>3, <1>5 DEF FindOnline, database
    <2>3. /\ mem'[s].state = mem[s].state
          /\ mem'[s].data = mem[s].data \/ mem'[s].data = Done(mem[s].data, Task(s))
      BY <1>3, <1>5 DEF FindOnline, MemTypes
    <2>4. mem'[s].data \in Data /\ Le(mem[s].data, mem'[s].data)
      BY <1>3, <2>1, <2>3, DoneData, LeFacts
    <2>5. mem'[s].state # "out" => Le(row.data, mem'[s].data)
      BY <1>2, <1>3, <2>3, <2>4, LeFacts
    <2>6. mem'[s].state # "out" => OngoingQueue(queue[s], mem'[s].data)
      <3> SUFFICES ASSUME mem[s].state # "out", NEW i \in 1..Len(queue[s])
                   PROVE  /\ queue[s][i].op \in Asking => queue[s][i].op = "backup"
                          /\ queue[s][i].op \in Saving => Le(queue[s][i].data, mem'[s].data)
        BY <2>3 DEF OngoingQueue
      <3>1. /\ queue[s][i].op \in Asking => queue[s][i].op = "backup"
            /\ queue[s][i].op \in Saving => Le(queue[s][i].data, mem[s].data)
        BY <1>2 DEF OngoingQueue
      <3>2. queue[s][i] \in Queries
        BY DEF TypeOK
      <3>3. queue[s][i].op \in Saving => queue[s][i].data \in Data
        BY <3>2, QueryFields DEF Saving
      <3> QED BY <1>3, <2>4, <3>1, <3>3, LeFacts
    <2>7. step'[s] # "write"
      BY <1>1, <1>5 DEF FindOnline, ReadRow, At
    <2>8. At0(s)'
      BY <1>1, <1>2, <2>2, <2>3, <2>5, <2>6, <2>7, AtNext
    <2>9. Elsewhere(s) /\ RowFrom(s)
      BY <1>1, <2>2 DEF Elsewhere, RowFrom
    <2>10. Le(row.data, row'.data)
      BY <1>3, <2>2, LeFacts
    <2> QED BY <2>8, <2>9, <2>10 DEF StepOK
  <1>6. CASE WriteRow(s)
    <2>1. /\ step[s] = "write" /\ mem' = mem
          /\ row' = [row EXCEPT !.data = Done(copy[s], Task(s))]
      BY <1>6 DEF WriteRow, At, server
    <2>2. Task(s) \in Tasks
      BY <1>3, <2>1 DEF Task
    <2>3. row'.cur = NoServer /\ row.cur = NoServer /\ row'.data = Done(row.data, Task(s))
      BY <1>2, <1>3, <2>1 DEF RowTypes
    <2>4. Le(row.data, row'.data)
      BY <1>3, <2>2, <2>3, LeFacts
    <2>5. mem'[s].state = "out" /\ ~HasSaves(queue'[s])
      BY <1>1, <1>2, <2>1, <2>3, TaskAssumption
    <2>6. step'[s] # "write"
      BY <1>1, <2>1 DEF ReadRow, At
    <2>7. At0(s)'
      BY <1>1, <1>2, <2>5, <2>6, AtNext
    <2>8. \A r \in Servers \ {s} : step[r] = "idle"
      BY <1>1, <1>2, TaskAssumption DEF At0, Writing
    <2> QED BY <1>1, <2>1, <2>3, <2>4, <2>7, <2>8 DEF StepOK, Elsewhere, RowFrom
  <1> QED BY <1>4, <1>5, <1>6

(* A server that crashes loses all it has; one that starts sweeps.         *)
LEMMA CrashSteady ==
    ASSUME TypeOK, NEW s \in Servers, \A r \in Servers : At0(r), Crash(s) \/ Start(s)
    PROVE  StepOK(s)
  <1>1. row \in RowTypes /\ row.data \in Data
    BY DEF TypeOK, RowTypes
  <1>2. /\ mem'[s].state = "out" /\ queue'[s] = <<>> /\ step'[s] = "idle"
        /\ copy' = copy /\ \A r \in Servers \ {s} :
            /\ up'[r] = up[r] /\ mem'[r] = mem[r] /\ queue'[r] = queue[r]
            /\ step'[r] = step[r] /\ (lock = r => lock' = r)
    <2>1. CASE Crash(s)
      BY <2>1 DEF Crash, Out, TypeOK
    <2>2. CASE Start(s)
      BY <2>2 DEF Start, thread, At0, Quiet, TypeOK
    <2> QED BY <2>1, <2>2
  <1>3. /\ row'.data = row.data
        /\ row' = row \/ (lock = NoServer /\ row.cur = s /\ row'.cur = NoServer)
    BY <1>1 DEF Crash, Start, RowTypes
  <1>4. OrderedQueue(<<>>) /\ ~HasSaves(<<>>)
    BY DEF OrderedQueue, HasSaves
  <1>5. At0(s)'
    BY <1>2, <1>4, AtNext
  <1>6. lock = NoServer => \A r \in Servers \ {s} : step[r] = "idle"
    BY TaskAssumption DEF At0, Writing
  <1>7. Elsewhere(s) /\ RowFrom(s)
    BY <1>2, <1>3, <1>6 DEF Elsewhere, RowFrom
  <1>8. Le(row.data, row'.data)
    BY <1>1, <1>3, LeFacts
  <1> QED BY <1>5, <1>7, <1>8 DEF StepOK

-----------------------------------------------------------------------------
(* What has gone wrong stays on record.                                    *)
LEMMA TroubleGrows ==
    ASSUME TypeOK, Next
    PROVE  trouble' = trouble \/ \E kind \in Troubles : trouble' = Append(trouble, kind)
  BY DEF Next, MainStep, DbStep, CheckTask, Failure, Goes, Login, TickLogin,
         TickLoginFails, Backup, Logout, AddTask, CallCheckTask, DbLoad, DbSave, DbAddTask,
         LockTables, SelectTasks, SelectTasksFails, FindOnline, ReadRow, WriteRow,
         RowFails, DeleteTask, DeleteTaskFails, UnlockTables, Reconnect, Crash, Start

(* A connection that is not broken after a step was not before, or in it.  *)
LEMMA NoReconnect ==
    ASSUME TypeOK, Next, ~Happened("reconnect")'
    PROVE  ~Happened("reconnect") /\ \A s \in Servers : ~Reconnect(s)
  <1>1. trouble \in Seq(Troubles)
    BY DEF TypeOK
  <1>2. \A i \in 1..Len(trouble') : trouble'[i] # "reconnect"
    BY DEF Happened, Contains
  <1>3. \A i \in 1..Len(trouble) : trouble[i] # "reconnect"
    <2>1. CASE trouble' = trouble
      BY <1>2, <2>1
    <2>2. ASSUME NEW kind \in Troubles, trouble' = Append(trouble, kind)
          PROVE  \A i \in 1..Len(trouble) : trouble[i] # "reconnect"
      BY <1>1, <1>2, <2>2
    <2> QED BY <2>1, <2>2, TroubleGrows
  <1>4. ASSUME NEW s \in Servers, Reconnect(s) PROVE FALSE
    <2>1. trouble' = Append(trouble, "reconnect")
      BY <1>4 DEF Reconnect, Goes
    <2>2. Len(trouble') \in 1..Len(trouble') /\ trouble'[Len(trouble')] = "reconnect"
      BY <1>1, <2>1
    <2> QED BY <1>2, <2>2
  <1> QED BY <1>3, <1>4 DEF Happened, Contains

(* Every step keeps what holds while no connection breaks.                 *)
LEMMA StepSteady ==
    ASSUME TypeOK, Steady, Next, ~Happened("reconnect")'
    PROVE  Le(row.data, row'.data) /\ \A r \in Servers : At0(r)'
  <1>1. \A r \in Servers : At0(r)
    BY NoReconnect DEF Steady
  <1>2. PICK s \in Servers : MainStep(s) \/ DbStep(s) \/ Failure(s) \/ Start(s)
    BY DEF Next
  <1>3. ~Reconnect(s)
    BY NoReconnect
  <1>4. StepOK(s)
    <2>1. CASE MainStep(s)
      BY <1>1, <2>1, MainSteady
    <2>2. CASE DbStep(s)
      BY <1>1, <2>2, LoadSteady, SaveSteady, OtherQuerySteady, CheckTaskSteady
         DEF DbStep, CheckTask
    <2>3. CASE Failure(s) \/ Start(s)
      BY <1>1, <1>3, <2>3, CheckTaskSteady, CrashSteady DEF Failure
    <2> QED BY <1>2, <2>1, <2>2, <2>3
  <1>5. Le(row.data, row'.data) /\ Elsewhere(s) /\ RowFrom(s) /\ At0(s)'
    BY <1>4 DEF StepOK
  <1>6. ASSUME NEW r \in Servers, r # s PROVE At0(r)'
    BY <1>1, <1>5, OthersStay
  <1> QED BY <1>5, <1>6

(* The inductive invariant holds always.                                   *)
LEMMA SteadyAlways == Spec => [](TypeOK /\ Steady)
  <1>1. Init => Steady
    <2> SUFFICES ASSUME Init, NEW s \in Servers PROVE At0(s)
      BY DEF Steady
    <2>1. up[s] /\ mem[s].state = "out" /\ queue[s] = <<>> /\ step[s] = "idle"
      BY DEF Init, Out
    <2> QED BY <2>1 DEF At0, Quiet, Playing, Saves, OrderedQueue, Writing, HasSaves
  <1>2. TypeOK /\ Steady /\ [Next]_vars => Steady'
    <2> SUFFICES ASSUME TypeOK, Steady, [Next]_vars, ~Happened("reconnect")'
                 PROVE  \A s \in Servers : At0(s)'
      BY DEF Steady
    <2>1. CASE UNCHANGED vars
      <3>1. \A s \in Servers : At0(s)
        BY <2>1 DEF vars, Steady, Happened
      <3> QED BY <2>1, <3>1 DEF vars, server, thread, database, At0, Quiet, Playing, Saves,
                 OrderedQueue, Writing, HasSaves, NewerSaves, OngoingQueue, Le
    <2>2. CASE Next
      BY <2>2, StepSteady
    <2> QED BY <2>1, <2>2
  <1> QED BY <1>1, <1>2, TypeCorrect, PTL DEF Spec

(* What has been done to the row of a character is never undone by an      *)
(* older save or by another task, however servers crash and statements     *)
(* fail, for any number of servers, tasks, logins and queries: as long as  *)
(* no connection to the database breaks, which would give up the locks.    *)
THEOREM NothingUndone == Spec => NoTaskUndone
  <1>1. TypeOK /\ Steady /\ [Next]_vars =>
            [Happened("reconnect")' \/
                \A t \in Tasks : row'.data[t] >= row.data[t]]_vars
    <2> SUFFICES ASSUME TypeOK, Steady, Next, ~Happened("reconnect")', NEW t \in Tasks
                 PROVE  row'.data[t] >= row.data[t]
      OBVIOUS
    <2>1. row.data[t] <= row'.data[t]
      BY StepSteady DEF Le
    <2>2. TypeOK'
      BY MainType, DbType DEF Next
    <2>3. row.data[t] \in Nat /\ row'.data[t] \in Nat
      BY <2>2 DEF TypeOK, Data
    <2> QED BY <2>1, <2>3
  <1> QED BY <1>1, SteadyAlways, PTL DEF Spec, NoTaskUndone

-----------------------------------------------------------------------------
(* What counts of the character.                                           *)

AllAt0 == \A s \in Servers : At0(s)

HasLeave(q) == \E i \in 1..Len(q) : q[i].op = "logout"
LeaveWith(q, d) == \A i \in 1..Len(q) : q[i].op = "logout" => q[i].data = d

(* Current, without saying which logout is the last one.                   *)
IsNow(d, r, m, q) ==
    IF r.cur = NoServer THEN d = r.data
    ELSE IF m[r.cur].state # "out" THEN d = m[r.cur].data
    ELSE IF HasLeave(q[r.cur]) THEN LeaveWith(q[r.cur], d)
    ELSE d = r.data

NowIs == \A d : IsNow(d, row, mem, queue) <=> d = Current

(* A queue has one logout at most.                                         *)
LEMMA Exact == TypeOK /\ AllAt0 => NowIs
  <1> SUFFICES ASSUME TypeOK, AllAt0, NEW d
               PROVE  IsNow(d, row, mem, queue) <=> d = Current
    BY DEF NowIs
  <1> DEFINE s == row.cur
  <1>1. CASE s = NoServer
    BY <1>1 DEF IsNow, Current
  <1>2. CASE s # NoServer /\ mem[s].state # "out"
    BY <1>2 DEF IsNow, Current
  <1>3. CASE s # NoServer /\ mem[s].state = "out"
    <2>1. s \in Servers /\ queue[s] \in Seq(Queries) /\ OrderedQueue(queue[s])
      BY <1>3 DEF TypeOK, AllAt0, At0
    <2> HIDE DEF s
    <2>2. CASE ~HasLeave(queue[s])
      <3>1. Leaves(s) = {}
        BY <2>2 DEF Leaves, HasLeave
      <3> QED BY <1>3, <2>2, <3>1 DEF IsNow, Current, s
    <2>3. CASE HasLeave(queue[s])
      <3>1. PICK i \in 1..Len(queue[s]) : queue[s][i].op = "logout"
        BY <2>3 DEF HasLeave
      <3>2. \A j \in 1..Len(queue[s]) : queue[s][j].op = "logout" => j = i
        <4> SUFFICES ASSUME NEW j \in 1..Len(queue[s]), queue[s][j].op = "logout", j # i
                     PROVE  FALSE
          OBVIOUS
        <4>1. i < j \/ j < i
          OBVIOUS
        <4> QED BY <2>1, <3>1, <4>1 DEF OrderedQueue, Ending, Saving
      <3>3. Leaves(s) = {i}
        BY <3>1, <3>2 DEF Leaves
      <3>4. Max({i}) = i
        <4>1. i >= i
          OBVIOUS
        <4> QED BY <4>1 DEF Max
      <3>5. Current = queue[s][i].data
        BY <1>3, <3>3, <3>4 DEF Current, s
      <3>6. LeaveWith(queue[s], d) <=> d = queue[s][i].data
        BY <3>1, <3>2 DEF LeaveWith
      <3> QED BY <1>3, <2>3, <3>5, <3>6 DEF IsNow, s
    <2> QED BY <2>2, <2>3
  <1> QED BY <1>1, <1>2, <1>3

(* The same after a step.                                                  *)
LEMMA ExactNext == TypeOK' /\ AllAt0' => NowIs'
  <1> DEFINE P == TypeOK /\ AllAt0
  <1>1. P => NowIs
    BY Exact
  <1> HIDE DEF P
  <1>2. P' => NowIs'
    BY <1>1, PTL
  <1> QED BY <1>2 DEF P

(* What counts of it is a version of it.                                   *)
LEMMA CurrentData ==
    ASSUME TypeOK, AllAt0
    PROVE  Current \in Data
  <1>1. IsNow(Current, row, mem, queue)
    BY Exact DEF NowIs
  <1>2. CASE row.cur = NoServer
    BY <1>1, <1>2 DEF IsNow, TypeOK
  <1>3. CASE row.cur # NoServer
    <2>1. /\ row.cur \in Servers /\ mem[row.cur].data \in Data
          /\ queue[row.cur] \in Seq(Queries) /\ row.data \in Data
      BY <1>3 DEF TypeOK
    <2>2. \A i \in 1..Len(queue[row.cur]) :
              queue[row.cur][i].op = "logout" => queue[row.cur][i].data \in Data
      BY <2>1, QueryFields
    <2> QED BY <1>1, <1>3, <2>1, <2>2 DEF IsNow, HasLeave, LeaveWith
  <1> QED BY <1>2, <1>3

(* Logouts and tasks of a queue, when a query comes to its end, ...        *)
LEMMA AppendWhat ==
    ASSUME NEW q \in Seq(Queries), NEW e \in Queries, NEW d
    PROVE  /\ e.op # "logout" => /\ HasLeave(Append(q, e)) <=> HasLeave(q)
                                 /\ LeaveWith(Append(q, e), d) <=> LeaveWith(q, d)
           /\ e.op = "logout" => /\ HasLeave(Append(q, e))
                                 /\ ~HasLeave(q) => (LeaveWith(Append(q, e), d) <=> e.data = d)
  <1> DEFINE a == Append(q, e)
  <1>1. /\ Len(a) = Len(q) + 1 /\ Len(q) \in Nat
        /\ \A i \in 1..Len(q) : a[i] = q[i]
        /\ a[Len(q) + 1] = e
    BY AppendElements
  <1> HIDE DEF a
  <1>2. /\ \A i \in 1..Len(a) : (i \in 1..Len(q) /\ a[i] = q[i])
                               \/ (i = Len(q) + 1 /\ a[i] = e)
        /\ \A i \in 1..Len(q) : i \in 1..Len(a) /\ a[i] = q[i]
        /\ Len(q) + 1 \in 1..Len(a)
    BY <1>1
  <1>3. (HasLeave(a) <=> HasLeave(q) \/ e.op = "logout")
    BY <1>1, <1>2 DEF HasLeave
  <1>4. LeaveWith(a, d) <=> LeaveWith(q, d) /\ (e.op = "logout" => e.data = d)
    BY <1>1, <1>2 DEF LeaveWith
  <1>5. ~HasLeave(q) => LeaveWith(q, d)
    BY DEF HasLeave, LeaveWith
  <1> QED BY <1>3, <1>4, <1>5 DEF a

(* ... and when the first one goes.                                        *)
LEMMA TailWhat ==
    ASSUME NEW q \in Seq(Queries), q # <<>>, NEW d
    PROVE  /\ Head(q).op # "logout" => /\ HasLeave(Tail(q)) <=> HasLeave(q)
                                       /\ LeaveWith(Tail(q), d) <=> LeaveWith(q, d)
           /\ OrderedQueue(q) /\ Head(q).op = "logout" => 
                 ~HasLeave(Tail(q)) /\ HasLeave(q) /\ (LeaveWith(q, d) <=> Head(q).data = d)
  <1> DEFINE a == Tail(q)
  <1>1. /\ Len(a) = Len(q) - 1 /\ Len(q) \in Nat \ {0} /\ Head(q) = q[1]
        /\ \A i \in 1..Len(a) : i + 1 \in 1..Len(q) /\ a[i] = q[i + 1]
    BY TailElements
  <1> HIDE DEF a
  <1>2. \A i \in 1..Len(q) : i = 1 \/ (i - 1 \in 1..Len(a) /\ a[i - 1] = q[i])
    <2> TAKE i \in 1..Len(q)
    <2>1. i # 1 => i - 1 \in 1..Len(a) /\ (i - 1) + 1 = i
      BY <1>1
    <2> QED BY <1>1, <2>1
  <1>3. 1 \in 1..Len(q)
    BY <1>1
  <1>4. (HasLeave(q) <=> HasLeave(a) \/ Head(q).op = "logout")
    BY <1>1, <1>2, <1>3 DEF HasLeave
  <1>5. LeaveWith(q, d) <=> LeaveWith(a, d) /\ (Head(q).op = "logout" => Head(q).data = d)
    BY <1>1, <1>2, <1>3 DEF LeaveWith
  <1>6. ASSUME OrderedQueue(q), Head(q).op = "logout"
        PROVE  ~HasLeave(a)
    <2> SUFFICES ASSUME NEW i \in 1..Len(a), a[i].op = "logout" PROVE FALSE
      BY DEF HasLeave
    <2>1. i + 1 \in 1..Len(q) /\ 1 < i + 1 /\ q[i + 1].op = "logout"
      BY <1>1
    <2> QED BY <1>1, <1>3, <1>6, <2>1 DEF OrderedQueue, Ending, Saving
  <1>7. ~HasLeave(a) => LeaveWith(a, d)
    BY DEF HasLeave, LeaveWith
  <1> QED BY <1>4, <1>5, <1>6, <1>7 DEF a

(* A character that is being loaded is as in the row, and nothing of it    *)
(* waits in the queue; one that is gone has left a logout there, if        *)
(* anything.                                                               *)
StayWith(m, q, d) ==
    /\ m.state = "loading" => m.data = d /\ \A i \in 1..Len(q) : q[i].op \notin Asking
    /\ m.state = "out" /\ HasSaves(q) => HasLeave(q)

Stay(s) == StayWith(mem[s], queue[s], row.data)

AllStay == \A s \in Servers : Stay(s)

(* A step of another server.                                               *)
LEMMA StayElsewhere ==
    ASSUME TypeOK, AllAt0, NEW s \in Servers, NEW r \in Servers \ {s}, Stay(r),
           Elsewhere(s), RowFrom(s)
    PROVE  Stay(r)'
  <1>1. mem'[r] = mem[r] /\ queue'[r] = queue[r]
    BY DEF Elsewhere
  <1>2. mem[r].state # "out" => row.cur = r
    BY QueuePromise DEF AllAt0
  <1>3. row.cur = r => row' = row
    BY TaskAssumption DEF RowFrom
  <1>4. StayWith(mem[r], queue[r], row'.data)
    BY <1>2, <1>3 DEF Stay, StayWith
  <1> QED BY <1>1, <1>4 DEF Stay

(* What counts is found after a step.                                      *)
LEMMA NowNext ==
    ASSUME TypeOK', AllAt0', NEW d, IsNow(d, row', mem', queue')
    PROVE  Current' = d
  BY ExactNext DEF NowIs

(* What counts does not change.                                            *)
LEMMA SameNow ==
    ASSUME TypeOK, AllAt0, TypeOK', AllAt0', NEW s \in Servers, Elsewhere(s), row' = row,
           mem'[s].state = "out" <=> mem[s].state = "out",
           mem[s].state # "out" => mem'[s].data = mem[s].data,
           HasLeave(queue'[s]) <=> HasLeave(queue[s]),
           \A d : LeaveWith(queue'[s], d) <=> LeaveWith(queue[s], d)
    PROVE  Current' = Current
  <1>1. IsNow(Current, row, mem, queue)
    BY Exact DEF NowIs
  <1>2. row.cur \in Servers \cup {NoServer}
    BY DEF TypeOK
  <1>3. IsNow(Current, row', mem', queue')
    <2>1. CASE row.cur = s
      BY <1>1, <2>1 DEF IsNow
    <2>2. CASE row.cur # s
      <3>1. row.cur # NoServer => mem'[row.cur] = mem[row.cur] /\ queue'[row.cur] = queue[row.cur]
        BY <1>2, <2>2 DEF Elsewhere
      <3> QED BY <1>1, <3>1 DEF IsNow
    <2> QED BY <2>1, <2>2
  <1> QED BY <1>3, NowNext

(* What the next query leaves when it is not a logout.                     *)
LEMMA StayTail ==
    ASSUME NEW q \in Seq(Queries), q # <<>>, OrderedQueue(q), NEW m, NEW d,
           StayWith(m, q, d)
    PROVE  StayWith(m, Tail(q), d)
  <1>1. ASSUME m.state = "loading"
        PROVE  \A i \in 1..Len(Tail(q)) : Tail(q)[i].op \notin Asking
    <2>1. \A i \in 1..Len(Tail(q)) : i + 1 \in 1..Len(q) /\ Tail(q)[i] = q[i + 1]
      BY TailElements
    <2> QED BY <1>1, <2>1 DEF StayWith
  <1>2. ASSUME m.state = "out", HasSaves(Tail(q)) PROVE HasLeave(Tail(q))
    <2>1. HasLeave(q)
      BY <1>2, TailOfQueue DEF StayWith
    <2>2. Head(q).op # "logout"
      BY <1>2, TailOfQueue DEF Ending
    <2> QED BY <2>1, <2>2, TailWhat
  <1> QED BY <1>1, <1>2 DEF StayWith

(* A query that does not ask for the character.                            *)
LEMMA StayAppend ==
    ASSUME NEW q \in Seq(Queries), NEW e \in Queries, NEW m, NEW d, StayWith(m, q, d),
           e.op \notin Saving, m.state = "loading" => e.op \notin Asking
    PROVE  StayWith(m, Append(q, e), d)
  <1>1. /\ Len(Append(q, e)) = Len(q) + 1 /\ Len(q) \in Nat
        /\ \A i \in 1..Len(q) : Append(q, e)[i] = q[i]
        /\ Append(q, e)[Len(q) + 1] = e
    BY AppendElements
  <1>2. \A i \in 1..Len(Append(q, e)) : (i \in 1..Len(q) /\ Append(q, e)[i] = q[i])
                                       \/ (i = Len(q) + 1 /\ Append(q, e)[i] = e)
    BY <1>1
  <1>3. HasSaves(Append(q, e)) => HasSaves(q)
    BY <1>2 DEF HasSaves
  <1>4. HasLeave(q) => HasLeave(Append(q, e))
    BY <1>1 DEF HasLeave
  <1> QED BY <1>2, <1>3, <1>4 DEF StayWith

(* The main thread only moves what counts of the character.                *)
LEMMA MainNow ==
    ASSUME TypeOK, AllAt0, AllStay, TypeOK', AllAt0', NEW s \in Servers, MainStep(s)
    PROVE  AllStay' /\ Current' = Current
  <1> DEFINE q == queue[s]
  <1>1. /\ row' = row /\ \A r \in Servers \ {s} : mem'[r] = mem[r] /\ queue'[r] = queue[r]
        /\ Elsewhere(s) /\ RowFrom(s)
    BY MainElsewhere, MainSteady DEF AllAt0, StepOK
  <1>2. /\ q \in Seq(Queries) /\ mem \in [Servers -> MemTypes] /\ mem[s].data \in Data
        /\ queue \in [Servers -> Seq(Queries)] /\ StayWith(mem[s], q, row.data)
    BY DEF TypeOK, MemTypes, AllStay, Stay
  <1>3. /\ mem[s].state # "out" => row.cur = s /\ OngoingQueue(q, mem[s].data)
    BY QueuePromise DEF AllAt0
  <1>4. SUFFICES StayWith(mem'[s], queue'[s], row'.data) /\ Current' = Current
    BY <1>1, StayElsewhere DEF AllStay, Stay
  <1>5. ASSUME NEW e \in Queries, queue' = [queue EXCEPT ![s] = Append(@, e)], mem' = mem,
               e.op # "logout", e.op \notin Saving, mem[s].state = "loading" => e.op \notin Asking
        PROVE  StayWith(mem'[s], queue'[s], row'.data) /\ Current' = Current
    <2>1. queue'[s] = Append(q, e) /\ mem'[s] = mem[s]
      BY <1>2, <1>5
    <2>2. StayWith(mem[s], Append(q, e), row.data)
      BY <1>2, <1>5, StayAppend
    <2>3. /\ HasLeave(queue'[s]) <=> HasLeave(q)
          /\ \A d : LeaveWith(queue'[s], d) <=> LeaveWith(q, d)
      BY <1>2, <1>5, <2>1, AppendWhat
    <2> QED BY <1>1, <2>1, <2>2, <2>3, SameNow
  <1>6. CASE Login(s)
    BY <1>5, <1>6, QueryTypes DEF Login, Queue, Put, LoadQuery, Saving
  <1>7. CASE TickLogin(s)
    <2>1. queue' = queue /\ mem'[s].state = "in" /\ mem'[s].data = mem[s].data
          /\ mem[s].state = "loading"
      BY <1>2, <1>7 DEF TickLogin
    <2>2. Current' = Current
      BY <1>1, <2>1, SameNow
    <2> QED BY <2>1, <2>2 DEF StayWith
  <1>8. CASE TickLoginFails(s)
    <2>1. /\ queue'[s] = Append(q, ReleaseQuery) /\ mem'[s] = Out /\ mem[s].state = "loading"
      BY <1>2, <1>8 DEF TickLoginFails, Queue, Put, ReleaseQuery
    <2>2. ~HasLeave(q) /\ ~HasSaves(q) /\ mem[s].data = row.data
      BY <1>2, <2>1 DEF StayWith, HasLeave, HasSaves, Asking, Saving
    <2>3. ~HasLeave(queue'[s])
      <3>1. ReleaseQuery.op # "logout" /\ ReleaseQuery \in Queries
        BY QueryTypes DEF ReleaseQuery
      <3> HIDE DEF ReleaseQuery
      <3>2. HasLeave(Append(q, ReleaseQuery)) <=> HasLeave(q)
        BY <1>2, <3>1, AppendWhat
      <3> QED BY <2>1, <2>2, <3>2
    <2>4. ~HasSaves(queue'[s])
      <3>1. Len(queue'[s]) = Len(q) + 1 /\ Len(q) \in Nat /\ queue'[s][Len(q) + 1] = ReleaseQuery
            /\ \A i \in 1..Len(q) : queue'[s][i] = q[i]
        BY <1>2, <2>1, AppendElements, QueryTypes
      <3>2. \A i \in 1..Len(queue'[s]) : i \in 1..Len(q) \/ i = Len(q) + 1
        BY <3>1
      <3> QED BY <2>2, <3>1, <3>2 DEF HasSaves, Saving, ReleaseQuery
    <2>5. IsNow(Current, row, mem, queue)
      BY Exact DEF NowIs
    <2>6. Current = row.data
      BY <1>3, <2>1, <2>2, <2>5 DEF IsNow
    <2>7. IsNow(row.data, row', mem', queue')
      <3>1. row'.cur = s /\ s # NoServer /\ mem'[s].state = "out" /\ row'.data = row.data
        BY <1>1, <1>3, <2>1, TaskAssumption DEF Out
      <3> QED BY <2>3, <3>1 DEF IsNow
    <2>8. Current' = Current
      BY <2>6, <2>7, NowNext
    <2> QED BY <2>1, <2>4, <2>8 DEF StayWith, Out
  <1>9. CASE Backup(s)
    <2> DEFINE e == [op |-> "backup", data |-> mem[s].data]
    <2>1. queue'[s] = Append(q, e) /\ e \in Queries /\ e.op = "backup" /\ mem' = mem
          /\ mem[s].state = "in"
      BY <1>2, <1>9, QueryTypes DEF Backup, Queue, Put
    <2> HIDE DEF e
    <2>2. /\ HasLeave(queue'[s]) <=> HasLeave(q)
          /\ \A d : LeaveWith(queue'[s], d) <=> LeaveWith(q, d)
      <3>1. e.op # "logout"
        BY <2>1
      <3>2. HasLeave(Append(q, e)) <=> HasLeave(q)
        BY <1>2, <2>1, <3>1, AppendWhat
      <3>3. \A d : LeaveWith(Append(q, e), d) <=> LeaveWith(q, d)
        BY <1>2, <2>1, <3>1, AppendWhat
      <3> QED BY <2>1, <3>2, <3>3
    <2>3. Current' = Current
      BY <1>1, <2>1, <2>2, SameNow
    <2> QED BY <2>1, <2>3 DEF StayWith
  <1>10. CASE Logout(s)
    <2> DEFINE e == [op |-> "logout", data |-> mem[s].data]
    <2>1. queue'[s] = Append(q, e) /\ e \in Queries /\ e.op = "logout" /\ e.data = mem[s].data
          /\ mem[s].state = "in" /\ mem'[s] = Out
      BY <1>2, <1>10, QueryTypes DEF Logout, Queue, Put
    <2> HIDE DEF e
    <2>2. ~HasLeave(q)
      BY <1>3, <2>1 DEF OngoingQueue, HasLeave, Asking
    <2>3. HasLeave(queue'[s]) /\ LeaveWith(queue'[s], mem[s].data)
      BY <1>2, <2>1, <2>2, AppendWhat
    <2>4. Current = mem[s].data
      <3>1. IsNow(Current, row, mem, queue)
        BY Exact DEF NowIs
      <3>2. s # NoServer
        BY TaskAssumption
      <3> QED BY <1>3, <2>1, <3>1, <3>2 DEF IsNow
    <2>5. IsNow(mem[s].data, row', mem', queue')
      <3>1. row'.cur = s /\ s # NoServer /\ mem'[s].state = "out"
        BY <1>1, <1>3, <2>1, TaskAssumption DEF Out
      <3> QED BY <2>3, <3>1 DEF IsNow
    <2>6. Current' = Current
      BY <2>4, <2>5, NowNext
    <2> QED BY <2>1, <2>3, <2>6 DEF StayWith, Out
  <1>11. ASSUME NEW t \in Tasks, AddTask(s, t)
         PROVE  StayWith(mem'[s], queue'[s], row'.data) /\ Current' = Current
    <2> DEFINE e == [op |-> "add", task |-> t]
    <2>1. e \in Queries /\ e.op = "add" /\ mem' = mem
          /\ queue' = [queue EXCEPT ![s] = Append(@, e)]
      BY <1>11, QueryTypes DEF AddTask, Queue, Put
    <2> HIDE DEF e
    <2> QED BY <1>5, <2>1 DEF Saving, Asking
  <1>12. CASE CallCheckTask(s)
    BY <1>5, <1>12, QueryTypes DEF CallCheckTask, Put, CheckQuery, Saving, Asking
  <1> QED BY <1>6, <1>7, <1>8, <1>9, <1>10, <1>11, <1>12 DEF MainStep

(* The character is loaded.                                                *)
LEMMA LoadNow ==
    ASSUME TypeOK, AllAt0, AllStay, TypeOK', AllAt0', NEW s \in Servers, DbLoad(s)
    PROVE  AllStay' /\ Current' = Current
  <1> DEFINE q == queue[s]
  <1>1. Elsewhere(s) /\ RowFrom(s)
    BY LoadSteady DEF AllAt0, StepOK
  <1>2. /\ q \in Seq(Queries) /\ q # <<>> /\ Head(q).op = "load" /\ queue'[s] = Tail(q)
        /\ OrderedQueue(q)
    BY TakesAlone DEF DbLoad, AllAt0, At0
  <1>3. StayWith(mem[s], q, row.data) /\ mem \in [Servers -> MemTypes] /\ row \in RowTypes
    BY DEF AllStay, Stay, TypeOK, MemTypes, RowTypes
  <1>4. SUFFICES StayWith(mem'[s], queue'[s], row'.data) /\ Current' = Current
    BY <1>1, StayElsewhere DEF AllStay, Stay
  <1> HIDE DEF q
  <1>5. CASE row.cur = NoServer
    <2>1. row' = [row EXCEPT !.cur = s] /\ mem'[s] = [state |-> "loading", data |-> row.data]
      BY <1>3, <1>5 DEF DbLoad
    <2>2. row'.cur = s /\ row'.data = row.data /\ s # NoServer
      BY <1>3, <2>1, TaskAssumption DEF RowTypes
    <2>3. OngoingQueue(Tail(q), row.data) /\ ~HasSaves(Tail(q))
      BY <1>2, TailOfQueue
    <2>4. \A i \in 1..Len(Tail(q)) : Tail(q)[i].op \notin Asking
      BY <2>3 DEF OngoingQueue, HasSaves, Saving
    <2>5. StayWith(mem'[s], queue'[s], row'.data)
      BY <1>2, <2>1, <2>2, <2>4 DEF StayWith
    <2>6. Current = row.data
      BY <1>5 DEF Current
    <2>7. IsNow(row.data, row', mem', queue')
      BY <2>1, <2>2 DEF IsNow
    <2> QED BY <2>5, <2>6, <2>7, NowNext
  <1>6. CASE row.cur # NoServer
    <2>1. row' = row /\ mem' = mem
      BY <1>6 DEF DbLoad
    <2>2. StayWith(mem[s], Tail(q), row.data)
      BY <1>2, <1>3, StayTail
    <2>3. /\ HasLeave(Tail(q)) <=> HasLeave(q)
          /\ \A d : LeaveWith(Tail(q), d) <=> LeaveWith(q, d)
      BY <1>2, TailWhat
    <2>4. Current' = Current
      BY <1>1, <1>2, <2>1, <2>3, SameNow DEF q
    <2> QED BY <1>2, <2>1, <2>2, <2>4
  <1> QED BY <1>5, <1>6

(* It is saved or released.                                                *)
LEMMA SaveNow ==
    ASSUME TypeOK, AllAt0, AllStay, TypeOK', AllAt0', NEW s \in Servers, DbSave(s)
    PROVE  AllStay' /\ Current' = Current
  <1> DEFINE q == queue[s]
             h == Head(queue[s])
  <1>1. Elsewhere(s) /\ RowFrom(s)
    BY SaveSteady DEF AllAt0, StepOK
  <1>2. PICK op \in {"backup", "logout", "release"} : Takes(s, op)
    BY DEF DbSave
  <1>3. /\ q \in Seq(Queries) /\ q # <<>> /\ h.op = op /\ h \in Queries /\ queue'[s] = Tail(q)
        /\ mem' = mem
    BY <1>2, TakesAlone DEF DbSave, AllAt0
  <1>4. /\ OrderedQueue(q)
        /\ HasSaves(q) => row.cur = s
        /\ mem[s].state # "out" => row.cur = s
        /\ mem[s].state # "out" => OngoingQueue(q, mem[s].data)
    BY QueuePromise DEF AllAt0
  <1>5. StayWith(mem[s], q, row.data) /\ row \in RowTypes /\ s # NoServer
    BY TaskAssumption DEF AllStay, Stay, TypeOK, RowTypes
  <1>6. SUFFICES StayWith(mem'[s], queue'[s], row'.data) /\ Current' = Current
    BY <1>1, StayElsewhere DEF AllStay, Stay
  <1> HIDE DEF q
  <1>7. h = q[1] /\ 1 \in 1..Len(q)
    BY <1>3, TailElements DEF q
  <1>8. mem[s].state # "loading"
    <2>1. h.op \in Asking
      BY <1>3 DEF Asking
    <2> QED BY <1>5, <1>7, <2>1 DEF StayWith
  <1>9. /\ h.op \in Ending => mem[s].state = "out" /\ ~HasSaves(Tail(q))
        /\ h.op \in Saving => HasSaves(q)
    <2>1. /\ h.op \in Ending => ~HasSaves(Tail(q))
          /\ h.op \in Saving => HasSaves(q)
      BY <1>3, <1>4, TailOfQueue DEF q
    <2> QED BY <1>4, <1>7, <2>1 DEF OngoingQueue, Asking, Ending
  <1>10. IsNow(Current, row, mem, queue)
    BY Exact DEF NowIs
  <1>11. CASE op = "backup"
    <2>1. row.cur = s /\ h.data \in Data
      BY <1>3, <1>4, <1>9, <1>11, QueryFields DEF Saving
    <2>2. row' = [row EXCEPT !.data = h.data]
      BY <1>3, <1>11, <2>1 DEF DbSave, Takes
    <2>3. row'.cur = s
      BY <1>5, <2>1, <2>2 DEF RowTypes
    <2>4. StayWith(mem[s], Tail(q), row.data)
      BY <1>3, <1>4, <1>5, StayTail
    <2>5. StayWith(mem'[s], queue'[s], row'.data)
      BY <1>3, <1>8, <2>4 DEF StayWith
    <2>6. /\ HasLeave(Tail(q)) <=> HasLeave(q)
          /\ \A d : LeaveWith(Tail(q), d) <=> LeaveWith(q, d)
      <3>1. h.op # "logout"
        BY <1>3, <1>11
      <3> QED BY <1>3, <3>1, TailWhat DEF q
    <2>7. mem[s].state = "out" => HasLeave(q)
      BY <1>3, <1>5, <1>9, <1>11 DEF StayWith, Saving
    <2>8. IsNow(Current, row', mem', queue')
      <3>1. CASE mem[s].state = "out"
        BY <1>3, <1>5, <1>10, <2>1, <2>3, <2>6, <2>7, <3>1 DEF IsNow, q
      <3>2. CASE mem[s].state # "out"
        BY <1>3, <1>5, <1>10, <2>1, <2>3, <3>2 DEF IsNow
      <3> QED BY <3>1, <3>2
    <2> QED BY <2>5, <2>8, NowNext
  <1>12. CASE op = "logout"
    <2>1. row.cur = s /\ mem[s].state = "out" /\ ~HasSaves(Tail(q))
      BY <1>3, <1>4, <1>9, <1>12 DEF Saving, Ending
    <2>2. row' = [cur |-> NoServer, data |-> h.data]
      BY <1>3, <1>12, <2>1 DEF DbSave, Takes
    <2>3. row'.cur = NoServer /\ row'.data = h.data
      BY <2>2
    <2>4. HasLeave(q) /\ \A d : LeaveWith(q, d) <=> h.data = d
      BY <1>3, <1>4, <1>12, TailWhat DEF q
    <2>5. Current = h.data
      BY <1>5, <1>10, <2>1, <2>4 DEF IsNow, q
    <2>6. IsNow(h.data, row', mem', queue')
      BY <2>3 DEF IsNow
    <2>7. StayWith(mem'[s], queue'[s], row'.data)
      BY <1>3, <2>1 DEF StayWith
    <2> QED BY <2>5, <2>6, <2>7, NowNext
  <1>13. CASE op = "release"
    <2>1. mem[s].state = "out" /\ ~HasSaves(Tail(q))
      BY <1>3, <1>9, <1>13 DEF Ending
    <2>2. row' = IF row.cur = s THEN [row EXCEPT !.cur = NoServer] ELSE row
      BY <1>3, <1>13 DEF DbSave, Takes
    <2>3. StayWith(mem'[s], queue'[s], row'.data)
      BY <1>3, <2>1 DEF StayWith
    <2>4. /\ HasLeave(Tail(q)) <=> HasLeave(q)
          /\ \A d : LeaveWith(Tail(q), d) <=> LeaveWith(q, d)
      <3>1. h.op # "logout"
        BY <1>3, <1>13
      <3> QED BY <1>3, <3>1, TailWhat DEF q
    <2>5. ~HasLeave(Tail(q))
      BY <2>1 DEF HasLeave, HasSaves, Saving
    <2>6. CASE row.cur = s
      <3>1. Current = row.data
        BY <1>5, <1>10, <2>1, <2>4, <2>5, <2>6 DEF IsNow, q
      <3>2. row'.cur = NoServer /\ row'.data = row.data
        BY <1>5, <2>2, <2>6 DEF RowTypes
      <3>3. IsNow(row.data, row', mem', queue')
        BY <3>2 DEF IsNow
      <3> QED BY <2>3, <3>1, <3>3, NowNext
    <2>7. CASE row.cur # s
      <3>1. Current' = Current
        BY <1>1, <1>3, <2>2, <2>4, <2>7, SameNow DEF q
      <3> QED BY <2>3, <3>1
    <2> QED BY <2>6, <2>7
  <1> QED BY <1>11, <1>12, <1>13

(* A task goes into the table, or check_task begins.                       *)
LEMMA OtherNow ==
    ASSUME TypeOK, AllAt0, AllStay, TypeOK', AllAt0', NEW s \in Servers,
           DbAddTask(s) \/ LockTables(s)
    PROVE  AllStay' /\ Current' = Current
  <1> DEFINE q == queue[s]
  <1>1. Elsewhere(s) /\ RowFrom(s)
    BY OtherQuerySteady DEF AllAt0, StepOK
  <1>2. PICK op \in {"add", "check"} : Takes(s, op)
    BY DEF DbAddTask, LockTables
  <1>3. /\ q \in Seq(Queries) /\ q # <<>> /\ Head(q).op = op /\ queue'[s] = Tail(q)
        /\ OrderedQueue(q) /\ mem' = mem /\ row' = row
    BY <1>2, TakesAlone DEF DbAddTask, LockTables, AllAt0, At0
  <1>4. StayWith(mem[s], q, row.data)
    BY DEF AllStay, Stay
  <1>5. SUFFICES StayWith(mem'[s], queue'[s], row'.data) /\ Current' = Current
    BY <1>1, StayElsewhere DEF AllStay, Stay
  <1> HIDE DEF q
  <1>6. StayWith(mem[s], Tail(q), row.data)
    BY <1>3, <1>4, StayTail
  <1>7. /\ HasLeave(Tail(q)) <=> HasLeave(q)
        /\ \A d : LeaveWith(Tail(q), d) <=> LeaveWith(q, d)
    BY <1>3, TailWhat
  <1>8. Current' = Current
    BY <1>1, <1>3, <1>7, SameNow DEF q
  <1> QED BY <1>3, <1>6, <1>8

(* A step of check_task that leaves the character alone.                   *)
LEMMA StillNow ==
    ASSUME AllStay, mem' = mem, queue' = queue, row' = row
    PROVE  AllStay' /\ Current' = Current
  <1>1. \A s \in Servers : StayWith(mem'[s], queue'[s], row'.data)
    BY DEF AllStay, Stay
  <1>2. AllStay'
    BY <1>1 DEF AllStay, Stay
  <1>3. Current' = Current
    BY DEF Current, Leaves
  <1> QED BY <1>2, <1>3

(* A step that does the task, in memory or in the row.                     *)
LEMMA DoneNow ==
    ASSUME TypeOK, AllAt0, AllStay, TypeOK', AllAt0', NEW s \in Servers,
           WriteRow(s) \/ (FindOnline(s) /\ mem[s].state = "in")
    PROVE  AllStay' /\ Current' = Done(Current, Task(s))
  <1>1. Elsewhere(s) /\ RowFrom(s)
    BY CheckTaskSteady DEF AllAt0, StepOK
  <1>2. /\ HasSaves(queue[s]) => row.cur = s
        /\ mem[s].state # "out" => row.cur = s
        /\ step[s] = "write" => row.cur = NoServer /\ copy[s] = row.data
    BY QueuePromise DEF AllAt0
  <1>3. SUFFICES StayWith(mem'[s], queue'[s], row'.data) /\ Current' = Done(Current, Task(s))
    BY <1>1, StayElsewhere DEF AllStay, Stay
  <1>4. mem \in [Servers -> MemTypes] /\ row \in RowTypes /\ s # NoServer
    BY TaskAssumption DEF TypeOK, MemTypes, RowTypes
  <1>5. CASE WriteRow(s)
    <2>1. /\ row' = [row EXCEPT !.data = Done(copy[s], Task(s))]
          /\ row.cur = NoServer /\ copy[s] = row.data /\ mem' = mem /\ queue' = queue
      BY <1>2, <1>5 DEF WriteRow, At, server
    <2>2. row'.cur = NoServer /\ row'.data = Done(row.data, Task(s))
      BY <1>4, <2>1 DEF RowTypes
    <2>3. Current = row.data
      BY <2>1 DEF Current
    <2>4. Current' = row'.data
      BY <2>2 DEF Current
    <2>5. mem[s].state = "out" /\ ~HasSaves(queue[s])
      BY <1>2, <1>4, <2>1
    <2> QED BY <2>1, <2>2, <2>3, <2>4, <2>5 DEF StayWith
  <1>6. CASE FindOnline(s) /\ mem[s].state = "in"
    <2>1. /\ mem' = [mem EXCEPT ![s].data = Done(mem[s].data, Task(s))]
          /\ row' = row /\ row.cur = s
      BY <1>2, <1>6 DEF FindOnline, database
    <2>2. mem'[s].state = "in" /\ mem'[s].data = Done(mem[s].data, Task(s))
      BY <1>4, <1>6, <2>1 DEF MemTypes
    <2>3. Current = mem[s].data
      BY <1>4, <1>6, <2>1 DEF Current
    <2>4. IsNow(mem'[s].data, row', mem', queue')
      BY <1>4, <2>1, <2>2 DEF IsNow
    <2>5. Current' = mem'[s].data
      BY <2>4, NowNext
    <2> QED BY <2>2, <2>3, <2>5 DEF StayWith
  <1> QED BY <1>5, <1>6

(* A server starts: nobody had the character, or nothing newer than its    *)
(* row.                                                                    *)
LEMMA StartNow ==
    ASSUME TypeOK, AllAt0, AllStay, TypeOK', AllAt0', NEW s \in Servers, Start(s)
    PROVE  AllStay' /\ Current' = Current
  <1>1. Elsewhere(s) /\ RowFrom(s)
    BY CrashSteady DEF AllAt0, StepOK
  <1>2. mem[s].state = "out" /\ queue[s] = <<>> /\ mem' = mem /\ queue' = queue
    BY DEF Start, AllAt0, At0, Quiet
  <1>3. ~HasSaves(queue[s]) /\ ~HasLeave(queue[s])
    BY <1>2 DEF HasSaves, HasLeave
  <1>4. StayWith(mem'[s], queue'[s], row'.data)
    BY <1>2, <1>3 DEF StayWith
  <1>5. AllStay'
    BY <1>1, <1>4, StayElsewhere DEF AllStay, Stay
  <1>6. CASE row.cur = s
    <2>1. IsNow(Current, row, mem, queue)
      BY Exact DEF NowIs
    <2>2. Current = row.data
      BY <1>2, <1>3, <1>6, <2>1 DEF IsNow
    <2>3. row' = [row EXCEPT !.cur = NoServer] /\ row \in RowTypes
      BY <1>6 DEF Start, TypeOK, RowTypes
    <2>4. row'.cur = NoServer /\ row'.data = row.data
      BY <2>3 DEF RowTypes
    <2>5. Current' = row'.data
      BY <2>4 DEF Current
    <2> QED BY <1>5, <2>2, <2>4, <2>5
  <1>7. CASE row.cur # s
    <2>1. row' = row
      BY <1>7 DEF Start
    <2> QED BY <1>2, <1>5, <2>1, StillNow
  <1> QED BY <1>6, <1>7

-----------------------------------------------------------------------------
(* Tasks on their way into the table.                                      *)

Adds(s, i, t) ==
    i \in 1..Len(queue[s]) /\ queue[s][i].op = "add" /\ queue[s][i].task = t

InQueue(t) == \E s \in Servers, i \in Nat : Adds(s, i, t)

(* A task is added once, and at a place Adding looks at.                   *)
Queued ==
    /\ \A s, r \in Servers, i, j \in Nat, t \in Tasks :
           Adds(s, i, t) /\ Adds(r, j, t) => s = r /\ i = j
    /\ \A s \in Servers, i \in Nat, t \in Tasks : Adds(s, i, t) => i <= MaxQueue

(* A query that adds nothing comes to the end of a queue.                  *)
LEMMA AppendQueued ==
    ASSUME TypeOK, NEW s \in Servers, NEW e \in Queries,
           queue' = [queue EXCEPT ![s] = Append(@, e)], e.op # "add", Queued
    PROVE  Queued' /\ \A t \in Tasks : InQueue(t)' <=> InQueue(t)
  <1>1. queue[s] \in Seq(Queries) /\ queue'[s] = Append(queue[s], e)
        /\ \A r \in Servers \ {s} : queue'[r] = queue[r]
    BY DEF TypeOK
  <1>2. /\ Len(queue'[s]) = Len(queue[s]) + 1 /\ Len(queue[s]) \in Nat
        /\ \A i \in 1..Len(queue[s]) : queue'[s][i] = queue[s][i]
        /\ queue'[s][Len(queue[s]) + 1] = e
    BY <1>1, AppendElements
  <1>3. \A r \in Servers, i \in Nat, t \in Tasks : Adds(r, i, t)' <=> Adds(r, i, t)
    <2> SUFFICES ASSUME NEW r \in Servers, NEW i \in Nat, NEW t \in Tasks
                 PROVE  Adds(r, i, t)' <=> Adds(r, i, t)
      OBVIOUS
    <2>1. CASE r = s
      <3>1. i \in 1..Len(queue'[s]) <=> i \in 1..Len(queue[s]) \/ i = Len(queue[s]) + 1
        BY <1>2
      <3> QED BY <1>2, <2>1, <3>1 DEF Adds
    <2>2. CASE r # s
      BY <1>1, <2>2 DEF Adds
    <2> QED BY <2>1, <2>2
  <1>4. Queued'
    BY <1>3 DEF Queued
  <1>5. \A t \in Tasks : InQueue(t)' <=> InQueue(t)
    BY <1>3 DEF InQueue
  <1> QED BY <1>4, <1>5

(* One that adds a task nobody has added.                                  *)
LEMMA AddQueued ==
    ASSUME TypeOK, NEW s \in Servers, NEW e \in Queries,
           queue' = [queue EXCEPT ![s] = Append(@, e)], e.op = "add", Queued,
           ~InQueue(e.task), Len(queue[s]) < MaxQueue
    PROVE  Queued' /\ \A t \in Tasks : InQueue(t)' <=> InQueue(t) \/ t = e.task
  <1> DEFINE n == Len(queue[s]) + 1
  <1>1. queue[s] \in Seq(Queries) /\ queue'[s] = Append(queue[s], e)
        /\ \A r \in Servers \ {s} : queue'[r] = queue[r]
    BY DEF TypeOK
  <1>2. /\ Len(queue'[s]) = n /\ Len(queue[s]) \in Nat
        /\ \A i \in 1..Len(queue[s]) : queue'[s][i] = queue[s][i]
        /\ queue'[s][n] = e
    BY <1>1, AppendElements
  <1>3. n \in Nat /\ n <= MaxQueue
    BY <1>2, TaskAssumption
  <1>4. \A r \in Servers, i \in Nat, t \in Tasks :
            Adds(r, i, t)' <=> Adds(r, i, t) \/ (r = s /\ i = n /\ t = e.task)
    <2> SUFFICES ASSUME NEW r \in Servers, NEW i \in Nat, NEW t \in Tasks
                 PROVE  Adds(r, i, t)' <=> Adds(r, i, t) \/ (r = s /\ i = n /\ t = e.task)
      OBVIOUS
    <2>1. CASE r = s
      <3>1. i \in 1..n <=> i \in 1..Len(queue[s]) \/ i = n
        BY <1>2
      <3> HIDE DEF n
      <3> QED BY <1>2, <2>1, <3>1 DEF Adds
    <2>2. CASE r # s
      BY <1>1, <2>2 DEF Adds
    <2> QED BY <2>1, <2>2
  <1> HIDE DEF n
  <1>5. \A r \in Servers, i \in Nat : ~Adds(r, i, e.task)
    BY DEF InQueue
  <1>6. Queued'
    <2>1. ASSUME NEW r \in Servers, NEW i \in Nat, NEW t \in Tasks, Adds(r, i, t)'
          PROVE  i <= MaxQueue
      BY <1>3, <1>4, <2>1 DEF Queued
    <2>2. ASSUME NEW r \in Servers, NEW i \in Nat, NEW q \in Servers, NEW j \in Nat,
                 NEW t \in Tasks, Adds(r, i, t)', Adds(q, j, t)'
          PROVE  r = q /\ i = j
      BY <1>4, <1>5, <2>2 DEF Queued
    <2> QED BY <2>1, <2>2 DEF Queued
  <1>7. \A t \in Tasks : InQueue(t)' <=> InQueue(t) \/ t = e.task
    BY <1>3, <1>4 DEF InQueue
  <1> QED BY <1>6, <1>7

(* The first query goes.                                                   *)
LEMMA TailQueued ==
    ASSUME TypeOK, NEW s \in Servers, NEW op, Takes(s, op), Queued
    PROVE  /\ Queued'
           /\ op # "add" => \A t \in Tasks : InQueue(t)' <=> InQueue(t)
           /\ op = "add" => /\ Head(queue[s]).task \in Tasks
                            /\ InQueue(Head(queue[s]).task)
                            /\ \A t \in Tasks :
                                 InQueue(t)' <=> InQueue(t) /\ t # Head(queue[s]).task
  <1>1. /\ queue[s] \in Seq(Queries) /\ queue[s] # <<>> /\ queue'[s] = Tail(queue[s])
        /\ Head(queue[s]) \in Queries /\ Head(queue[s]).op = op
        /\ \A r \in Servers \ {s} : queue'[r] = queue[r]
    BY TakesType
  <1> DEFINE h == Head(queue[s])
  <1>2. /\ Len(queue'[s]) = Len(queue[s]) - 1 /\ Len(queue[s]) \in Nat \ {0}
        /\ \A i \in 1..Len(queue'[s]) : i + 1 \in 1..Len(queue[s])
                                        /\ queue'[s][i] = queue[s][i + 1]
        /\ h = queue[s][1]
    BY <1>1, TailElements
  <1> HIDE DEF h
  <1>3. \A i \in Nat, t \in Tasks : Adds(s, i, t)' <=> i # 0 /\ Adds(s, i + 1, t)
    <2> SUFFICES ASSUME NEW i \in Nat, NEW t \in Tasks
                 PROVE  Adds(s, i, t)' <=> i # 0 /\ Adds(s, i + 1, t)
      OBVIOUS
    <2>1. i \in 1..Len(queue'[s]) <=> i # 0 /\ i + 1 \in 1..Len(queue[s])
      BY <1>2
    <2> QED BY <1>2, <2>1 DEF Adds
  <1>4. \A r \in Servers \ {s}, i \in Nat, t \in Tasks : Adds(r, i, t)' <=> Adds(r, i, t)
    BY <1>1 DEF Adds
  <1>5. \A t \in Tasks : Adds(s, 1, t) <=> h.op = "add" /\ h.task = t
    BY <1>2 DEF Adds
  <1>6. \A t \in Tasks : ~Adds(s, 0, t)
    BY DEF Adds
  <1>7. Queued'
    <2>1. ASSUME NEW r \in Servers, NEW i \in Nat, NEW t \in Tasks, Adds(r, i, t)'
          PROVE  i <= MaxQueue
      <3>1. CASE r = s
        <4>1. i + 1 \in Nat /\ i + 1 <= MaxQueue
          BY <1>3, <2>1, <3>1 DEF Queued
        <4> QED BY <4>1, TaskAssumption
      <3>2. CASE r # s
        BY <1>4, <2>1, <3>2 DEF Queued
      <3> QED BY <3>1, <3>2
    <2>2. ASSUME NEW r \in Servers, NEW i \in Nat, NEW q \in Servers, NEW j \in Nat,
                 NEW t \in Tasks, Adds(r, i, t)', Adds(q, j, t)'
          PROVE  r = q /\ i = j
      <3> DEFINE Old(x, k) == IF x = s THEN k + 1 ELSE k
      <3>1. /\ Old(r, i) \in Nat /\ Adds(r, Old(r, i), t)
            /\ Old(q, j) \in Nat /\ Adds(q, Old(q, j), t)
        BY <1>3, <1>4, <2>2
      <3>2. r = q /\ Old(r, i) = Old(q, j)
        BY <3>1 DEF Queued
      <3> QED BY <3>2
    <2> QED BY <2>1, <2>2 DEF Queued
  <1>8. ASSUME NEW t \in Tasks
        PROVE  InQueue(t)' <=> InQueue(t) /\ ~(h.op = "add" /\ h.task = t)
    <2>1. ASSUME InQueue(t)' PROVE InQueue(t) /\ ~(h.op = "add" /\ h.task = t)
      <3>1. PICK r \in Servers, i \in Nat : Adds(r, i, t)'
        BY <2>1 DEF InQueue
      <3> DEFINE k == IF r = s THEN i + 1 ELSE i
      <3>2. k \in Nat /\ Adds(r, k, t) /\ (r = s => k # 1)
        BY <1>3, <1>4, <3>1
      <3>3. ASSUME h.op = "add", h.task = t PROVE FALSE
        BY <1>5, <3>2, <3>3 DEF Queued
      <3> QED BY <3>2, <3>3 DEF InQueue
    <2>2. ASSUME InQueue(t), ~(h.op = "add" /\ h.task = t) PROVE InQueue(t)'
      <3>1. PICK r \in Servers, i \in Nat : Adds(r, i, t)
        BY <2>2 DEF InQueue
      <3>2. CASE r = s
        <4>1. i # 0 /\ i # 1
          BY <1>5, <1>6, <2>2, <3>1, <3>2
        <4>2. i - 1 \in Nat /\ i - 1 # 0 /\ (i - 1) + 1 = i
          BY <4>1
        <4>3. Adds(s, i - 1, t)'
          BY <1>3, <3>1, <3>2, <4>2
        <4> QED BY <4>2, <4>3 DEF InQueue
      <3>3. CASE r # s
        BY <1>4, <3>1, <3>3 DEF InQueue
      <3> QED BY <3>2, <3>3
    <2> QED BY <2>1, <2>2
  <1>9. op = "add" => h.task \in Tasks /\ InQueue(h.task)
    <2>1. op = "add" => h.task \in Tasks
      BY <1>1, QueryFields DEF h
    <2> QED BY <1>1, <1>5, <2>1 DEF InQueue, h
  <1> QED BY <1>1, <1>7, <1>8, <1>9 DEF h

-----------------------------------------------------------------------------
(* Tasks in the table, and done and not deleted yet.                       *)

Deletes(s, t) == step[s] = "delete" /\ Task(s) = t
Waits(t) == table[t] = 1 /\ \A s \in Servers : ~Deletes(s, t)

(* What is left of the result of the select is in the table.               *)
Listed(s) == step[s] \in {"find", "row", "write", "delete"} =>
    \A i, j \in 1..Len(todo[s]) :
        table[todo[s][i]] = 1 /\ (todo[s][i] = todo[s][j] => i = j)

(* A task is added, waits or has been done; once, if nothing fails.        *)
Count(t) ==
    /\ table[t] \in {0, 1}
    /\ t \notin issued => ~InQueue(t) /\ table[t] = 0 /\ Current[t] = 0
    /\ InQueue(t) => table[t] = 0 /\ Current[t] = 0
    /\ t \in issued /\ ~InQueue(t) =>
         /\ Waits(t) \/ Current[t] >= 1
         /\ trouble = <<>> => Current[t] = IF Waits(t) THEN 0 ELSE 1

AllListed == \A s \in Servers : Listed(s)
AllCount == \A t \in Tasks : Count(t)

NoneLost == ~Happened("crash") /\ ~Happened("reconnect")

TaskInv == NoneLost => AllStay /\ AllListed /\ Queued /\ AllCount

(* Nothing about a task changes.                                           *)
LEMMA CountSame ==
    ASSUME NEW t, Count(t), Current'[t] = Current[t], InQueue(t)' <=> InQueue(t),
           table'[t] = table[t], Waits(t)' <=> Waits(t), t \in issued' <=> t \in issued,
           trouble' = <<>> => trouble = <<>>
    PROVE  Count(t)'
  BY DEF Count

(* The tables are locked: only one server is in check_task.                *)
Alone(s) == \A r \in Servers \ {s} : step[r] = "idle" /\ step'[r] = "idle"

(* Only it may be about to delete a task.                                  *)
LEMMA WaitsAlone ==
    ASSUME NEW s \in Servers, Alone(s), NEW t
    PROVE  /\ Waits(t) <=> table[t] = 1 /\ ~(step[s] = "delete" /\ Head(todo[s]) = t)
           /\ Waits(t)' <=> table'[t] = 1 /\ ~(step'[s] = "delete" /\ Head(todo'[s]) = t)
  <1>1. \A r \in Servers \ {s} : ~(step[r] = "delete") /\ ~(step'[r] = "delete")
    BY DEF Alone
  <1> QED BY <1>1 DEF Waits, Deletes, Task

(* Only its result has rows that are not gone through.                     *)
LEMMA ListedAlone ==
    ASSUME NEW s \in Servers, Alone(s), Listed(s)'
    PROVE  AllListed'
  <1> SUFFICES ASSUME NEW r \in Servers \ {s} PROVE Listed(r)'
    BY DEF AllListed
  <1>1. step'[r] = "idle"
    BY DEF Alone
  <1> QED BY <1>1 DEF Listed

(* A row of the table for every task in it, when none is in it twice.      *)
LEMMA RowsListed ==
    ASSUME NEW tab, \A t \in Tasks : tab[t] \in {0, 1}
    PROVE  \A i, j \in 1..Len(Rows(tab)) :
               tab[Rows(tab)[i][1]] = 1 /\ (Rows(tab)[i][1] = Rows(tab)[j][1] => i = j)
  <1> DEFINE S == {p \in Tasks \X (1..2) : p[2] <= tab[p[1]]}
             R == SetToSeq(S)
  <1>1. IsFiniteSet(Tasks \X (1..2))
    <2>1. IsFiniteSet(1..2)
      <3>1. 1 \in Int /\ 2 \in Int
        OBVIOUS
      <3> QED BY <3>1, FS_Interval, Zenon
    <2> QED BY <2>1, FS_Product, TaskAssumption
  <1>2. S \subseteq Tasks \X (1..2) /\ \A p \in S : p[2] <= tab[p[1]]
    OBVIOUS
  <1> HIDE DEF S
  <1>3. Cardinality(S) \in Nat /\ ExistsBijection(1..Cardinality(S), S)
    BY <1>1, <1>2, FS_Subset, FS_CardinalityType
  <1>4. \E f \in [1..Cardinality(S) -> S] : IsInjective(f)
    BY <1>3 DEF ExistsBijection, Bijection, Injection
  <1>5. R \in [1..Cardinality(S) -> S] /\ IsInjective(R)
    BY <1>4 DEF SetToSeq
  <1>6. Len(R) = Cardinality(S)
    BY <1>3, <1>5
  <1>7. \A i \in 1..Len(R) : R[i] \in S
    BY <1>5, <1>6
  <1>8. \A i, j \in 1..Len(R) : R[i] = R[j] => i = j
    BY <1>5, <1>6 DEF IsInjective
  <1>9. \A p \in S : tab[p[1]] = 1 /\ p = <<p[1], 1>>
    <2> SUFFICES ASSUME NEW p \in S PROVE tab[p[1]] = 1 /\ p[2] = 1
      BY <1>2
    <2>1. p[1] \in Tasks /\ p[2] \in 1..2 /\ p[2] <= tab[p[1]]
      BY <1>2
    <2>2. tab[p[1]] \in {0, 1}
      BY <2>1
    <2> QED BY <2>1, <2>2
  <1> HIDE DEF R
  <1>10. \A i, j \in 1..Len(R) : tab[R[i][1]] = 1 /\ (R[i][1] = R[j][1] => i = j)
    BY <1>7, <1>8, <1>9
  <1> QED BY <1>10 DEF Rows, R, S

(* What is left of the result after a row of it.                           *)
LEMMA ListedTail ==
    ASSUME TypeOK, NEW s \in Servers, todo[s] # <<>>, Listed(s),
           step[s] \in {"find", "row", "write", "delete"}, Following(s)
    PROVE  /\ step'[s] = "find" /\ table[Task(s)] = 1 /\ Task(s) \in Tasks
           /\ \A i, j \in 1..Len(todo'[s]) :
                  /\ table[todo'[s][i]] = 1 /\ todo'[s][i] # Task(s)
                  /\ todo'[s][i] \in Tasks
                  /\ todo'[s][i] = todo'[s][j] => i = j
  <1> DEFINE l == todo[s]
  <1>1. /\ l \in Seq(Tasks) /\ l # <<>> /\ todo'[s] = Tail(l) /\ Task(s) = l[1]
        /\ step'[s] = "find"
    BY DEF TypeOK, Following, Goto, Task
  <1> HIDE DEF l
  <1>2. /\ Len(Tail(l)) = Len(l) - 1 /\ Len(l) \in Nat \ {0}
        /\ \A i \in 1..Len(Tail(l)) : i + 1 \in 1..Len(l) /\ Tail(l)[i] = l[i + 1]
        /\ \A i \in 1..Len(l) : l[i] \in Tasks
    BY <1>1
  <1>3. \A i, j \in 1..Len(l) : table[l[i]] = 1 /\ (l[i] = l[j] => i = j)
    BY DEF Listed, l
  <1>4. 1 \in 1..Len(l)
    BY <1>2
  <1>5. ASSUME NEW i \in 1..Len(Tail(l)), NEW j \in 1..Len(Tail(l))
        PROVE  /\ table[Tail(l)[i]] = 1 /\ Tail(l)[i] # l[1] /\ Tail(l)[i] \in Tasks
               /\ Tail(l)[i] = Tail(l)[j] => i = j
    <2>1. /\ i + 1 \in 1..Len(l) /\ Tail(l)[i] = l[i + 1] /\ i + 1 # 1
          /\ j + 1 \in 1..Len(l) /\ Tail(l)[j] = l[j + 1] /\ (i + 1 = j + 1 => i = j)
      BY <1>2
    <2> QED BY <1>2, <1>3, <1>4, <2>1
  <1> QED BY <1>1, <1>2, <1>3, <1>4, <1>5

(* Something has gone wrong.                                               *)
LEMMA GoesOn ==
    ASSUME TypeOK, NEW kind, Goes(kind)
    PROVE  trouble' # <<>> /\ Happened(kind)'
  <1>1. trouble \in Seq(Troubles) /\ trouble' = Append(trouble, kind)
    BY DEF TypeOK, Goes
  <1>2. /\ Len(trouble') = Len(trouble) + 1 /\ Len(trouble) \in Nat
        /\ trouble'[Len(trouble')] = kind
    BY <1>1
  <1>3. Len(trouble') \in 1..Len(trouble')
    BY <1>2
  <1>4. trouble' # <<>>
    BY <1>2
  <1> QED BY <1>2, <1>3, <1>4 DEF Happened, Contains

(* What has not happened after a step had not before it.                   *)
LEMMA NotBefore ==
    ASSUME TypeOK, Next, NEW kind, ~Happened(kind)'
    PROVE  ~Happened(kind)
  <1>1. trouble \in Seq(Troubles)
    BY DEF TypeOK
  <1>2. \A i \in 1..Len(trouble') : trouble'[i] # kind
    BY DEF Happened, Contains
  <1>3. \A i \in 1..Len(trouble) : trouble[i] # kind
    <2>1. CASE trouble' = trouble
      BY <1>2, <2>1
    <2>2. ASSUME NEW other \in Troubles, trouble' = Append(trouble, other)
          PROVE  \A i \in 1..Len(trouble) : trouble[i] # kind
      BY <1>1, <1>2, <2>2
    <2> QED BY <2>1, <2>2, TroubleGrows
  <1> QED BY <1>3 DEF Happened, Contains

(* Neither had anything at all.                                            *)
LEMMA CalmBefore ==
    ASSUME TypeOK, Next
    PROVE  trouble' = <<>> => trouble = <<>>
  <1>1. trouble \in Seq(Troubles)
    BY DEF TypeOK
  <1>2. ASSUME NEW kind \in Troubles, trouble' = Append(trouble, kind)
        PROVE  trouble' # <<>>
    <2>1. Len(trouble') = Len(trouble) + 1 /\ Len(trouble) \in Nat
      BY <1>1, <1>2
    <2> QED BY <2>1
  <1> QED BY <1>2, TroubleGrows

NowInv == AllStay /\ AllListed /\ Queued /\ AllCount

(* A step that has nothing to do with check_task or the table.             *)
LEMMA SameThread ==
    ASSUME step' = step, todo' = todo, table' = table
    PROVE  /\ AllListed => AllListed'
           /\ \A t : Waits(t)' <=> Waits(t)
  <1>1. ASSUME NEW s \in Servers, Listed(s) PROVE Listed(s)'
    BY <1>1 DEF Listed
  <1>2. \A t : Waits(t)' <=> Waits(t)
    BY DEF Waits, Deletes, Task
  <1> QED BY <1>1, <1>2 DEF AllListed

(* The main thread.                                                        *)
LEMMA MainCount ==
    ASSUME TypeOK, AllAt0, TypeOK', AllAt0', NowInv, NEW s \in Servers, MainStep(s)
    PROVE  NowInv'
  <1>1. AllStay' /\ Current' = Current
    BY MainNow DEF NowInv
  <1>2. step' = step /\ todo' = todo /\ table' = table /\ trouble' = trouble
    BY DEF MainStep, Login, TickLogin, TickLoginFails, Backup, Logout, CallCheckTask, AddTask,
           thread, database
  <1>3. AllListed' /\ \A t : Waits(t)' <=> Waits(t)
    BY <1>2, SameThread DEF NowInv
  <1>4. SUFFICES Queued' /\ AllCount'
    BY <1>1, <1>3 DEF NowInv
  <1>5. Current' \in Data /\ mem[s].data \in Data
    BY <1>1, CurrentData DEF TypeOK
  <1>6. ASSUME issued' = issued, Queued', \A t \in Tasks : InQueue(t)' <=> InQueue(t)
        PROVE  Queued' /\ AllCount'
    BY <1>1, <1>2, <1>3, <1>6, CountSame DEF NowInv, AllCount
  <1>7. ASSUME NEW e \in Queries, queue' = [queue EXCEPT ![s] = Append(@, e)], e.op # "add",
               issued' = issued
        PROVE  Queued' /\ AllCount'
    <2>1. Queued' /\ \A t \in Tasks : InQueue(t)' <=> InQueue(t)
      BY <1>7, AppendQueued DEF NowInv
    <2> QED BY <1>6, <1>7, <2>1
  <1>8. CASE Login(s)
    BY <1>7, <1>8, QueryTypes DEF Login, Queue, Put, LoadQuery
  <1>9. CASE TickLogin(s)
    <2>1. queue' = queue /\ issued' = issued
      BY <1>9 DEF TickLogin
    <2>2. Queued' /\ \A t \in Tasks : InQueue(t)' <=> InQueue(t)
      BY <2>1 DEF NowInv, Queued, InQueue, Adds
    <2> QED BY <1>6, <2>1, <2>2
  <1>10. CASE TickLoginFails(s)
    BY <1>7, <1>10, QueryTypes DEF TickLoginFails, Queue, Put, ReleaseQuery
  <1>11. CASE Backup(s)
    BY <1>5, <1>7, <1>11, QueryTypes DEF Backup, Queue, Put
  <1>12. CASE Logout(s)
    BY <1>5, <1>7, <1>12, QueryTypes DEF Logout, Queue, Put
  <1>13. CASE CallCheckTask(s)
    BY <1>7, <1>13, QueryTypes DEF CallCheckTask, Put, CheckQuery
  <1>14. ASSUME NEW u \in Tasks, AddTask(s, u) PROVE Queued' /\ AllCount'
    <2> DEFINE e == [op |-> "add", task |-> u]
    <2>1. /\ e \in Queries /\ e.op = "add" /\ e.task = u
          /\ queue' = [queue EXCEPT ![s] = Append(@, e)] /\ Len(queue[s]) < MaxQueue
          /\ u \notin issued /\ issued' = issued \cup {u}
      BY <1>14, QueryTypes DEF AddTask, Queue, Put
    <2> HIDE DEF e
    <2>2. ~InQueue(u) /\ table[u] = 0 /\ Current[u] = 0
      BY <2>1 DEF NowInv, AllCount, Count
    <2>3. Queued' /\ \A t \in Tasks : InQueue(t)' <=> InQueue(t) \/ t = u
      BY <2>1, <2>2, AddQueued DEF NowInv
    <2>4. ASSUME NEW t \in Tasks PROVE Count(t)'
      <3>1. CASE t = u
        BY <1>1, <1>2, <2>1, <2>2, <2>3, <3>1 DEF Count
      <3>2. CASE t # u
        <4>1. Count(t) /\ (InQueue(t)' <=> InQueue(t)) /\ (t \in issued' <=> t \in issued)
          BY <2>1, <2>3, <3>2 DEF NowInv, AllCount
        <4> QED BY <1>1, <1>2, <1>3, <4>1, CountSame
      <3> QED BY <3>1, <3>2
    <2> QED BY <2>3, <2>4 DEF AllCount
  <1> QED BY <1>8, <1>9, <1>10, <1>11, <1>12, <1>13, <1>14 DEF MainStep

(* The database thread: the character is loaded, saved or released.        *)
LEMMA OwnCount ==
    ASSUME TypeOK, AllAt0, TypeOK', AllAt0', NowInv, NEW s \in Servers,
           DbLoad(s) \/ DbSave(s)
    PROVE  NowInv'
  <1>1. AllStay' /\ Current' = Current
    BY LoadNow, SaveNow DEF NowInv
  <1>2. /\ step' = step /\ todo' = todo /\ table' = table /\ trouble' = trouble
        /\ issued' = issued
    BY DEF DbLoad, DbSave, thread
  <1>3. AllListed' /\ \A t : Waits(t)' <=> Waits(t)
    BY <1>2, SameThread DEF NowInv
  <1>4. PICK op \in {"load", "backup", "logout", "release"} : Takes(s, op)
    BY DEF DbLoad, DbSave
  <1>5. Queued' /\ \A t \in Tasks : InQueue(t)' <=> InQueue(t)
    BY <1>4, TailQueued DEF NowInv
  <1>6. AllCount'
    BY <1>1, <1>2, <1>3, <1>5, CountSame DEF NowInv, AllCount
  <1> QED BY <1>1, <1>3, <1>5, <1>6 DEF NowInv

(* A task goes into the table.                                             *)
LEMMA AddCount ==
    ASSUME TypeOK, AllAt0, TypeOK', AllAt0', NowInv, NEW s \in Servers, DbAddTask(s),
           ~Happened("reconnect")'
    PROVE  NowInv'
  <1> DEFINE u == Head(queue[s]).task
  <1>1. AllStay' /\ Current' = Current
    BY OtherNow DEF NowInv
  <1>2. Takes(s, "add") /\ step' = step /\ todo' = todo
    BY DEF DbAddTask, thread
  <1>3. \A r \in Servers : step[r] = "idle" /\ step'[r] = "idle"
    BY <1>2, TakesAlone DEF AllAt0
  <1>4. AllListed' /\ \A t : /\ Waits(t) <=> table[t] = 1
                             /\ Waits(t)' <=> table'[t] = 1
    BY <1>3 DEF AllListed, Listed, Waits, Deletes
  <1>5. /\ Queued' /\ u \in Tasks /\ InQueue(u)
        /\ \A t \in Tasks : InQueue(t)' <=> InQueue(t) /\ t # u
    BY <1>2, TailQueued DEF NowInv
  <1>6. /\ table \in [Tasks -> Nat]
        /\ \/ /\ table' = [table EXCEPT ![u] = @ + 1] /\ issued' = issued
              /\ trouble' = trouble
           \/ issued' = issued \ {u} /\ table' = table /\ trouble' # <<>>
    BY GoesOn DEF DbAddTask, TypeOK
  <1> HIDE DEF u
  <1>7. table[u] = 0 /\ Current[u] = 0 /\ u \in issued
    BY <1>5 DEF NowInv, AllCount, Count
  <1>8. ASSUME NEW t \in Tasks PROVE Count(t)'
    <2>1. CASE t = u
      <3>1. \/ table'[u] = 1 /\ issued' = issued
            \/ u \notin issued' /\ table'[u] = 0
        BY <1>5, <1>6, <1>7
      <3> QED BY <1>1, <1>4, <1>5, <1>7, <2>1, <3>1 DEF Count
    <2>2. CASE t # u
      <3>1. /\ table'[t] = table[t] /\ (InQueue(t)' <=> InQueue(t))
            /\ (t \in issued' <=> t \in issued) /\ (trouble' = <<>> => trouble = <<>>)
        BY <1>5, <1>6, <2>2
      <3>2. Waits(t)' <=> Waits(t)
        BY <1>4, <3>1
      <3> QED BY <1>1, <3>1, <3>2, CountSame DEF NowInv, AllCount
    <2> QED BY <2>1, <2>2
  <1> QED BY <1>1, <1>4, <1>5, <1>8 DEF NowInv, AllCount

(* check_task begins.                                                      *)
LEMMA LockCount ==
    ASSUME TypeOK, AllAt0, TypeOK', AllAt0', NowInv, NEW s \in Servers, LockTables(s)
    PROVE  NowInv'
  <1>1. AllStay' /\ Current' = Current
    BY OtherNow DEF NowInv
  <1>2. /\ Takes(s, "check") /\ todo' = todo /\ table' = table /\ issued' = issued
        /\ trouble' = <<>> => trouble = <<>>
        /\ step' \in {step, [step EXCEPT ![s] = "select"]}
    BY GoesOn DEF LockTables, Goto
  <1>3. \A r \in Servers : step[r] = "idle" /\ step'[r] \in {"idle", "select"}
    <2>1. \A r \in Servers : step[r] = "idle"
      BY <1>2, TakesAlone DEF AllAt0
    <2> QED BY <1>2, <2>1 DEF TypeOK
  <1>4. AllListed' /\ \A t : Waits(t)' <=> Waits(t)
    <2>1. \A r \in Servers : /\ step[r] # "delete"
                             /\ step'[r] \notin {"find", "row", "write", "delete"}
      BY <1>3
    <2> QED BY <1>2, <2>1 DEF AllListed, Listed, Waits, Deletes
  <1>5. Queued' /\ \A t \in Tasks : InQueue(t)' <=> InQueue(t)
    BY <1>2, TailQueued DEF NowInv
  <1>6. AllCount'
    BY <1>1, <1>2, <1>4, <1>5, CountSame DEF NowInv, AllCount
  <1> QED BY <1>1, <1>4, <1>5, <1>6 DEF NowInv

(* A server starts.                                                        *)
LEMMA StartCount ==
    ASSUME TypeOK, AllAt0, TypeOK', AllAt0', NowInv, NEW s \in Servers, Start(s)
    PROVE  NowInv'
  <1>1. AllStay' /\ Current' = Current
    BY StartNow DEF NowInv
  <1>2. /\ step' = step /\ todo' = todo /\ table' = table /\ trouble' = trouble
        /\ issued' = issued /\ queue' = queue
    BY DEF Start, thread
  <1>3. AllListed' /\ \A t : Waits(t)' <=> Waits(t)
    BY <1>2, SameThread DEF NowInv
  <1>4. Queued' /\ \A t \in Tasks : InQueue(t)' <=> InQueue(t)
    BY <1>2 DEF NowInv, Queued, InQueue, Adds
  <1>5. AllCount'
    BY <1>1, <1>2, <1>3, <1>4, CountSame DEF NowInv, AllCount
  <1> QED BY <1>1, <1>3, <1>4, <1>5 DEF NowInv

CheckStep(s) ==
    \/ SelectTasks(s) \/ SelectTasksFails(s) \/ FindOnline(s) \/ ReadRow(s)
    \/ WriteRow(s) \/ RowFails(s) \/ DeleteTask(s) \/ DeleteTaskFails(s)
    \/ UnlockTables(s)

(* Nobody else is in check_task, and nobody touches the queues.            *)
LEMMA CheckAlone ==
    ASSUME TypeOK, AllAt0, NEW s \in Servers, CheckStep(s)
    PROVE  /\ Alone(s) /\ queue' = queue /\ issued' = issued
           /\ Queued => Queued' /\ \A t : InQueue(t)' <=> InQueue(t)
           /\ trouble' = <<>> => trouble = <<>>
           /\ step \in [Servers -> Steps] /\ todo[s] \in Seq(Tasks)
           /\ step[s] \in {"row", "write", "delete"} => todo[s] # <<>>
  <1>1. /\ step[s] # "idle" /\ queue' = queue /\ \A r \in Servers \ {s} : step'[r] = step[r]
    BY WayOfCheckTask DEF CheckStep
  <1>2. \A r \in Servers \ {s} : step[r] = "idle"
    BY <1>1, TaskAssumption DEF AllAt0, At0, Writing
  <1>3. issued' = issued /\ (trouble' = <<>> => trouble = <<>>)
    BY GoesOn DEF CheckStep, SelectTasks, SelectTasksFails, FindOnline, ReadRow, WriteRow,
                  RowFails, DeleteTask, DeleteTaskFails, UnlockTables
  <1>4. Queued => Queued' /\ \A t : InQueue(t)' <=> InQueue(t)
    BY <1>1 DEF Queued, InQueue, Adds
  <1>5. /\ step \in [Servers -> Steps] /\ todo[s] \in Seq(Tasks)
        /\ step[s] \in {"row", "write", "delete"} => todo[s] # <<>>
    BY DEF TypeOK
  <1> QED BY <1>1, <1>2, <1>3, <1>4, <1>5 DEF Alone

(* Steps that neither do a task nor delete it.                             *)
LEMMA LookCount ==
    ASSUME TypeOK, AllAt0, NowInv, NEW s \in Servers,
           \/ SelectTasks(s) \/ SelectTasksFails(s) \/ UnlockTables(s)
           \/ (FindOnline(s) /\ mem[s].state # "in") \/ ReadRow(s) \/ RowFails(s)
    PROVE  NowInv'
  <1>1. /\ Alone(s) /\ queue' = queue /\ issued' = issued
        /\ Queued' /\ \A t : InQueue(t)' <=> InQueue(t)
        /\ trouble' = <<>> => trouble = <<>>
        /\ step \in [Servers -> Steps] /\ todo[s] \in Seq(Tasks)
        /\ step[s] \in {"row", "write", "delete"} => todo[s] # <<>>
    BY CheckAlone DEF CheckStep, NowInv
  <1>2. mem' = mem /\ row' = row /\ table' = table /\ step[s] # "delete"
    BY DEF SelectTasks, SelectTasksFails, UnlockTables, FindOnline, ReadRow, RowFails, At,
           server, database
  <1>3. AllStay' /\ Current' = Current
    BY <1>1, <1>2, StillNow DEF NowInv
  <1>4. \A t \in Tasks : table[t] \in {0, 1}
    BY DEF NowInv, AllCount, Count
  <1>5. Listed(s) /\ todo \in [Servers -> Seq(Tasks)]
    BY DEF NowInv, AllListed, TypeOK
  <1>6. Listed(s)' /\ step'[s] # "delete"
    <2>1. CASE SelectTasks(s)
      <3> DEFINE R == Rows(table)
                 l == [i \in 1..Len(R) |-> R[i][1]]
      <3>1. \A i, j \in 1..Len(R) : table[R[i][1]] = 1 /\ (R[i][1] = R[j][1] => i = j)
        BY <1>4, RowsListed
      <3>2. todo'[s] = l /\ step'[s] = "find"
        BY <1>1, <1>5, <2>1 DEF SelectTasks, Goto
      <3>3. Len(R) \in Nat
        BY RowsType
      <3> HIDE DEF R
      <3>4. Len(l) = Len(R) /\ \A i \in 1..Len(R) : l[i] = R[i][1]
        BY <3>3
      <3>5. \A i, j \in 1..Len(l) : table[l[i]] = 1 /\ (l[i] = l[j] => i = j)
        BY <3>1, <3>4
      <3> HIDE DEF l
      <3>6. \A i, j \in 1..Len(todo'[s]) :
                table'[todo'[s][i]] = 1 /\ (todo'[s][i] = todo'[s][j] => i = j)
        BY <1>2, <3>2, <3>5
      <3> QED BY <3>2, <3>6 DEF Listed
    <2>2. CASE SelectTasksFails(s) \/ UnlockTables(s)
      BY <1>1, <2>2 DEF SelectTasksFails, UnlockTables, Goto, Listed
    <2>3. CASE todo' = todo /\ step[s] \in {"find", "row"} /\ step'[s] \in {"row", "write"}
      BY <1>2, <1>5, <2>3 DEF Listed
    <2>4. CASE Following(s) /\ step[s] \in {"row", "write"}
      BY <1>1, <1>2, <1>5, <2>4, ListedTail DEF Listed
    <2>5. CASE FindOnline(s) /\ mem[s].state # "in"
      BY <1>1, <2>3, <2>5 DEF FindOnline, At, Goto
    <2>6. CASE ReadRow(s)
      BY <1>1, <2>3, <2>4, <2>6 DEF ReadRow, At, Goto
    <2>7. CASE RowFails(s)
      BY <2>4, <2>7 DEF RowFails, At
    <2> QED BY <2>1, <2>2, <2>5, <2>6, <2>7
  <1>7. AllListed'
    BY <1>1, <1>6, ListedAlone
  <1>8. \A t : Waits(t)' <=> Waits(t)
    BY <1>1, <1>2, <1>6, WaitsAlone
  <1>9. AllCount'
    BY <1>1, <1>2, <1>3, <1>8, CountSame DEF NowInv, AllCount
  <1> QED BY <1>1, <1>3, <1>7, <1>9 DEF NowInv

(* The step that does a task: nobody had done it.                          *)
LEMMA DoCount ==
    ASSUME TypeOK, AllAt0, TypeOK', AllAt0', NowInv, NEW s \in Servers,
           WriteRow(s) \/ (FindOnline(s) /\ mem[s].state = "in")
    PROVE  NowInv'
  <1> DEFINE u == Task(s)
  <1>1. /\ Alone(s) /\ queue' = queue /\ issued' = issued
        /\ Queued' /\ \A t : InQueue(t)' <=> InQueue(t)
        /\ trouble' = <<>> => trouble = <<>>
        /\ step \in [Servers -> Steps] /\ todo[s] \in Seq(Tasks)
        /\ step[s] \in {"row", "write", "delete"} => todo[s] # <<>>
    BY CheckAlone DEF CheckStep, NowInv
  <1>2. /\ table' = table /\ todo' = todo /\ step[s] \in {"find", "write"}
        /\ step'[s] = "delete" /\ todo[s] # <<>>
    BY <1>1 DEF WriteRow, FindOnline, At, Goto, server, database
  <1>3. AllStay' /\ Current' = Done(Current, u)
    BY DoneNow DEF NowInv
  <1>4. u = todo[s][1] /\ 1 \in 1..Len(todo[s]) /\ u \in Tasks
    BY <1>1, <1>2 DEF Task
  <1>5. Listed(s) /\ table[u] = 1
    BY <1>2, <1>4 DEF NowInv, AllListed, Listed
  <1>6. Listed(s)'
    BY <1>2, <1>5 DEF Listed
  <1>7. AllListed'
    BY <1>1, <1>6, ListedAlone
  <1>8. \A t : /\ Waits(t) <=> table[t] = 1
               /\ Waits(t)' <=> table[t] = 1 /\ t # u
    BY <1>1, <1>2, WaitsAlone DEF Task
  <1>9. Current \in Data
    BY CurrentData
  <1> HIDE DEF u
  <1>10. Current'[u] = Current[u] + 1 /\ \A t \in Tasks \ {u} : Current'[t] = Current[t]
    BY <1>3, <1>4, <1>9 DEF Done, Data
  <1>11. ASSUME NEW t \in Tasks PROVE Count(t)'
    <2>1. CASE t = u
      <3>1. u \in issued /\ ~InQueue(u) /\ (trouble = <<>> => Current[u] = 0)
        BY <1>4, <1>5, <1>8 DEF NowInv, AllCount, Count
      <3>2. Current[u] \in Nat
        BY <1>4, <1>9 DEF Data
      <3>3. Current'[u] >= 1 /\ (trouble = <<>> => Current'[u] = 1)
        BY <1>10, <3>1, <3>2
      <3>4. u \in issued' /\ table'[u] = 1
        BY <1>1, <1>2, <1>5, <3>1
      <3>5. InQueue(t)' <=> InQueue(t)
        BY <1>1
      <3>6. Waits(t)' <=> table[t] = 1 /\ t # u
        BY <1>8
      <3> QED BY <1>1, <2>1, <3>1, <3>3, <3>4, <3>5, <3>6 DEF Count
    <2>2. CASE t # u
      <3>1. Current'[t] = Current[t] /\ (Waits(t)' <=> Waits(t))
        BY <1>8, <1>10, <2>2
      <3> QED BY <1>1, <1>2, <3>1, CountSame DEF NowInv, AllCount
    <2> QED BY <2>1, <2>2
  <1> QED BY <1>1, <1>3, <1>7, <1>11 DEF NowInv, AllCount

(* A task that has been done goes, or not.                                 *)
LEMMA DeleteCount ==
    ASSUME TypeOK, AllAt0, NowInv, NEW s \in Servers, DeleteTask(s) \/ DeleteTaskFails(s)
    PROVE  NowInv'
  <1> DEFINE u == Task(s)
  <1>1. /\ Alone(s) /\ queue' = queue /\ issued' = issued
        /\ Queued' /\ \A t : InQueue(t)' <=> InQueue(t)
        /\ trouble' = <<>> => trouble = <<>>
        /\ step \in [Servers -> Steps] /\ todo[s] \in Seq(Tasks)
        /\ step[s] \in {"row", "write", "delete"} => todo[s] # <<>>
    BY CheckAlone DEF CheckStep, NowInv
  <1>2. step[s] = "delete" /\ Following(s) /\ mem' = mem /\ row' = row /\ todo[s] # <<>>
    BY <1>1 DEF DeleteTask, DeleteTaskFails, At, server, database
  <1>3. AllStay' /\ Current' = Current
    BY <1>1, <1>2, StillNow DEF NowInv
  <1>4. /\ step'[s] = "find" /\ table[u] = 1 /\ u \in Tasks
        /\ \A i, j \in 1..Len(todo'[s]) :
               /\ table[todo'[s][i]] = 1 /\ todo'[s][i] # u /\ todo'[s][i] \in Tasks
               /\ todo'[s][i] = todo'[s][j] => i = j
    BY <1>1, <1>2, ListedTail DEF NowInv, AllListed
  <1>5. /\ table \in [Tasks -> Nat]
        /\ \/ table' = [table EXCEPT ![u] = IF @ = 0 THEN 0 ELSE @ - 1]
           \/ table' = table /\ trouble' # <<>>
    BY GoesOn DEF DeleteTask, DeleteTaskFails, TypeOK, database
  <1>6. \A t : /\ Waits(t) <=> table[t] = 1 /\ t # u
               /\ Waits(t)' <=> table'[t] = 1
    BY <1>1, <1>2, <1>4, WaitsAlone DEF Task
  <1> HIDE DEF u
  <1>7. /\ \A t \in Tasks \ {u} : table'[t] = table[t]
        /\ table'[u] = 0 \/ (table'[u] = 1 /\ trouble' # <<>>)
    BY <1>4, <1>5
  <1>8. Listed(s)'
    BY <1>4, <1>7 DEF Listed
  <1>9. AllListed'
    BY <1>1, <1>8, ListedAlone
  <1>10. ASSUME NEW t \in Tasks PROVE Count(t)'
    <2>1. CASE t = u
      <3>1. /\ u \in issued /\ ~InQueue(u) /\ Current[u] >= 1
            /\ trouble = <<>> => Current[u] = 1
        BY <1>4, <1>6 DEF NowInv, AllCount, Count
      <3> QED BY <1>1, <1>3, <1>6, <1>7, <2>1, <3>1 DEF Count
    <2>2. CASE t # u
      <3>1. table'[t] = table[t] /\ (Waits(t)' <=> Waits(t))
        BY <1>6, <1>7, <2>2
      <3> QED BY <1>1, <1>3, <3>1, CountSame DEF NowInv, AllCount
    <2> QED BY <2>1, <2>2
  <1> QED BY <1>1, <1>3, <1>9, <1>10 DEF NowInv, AllCount

(* Every step keeps what is known of the tasks.                            *)
LEMMA StepCount ==
    ASSUME TypeOK, Steady, TypeOK', Steady', TaskInv, Next, NoneLost'
    PROVE  NowInv'
  <1>1. ~Happened("crash")' /\ ~Happened("reconnect")'
    BY DEF NoneLost
  <1>2. NowInv
    BY <1>1, NotBefore DEF TaskInv, NowInv, NoneLost
  <1>3. AllAt0 /\ AllAt0'
    <2>1. ~Happened("reconnect")
      BY <1>1, NotBefore
    <2>2. \A s \in Servers : At0(s)'
      BY <1>1 DEF Steady
    <2> QED BY <2>1, <2>2 DEF Steady, AllAt0
  <1>4. PICK s \in Servers : MainStep(s) \/ DbStep(s) \/ Failure(s) \/ Start(s)
    BY DEF Next
  <1>5. ~Reconnect(s) /\ ~Crash(s)
    BY <1>1, GoesOn DEF Reconnect, Crash
  <1>6. CASE MainStep(s)
    BY <1>2, <1>3, <1>6, MainCount
  <1>7. CASE DbLoad(s) \/ DbSave(s)
    BY <1>2, <1>3, <1>7, OwnCount
  <1>8. CASE DbAddTask(s)
    BY <1>1, <1>2, <1>3, <1>8, AddCount
  <1>9. CASE LockTables(s)
    BY <1>2, <1>3, <1>9, LockCount
  <1>10. CASE \/ SelectTasks(s) \/ SelectTasksFails(s) \/ UnlockTables(s)
              \/ (FindOnline(s) /\ mem[s].state # "in") \/ ReadRow(s) \/ RowFails(s)
    BY <1>2, <1>3, <1>10, LookCount
  <1>11. CASE WriteRow(s) \/ (FindOnline(s) /\ mem[s].state = "in")
    BY <1>2, <1>3, <1>11, DoCount
  <1>12. CASE DeleteTask(s) \/ DeleteTaskFails(s)
    BY <1>2, <1>3, <1>12, DeleteCount
  <1>13. CASE Start(s)
    BY <1>2, <1>3, <1>13, StartCount
  <1> QED BY <1>4, <1>5, <1>6, <1>7, <1>8, <1>9, <1>10, <1>11, <1>12, <1>13
          DEF DbStep, CheckTask, Failure

(* The inductive invariant about tasks holds always.                       *)
LEMMA TaskInvAlways == Spec => [](TypeOK /\ Steady /\ TaskInv)
  <1>1. Init => TaskInv
    <2> SUFFICES ASSUME Init PROVE NowInv
      BY DEF TaskInv, NowInv
    <2>1. \A s \in Servers : /\ mem[s].state = "out" /\ queue[s] = <<>> /\ step[s] = "idle"
      BY DEF Init, Out
    <2>2. AllStay /\ AllListed
      BY <2>1 DEF AllStay, Stay, StayWith, HasSaves, AllListed, Listed
    <2>3. \A s \in Servers, i \in Nat : \A t : ~Adds(s, i, t)
      BY <2>1 DEF Adds
    <2>4. Queued /\ \A t \in Tasks : ~InQueue(t)
      BY <2>3 DEF Queued, InQueue
    <2>5. \A t \in Tasks : table[t] = 0 /\ t \notin issued /\ Current[t] = 0
      BY DEF Init, Current, Undone
    <2> QED BY <2>2, <2>4, <2>5 DEF NowInv, AllCount, Count
  <1>2. TypeOK /\ Steady /\ TypeOK' /\ Steady' /\ TaskInv /\ [Next]_vars => TaskInv'
    <2> SUFFICES ASSUME TypeOK, Steady, TypeOK', Steady', TaskInv, [Next]_vars, NoneLost'
                 PROVE  NowInv'
      BY DEF TaskInv, NowInv
    <2>1. CASE UNCHANGED vars
      <3>1. NowInv
        BY <2>1 DEF vars, NoneLost, TaskInv, NowInv, Happened
      <3>2. AllStay' /\ AllListed' /\ Queued'
        BY <2>1, <3>1 DEF vars, server, thread, database, NowInv, AllStay, Stay, AllListed,
                          Listed, Queued, Adds
      <3>3. \A t \in Tasks : /\ InQueue(t)' <=> InQueue(t)
                             /\ Waits(t)' <=> Waits(t)
        BY <2>1 DEF vars, server, thread, database, InQueue, Adds, Waits, Deletes, Task
      <3>4. Current' = Current
        BY <2>1 DEF vars, server, database, Current, Leaves
      <3>5. table' = table /\ issued' = issued /\ trouble' = trouble
        BY <2>1 DEF vars, database
      <3>6. AllCount'
        BY <3>1, <3>3, <3>4, <3>5, CountSame DEF NowInv, AllCount
      <3> QED BY <3>2, <3>6 DEF NowInv
    <2>2. CASE Next
      BY <2>2, StepCount
    <2> QED BY <2>1, <2>2
  <1> QED BY <1>1, <1>2, SteadyAlways, PTL DEF Spec

(* What Adding and Deleting count: one query, or one server, at most.      *)
LEMMA Counts ==
    ASSUME TypeOK, AllAt0, NowInv, NEW t \in Tasks
    PROVE  /\ Adding(t) = IF InQueue(t) THEN 1 ELSE 0
           /\ Deleting(t) = IF \E s \in Servers : Deletes(s, t) THEN 1 ELSE 0
  <1> DEFINE A == {p \in Servers \X (1..(MaxQueue + 1)) :
                       /\ p[2] <= Len(queue[p[1]])
                       /\ queue[p[1]][p[2]].op = "add" /\ queue[p[1]][p[2]].task = t}
             D == {s \in Servers : step[s] = "delete" /\ Task(s) = t}
  <1>1. \A p \in A : p[1] \in Servers /\ p[2] \in Nat /\ Adds(p[1], p[2], t)
                     /\ p = <<p[1], p[2]>>
    <2> SUFFICES ASSUME NEW p \in A
                 PROVE  /\ p[1] \in Servers /\ p[2] \in Nat /\ Adds(p[1], p[2], t)
                        /\ p = <<p[1], p[2]>>
      OBVIOUS
    <2>1. /\ p[1] \in Servers /\ p[2] \in 1..(MaxQueue + 1) /\ p = <<p[1], p[2]>>
          /\ p[2] <= Len(queue[p[1]])
          /\ queue[p[1]][p[2]].op = "add" /\ queue[p[1]][p[2]].task = t
      OBVIOUS
    <2>2. p[2] \in Nat /\ p[2] >= 1 /\ Len(queue[p[1]]) \in Nat
      BY <2>1, TaskAssumption DEF TypeOK
    <2> QED BY <2>1, <2>2 DEF Adds
  <1>2. ASSUME InQueue(t) PROVE Adding(t) = 1
    <2>1. PICK s \in Servers, i \in Nat : Adds(s, i, t)
      BY <1>2 DEF InQueue
    <2>2. i <= MaxQueue /\ i >= 1 /\ i <= Len(queue[s]) /\ Len(queue[s]) \in Nat
      <3>1. i <= MaxQueue
        BY <2>1 DEF NowInv, Queued
      <3>2. Len(queue[s]) \in Nat /\ i \in 1..Len(queue[s])
        BY <2>1 DEF Adds, TypeOK
      <3> QED BY <3>1, <3>2
    <2>3. <<s, i>> \in A
      BY <2>1, <2>2, TaskAssumption DEF Adds
    <2>4. \A p \in A : p = <<s, i>>
      BY <1>1, <2>1 DEF NowInv, Queued
    <2> HIDE DEF A
    <2>5. A = {<<s, i>>}
      BY <2>3, <2>4
    <2>6. Cardinality(A) = 1
      BY <2>5, FS_Singleton
    <2> QED BY <2>6 DEF Adding, A
  <1>3. ASSUME ~InQueue(t) PROVE Adding(t) = 0
    <2>1. A = {}
      BY <1>1, <1>3 DEF InQueue
    <2> HIDE DEF A
    <2>2. Cardinality(A) = 0
      BY <2>1, FS_EmptySet
    <2> QED BY <2>2 DEF Adding, A
  <1>4. ASSUME \E s \in Servers : Deletes(s, t) PROVE Deleting(t) = 1
    <2>1. PICK s \in Servers : Deletes(s, t)
      BY <1>4
    <2>2. \A r \in Servers : Deletes(r, t) => r = s
      BY <2>1 DEF Deletes, AllAt0, At0, Writing
    <2>3. D = {s}
      BY <2>1, <2>2 DEF Deletes
    <2> HIDE DEF D
    <2>4. Cardinality(D) = 1
      BY <2>3, FS_Singleton
    <2> QED BY <2>4 DEF Deleting, D
  <1>5. ASSUME ~\E s \in Servers : Deletes(s, t) PROVE Deleting(t) = 0
    <2>1. D = {}
      BY <1>5 DEF Deletes
    <2> HIDE DEF D
    <2>2. Cardinality(D) = 0
      BY <2>1, FS_EmptySet
    <2> QED BY <2>2 DEF Deleting, D
  <1>6. Adding(t) = IF InQueue(t) THEN 1 ELSE 0
    BY <1>2, <1>3
  <1>7. Deleting(t) = IF \E s \in Servers : Deletes(s, t) THEN 1 ELSE 0
    BY <1>4, <1>5
  <1> QED BY <1>6, <1>7

(* What still waits of a task.                                             *)
LEMMA Remaining ==
    ASSUME TypeOK, AllAt0, NowInv, NEW t \in Tasks
    PROVE  Waiting(t) = IF InQueue(t) \/ Waits(t) THEN 1 ELSE 0
  <1>1. /\ Adding(t) = IF InQueue(t) THEN 1 ELSE 0
        /\ Deleting(t) = IF \E s \in Servers : Deletes(s, t) THEN 1 ELSE 0
    BY Counts
  <1>2. table[t] \in {0, 1} /\ (InQueue(t) => table[t] = 0)
    BY DEF NowInv, AllCount, Count
  <1>3. (\E s \in Servers : Deletes(s, t)) => table[t] = 1
    <2> SUFFICES ASSUME NEW s \in Servers, Deletes(s, t) PROVE table[t] = 1
      OBVIOUS
    <2>1. todo[s] \in Seq(Tasks) /\ todo[s] # <<>> /\ step[s] = "delete" /\ t = Head(todo[s])
      BY DEF Deletes, Task, TypeOK
    <2>2. 1 \in 1..Len(todo[s]) /\ t = todo[s][1]
      BY <2>1
    <2> QED BY <2>1, <2>2 DEF NowInv, AllListed, Listed
  <1>4. Waits(t) <=> table[t] = 1 /\ ~\E s \in Servers : Deletes(s, t)
    BY DEF Waits
  <1> QED BY <1>1, <1>2, <1>3, <1>4 DEF Waiting

(* Statements that fail do not lose a task once it is in the table, and    *)
(* neither does a login or a logout between two steps of check_task: every *)
(* task has been done or still waits, for any number of servers, tasks,    *)
(* queries and failures, in any order, as long as no server crashes and no *)
(* connection to the database breaks.                                      *)
THEOREM TasksKept == Spec => []TaskKept
  <1>1. TypeOK /\ Steady /\ TaskInv => TaskKept
    <2> SUFFICES ASSUME TypeOK, Steady, TaskInv, NoneLost, NEW t \in issued
                 PROVE  Current[t] + Waiting(t) >= 1
      BY DEF TaskKept, NoneLost
    <2>1. NowInv /\ AllAt0 /\ t \in Tasks
      BY DEF TaskInv, NowInv, NoneLost, Steady, AllAt0, TypeOK
    <2>2. Waiting(t) = IF InQueue(t) \/ Waits(t) THEN 1 ELSE 0
      BY <2>1, Remaining
    <2>3. Current[t] \in Nat
      BY <2>1, CurrentData DEF Data
    <2>4. InQueue(t) \/ Waits(t) \/ Current[t] >= 1
      BY <2>1 DEF NowInv, AllCount, Count
    <2> QED BY <2>2, <2>3, <2>4
  <1> QED BY <1>1, TaskInvAlways, PTL

(* As long as nothing fails a task is done to the character exactly once,  *)
(* or still waits: although it may be loaded, saved, on its way between    *)
(* two servers or about to be, and any number of servers look at the table.*)
THEOREM TasksOnce == Spec => []TaskOnce
  <1>1. TypeOK /\ Steady /\ TaskInv => TaskOnce
    <2> SUFFICES ASSUME TypeOK, Steady, TaskInv, trouble = <<>>, NEW t \in issued
                 PROVE  Current[t] + Waiting(t) = 1
      BY DEF TaskOnce
    <2>1. NoneLost
      BY DEF NoneLost, Happened, Contains
    <2>2. NowInv /\ AllAt0 /\ t \in Tasks
      BY <2>1 DEF TaskInv, NowInv, NoneLost, Steady, AllAt0, TypeOK
    <2>3. Waiting(t) = IF InQueue(t) \/ Waits(t) THEN 1 ELSE 0
      BY <2>2, Remaining
    <2>4. /\ InQueue(t) => Current[t] = 0
          /\ ~InQueue(t) => Current[t] = IF Waits(t) THEN 0 ELSE 1
      BY <2>2 DEF NowInv, AllCount, Count
    <2> QED BY <2>3, <2>4
  <1> QED BY <1>1, TaskInvAlways, PTL
=============================================================================

----------------------------- MODULE TaskQueue -----------------------------
(***************************************************************************)
(* Tasks for characters that may be anywhere: a punishment, a rank in a    *)
(* clan, a flag.  A server puts a task into the table task.  The database  *)
(* thread of every server goes through that table now and then             *)
(* (check_task): it does a task, and deletes it, when the character is in  *)
(* the memory of its server, or when no server has it and its row can be   *)
(* changed instead.                                                        *)
(*                                                                         *)
(* This is about one character.  How it gets from server to server is the  *)
(* subject of CharSession; here it is loaded, saved and released through   *)
(* the queue of a server, which check_task shares.  Statements may fail,   *)
(* connections to the database may break, which gives up the table locks   *)
(* and sends the statement again, and servers crash.                       *)
(***************************************************************************)
EXTENDS Naturals, Sequences, FiniteSets, SequencesExt, FiniteSetsExt

CONSTANTS
    Servers,
    Tasks,
    Troubles,   \* "error", "reconnect", "crash": what may happen
    MaxTrouble, \* bound: how often
    MaxLogins,  \* bound
    MaxQueue,   \* bound: queries in the queue of a server, and a check_task
    NoServer

ASSUME TaskAssumption ==
    /\ NoServer \notin Servers /\ IsFiniteSet(Tasks)
    /\ Troubles \subseteq {"error", "reconnect", "crash"}
    /\ MaxTrouble \in Nat /\ MaxLogins \in Nat /\ MaxQueue \in Nat \ {0}

(* How often each task has been done to a character.                       *)
Data == [Tasks -> Nat]
Undone == [t \in Tasks |-> 0]

VARIABLES
    up,       \* does the server run?
    mem,      \* what it knows of the character: not "out" but "loading" or "in"
    queue,    \* queries for its database thread
    step,     \* where check_task is
    todo,     \* the result of its select, not gone through yet
    copy,     \* chr of the row, read by set_task
    row,      \* the row in chars: current_area and chr
    table,    \* how often a task is in the table task
    lock,     \* who has locked the tables
    issued,   \* tasks so far, but those that never got into the table
    logins,   \* bound: logins so far
    trouble   \* what has gone wrong, in order

server == <<up, mem, queue>>
thread == <<step, todo, copy>>
database == <<row, table, lock>>
vars == <<server, thread, database, issued, logins, trouble>>

Steps == {"idle", "select", "find", "row", "write", "delete"}
Queries == [op : {"backup", "logout"}, data : Data]
           \cup [op : {"load", "release", "check"}]
           \cup [op : {"add"}, task : Tasks]

TypeOK ==
    /\ up \in [Servers -> BOOLEAN]
    /\ mem \in [Servers -> [state : {"out", "loading", "in"}, data : Data]]
    /\ queue \in [Servers -> Seq(Queries)]
    /\ step \in [Servers -> Steps] /\ todo \in [Servers -> Seq(Tasks)]
    /\ copy \in [Servers -> Data]
    /\ row \in [cur : Servers \cup {NoServer}, data : Data]
    /\ table \in [Tasks -> Nat] /\ lock \in Servers \cup {NoServer}
    /\ issued \subseteq Tasks /\ logins \in 0..MaxLogins
    /\ trouble \in Seq(Troubles) /\ Len(trouble) <= MaxTrouble
    /\ \A s \in Servers : step[s] \in {"row", "write", "delete"} => todo[s] # <<>>

Out == [state |-> "out", data |-> Undone]

Init ==
    /\ up = [s \in Servers |-> TRUE] /\ mem = [s \in Servers |-> Out]
    /\ queue = [s \in Servers |-> <<>>]
    /\ step = [s \in Servers |-> "idle"] /\ todo = [s \in Servers |-> <<>>]
    /\ copy = [s \in Servers |-> Undone]
    /\ row = [cur |-> NoServer, data |-> Undone]
    /\ table = [t \in Tasks |-> 0] /\ lock = NoServer
    /\ issued = {} /\ logins = 0 /\ trouble = <<>>

Goes(kind) ==
    /\ kind \in Troubles /\ Len(trouble) < MaxTrouble
    /\ trouble' = Append(trouble, kind)

Done(data, t) == [data EXCEPT ![t] = @ + 1]
-----------------------------------------------------------------------------
(* The main thread of a server.                                            *)

Put(s, q) == up[s] /\ queue' = [queue EXCEPT ![s] = Append(@, q)]

Queue(s, q) == Len(queue[s]) < MaxQueue /\ Put(s, q)

Asks(s, op) == \E i \in 1..Len(queue[s]) : queue[s][i].op = op

(* find_login *)
Login(s) ==
    /\ mem[s].state = "out" /\ ~Asks(s, "load") /\ logins < MaxLogins
    /\ Queue(s, [op |-> "load"])
    /\ logins' = logins + 1
    /\ UNCHANGED <<up, mem, thread, database, issued, trouble>>

(* tick_login *)
TickLogin(s) ==
    /\ mem[s].state = "loading"
    /\ mem' = [mem EXCEPT ![s].state = "in"]
    /\ UNCHANGED <<up, queue, thread, database, issued, logins, trouble>>

(* tick_login finds no place for the character.                            *)
TickLoginFails(s) ==
    /\ mem[s].state = "loading"
    /\ mem' = [mem EXCEPT ![s] = Out]
    /\ Queue(s, [op |-> "release"])
    /\ UNCHANGED <<up, thread, database, issued, logins, trouble>>

(* backup_players *)
Backup(s) ==
    /\ mem[s].state = "in"
    /\ Queue(s, [op |-> "backup", data |-> mem[s].data])
    /\ UNCHANGED <<up, mem, thread, database, issued, logins, trouble>>

(* exit_char, change_area *)
Logout(s) ==
    /\ mem[s].state = "in"
    /\ mem' = [mem EXCEPT ![s] = Out]
    /\ Queue(s, [op |-> "logout", data |-> mem[s].data])
    /\ UNCHANGED <<up, thread, database, issued, logins, trouble>>

(* add_task *)
AddTask(s, t) ==
    /\ t \notin issued
    /\ Queue(s, [op |-> "add", task |-> t])
    /\ issued' = issued \cup {t}
    /\ UNCHANGED <<up, mem, thread, database, logins, trouble>>

(* call_check_task, every 256 ticks.                                       *)
CallCheckTask(s) ==
    /\ ~Asks(s, "check") /\ step[s] = "idle"
    /\ Put(s, [op |-> "check"])
    /\ UNCHANGED <<up, mem, thread, database, issued, logins, trouble>>
-----------------------------------------------------------------------------
(* The database thread of a server: queries other than check_task.         *)

(* Mutant: check_task locks the table task only.                           *)
TakesUnlocked(s, op) ==
    /\ up[s] /\ step[s] = "idle"
    /\ queue[s] # <<>> /\ Head(queue[s]).op = op
    /\ queue' = [queue EXCEPT ![s] = Tail(@)]

(* The next query; the tables may be in use by somebody else.              *)
Takes(s, op) ==
    /\ up[s] /\ step[s] = "idle" /\ lock \in {s, NoServer}
    /\ queue[s] # <<>> /\ Head(queue[s]).op = op
    /\ queue' = [queue EXCEPT ![s] = Tail(@)]

(* load_char locks and unlocks chars.  When the row names a server the     *)
(* login ends elsewhere.                                                   *)
DbLoad(s) ==
    /\ Takes(s, "load")
    /\ IF row.cur = NoServer
       THEN /\ row' = [row EXCEPT !.cur = s]
            /\ mem' = [mem EXCEPT ![s] = [state |-> "loading", data |-> row.data]]
       ELSE UNCHANGED <<row, mem>>
    /\ lock' = NoServer
    /\ UNCHANGED <<up, thread, table, issued, logins, trouble>>

(* save_char: "where current_area=%d and current_mirror=%d".               *)
DbSave(s) ==
    /\ \/ /\ Takes(s, "backup")
          /\ row' = IF row.cur = s THEN [row EXCEPT !.data = Head(queue[s]).data] ELSE row
       \/ /\ Takes(s, "logout")
          /\ row' = IF row.cur = s
                    THEN [cur |-> NoServer, data |-> Head(queue[s]).data] ELSE row
       \/ /\ Takes(s, "release")
          /\ row' = IF row.cur = s THEN [row EXCEPT !.cur = NoServer] ELSE row
    /\ UNCHANGED <<up, mem, thread, table, lock, issued, logins, trouble>>

(* insert into task; the statement may fail, or be done twice.             *)
DbAddTask(s) ==
    /\ Takes(s, "add")
    /\ LET t == Head(queue[s]).task IN
       \/ table' = [table EXCEPT ![t] = @ + 1] /\ UNCHANGED <<issued, trouble>>
       \/ table' = [table EXCEPT ![t] = @ + 2] /\ Goes("reconnect") /\ UNCHANGED issued
       \/ issued' = issued \ {t} /\ Goes("error") /\ UNCHANGED table
    /\ UNCHANGED <<up, mem, thread, row, lock, logins>>
-----------------------------------------------------------------------------
(* check_task.                                                             *)

At(s, here) == up[s] /\ step[s] = here

Goto(s, there) == step' = [step EXCEPT ![s] = there]

Task(s) == Head(todo[s])

(* The loop over the result goes round.                                    *)
Following(s) ==
    /\ Goto(s, "find") /\ todo' = [todo EXCEPT ![s] = Tail(@)]
    /\ UNCHANGED copy

LockTables(s) ==
    /\ Takes(s, "check")
    /\ \/ lock' = s /\ Goto(s, "select") /\ UNCHANGED trouble
       \/ Goes("error") /\ UNCHANGED <<lock, step>>
    /\ UNCHANGED <<up, mem, todo, copy, row, table, issued, logins>>

(* The rows of the table, oldest first, of which only those of one task    *)
(* look alike.                                                             *)
Rows(tab) == SetToSeq({p \in Tasks \X (1..2) : p[2] <= tab[p[1]]})

SelectTasks(s) ==
    /\ At(s, "select")
    /\ todo' = [todo EXCEPT ![s] = [i \in 1..Len(Rows(table)) |-> Rows(table)[i][1]]]
    /\ Goto(s, "find")
    /\ UNCHANGED <<server, copy, database, issued, logins, trouble>>

(* The function returns without "unlock tables".                           *)
SelectTasksFails(s) ==
    /\ At(s, "select") /\ Goes("error")
    /\ Goto(s, "idle")
    /\ UNCHANGED <<server, todo, copy, database, issued, logins>>

(* Mutant: do ... while, which wants a row to be there.                    *)
FindOnlineOnceMore(s) ==
    /\ At(s, "find") /\ mem[s].state # "in"
    /\ Goto(s, "row")
    /\ UNCHANGED <<server, todo, copy, database, issued, logins, trouble>>

(* set_task: is the character in memory?  Only this holds the server lock. *)
FindOnline(s) ==
    /\ At(s, "find") /\ todo[s] # <<>>
    /\ IF mem[s].state = "in"
       THEN /\ mem' = [mem EXCEPT ![s].data = Done(@, Task(s))]
            /\ Goto(s, "delete")
       ELSE Goto(s, "row") /\ UNCHANGED mem
    /\ UNCHANGED <<up, queue, todo, copy, database, issued, logins, trouble>>

(* Mutant: whether somebody has the character is not looked at.            *)
ReadRowAnyway(s) ==
    /\ At(s, "row")
    /\ copy' = [copy EXCEPT ![s] = row.data] /\ Goto(s, "write") /\ UNCHANGED todo
    /\ UNCHANGED <<server, database, issued, logins, trouble>>

(* It is in the row, unless some server has it.                            *)
ReadRow(s) ==
    /\ At(s, "row")
    /\ IF row.cur = NoServer
       THEN copy' = [copy EXCEPT ![s] = row.data] /\ Goto(s, "write") /\ UNCHANGED todo
       ELSE Following(s)
    /\ UNCHANGED <<server, database, issued, logins, trouble>>

(* "update chars set chr='%s',... where ID=%d"                             *)
WriteRow(s) ==
    /\ At(s, "write")
    /\ row' = [row EXCEPT !.data = Done(copy[s], Task(s))]
    /\ Goto(s, "delete")
    /\ UNCHANGED <<server, todo, copy, table, lock, issued, logins, trouble>>

(* Mutant: it is deleted when it was not done.                             *)
RowFailsDeleted(s) ==
    /\ At(s, "row") \/ At(s, "write")
    /\ Goes("error") /\ Goto(s, "delete") /\ UNCHANGED <<todo, copy>>
    /\ UNCHANGED <<server, database, issued, logins>>

(* Reading or writing the row fails: the task stays for the next time.     *)
RowFails(s) ==
    /\ At(s, "row") \/ At(s, "write")
    /\ Goes("error") /\ Following(s)
    /\ UNCHANGED <<server, database, issued, logins>>

(* A task that was done, or did not apply, goes.                           *)
DeleteTask(s) ==
    /\ At(s, "delete")
    /\ table' = [table EXCEPT ![Task(s)] = IF @ = 0 THEN 0 ELSE @ - 1]
    /\ Following(s)
    /\ UNCHANGED <<server, row, lock, issued, logins, trouble>>

DeleteTaskFails(s) ==
    /\ At(s, "delete")
    /\ Goes("error") /\ Following(s)
    /\ UNCHANGED <<server, database, issued, logins>>

(* Mutant: it returns without "unlock tables".                             *)
UnlockTablesNot(s) ==
    /\ At(s, "find") /\ todo[s] = <<>>
    /\ Goto(s, "idle")
    /\ UNCHANGED <<server, todo, copy, database, issued, logins, trouble>>

UnlockTables(s) ==
    /\ At(s, "find") /\ todo[s] = <<>>
    /\ lock' = IF lock = s THEN NoServer ELSE lock
    /\ Goto(s, "idle")
    /\ UNCHANGED <<server, todo, copy, row, table, issued, logins, trouble>>
-----------------------------------------------------------------------------
(* Trouble.                                                                *)

(* mysql_query_con opens a new connection and sends its statement again,   *)
(* which takes it nowhere else; the locks are those of the old connection. *)
Reconnect(s) ==
    /\ lock = s /\ step[s] # "idle"
    /\ Goes("reconnect")
    /\ lock' = NoServer
    /\ UNCHANGED <<server, thread, row, table, issued, logins>>

Crash(s) ==
    /\ up[s] /\ Goes("crash")
    /\ up' = [up EXCEPT ![s] = FALSE]
    /\ mem' = [mem EXCEPT ![s] = Out] /\ queue' = [queue EXCEPT ![s] = <<>>]
    /\ step' = [step EXCEPT ![s] = "idle"] /\ todo' = [todo EXCEPT ![s] = <<>>]
    /\ lock' = IF lock = s THEN NoServer ELSE lock
    /\ UNCHANGED <<copy, row, table, issued, logins>>

(* init_database: "sweep database".                                        *)
Start(s) ==
    /\ ~up[s] /\ lock = NoServer
    /\ up' = [up EXCEPT ![s] = TRUE]
    /\ row' = IF row.cur = s THEN [row EXCEPT !.cur = NoServer] ELSE row
    /\ UNCHANGED <<mem, queue, thread, table, lock, issued, logins, trouble>>
-----------------------------------------------------------------------------
MainStep(s) ==
    \/ Login(s) \/ TickLogin(s) \/ TickLoginFails(s) \/ Backup(s) \/ Logout(s)
    \/ CallCheckTask(s) \/ \E t \in Tasks : AddTask(s, t)

(* What goes on when nothing fails.                                        *)
CheckTask(s) ==
    \/ LockTables(s) \/ SelectTasks(s) \/ FindOnline(s) \/ ReadRow(s)
    \/ WriteRow(s) \/ DeleteTask(s) \/ UnlockTables(s)

DbStep(s) == DbLoad(s) \/ DbSave(s) \/ DbAddTask(s) \/ CheckTask(s)

Failure(s) ==
    \/ SelectTasksFails(s) \/ RowFails(s) \/ DeleteTaskFails(s)
    \/ Reconnect(s) \/ Crash(s)

Next == \E s \in Servers : MainStep(s) \/ DbStep(s) \/ Failure(s) \/ Start(s)

Spec == Init /\ [][Next]_vars

(* The main loop and the database thread of a server that runs go on;      *)
(* MySQL gives a table lock to those that wait for it in turn.             *)
Fairness == \A s \in Servers :
    /\ WF_vars(TickLogin(s)) /\ WF_vars(CallCheckTask(s))
    /\ SF_vars(DbStep(s))

LiveSpec == Spec /\ Fairness
-----------------------------------------------------------------------------
(* Correctness.                                                            *)

Happened(kind) == Contains(trouble, kind)

(* What counts of the character, wherever it is.                           *)
Leaves(s) == {i \in 1..Len(queue[s]) : queue[s][i].op = "logout"}

Current ==
    LET s == row.cur IN
    IF s = NoServer THEN row.data
    ELSE IF mem[s].state # "out" THEN mem[s].data
    ELSE IF Leaves(s) # {} THEN queue[s][Max(Leaves(s))].data
    ELSE row.data

(* Tasks on their way: into the table, there, or done and not deleted yet. *)
Adding(t) == Cardinality({p \in Servers \X (1..(MaxQueue + 1)) :
    /\ p[2] <= Len(queue[p[1]])
    /\ queue[p[1]][p[2]].op = "add" /\ queue[p[1]][p[2]].task = t})
Deleting(t) == Cardinality({s \in Servers : step[s] = "delete" /\ Task(s) = t})
Waiting(t) == Adding(t) + table[t] - Deleting(t)

(* A task is done to the character once or still waits, although it may be *)
(* loaded, saved, on its way between two servers or about to be, and two   *)
(* servers look at the table.                                              *)
TaskOnce == trouble = <<>> =>
    \A t \in issued : Current[t] + Waiting(t) = 1

(* Statements that fail do not lose a task once it is in the table; done   *)
(* twice it may be, when deleting it fails.                                *)
TaskKept == ~Happened("crash") /\ ~Happened("reconnect") =>
    \A t \in issued : Current[t] + Waiting(t) >= 1

(* What has been done to a row is not undone by an older save: also when a *)
(* server crashes between any two steps.                                   *)
NoTaskUndone == [][Happened("reconnect")' \/
    \A t \in Tasks : row'.data[t] >= row.data[t]]_vars

(* A task in the table is done in the end, wherever the character is and   *)
(* whatever has failed before, as long as the servers are up.              *)
TaskDone == \A t \in Tasks :
    table[t] > 0 ~> table[t] = 0 \/ \E s \in Servers : ~up[s]
=============================================================================

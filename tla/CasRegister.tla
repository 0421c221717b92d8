---------------------------- MODULE CasRegister ----------------------------
(***************************************************************************)
(* What the versioned storage promises to those who keep a blob in it: a   *)
(* register per blob that is created once, read, and written by compare-   *)
(* and-set on its version.  A call takes effect at one moment between the  *)
(* moment it is made and the moment its answer is taken, and the answer    *)
(* goes to the client that made the call.                                  *)
(*                                                                         *)
(* The content of a write is what the client's memory holds at the moment  *)
(* the call takes effect: the caller hands over a pointer.  A call may be  *)
(* reported as failed although it took effect (the connection to the       *)
(* database broke and the statement was sent again).                       *)
(***************************************************************************)
EXTENDS Naturals

CONSTANTS Clients, Blobs, BlobOf, Versions, Data

VARIABLES
    reg,    \* the registers; version 0 is a register that does not exist
    call    \* the call a client has made

regVars == <<reg, call>>

(* A client that has made no call.  content is what a read has found.      *)
Idle == [state |-> "idle", op |-> "none", ver |-> 0, content |-> {}]

Asked(op, v) == [state |-> "asked", op |-> op, ver |-> v, content |-> {}]
Failed(op, v) == [state |-> "failed", op |-> op, ver |-> v, content |-> {}]
Done(op, v, found) == [state |-> "done", op |-> op, ver |-> v, content |-> found]

RegInit ==
    /\ reg \in [Blobs -> [ver : Versions, data : Data]]
    /\ call = [c \in Clients |-> Idle]

Ask(c) ==
    /\ call[c] = Idle
    /\ call'[c].op \in {"create", "update", "read"} /\ call'[c].ver \in Versions
    /\ call' = [call EXCEPT ![c] = Asked(call'[c].op, call'[c].ver)]
    /\ UNCHANGED reg

(* The register gets a new version and some content.                       *)
Write(b, v) ==
    /\ reg'[b].data \in Data
    /\ reg' = [reg EXCEPT ![b] = [ver |-> v, data |-> reg'[b].data]]

Reply(c, answers) == \E a \in answers : call' = [call EXCEPT ![c] = a]

Create(c) ==
    LET b == BlobOf[c]
        v == call[c].ver
    IN
    /\ call[c].state = "asked" /\ call[c].op = "create"
    /\ \/ reg[b].ver = 0 /\ Write(b, 1) /\ Reply(c, {Done("create", v, {}), Failed("create", v)})
       \/ Reply(c, {Failed("create", v)}) /\ UNCHANGED reg

(* Compare-and-set: the write takes place only while the version is the    *)
(* one the client knows.                                                   *)
Update(c) ==
    LET b == BlobOf[c]
        v == call[c].ver
    IN
    /\ call[c].state = "asked" /\ call[c].op = "update"
    /\ \/ /\ reg[b].ver = v /\ v # 0
          /\ Write(b, v + 1)
          /\ Reply(c, {Done("update", v, {}), Failed("update", v)})
       \/ Reply(c, {Failed("update", v)}) /\ UNCHANGED reg

(* A read answers with the register as it is, or with nothing when the     *)
(* client has that version already.                                        *)
Read(c) ==
    LET r == reg[BlobOf[c]]
        v == call[c].ver
    IN
    /\ call[c].state = "asked" /\ call[c].op = "read"
    /\ \/ r.ver = v /\ r.ver # 0 /\ Reply(c, {Done("read", v, {})})
       \/ r.ver # v /\ r.ver # 0 /\ Reply(c, {Done("read", r.ver, {r.data})})
       \/ Reply(c, {Failed("read", v)})
    /\ UNCHANGED reg

Take(c) ==
    /\ call[c].state \in {"done", "failed"}
    /\ call' = [call EXCEPT ![c] = Idle]
    /\ UNCHANGED reg

(* The process of some clients dies with their calls.                      *)
Abandon ==
    /\ \E C \in SUBSET Clients :
          call' = [c \in Clients |-> IF c \in C THEN Idle ELSE call[c]]
    /\ UNCHANGED reg

RegNext ==
    \/ \E c \in Clients : Ask(c) \/ Create(c) \/ Update(c) \/ Read(c) \/ Take(c)
    \/ Abandon

RegSpec == RegInit /\ [][RegNext]_regVars
=============================================================================

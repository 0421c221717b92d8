------------------------------ MODULE ChatBus ------------------------------
(***************************************************************************)
(* What the chat between servers promises: there is one order of all       *)
(* messages.  A listener hears them in that order, each of them once, from *)
(* the one on that was the next when it tuned in; tuning in again is the   *)
(* only way to miss some.  Nothing is promised once a stream is torn.      *)
(***************************************************************************)
EXTENDS Naturals, Sequences

CONSTANTS Listeners, Messages

VARIABLES
    log,    \* all messages, in order
    from,   \* what a listener tuned in after
    heard,  \* what it has heard since
    torn

bus == <<log, from, heard, torn>>

BusInit ==
    /\ log = <<>> /\ torn = FALSE
    /\ from = [c \in Listeners |-> 0] /\ heard = [c \in Listeners |-> <<>>]

(* Messages get into the order, none of them twice.                        *)
Broadcast ==
    /\ log' \in Seq(Messages) /\ Len(log') > Len(log)
    /\ \A i \in 1..Len(log) : log'[i] = log[i]
    /\ \A i, j \in 1..Len(log') : log'[i] = log'[j] => i = j
    /\ UNCHANGED <<from, heard, torn>>

(* Hearing the next one.                                                   *)
Hear(c) ==
    LET next == from[c] + Len(heard[c]) + 1 IN
    /\ next <= Len(log)
    /\ heard' = [heard EXCEPT ![c] = Append(@, log[next])]
    /\ UNCHANGED <<log, from, torn>>

TuneIn(c) ==
    /\ from' = [from EXCEPT ![c] = Len(log)]
    /\ heard' = [heard EXCEPT ![c] = <<>>]
    /\ UNCHANGED <<log, torn>>

BusNext == torn' \/ Broadcast \/ \E c \in Listeners : Hear(c) \/ TuneIn(c)

BusSpec == BusInit /\ [][BusNext]_bus
=============================================================================

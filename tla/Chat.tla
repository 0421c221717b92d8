-------------------------------- MODULE Chat --------------------------------
(***************************************************************************)
(* Chat between the servers.  Every server has a connection to the chat    *)
(* server, the hub, which sends each packet it receives to all of them,    *)
(* the sender included.  A server without a connection talks to itself     *)
(* and tries to get one (chat.c).  The hub kicks whoever is too slow to    *)
(* take what it is sent (chatserver.c).                                    *)
(*                                                                         *)
(* A packet is cut into PacketLen pieces: the stream of a connection is a  *)
(* sequence of pieces, and a socket takes and gives any number of them.    *)
(* A connection is known by its number; it ends when either side closes    *)
(* it or the network breaks it.                                            *)
(***************************************************************************)
EXTENDS Naturals, Sequences, SequencesExt, FiniteSets

CONSTANTS
    Servers,
    Messages,
    PacketLen,   \* pieces of a packet
    HubBuffer,   \* OUTBUFSIZE - 1: pieces the hub keeps for a connection
    MaxConns,    \* bound: connections ever opened
    MaxTrouble,  \* bound: sends that fail or are cut short, connections that break
    Junk         \* what is made of pieces that do not belong together

ASSUME ChatAssumption ==
    /\ PacketLen \in Nat \ {0, 1} /\ HubBuffer \in Nat
    /\ MaxConns \in Nat /\ MaxTrouble \in Nat /\ Junk \notin Messages

Conns == 1..MaxConns

VARIABLES
    state,    \* server: "off" (0), "trying" (1) or "on" (connected)
    cur,      \* its connection, or 0
    inbuf,    \* what it has received and not used
    owner,    \* who opened a connection; <<>> grows with each
    up,       \* what the network carries to the hub ...
    down,     \* ... and from it
    broken,   \* connections the network has broken
    hub,      \* the hub: "new" (not accepted yet), "open" or "gone"
    hin,      \* its inbuf of a connection
    hout,     \* its obuf
    said,     \* history: messages that have been sent or said alone
    log,      \* history: messages in the order the hub sent them on
    from,     \* history: how long log was when the hub accepted the server
    heard,    \* history: what it has heard from the hub since
    torn,     \* history: half a packet was taken for the start of another
    trouble   \* bound

client == <<state, cur, inbuf>>
network == <<owner, up, down, broken>>
hubVars == <<hub, hin, hout>>
history == <<said, log, from, heard, torn>>
vars == <<client, network, hubVars, history, trouble>>

Pieces == (Messages \cup {Junk}) \X (1..PacketLen)

Packet(m) == [i \in 1..PacketLen |-> <<m, i>>]

TypeOK ==
    /\ state \in [Servers -> {"off", "trying", "on"}]
    /\ cur \in [Servers -> 0..Len(owner)]
    /\ inbuf \in [Servers -> Seq(Pieces)]
    /\ owner \in Seq(Servers) /\ Len(owner) <= MaxConns
    /\ up \in [Conns -> Seq(Pieces)] /\ down \in [Conns -> Seq(Pieces)]
    /\ broken \subseteq Conns
    /\ hub \in [Conns -> {"new", "open", "gone"}]
    /\ hin \in [Conns -> Seq(Pieces)] /\ hout \in [Conns -> Seq(Pieces)]
    /\ said \subseteq Messages /\ log \in Seq(Messages \cup {Junk})
    /\ from \in [Servers -> Nat]
    /\ heard \in [Servers -> Seq(Messages \cup {Junk})]
    /\ torn \in BOOLEAN /\ trouble \in 0..MaxTrouble

Init ==
    /\ state = [s \in Servers |-> "off"] /\ cur = [s \in Servers |-> 0]
    /\ inbuf = [s \in Servers |-> <<>>]
    /\ owner = <<>> /\ broken = {}
    /\ up = [k \in Conns |-> <<>>] /\ down = [k \in Conns |-> <<>>]
    /\ hub = [k \in Conns |-> "new"]
    /\ hin = [k \in Conns |-> <<>>] /\ hout = [k \in Conns |-> <<>>]
    /\ said = {} /\ log = <<>> /\ torn = FALSE
    /\ from = [s \in Servers |-> 0] /\ heard = [s \in Servers |-> <<>>]
    /\ trouble = 0

Trouble == trouble < MaxTrouble /\ trouble' = trouble + 1

(* The message that whole packets, one after the other, stand for.         *)
Whole(pieces, k) ==
    LET p == SubSeq(pieces, (k - 1) * PacketLen + 1, k * PacketLen) IN
    IF \E m \in Messages : p = Packet(m) THEN p[1][1] ELSE Junk

Count(pieces) == Len(pieces) \div PacketLen

MessagesOf(pieces) == [k \in 1..Count(pieces) |-> Whole(pieces, k)]

Rest(pieces) == SubSeq(pieces, Count(pieces) * PacketLen + 1, Len(pieces))
-----------------------------------------------------------------------------
(* A server.                                                               *)

Live(k) == hub[k] # "gone" /\ k \notin broken

(* connect_chat.  What is left in inbuf of an older connection stays.      *)
Connect(s) ==
    /\ state[s] = "off" /\ Len(owner) < MaxConns
    /\ owner' = Append(owner, s)
    /\ cur' = [cur EXCEPT ![s] = Len(owner')]
    /\ state' = [state EXCEPT ![s] = "trying"]
    /\ torn' = (torn \/ inbuf[s] # <<>>)
    /\ UNCHANGED <<inbuf, up, down, broken, hubVars, said, log, from, heard, trouble>>

(* tick_chat: select says the socket is connected, ...                     *)
Connected(s) ==
    /\ state[s] = "trying"
    /\ state' = [state EXCEPT ![s] = "on"]
    /\ UNCHANGED <<cur, inbuf, network, hubVars, history, trouble>>

(* ... or that it is not.                                                  *)
ConnectFails(s) ==
    /\ state[s] = "trying" /\ Trouble
    /\ state' = [state EXCEPT ![s] = "off"]
    /\ broken' = broken \cup {cur[s]}
    /\ cur' = [cur EXCEPT ![s] = 0]
    /\ UNCHANGED <<inbuf, owner, up, down, hubVars, history>>

(* send_chat of a server that is not connected: rec_chat, at once.         *)
SayAlone(s, m) ==
    /\ state[s] # "on" /\ m \notin said
    /\ said' = said \cup {m}
    /\ UNCHANGED <<client, network, hubVars, log, from, heard, torn, trouble>>

(* send takes the packet.  When nobody is at the other end any more it is  *)
(* lost.                                                                   *)
Say(s, m) ==
    /\ state[s] = "on" /\ m \notin said
    /\ said' = said \cup {m}
    /\ up' = [up EXCEPT ![cur[s]] = IF Live(cur[s]) THEN @ \o Packet(m) ELSE @]
    /\ UNCHANGED <<client, owner, down, broken, hubVars, log, from, heard, torn, trouble>>

(* send takes a part of it, which goes unnoticed.                          *)
SayPart(s, m, n) ==
    /\ state[s] = "on" /\ m \notin said /\ Trouble
    /\ said' = said \cup {m}
    /\ up' = [up EXCEPT ![cur[s]] =
                 IF Live(cur[s]) THEN @ \o SubSeq(Packet(m), 1, n) ELSE @]
    /\ torn' = TRUE
    /\ UNCHANGED <<client, owner, down, broken, hubVars, log, from, heard>>

(* send fails: the connection is closed and the message said alone.        *)
SayFails(s, m) ==
    /\ state[s] = "on" /\ m \notin said
    /\ Live(cur[s]) => trouble < MaxTrouble
    /\ trouble' = IF Live(cur[s]) THEN trouble + 1 ELSE trouble
    /\ said' = said \cup {m}
    /\ state' = [state EXCEPT ![s] = "off"] /\ cur' = [cur EXCEPT ![s] = 0]
    /\ down' = [down EXCEPT ![cur[s]] = <<>>]
    /\ UNCHANGED <<inbuf, owner, up, broken, hubVars, log, from, heard, torn>>

(* Mutant: what is behind the packet is dropped with it.                   *)
HearsOne(s, buf) ==
    IF Len(buf) < PacketLen
    THEN inbuf' = [inbuf EXCEPT ![s] = buf] /\ UNCHANGED heard
    ELSE /\ heard' = [heard EXCEPT ![s] = Append(@, Whole(buf, 1))]
         /\ inbuf' = [inbuf EXCEPT ![s] = <<>>]

(* Mutant: a packet is taken when there is something behind it.            *)
HearsLate(s, buf) ==
    IF Len(buf) <= PacketLen
    THEN inbuf' = [inbuf EXCEPT ![s] = buf] /\ UNCHANGED heard
    ELSE /\ heard' = [heard EXCEPT ![s] = Append(@, Whole(buf, 1))]
         /\ inbuf' = [inbuf EXCEPT ![s] = SubSeq(buf, PacketLen + 1, Len(buf))]

(* The packet the loop of tick_chat finds in buf, if any.                  *)
Hears(s, buf) ==
    IF Len(buf) < PacketLen
    THEN inbuf' = [inbuf EXCEPT ![s] = buf] /\ UNCHANGED heard
    ELSE /\ heard' = [heard EXCEPT ![s] = Append(@, Whole(buf, 1))]
         /\ inbuf' = [inbuf EXCEPT ![s] = SubSeq(buf, PacketLen + 1, Len(buf))]

(* tick_chat, once round its loop: recv, and rec_chat.  That the other     *)
(* side has closed the connection goes unnoticed.                          *)
TickChat(s, n) ==
    LET k == cur[s] IN
    /\ state[s] = "on" /\ n <= Len(down[k])
    /\ n = 0 => Len(inbuf[s]) >= PacketLen
    /\ Hears(s, inbuf[s] \o SubSeq(down[k], 1, n))
    /\ down' = [down EXCEPT ![k] = SubSeq(@, n + 1, Len(@))]
    /\ UNCHANGED <<state, cur, owner, up, broken, hubVars, said, log, from, torn, trouble>>
-----------------------------------------------------------------------------
(* The hub.                                                                *)

(* new_chat *)
Accept(k) ==
    /\ k \in 1..Len(owner) /\ hub[k] = "new" /\ k \notin broken
    /\ hub' = [hub EXCEPT ![k] = "open"]
    /\ IF cur[owner[k]] = k
       THEN /\ from' = [from EXCEPT ![owner[k]] = Len(log)]
            /\ heard' = [heard EXCEPT ![owner[k]] = <<>>]
       ELSE UNCHANGED <<from, heard>>
    /\ UNCHANGED <<client, network, hin, hout, said, log, torn, trouble>>

(* Has the other side closed it, with everything read?                     *)
Closed(k) == k \in broken \/ (cur[owner[k]] # k /\ up[k] = <<>>)

(* kick_chat, of all of gone.                                              *)
Kicked(gone, ins, outs) ==
    /\ hub' = [k \in Conns |-> IF k \in gone THEN "gone" ELSE hub[k]]
    /\ hin' = [k \in Conns |-> IF k \in gone THEN <<>> ELSE ins[k]]
    /\ hout' = [k \in Conns |-> IF k \in gone THEN <<>> ELSE outs[k]]

(* Mutant: whoever sent a packet is left out.                              *)
RecChatNotSelf(k, n) ==
    LET buf == hin[k] \o SubSeq(up[k], 1, n)
        all == SubSeq(buf, 1, Count(buf) * PacketLen)
        others == {j \in Conns \ {k} : hub[j] = "open"}
        slow == {j \in others : Len(hout[j]) + Len(all) > HubBuffer}
    IN
    /\ hub[k] = "open" /\ n \in 1..Len(up[k]) /\ k \notin broken
    /\ up' = [up EXCEPT ![k] = SubSeq(@, n + 1, Len(@))]
    /\ Kicked(slow, [hin EXCEPT ![k] = Rest(buf)],
              [j \in Conns |-> IF j \in others THEN hout[j] \o all ELSE hout[j]])
    /\ log' = log \o MessagesOf(all)
    /\ UNCHANGED <<client, owner, down, broken, said, from, heard, torn, trouble>>

(* csend to every connection: those that have no room for it are kicked.   *)
RecChat(k, n) ==
    LET buf == hin[k] \o SubSeq(up[k], 1, n)
        all == SubSeq(buf, 1, Count(buf) * PacketLen)
        slow == {j \in Conns : hub[j] = "open" /\ Len(hout[j]) + Len(all) > HubBuffer}
    IN
    /\ hub[k] = "open" /\ n \in 1..Len(up[k]) /\ k \notin broken
    /\ up' = [up EXCEPT ![k] = SubSeq(@, n + 1, Len(@))]
    /\ Kicked(slow, [hin EXCEPT ![k] = Rest(buf)],
              [j \in Conns |-> IF hub[j] = "open" THEN hout[j] \o all ELSE hout[j]])
    /\ log' = log \o MessagesOf(all)
    /\ UNCHANGED <<client, owner, down, broken, said, from, heard, torn, trouble>>

(* The length of a torn packet is nonsense.                                *)
RecNonsense(k) ==
    /\ torn /\ hub[k] = "open" /\ up[k] # <<>>
    /\ Kicked({k}, hin, hout)
    /\ UNCHANGED <<client, network, history, trouble>>

(* recv or send fails.                                                     *)
KickClosed(k) ==
    /\ hub[k] = "open" /\ Closed(k)
    /\ Kicked({k}, hin, hout)
    /\ UNCHANGED <<client, network, history, trouble>>

(* send_chat: the socket takes n pieces.                                   *)
SendOn(k, n) ==
    /\ hub[k] = "open" /\ n \in 1..Len(hout[k])
    /\ cur[owner[k]] = k /\ k \notin broken
    /\ hout' = [hout EXCEPT ![k] = SubSeq(@, n + 1, Len(@))]
    /\ down' = [down EXCEPT ![k] = @ \o SubSeq(hout[k], 1, n)]
    /\ UNCHANGED <<client, owner, up, broken, hub, hin, history, trouble>>

(* The network breaks a connection, with what is on its way.               *)
Break(k) ==
    /\ k \in 1..Len(owner) /\ k \notin broken /\ Trouble
    /\ broken' = broken \cup {k}
    /\ up' = [up EXCEPT ![k] = <<>>] /\ down' = [down EXCEPT ![k] = <<>>]
    /\ UNCHANGED <<client, owner, hubVars, history>>
-----------------------------------------------------------------------------
Speak(s) == \E m \in Messages :
    SayAlone(s, m) \/ Say(s, m) \/ SayFails(s, m)
    \/ \E n \in 1..(PacketLen - 1) : SayPart(s, m, n)

Listen(s) == \E n \in 0..(PacketLen * Cardinality(Messages)) : TickChat(s, n)

Forward(k) == \E n \in 1..HubBuffer : SendOn(k, n)

Receive(k) == \E n \in 1..(PacketLen * Cardinality(Messages)) : RecChat(k, n)

Next ==
    \/ \E s \in Servers : Connect(s) \/ Connected(s) \/ ConnectFails(s)
                         \/ Speak(s) \/ Listen(s)
    \/ \E k \in Conns : Accept(k) \/ Receive(k) \/ RecNonsense(k)
                       \/ KickClosed(k) \/ Forward(k) \/ Break(k)

Spec == Init /\ [][Next]_vars

(* Servers call tick_chat in every tick, the hub goes round its loop.      *)
Fairness ==
    /\ \A s \in Servers : WF_vars(Connected(s)) /\ WF_vars(Listen(s))
    /\ \A k \in Conns : WF_vars(Forward(k))

LiveSpec == Spec /\ Fairness
-----------------------------------------------------------------------------
(* Correctness.                                                            *)

(* The packets of messages, one after the other.                           *)
Packets(messages) == [i \in 1..(Len(messages) * PacketLen) |->
    <<messages[(i - 1) \div PacketLen + 1], ((i - 1) % PacketLen) + 1>>]

(* What a server has still to hear of the log, in pieces.                  *)
Unheard(s) == Packets(SubSeq(log, from[s] + Len(heard[s]) + 1, Len(log)))

(* The buffers of the hub, the network and the server hold exactly the     *)
(* packets that the server has not heard yet, in the order of the log and  *)
(* cut anywhere; when the hub has kicked it, a first part of them.         *)
OnTheWay == ~torn => \A s \in Servers :
    LET k == cur[s]
        coming == inbuf[s] \o down[k]
    IN state[s] = "on" /\ hub[k] # "new" =>
          IF hub[k] = "open" /\ k \notin broken THEN coming \o hout[k] = Unheard(s)
          ELSE IsPrefix(coming, Unheard(s))

ChatInv == TypeOK /\ OnTheWay

(* Servers hear the messages that pass the hub in one order and each of    *)
(* them once, although the hub kicks those that are slow, connections      *)
(* break and are opened again.  Two steps of the code leave half a packet  *)
(* in front of the next one: a send that is cut short, and a connection    *)
(* that breaks when half a packet is in inbuf.                             *)
Bus == INSTANCE ChatBus WITH Listeners <- Servers

IsBus == Bus!BusSpec

(* Whoever keeps its connection hears every message.                       *)
MessageHeard == \A k \in Conns, i \in 1..Cardinality(Messages) :
    k <= Len(owner) /\ hub[k] = "open" /\ Len(log) >= i
        ~> \/ k > Len(owner) \/ hub[k] = "gone" \/ cur[owner[k]] # k \/ k \in broken \/ torn
           \/ from[owner[k]] + Len(heard[owner[k]]) >= i
=============================================================================

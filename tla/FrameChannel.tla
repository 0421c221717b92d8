---------------------------- MODULE FrameChannel ----------------------------
(***************************************************************************)
(* What the connection of a player promises: the client gets the frames    *)
(* the server sent, whole and in order, from the first one on.  When a     *)
(* connection ends frames may be missing at its end, and the next one      *)
(* starts afresh.                                                          *)
(***************************************************************************)
EXTENDS Naturals, Sequences

CONSTANT Frame

VARIABLES
    alive,  \* does the server still send on this connection?
    sent,   \* the frames it has sent
    taken   \* the frames the client has taken

Last(s) == s[Len(s)]

channelVars == <<alive, sent, taken>>

ChannelInit == alive = TRUE /\ sent = <<>> /\ taken = <<>>

Send ==
    /\ alive
    /\ sent' # <<>> /\ Last(sent') \in Frame
    /\ sent' = Append(sent, Last(sent'))
    /\ UNCHANGED <<alive, taken>>

Take ==
    /\ Len(taken) < Len(sent)
    /\ taken' = Append(taken, sent[Len(taken) + 1])
    /\ UNCHANGED <<alive, sent>>

End ==
    /\ alive' = FALSE
    /\ UNCHANGED <<sent, taken>>

Renew ==
    /\ ~alive
    /\ alive' = TRUE /\ sent' = <<>> /\ taken' = <<>>

ChannelNext == Send \/ Take \/ End \/ Renew

ChannelSpec == ChannelInit /\ [][ChannelNext]_channelVars
=============================================================================

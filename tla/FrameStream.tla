---------------------------- MODULE FrameStream ----------------------------
(***************************************************************************)
(* The connection of a player, from psend of the server to next_tick of    *)
(* the client.                                                             *)
(*                                                                         *)
(* During a tick the server collects what it wants to tell a client in     *)
(* tbuf (psend).  At the end of the tick pflush makes one frame of it, a   *)
(* header of one or two bytes and a body that is compressed unless it is   *)
(* short, and copies it into the ring buffer obuf (csend); a ring that     *)
(* gets full costs the client its connection.  io_loop sends from the ring *)
(* whatever the socket takes.  The client appends what it receives to      *)
(* inbuf, counts the ticks that are there or announced (poll_network) and  *)
(* takes them out one at a time (next_tick).                               *)
(*                                                                         *)
(* A byte is a number.  Small stands for 64: what is below it are the six  *)
(* bits of a length, Small and 2 * Small are the bits 0x40 (small tick)    *)
(* and 0x80 (compressed) above them, Base is 256.                          *)
(***************************************************************************)
EXTENDS Naturals, Sequences, SequencesExt

CONSTANTS
    Size,       \* OBUFSIZE
    Small,      \* 64
    MinZip,     \* 16: a body of this length is not compressed
    Greeting,   \* bytes new_player leaves in tbuf
    Lens,       \* what one psend may add, in bytes
    RawBodies,  \* contents of tbuf
    ZipBodies,  \* what deflate may make of them
    Pieces,     \* bound: a socket takes or gives so many bytes, or all
    MaxFrames,  \* bound: frames of one connection
    MaxConns,   \* bound: connections
    Fragile     \* may the network break a connection?

Base == 4 * Small
Bytes == 0..(Base - 1)
AllOnes == Base - 1

ASSUME SizeAssumption ==
    /\ Size \in Nat /\ Small \in Nat /\ MinZip \in Nat
    /\ Small >= 2 /\ MinZip < Small - 1
    /\ Size > 2 /\ Size <= Small * Base
    /\ Greeting \in 0..(Size - 1)

(* A block of deflate that is not the last one starts with a 0 bit, and    *)
(* the stream with 0x58.                                                   *)
ASSUME BodyAssumption ==
    /\ RawBodies \subseteq Seq(Bytes) /\ ZipBodies \subseteq Seq(Bytes)
    /\ \A n \in 0..MinZip : \E b \in RawBodies : Len(b) = n
    /\ \A b \in ZipBodies : Len(b) \in 1..Size /\ b[1] # AllOnes

ASSUME BoundAssumption ==
    /\ Lens \subseteq Nat \ {0} /\ Pieces \subseteq Nat \ {0}
    /\ MaxFrames \in Nat /\ MaxConns \in Nat /\ Fragile \in BOOLEAN

VARIABLES
    open,      \* server: player[nr] is there
    tptr,      \* length of what is in tbuf
    obuf,      \* the ring buffer
    iptr,      \* where csend writes next
    optr,      \* where send_player reads next
    rest,      \* what csend has still to copy of the current frame
    wire,      \* bytes the network carries
    linked,    \* client: has a socket
    inbuf,     \* bytes received and not taken
    ticksize,  \* lastticksize: the length of the ticks counted so far
    got,       \* history: the frames the client has taken
    frames,    \* history: the frames of this connection, ...
    at,        \* ... where each starts in the stream, ...
    stream,    \* ... and all their bytes but those lost with the entry
    conns      \* bound: connections so far

serverVars == <<open, tptr, obuf, iptr, optr, rest>>
clientVars == <<linked, inbuf, ticksize, got>>
history == <<frames, at>>
vars == <<serverVars, wire, clientVars, history, stream, conns>>
-----------------------------------------------------------------------------
(* Headers.                                                                *)

Bit(b, value) == IF b THEN value ELSE 0

(* Mutant: a body of 64 bytes gets a short header (64 | 0x40 is 0x40).     *)
HeaderOffByOne(n, zip) ==
    IF n > Small
    THEN <<n \div Base + Bit(zip, 2 * Small), n % Base>>
    ELSE <<(n % Small) + Small + Bit(zip, 2 * Small)>>

(* The header of a body of n bytes.                                        *)
Header(n, zip) ==
    IF n > Small - 1
    THEN <<n \div Base + Bit(zip, 2 * Small), n % Base>>
    ELSE <<n + Small + Bit(zip, 2 * Small)>>

(* Reading it back: the bits of a byte, and two bytes as a length.         *)
ZipBit(b) == b >= 2 * Small
SevenBits(b) == IF ZipBit(b) THEN b - 2 * Small ELSE b
SmallBit(b) == SevenBits(b) >= Small
SixBits(b) == IF SmallBit(b) THEN SevenBits(b) - Small ELSE SevenBits(b)

Frames == [zip : BOOLEAN, body : Seq(Bytes)]

Raw(f) == Header(Len(f.body), f.zip) \o f.body
-----------------------------------------------------------------------------
NoData == [i \in 0..(Size - 1) |-> 0]

TypeOK ==
    /\ open \in BOOLEAN /\ linked \in BOOLEAN
    /\ tptr \in 0..(Size - 1)
    /\ obuf \in [0..(Size - 1) -> Bytes]
    /\ iptr \in 0..(Size - 1) /\ optr \in 0..(Size - 1)
    /\ rest \in Seq(Bytes) /\ wire \in Seq(Bytes) /\ inbuf \in Seq(Bytes)
    /\ ticksize \in Nat
    /\ frames \in Seq(Frames) /\ got \in Seq(Frames)
    /\ at \in Seq(Nat) /\ stream \in Seq(Bytes)
    /\ conns \in Nat

(* A connection that has just been made.                                   *)
Init ==
    /\ open = TRUE /\ tptr = Greeting
    /\ obuf = NoData /\ iptr = 0 /\ optr = 0 /\ rest = <<>>
    /\ wire = <<>>
    /\ linked = TRUE /\ inbuf = <<>> /\ ticksize = 0 /\ got = <<>>
    /\ frames = <<>> /\ at = <<>> /\ stream = <<>>
    /\ conns = 1
-----------------------------------------------------------------------------
(* The server.                                                             *)

(* Between two calls of the main loop; a csend runs to its end.            *)
Idle == open /\ rest = <<>>

Wrap(p) == IF p >= Size THEN p - Size ELSE p

(* How many bytes the ring holds.                                          *)
Used == IF iptr >= optr THEN iptr - optr ELSE Size - optr + iptr

(* exit_player: the entry is freed, with all that was not sent yet.        *)
ExitPlayer ==
    /\ open' = FALSE
    /\ tptr' = 0 /\ obuf' = NoData /\ iptr' = 0 /\ optr' = 0 /\ rest' = <<>>
    /\ stream' = SubSeq(stream, 1, Len(stream) - Len(rest) - Used)
    /\ UNCHANGED <<clientVars, history, conns>>

(* check_idle, a duplicate login, a character that is gone.                *)
Kick ==
    /\ Idle
    /\ ExitPlayer /\ UNCHANGED wire

Psend(n) ==
    /\ Idle /\ Len(frames) < MaxFrames
    /\ tptr + n < Size
    /\ tptr' = tptr + n
    /\ UNCHANGED <<open, obuf, iptr, optr, rest, wire, clientVars,
                   history, stream, conns>>

PsendOverflow(n) ==
    /\ Idle /\ Len(frames) < MaxFrames
    /\ tptr + n >= Size
    /\ ExitPlayer /\ UNCHANGED wire

(* pflush, up to the first csend: one frame a tick, even an empty one.     *)
Pflush(zip, body) ==
    LET f == [zip |-> zip, body |-> body] IN
    /\ Idle /\ Len(frames) < MaxFrames
    /\ zip = (tptr > MinZip)
    /\ IF zip THEN body \in ZipBodies ELSE body \in RawBodies /\ Len(body) = tptr
    /\ rest' = Raw(f)
    /\ tptr' = 0
    /\ frames' = Append(frames, f)
    /\ at' = Append(at, Len(stream))
    /\ stream' = stream \o Raw(f)
    /\ UNCHANGED <<open, obuf, iptr, optr, wire, clientVars, conns>>

(* deflate fails, or has no room for all of its output.                    *)
PflushFails ==
    /\ Idle /\ tptr > MinZip
    /\ ExitPlayer /\ UNCHANGED wire

(* csend goes round once: as much as fits before the end of obuf or before *)
(* what was not sent yet.                                                  *)
Room == IF iptr >= optr THEN Size - iptr ELSE optr - iptr

Chunk == IF Room < Len(rest) THEN Room ELSE Len(rest)

(* Mutant: whether the ring is full is not looked at.                      *)
CsendNoCheck ==
    /\ open /\ rest # <<>>
    /\ obuf' = [p \in 0..(Size - 1) |->
                  IF p >= iptr /\ p < iptr + Chunk THEN rest[p - iptr + 1] ELSE obuf[p]]
    /\ iptr' = Wrap(iptr + Chunk)
    /\ rest' = SubSeq(rest, Chunk + 1, Len(rest))
    /\ UNCHANGED <<open, tptr, optr, wire, clientVars, history, stream, conns>>

Csend ==
    /\ open /\ rest # <<>>
    /\ Wrap(iptr + Chunk) # optr
    /\ obuf' = [p \in 0..(Size - 1) |->
                  IF p >= iptr /\ p < iptr + Chunk THEN rest[p - iptr + 1] ELSE obuf[p]]
    /\ iptr' = Wrap(iptr + Chunk)
    /\ rest' = SubSeq(rest, Chunk + 1, Len(rest))
    /\ UNCHANGED <<open, tptr, optr, wire, clientVars, history, stream, conns>>

CsendOverflow ==
    /\ open /\ rest # <<>>
    /\ Wrap(iptr + Chunk) = optr
    /\ ExitPlayer /\ UNCHANGED wire

Sendable == IF iptr < optr THEN Size - optr ELSE iptr - optr

(* Mutant: the end of the ring is taken for the end of the data.           *)
SendPlayerNoWrap(n) ==
    /\ Idle /\ linked /\ iptr # optr
    /\ n <= Sendable
    /\ wire' = wire \o [i \in 1..n |-> obuf[optr + i - 1]]
    /\ optr' = IF optr + n = Size THEN iptr ELSE optr + n
    /\ UNCHANGED <<open, tptr, obuf, iptr, rest, clientVars, history, stream, conns>>

(* send_player: the socket takes n of the bytes up to the end of the data  *)
(* or of the ring.                                                         *)
SendPlayer(n) ==
    /\ Idle /\ linked /\ iptr # optr
    /\ n <= Sendable
    /\ wire' = wire \o [i \in 1..n |-> obuf[optr + i - 1]]
    /\ optr' = Wrap(optr + n)
    /\ UNCHANGED <<open, tptr, obuf, iptr, rest, clientVars, history, stream, conns>>

(* send_player or rec_player finds the connection gone.                    *)
FindBroken ==
    /\ Idle /\ ~linked
    /\ ExitPlayer /\ UNCHANGED wire
-----------------------------------------------------------------------------
(* The client.                                                             *)

NoTick == [size |-> 0, skip |-> 0, zip |-> FALSE]

(* The tick whose header stands behind the first p bytes of buf, as far as *)
(* that can be told.  255, 255 starts a big tick with two more bytes of    *)
(* length; this server never sends one.                                    *)
TickAt(buf, p) ==
    LET used == Len(buf) - p
        b == buf[p + 1]
        c == buf[p + 2]
    IN
    IF Len(buf) < p + 1 THEN NoTick
    ELSE IF used = 1 /\ b = AllOnes THEN NoTick
    ELSE IF b = AllOnes /\ c = AllOnes
    THEN IF used < 4 THEN NoTick
         ELSE [size |-> 4 + buf[p + 3] * Base + buf[p + 4], skip |-> 4, zip |-> FALSE]
    ELSE IF SmallBit(b)
    THEN [size |-> 1 + SixBits(b), skip |-> 1, zip |-> ZipBit(b)]
    ELSE IF used >= 2
    THEN [size |-> 2 + SixBits(b) * Base + c, skip |-> 2, zip |-> ZipBit(b)]
    ELSE NoTick

(* The loop of poll_network that counts ticks.                             *)
Counted(buf, p) ==
    LET count[q \in Nat] ==
            IF TickAt(buf, q).size = 0 THEN q ELSE count[q + TickAt(buf, q).size]
    IN count[p]

PollNetwork(n) ==
    /\ linked /\ n <= Len(wire)
    /\ inbuf' = inbuf \o SubSeq(wire, 1, n)
    /\ wire' = SubSeq(wire, n + 1, Len(wire))
    /\ ticksize' = Counted(inbuf', ticksize)
    /\ UNCHANGED <<serverVars, linked, got, history, stream, conns>>

(* recv returns 0: "connection lost during read".                          *)
ConnectionLost ==
    /\ linked /\ ~open /\ wire = <<>>
    /\ linked' = FALSE
    /\ UNCHANGED <<serverVars, wire, inbuf, ticksize, got, history, stream, conns>>

(* Mutant: the ticks counted include those taken.                          *)
NextTickNoCount ==
    LET t == TickAt(inbuf, 0) IN
    /\ linked /\ t.size # 0 /\ t.size <= Len(inbuf)
    /\ got' = Append(got, [zip |-> t.zip, body |-> SubSeq(inbuf, t.skip + 1, t.size)])
    /\ inbuf' = SubSeq(inbuf, t.size + 1, Len(inbuf))
    /\ UNCHANGED <<serverVars, wire, linked, ticksize, history, stream, conns>>

(* Mutant: a tick is taken when there is something behind it.              *)
NextTickLate ==
    LET t == TickAt(inbuf, 0) IN
    /\ linked /\ t.size # 0 /\ t.size < Len(inbuf)
    /\ got' = Append(got, [zip |-> t.zip, body |-> SubSeq(inbuf, t.skip + 1, t.size)])
    /\ inbuf' = SubSeq(inbuf, t.size + 1, Len(inbuf))
    /\ ticksize' = ticksize - t.size
    /\ UNCHANGED <<serverVars, wire, linked, history, stream, conns>>

(* next_tick: take the first tick when all of it is there.                 *)
NextTick ==
    LET t == TickAt(inbuf, 0) IN
    /\ linked /\ t.size # 0 /\ t.size <= Len(inbuf)
    /\ got' = Append(got, [zip |-> t.zip, body |-> SubSeq(inbuf, t.skip + 1, t.size)])
    /\ inbuf' = SubSeq(inbuf, t.size + 1, Len(inbuf))
    /\ ticksize' = ticksize - t.size
    /\ UNCHANGED <<serverVars, wire, linked, history, stream, conns>>

(* The network breaks the connection, with what is on its way.             *)
Break ==
    /\ Fragile /\ linked
    /\ linked' = FALSE /\ wire' = <<>>
    /\ UNCHANGED <<serverVars, inbuf, ticksize, got, history, stream, conns>>

(* poll_network connects again and clears the buffers (bzero_client),      *)
(* new_player finds a free entry.                                          *)
Connect ==
    /\ ~open /\ ~linked /\ conns < MaxConns
    /\ open' = TRUE /\ tptr' = Greeting
    /\ linked' = TRUE /\ inbuf' = <<>> /\ ticksize' = 0 /\ got' = <<>>
    /\ wire' = <<>>
    /\ frames' = <<>> /\ at' = <<>> /\ stream' = <<>>
    /\ conns' = conns + 1
    /\ UNCHANGED <<obuf, iptr, optr, rest>>
-----------------------------------------------------------------------------
Collect == \E n \in Lens : Psend(n) \/ PsendOverflow(n)

Flush == \/ \E zip \in BOOLEAN, body \in RawBodies \cup ZipBodies : Pflush(zip, body)
         \/ PflushFails

Copy == Csend \/ CsendOverflow

Transmit == \E n \in Pieces \cup {Sendable} : SendPlayer(n)

Receive == wire # <<>> /\ \E n \in Pieces \cup {Len(wire)} : PollNetwork(n)

Next == \/ Collect \/ Flush \/ Copy \/ Transmit \/ FindBroken \/ Kick
        \/ Receive \/ ConnectionLost \/ NextTick \/ Break \/ Connect

Spec == Init /\ [][Next]_vars

(* The main loop finishes its calls and goes round again and again; the    *)
(* client polls and decodes as long as it runs; the network delivers.      *)
Fairness == WF_vars(Copy) /\ WF_vars(Transmit) /\ WF_vars(Receive) /\ WF_vars(NextTick)

LiveSpec == Spec /\ Fairness
-----------------------------------------------------------------------------
(* Correctness.                                                            *)

(* How many bytes of the stream went into the ring, out of it, reached the *)
(* client, and were taken by it.                                           *)
CopiedBytes == Len(stream) - Len(rest)
SentBytes == CopiedBytes - Used
ReceivedBytes == SentBytes - Len(wire)
TakenBytes == ReceivedBytes - Len(inbuf)

EndOf(k) == IF k = 0 THEN 0 ELSE at[k] + Len(Raw(frames[k]))

(* The ring buffer, however far it has wrapped round, the network and      *)
(* inbuf hold the bytes of the stream in order.                            *)
RestInv == \A i \in 1..Len(rest) : rest[i] = stream[CopiedBytes + i]
RingInv == \A i \in 0..(Size - 1) :
    i < Used => obuf[Wrap(optr + i)] = stream[SentBytes + i + 1]
WireInv == \A i \in 1..Len(wire) : wire[i] = stream[ReceivedBytes + i]
InbufInv == linked => \A i \in 1..Len(inbuf) : inbuf[i] = stream[TakenBytes + i]

(* What one frame after the other has put into the stream.                 *)
FramesInv ==
    /\ Len(at) = Len(frames)
    /\ \A k \in 1..Len(frames) :
          /\ at[k] = EndOf(k - 1)
          /\ frames[k].zip => frames[k].body # <<>> /\ frames[k].body[1] # AllOnes
          /\ ~frames[k].zip => Len(frames[k].body) <= MinZip
          /\ \A i \in 1..Len(Raw(frames[k])) :
                at[k] + i <= Len(stream) => stream[at[k] + i] = Raw(frames[k])[i]
    /\ Len(stream) <= EndOf(Len(frames))
    /\ open => Len(stream) = EndOf(Len(frames))

StreamInv == TypeOK /\ RestInv /\ RingInv /\ WireInv /\ InbufInv /\ FramesInv

(* A header of two bytes has 14 bits for the length, "up to 16382 bytes".  *)
(* deflate may need more, but no such frame fits into the ring: whoever is *)
(* sent one is kicked before anything of it goes out.                      *)
HeaderFits == \A k \in 1..Len(frames) :
    EndOf(k) <= CopiedBytes => Len(frames[k].body) < Small * Base

(* The client gets the frames of the server, whole and in order, whatever  *)
(* pieces the sockets make of them, although the ring wraps round, the     *)
(* headers of small ticks look like the start of a big one, and a broken   *)
(* connection leaves half a frame behind.                                  *)
FramesInOrder == linked => IsPrefix(got, frames)

(* poll_network counts exactly the ticks that are there or announced, so   *)
(* that next_tick never takes one that was not counted.                    *)
TicksCounted == linked =>
    /\ \E k \in Len(got)..Len(frames) : ticksize = EndOf(k) - TakenBytes
    /\ \A k \in Len(got)..Len(frames) :
          EndOf(k) <= ReceivedBytes => EndOf(k) - TakenBytes <= ticksize

(* As long as the connection lasts every frame arrives.                    *)
FrameArrives == \A c \in 1..MaxConns, k \in 1..MaxFrames :
    conns = c /\ Len(frames) >= k
        ~> conns > c \/ ~open \/ ~linked \/ Len(got) >= k

(* The connection is the channel of FrameChannel.                          *)
Channel == INSTANCE FrameChannel
    WITH Frame <- Frames, alive <- open, sent <- frames, taken <- got

IsChannel == Channel!ChannelSpec
=============================================================================

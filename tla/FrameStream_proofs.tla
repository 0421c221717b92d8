------------------------- MODULE FrameStream_proofs -------------------------
(***************************************************************************)
(* Proofs about FrameStream, for any size of the ring buffer, any bodies   *)
(* and any pieces the sockets make of the stream: what the client takes    *)
(* are the frames of the server, whole and in order.                       *)
(***************************************************************************)
EXTENDS FrameStream, SequenceTheorems, WellFoundedInduction, TLAPS

-----------------------------------------------------------------------------
(* Headers.                                                                *)

(* The constants as numbers.                                               *)
LEMMA Constants ==
    /\ Size \in Nat /\ Size > 2 /\ Small \in Nat /\ Small >= 2
    /\ MinZip \in Nat /\ MinZip < Small - 1
    /\ Base \in Nat /\ Base = 4 * Small /\ Base > 3 * Small
    /\ Size <= Small * Base /\ Small * Base \in Nat
    /\ AllOnes = 4 * Small - 1 /\ Bytes = 0..(4 * Small - 1)
  BY SizeAssumption DEF Base, AllOnes, Bytes

(* A length as two digits.                                                 *)
LEMMA TwoDigits ==
    ASSUME NEW n \in Nat, n <= Small * Base
    PROVE  /\ n \div Base \in 0..Small /\ n % Base \in 0..(Base - 1)
           /\ (n \div Base) * Base + (n % Base) = n
           /\ n < Small * Base => n \div Base < Small
  <1> DEFINE q == n \div Base
             r == n % Base
  <1>1. Base \in Nat /\ Base > 0 /\ Small \in Nat
    BY Constants
  <1>2. q \in Nat /\ r \in 0..(Base - 1) /\ q * Base + r = n
    BY <1>1
  <1> HIDE DEF q, r
  <1>3. q <= Small
    <2>1. CASE q >= Small + 1
      <3>1. q * Base >= (Small + 1) * Base
        BY <1>1, <1>2, <2>1
      <3>2. (Small + 1) * Base = Small * Base + Base
        BY <1>1
      <3> QED BY <1>1, <1>2, <3>1, <3>2
    <2> QED BY <1>1, <1>2, <2>1
  <1>4. n < Small * Base => q < Small
    <2>1. q = Small => q * Base = Small * Base
      OBVIOUS
    <2> QED BY <1>1, <1>2, <1>3, <2>1
  <1> QED BY <1>1, <1>2, <1>3, <1>4 DEF q, r

(* A header is one or two bytes.                                           *)
LEMMA HeaderType ==
    ASSUME NEW n \in 0..Size, NEW zip \in BOOLEAN
    PROVE  /\ Header(n, zip) \in Seq(Bytes)
           /\ Len(Header(n, zip)) = IF n > Small - 1 THEN 2 ELSE 1
  <1>1. n \in Nat /\ n <= Small * Base
    BY Constants
  <1>2. Bit(zip, 2 * Small) \in {0, 2 * Small}
    BY DEF Bit
  <1>3. CASE n > Small - 1
    <2>1. n \div Base \in 0..Small /\ n % Base \in 0..(Base - 1)
      BY <1>1, TwoDigits, Zenon
    <2>2. n \div Base + Bit(zip, 2 * Small) \in Bytes /\ n % Base \in Bytes
      BY <1>2, <2>1, Constants
    <2> QED BY <1>3, <2>2 DEF Header
  <1>4. CASE ~(n > Small - 1)
    <2>1. n + Small + Bit(zip, 2 * Small) \in Bytes
      BY <1>1, <1>2, <1>4, Constants
    <2> QED BY <1>4, <2>1 DEF Header
  <1> QED BY <1>3, <1>4

(* What the client reads from a frame it has part of.                      *)
LEMMA HeaderRead ==
    ASSUME NEW f \in Frames, NEW buf \in Seq(Bytes),
           Len(f.body) < Small * Base, Len(f.body) <= Size,
           f.zip => f.body # <<>> /\ f.body[1] # AllOnes,
           ~f.zip => Len(f.body) <= MinZip,
           \A i \in 1..Len(buf) : i <= Len(Raw(f)) => buf[i] = Raw(f)[i],
           TickAt(buf, 0).size # 0
    PROVE  /\ TickAt(buf, 0).size = Len(Raw(f))
           /\ TickAt(buf, 0).skip = Len(Header(Len(f.body), f.zip))
           /\ TickAt(buf, 0).zip = f.zip
  <1> DEFINE n == Len(f.body)
             h == Header(n, f.zip)
             b == buf[1]
             c == buf[2]
  <1>1. n \in Nat /\ f.zip \in BOOLEAN /\ f.body \in Seq(Bytes) /\ Len(buf) \in Nat
    BY DEF Frames
  <1>2. h \in Seq(Bytes) /\ Len(h) = IF n > Small - 1 THEN 2 ELSE 1
    <2>1. n \in 0..Size
      BY <1>1, Constants
    <2> HIDE DEF n
    <2> QED BY <1>1, <2>1, HeaderType, Zenon
  <1>3. /\ Len(Raw(f)) = Len(h) + n
        /\ \A i \in 1..Len(h) : Raw(f)[i] = h[i]
        /\ \A i \in 1..n : Raw(f)[Len(h) + i] = f.body[i]
    <2>1. Raw(f) = h \o f.body
      BY DEF Raw
    <2> HIDE DEF h
    <2>2. h \in Seq(Bytes) /\ f.body \in Seq(Bytes)
      BY <1>1, <1>2
    <2> QED BY <2>1, <2>2, ConcatProperties
  <1>4. Len(buf) \in Nat /\ Len(buf) >= 1
    <2>1. Len(buf) < 0 + 1 => TickAt(buf, 0) = NoTick
      BY DEF TickAt
    <2> QED BY <1>1, <2>1 DEF NoTick
  <1>5. CASE n > Small - 1
    <2> DEFINE q == n \div Base
               r == n % Base
    <2>1. h = <<q + Bit(f.zip, 2 * Small), r>>
      BY <1>5 DEF Header
    <2>2. q \in Nat /\ q < Small /\ r \in Nat /\ q * Base + r = n
      <3>1. n <= Small * Base /\ n < Small * Base
        BY <1>1, Constants
      <3> HIDE DEF n
      <3>2. /\ q \in 0..Small /\ r \in 0..(Base - 1) /\ q * Base + r = n
            /\ n < Small * Base => q < Small
        BY <1>1, <3>1, TwoDigits, Zenon
      <3> QED BY <3>1, <3>2, Constants
    <2>3. b = q + Bit(f.zip, 2 * Small)
      BY <1>1, <1>2, <1>3, <1>4, <1>5, <2>1
    <2>4. Len(buf) >= 2 => c = r
      BY <1>1, <1>2, <1>3, <1>5, <2>1
    <2> HIDE DEF q, r, b, c, h, n
    <2>5. /\ b # AllOnes /\ ZipBit(b) = f.zip /\ ~SmallBit(b) /\ SixBits(b) = q
      BY <1>1, <2>2, <2>3, Constants DEF Bit, ZipBit, SmallBit, SixBits, SevenBits
    <2>6. TickAt(buf, 0) = IF Len(buf) >= 2
                           THEN [size |-> 2 + q * Base + c, skip |-> 2, zip |-> f.zip]
                           ELSE NoTick
      BY <1>1, <1>4, <2>5 DEF TickAt, b, c
    <2>7. Len(buf) >= 2
      BY <1>1, <2>6 DEF NoTick
    <2>8. /\ TickAt(buf, 0).size = 2 + n /\ TickAt(buf, 0).skip = 2
          /\ TickAt(buf, 0).zip = f.zip
      <3>1. 2 + q * Base + c = 2 + n
        <4>1. q * Base \in Nat
          BY <2>2, Constants
        <4> QED BY <1>1, <2>2, <2>4, <2>7, <4>1
      <3> QED BY <2>6, <2>7, <3>1
    <2> QED BY <1>1, <1>2, <1>3, <1>5, <2>8 DEF n, h
  <1>6. CASE ~(n > Small - 1)
    <2>1. h = <<n + Small + Bit(f.zip, 2 * Small)>>
      BY <1>6 DEF Header
    <2>2. b = n + Small + Bit(f.zip, 2 * Small)
      BY <1>1, <1>2, <1>3, <1>4, <1>6, <2>1
    <2>3. f.zip /\ Len(buf) >= 2 => c # AllOnes
      BY <1>1, <1>2, <1>3, <1>6
    <2> HIDE DEF b, c, h, n
    <2>4. ZipBit(b) = f.zip /\ SmallBit(b) /\ SixBits(b) = n /\ (b = AllOnes => f.zip)
      BY <1>1, <1>6, <2>2, Constants DEF Bit, ZipBit, SmallBit, SixBits, SevenBits
    <2>5. TickAt(buf, 0) = IF Len(buf) = 1 /\ b = AllOnes THEN NoTick
                           ELSE [size |-> 1 + n, skip |-> 1, zip |-> f.zip]
      <3>1. Len(buf) >= 2 => ~(b = AllOnes /\ c = AllOnes)
        BY <2>3, <2>4
      <3>2. CASE b # AllOnes
        BY <1>1, <1>4, <2>4, <3>2 DEF TickAt, b, c
      <3>3. CASE b = AllOnes /\ Len(buf) = 1
        BY <1>1, <3>3 DEF TickAt, b
      <3>4. CASE b = AllOnes /\ Len(buf) >= 2
        <4>1. c # AllOnes
          BY <3>1, <3>4
        <4> QED BY <1>1, <2>4, <3>4, <4>1 DEF TickAt, b, c
      <3>5. Len(buf) = 1 \/ Len(buf) >= 2
        <4>1. \A m \in Nat : m >= 1 => m = 1 \/ m >= 2
          OBVIOUS
        <4> QED BY <1>4, <4>1, Zenon
      <3> QED BY <3>2, <3>3, <3>4, <3>5, Zenon
    <2>6. TickAt(buf, 0) = [size |-> 1 + n, skip |-> 1, zip |-> f.zip]
      BY <2>5 DEF NoTick
    <2>7. /\ TickAt(buf, 0).size = 1 + n /\ TickAt(buf, 0).skip = 1
          /\ TickAt(buf, 0).zip = f.zip
      BY <2>6
    <2> QED BY <1>1, <1>2, <1>3, <1>6, <2>7 DEF n, h
  <1> QED BY <1>5, <1>6

-----------------------------------------------------------------------------
(* Types.  That ticksize is a number is a question of what is in inbuf;    *)
(* CountInv, further down, answers it.                                     *)

Types ==
    /\ open \in BOOLEAN /\ linked \in BOOLEAN
    /\ tptr \in 0..(Size - 1)
    /\ obuf \in [0..(Size - 1) -> Bytes]
    /\ iptr \in 0..(Size - 1) /\ optr \in 0..(Size - 1)
    /\ rest \in Seq(Bytes) /\ wire \in Seq(Bytes) /\ inbuf \in Seq(Bytes)
    /\ frames \in Seq(Frames) /\ got \in Seq(Frames)
    /\ at \in Seq(Nat) /\ stream \in Seq(Bytes)

(* The stream from end to end: where its parts lie.                        *)
Places ==
    /\ Len(rest) <= Len(stream) /\ Used <= CopiedBytes
    /\ Len(wire) <= SentBytes
    /\ linked => Len(inbuf) <= ReceivedBytes
    /\ ~open => rest = <<>> /\ iptr = optr

(* One frame lies behind the other.                                        *)
Ascending == \A j, k \in 1..Len(frames) : j < k => EndOf(j) <= at[k]

(* Nothing of the frame csend copies was sent.                             *)
InRing == rest # <<>> =>
    /\ open /\ frames # <<>> /\ at[Len(frames)] <= CopiedBytes
    /\ CopiedBytes - at[Len(frames)] <= Used

(* What was sent of a frame, or copied as a whole, fits into its header.   *)
Fits == \A k \in 1..Len(frames) :
    at[k] < SentBytes \/ EndOf(k) <= CopiedBytes => Len(frames[k].body) < Small * Base

(* The ring could hold any body.                                           *)
Sized == \A k \in 1..Len(frames) : Len(frames[k].body) <= Size

(* The client is at the end of a frame.                                    *)
AtFrame == linked =>
    /\ Len(got) <= Len(frames) /\ TakenBytes = EndOf(Len(got))
    /\ \A k \in 1..Len(got) : got[k] = frames[k]

Positions == Places /\ Ascending /\ InRing /\ Fits /\ Sized /\ AtFrame

(* The numbers the invariants count with.                                  *)
LEMMA Numbers ==
    ASSUME Types, Places
    PROVE  /\ Used \in 0..(Size - 1)
           /\ Len(rest) \in Nat /\ Len(stream) \in Nat /\ Len(wire) \in Nat
           /\ Len(inbuf) \in Nat /\ Len(frames) \in Nat /\ Len(got) \in Nat
           /\ CopiedBytes \in Nat /\ SentBytes \in Nat /\ ReceivedBytes \in Nat
           /\ CopiedBytes <= Len(stream) /\ SentBytes <= CopiedBytes
           /\ ReceivedBytes <= SentBytes
           /\ linked => TakenBytes \in Nat /\ TakenBytes <= ReceivedBytes
  <1>1. /\ Len(rest) \in Nat /\ Len(stream) \in Nat /\ Len(wire) \in Nat
        /\ Len(inbuf) \in Nat /\ Len(frames) \in Nat /\ Len(got) \in Nat
    BY DEF Types
  <1>2. Used \in 0..(Size - 1)
    BY Constants DEF Types, Used
  <1> HIDE DEF Used
  <1>3. CopiedBytes \in Nat /\ CopiedBytes <= Len(stream)
    BY <1>1 DEF Places, CopiedBytes
  <1>4. SentBytes \in Nat /\ SentBytes <= CopiedBytes
    BY <1>2, <1>3, Constants DEF Places, SentBytes
  <1>5. ReceivedBytes \in Nat /\ ReceivedBytes <= SentBytes
    BY <1>1, <1>4 DEF Places, ReceivedBytes
  <1>6. linked => TakenBytes \in Nat /\ TakenBytes <= ReceivedBytes
    BY <1>1, <1>5 DEF Places, TakenBytes
  <1> QED BY <1>1, <1>2, <1>3, <1>4, <1>5, <1>6

(* A frame in bytes.                                                       *)
LEMMA RawType ==
    ASSUME NEW f \in Frames, Len(f.body) <= Size
    PROVE  /\ Raw(f) \in Seq(Bytes) /\ Len(Raw(f)) \in Nat /\ Len(f.body) \in Nat
           /\ Len(Raw(f)) = Len(f.body) + Len(Header(Len(f.body), f.zip))
           /\ Len(Raw(f)) > Len(f.body)
  <1>1. f.body \in Seq(Bytes) /\ f.zip \in BOOLEAN /\ Len(f.body) \in 0..Size
    BY Constants DEF Frames
  <1> DEFINE h == Header(Len(f.body), f.zip)
  <1>2. h \in Seq(Bytes) /\ Len(h) \in {1, 2}
    BY <1>1, HeaderType
  <1>3. Raw(f) = h \o f.body
    BY DEF Raw
  <1> HIDE DEF h
  <1>4. Raw(f) \in Seq(Bytes) /\ Len(Raw(f)) = Len(h) + Len(f.body)
    BY <1>1, <1>2, <1>3, ConcatProperties
  <1>5. Len(h) \in Nat /\ Len(h) >= 1 /\ Len(f.body) \in Nat
    <2>1. Len(h) \in Nat /\ Len(h) >= 1
      BY <1>2
    <2>2. Len(f.body) \in Nat
      BY <1>1
    <2> QED BY <2>1, <2>2
  <1>6. /\ Len(Raw(f)) \in Nat /\ Len(Raw(f)) > Len(f.body)
        /\ Len(Raw(f)) = Len(f.body) + Len(h)
    BY <1>4, <1>5
  <1> QED BY <1>4, <1>5, <1>6 DEF h

(* What pflush sends is a frame the ring could hold.                       *)
LEMMA PflushFrame ==
    ASSUME Types, NEW zip \in BOOLEAN, NEW body, Pflush(zip, body)
    PROVE  /\ [zip |-> zip, body |-> body] \in Frames /\ Len(body) <= Size
           /\ zip => body # <<>> /\ body[1] # AllOnes
           /\ ~zip => Len(body) <= MinZip
  <1>1. tptr \in Nat /\ tptr < Size
    BY Constants DEF Types
  <1>2. CASE zip
    <2>1. body \in ZipBodies
      BY <1>2 DEF Pflush
    <2>2. body \in Seq(Bytes) /\ Len(body) \in 1..Size /\ body[1] # AllOnes
      BY <2>1, BodyAssumption
    <2>3. body # <<>> /\ Len(body) <= Size
      BY <2>2, Constants
    <2> QED BY <1>2, <2>2, <2>3 DEF Frames
  <1>3. CASE ~zip
    <2>1. body \in RawBodies /\ Len(body) = tptr /\ tptr <= MinZip
      <3>1. ~zip => body \in RawBodies /\ Len(body) = tptr
        BY DEF Pflush
      <3>2. ~zip => ~(tptr > MinZip)
        BY DEF Pflush
      <3> QED BY <1>1, <1>3, <3>1, <3>2, Constants
    <2>2. body \in Seq(Bytes) /\ Len(body) <= Size
      BY <1>1, <2>1, BodyAssumption, Constants
    <2> QED BY <1>3, <2>1, <2>2 DEF Frames
  <1> QED BY <1>2, <1>3

-----------------------------------------------------------------------------
(* The ring buffer.                                                        *)

(* What the ring may hold.                                                 *)
LEMMA RingNumbers ==
    \A i, o \in 0..(Size - 1) :
        (IF i >= o THEN i - o ELSE Size - o + i) \in 0..(Size - 1)
  BY Constants

(* csend puts a chunk behind what is there.                                *)
LEMMA CsendMoves ==
    ASSUME Types, Csend
    PROVE  /\ Chunk \in 1..Len(rest) /\ iptr' \in 0..(Size - 1)
           /\ Used' = Used + Chunk
           /\ obuf' \in [0..(Size - 1) -> Bytes]
           /\ \A i \in 0..(Used - 1) : obuf'[Wrap(optr + i)] = obuf[Wrap(optr + i)]
           /\ \A j \in 0..(Chunk - 1) : obuf'[Wrap(optr + Used + j)] = rest[j + 1]
  <1>1. /\ rest \in Seq(Bytes) /\ rest # <<>> /\ Len(rest) \in Nat /\ Len(rest) >= 1
        /\ iptr \in Nat /\ iptr < Size /\ optr \in Nat /\ optr < Size /\ Size \in Nat
    BY Constants, SMTT(30) DEF Types, Csend
  <1>2. Chunk \in Nat /\ 1 <= Chunk /\ Chunk <= Len(rest) /\ Chunk <= Room
    BY <1>1 DEF Chunk, Room
  <1>3. /\ optr' = optr /\ iptr' = Wrap(iptr + Chunk) /\ iptr' # optr
        /\ obuf' = [p \in 0..(Size - 1) |->
              IF p >= iptr /\ p < iptr + Chunk THEN rest[p - iptr + 1] ELSE obuf[p]]
    BY DEF Csend
  <1> HIDE DEF Chunk
  <1>4. iptr' \in 0..(Size - 1) /\ Used' = Used + Chunk
    BY <1>1, <1>2, <1>3 DEF Used, Wrap, Room
  <1>5. \A p \in 0..(Size - 1) : p >= iptr /\ p < iptr + Chunk => rest[p - iptr + 1] \in Bytes
    <2> SUFFICES ASSUME NEW p \in 0..(Size - 1), p >= iptr, p < iptr + Chunk
                 PROVE  rest[p - iptr + 1] \in Bytes
      OBVIOUS
    <2>1. p - iptr + 1 \in 1..Len(rest)
      BY <1>1, <1>2
    <2> QED BY <1>1, <2>1
  <1>6. obuf' \in [0..(Size - 1) -> Bytes]
    BY <1>3, <1>5 DEF Types
  <1>7. ASSUME NEW i \in 0..(Used - 1)
        PROVE  obuf'[Wrap(optr + i)] = obuf[Wrap(optr + i)]
    <2>1. /\ Wrap(optr + i) \in 0..(Size - 1)
          /\ ~(Wrap(optr + i) >= iptr /\ Wrap(optr + i) < iptr + Chunk)
      BY <1>1, <1>2 DEF Used, Wrap, Room
    <2> QED BY <1>3, <2>1
  <1>8. ASSUME NEW j \in 0..(Chunk - 1)
        PROVE  obuf'[Wrap(optr + Used + j)] = rest[j + 1]
    <2>1. Wrap(optr + Used + j) = iptr + j /\ iptr + j \in 0..(Size - 1)
      BY <1>1, <1>2 DEF Used, Wrap, Room
    <2> DEFINE p == iptr + j
    <2>2. p \in 0..(Size - 1) /\ p >= iptr /\ p < iptr + Chunk /\ p - iptr + 1 = j + 1
      BY <1>1, <1>2, <2>1
    <2>3. Wrap(optr + Used + j) = p
      BY <2>1
    <2> HIDE DEF p
    <2>4. obuf'[p] = rest[p - iptr + 1]
      BY <1>3, <2>2
    <2> QED BY <2>2, <2>3, <2>4
  <1> QED BY <1>1, <1>2, <1>4, <1>6, <1>7, <1>8

(* send_player takes bytes from the front.                                 *)
LEMMA SendMoves ==
    ASSUME Types, NEW n \in Nat \ {0}, SendPlayer(n)
    PROVE  /\ optr' \in 0..(Size - 1) /\ n <= Used /\ Used' = Used - n
           /\ wire' = wire \o [i \in 1..n |-> obuf[optr + i - 1]]
           /\ [i \in 1..n |-> obuf[optr + i - 1]] \in Seq(Bytes)
           /\ \A i \in 1..n : optr + i - 1 = Wrap(optr + (i - 1))
           /\ \A i \in Nat : i < Used - n => Wrap(optr' + i) = Wrap(optr + (i + n))
  <1>1. /\ iptr \in Nat /\ iptr < Size /\ optr \in Nat /\ optr < Size /\ Size \in Nat
        /\ iptr # optr /\ n <= Sendable /\ n \in Nat /\ n >= 1
        /\ iptr' = iptr /\ optr' = Wrap(optr + n)
        /\ wire' = wire \o [i \in 1..n |-> obuf[optr + i - 1]]
    BY Constants DEF Types, SendPlayer
  <1>2. /\ optr' \in 0..(Size - 1) /\ n <= Used /\ Used' = Used - n /\ optr + n <= Size
    BY <1>1 DEF Used, Wrap, Sendable
  <1>3. ASSUME NEW i \in 1..n
        PROVE  /\ optr + i - 1 = Wrap(optr + (i - 1)) /\ obuf[optr + i - 1] \in Bytes
    <2>1. optr + i - 1 \in 0..(Size - 1) /\ optr + (i - 1) = optr + i - 1
      BY <1>1, <1>2
    <2> QED BY <1>1, <2>1 DEF Wrap, Types
  <1>4. [i \in 1..n |-> obuf[optr + i - 1]] \in Seq(Bytes)
    <2> DEFINE g == [i \in 1..n |-> obuf[optr + i - 1]]
    <2>1. g \in [1..n -> Bytes]
      BY <1>3
    <2> HIDE DEF g
    <2>2. g \in Seq(Bytes)
      BY <1>1, <2>1, SeqDef
    <2> QED BY <2>2 DEF g
  <1>5. ASSUME NEW i \in Nat, i < Used - n
        PROVE  Wrap(optr' + i) = Wrap(optr + (i + n))
    BY <1>1, <1>2, <1>5 DEF Used, Wrap, Sendable
  <1> QED BY <1>1, <1>2, <1>3, <1>4, <1>5

-----------------------------------------------------------------------------
(* One lemma for each kind of step.                                        *)

Order == RestInv /\ RingInv /\ WireInv /\ InbufInv

IInv == Types /\ Order /\ FramesInv /\ Positions

(* A frame is where it should be.                                          *)
FrameAt(k, f, p, e, str) ==
    /\ p = e
    /\ f.zip => f.body # <<>> /\ f.body[1] # AllOnes
    /\ ~f.zip => Len(f.body) <= MinZip
    /\ \A i \in 1..Len(Raw(f)) : p + i <= Len(str) => str[p + i] = Raw(f)[i]

(* FramesInv, with what is said of a frame as one fact.                    *)
LEMMA FramesParts ==
    FramesInv <=> /\ Len(at) = Len(frames)
                  /\ \A k \in 1..Len(frames) :
                        FrameAt(k, frames[k], at[k], EndOf(k - 1), stream)
                  /\ Len(stream) <= EndOf(Len(frames))
                  /\ open => Len(stream) = EndOf(Len(frames))
  BY DEF FramesInv, FrameAt

(* The same after a step.                                                  *)
LEMMA FramesPartsNext ==
    ASSUME Len(at') = Len(frames'),
           \A k \in 1..Len(frames') :
               FrameAt(k, frames'[k], at'[k], EndOf(k - 1)', stream'),
           Len(stream') <= EndOf(Len(frames))',
           open' => Len(stream') = EndOf(Len(frames))'
    PROVE  FramesInv'
  BY DEF FramesInv, FrameAt

(* Where frames end.                                                       *)
LEMMA FrameNumbers ==
    ASSUME Types, FramesInv, Positions
    PROVE  /\ Len(frames) \in Nat /\ Len(at) = Len(frames) /\ EndOf(0) = 0
           /\ \A k \in 1..Len(frames) :
                 /\ at[k] \in Nat /\ frames[k] \in Frames /\ Len(frames[k].body) \in Nat
                 /\ Len(Raw(frames[k])) \in Nat
                 /\ Len(frames[k].body) < Len(Raw(frames[k]))
                 /\ EndOf(k) = at[k] + Len(Raw(frames[k]))
                 /\ Raw(frames[k]) \in Seq(Bytes)
           /\ \A k \in 0..Len(frames) : EndOf(k) \in Nat
           /\ \A k \in 0..Len(frames) : EndOf(k) <= EndOf(Len(frames))
  <1>1. Len(frames) \in Nat /\ Len(at) = Len(frames) /\ EndOf(0) = 0
    BY DEF Types, FramesInv, EndOf
  <1>2. ASSUME NEW k \in 1..Len(frames)
        PROVE  /\ at[k] \in Nat /\ frames[k] \in Frames /\ Len(frames[k].body) \in Nat
               /\ Len(Raw(frames[k])) \in Nat
               /\ Len(frames[k].body) < Len(Raw(frames[k]))
               /\ EndOf(k) = at[k] + Len(Raw(frames[k]))
               /\ Raw(frames[k]) \in Seq(Bytes)
    <2>1. at[k] \in Nat /\ frames[k] \in Frames
      BY <1>1 DEF Types
    <2>2. Len(frames[k].body) <= Size
      BY DEF Positions, Sized
    <2>3. EndOf(k) = at[k] + Len(Raw(frames[k]))
      BY DEF EndOf
    <2> QED BY <2>1, <2>2, <2>3, RawType
  <1>3. ASSUME NEW k \in 0..Len(frames) PROVE EndOf(k) \in Nat
    BY <1>1, <1>2
  <1>4. ASSUME NEW k \in 0..Len(frames) PROVE EndOf(k) <= EndOf(Len(frames))
    <2>1. CASE k = Len(frames)
      BY <1>3, <2>1
    <2>2. CASE k = 0
      BY <1>1, <1>3, <2>2
    <2>3. CASE k \in 1..Len(frames) /\ k < Len(frames)
      <3> DEFINE n == Len(frames)
      <3>1. n \in 1..n
        BY <1>1, <2>3
      <3>2. EndOf(k) <= at[n]
        BY <2>3, <3>1 DEF Positions, Ascending
      <3>3. at[n] \in Nat /\ Len(Raw(frames[n])) \in Nat
            /\ EndOf(n) = at[n] + Len(Raw(frames[n])) /\ EndOf(k) \in Nat
        BY <1>2, <1>3, <3>1
      <3> QED BY <3>2, <3>3
    <2> QED BY <1>1, <2>1, <2>2, <2>3
  <1> QED BY <1>1, <1>2, <1>3, <1>4

(* Frames that stay: of the stream at most the end is given up.            *)
LEMMA FramesKept ==
    ASSUME Types, FramesInv, Positions, frames' = frames, at' = at,
           Len(stream') \in Nat, Len(stream') <= Len(stream),
           open' => open /\ Len(stream') = Len(stream),
           \A i \in 1..Len(stream') : stream'[i] = stream[i]
    PROVE  /\ FramesInv' /\ Ascending' /\ Sized'
           /\ \A k \in 0..Len(frames) : EndOf(k)' = EndOf(k)
  <1>1. \A k : EndOf(k)' = EndOf(k)
    BY DEF EndOf
  <1>2. /\ Len(at) = Len(frames) /\ Len(frames) \in Nat /\ Len(stream) \in Nat
        /\ \A k \in 1..Len(frames) :
              FrameAt(k, frames[k], at[k], EndOf(k - 1), stream) /\ at[k] \in Nat
        /\ EndOf(Len(frames)) \in Nat
    BY FramesParts, FrameNumbers, SMTT(30) DEF Types
  <1>3. ASSUME NEW k \in 1..Len(frames)
        PROVE  FrameAt(k, frames[k], at[k], EndOf(k - 1), stream')
    <2>1. FrameAt(k, frames[k], at[k], EndOf(k - 1), stream) /\ at[k] \in Nat
      BY <1>2
    <2> SUFFICES ASSUME NEW i \in 1..Len(Raw(frames[k])), at[k] + i <= Len(stream')
                 PROVE  stream'[at[k] + i] = Raw(frames[k])[i]
      BY <2>1 DEF FrameAt
    <2>2. i \in Nat /\ i >= 1
      OBVIOUS
    <2>3. at[k] + i \in 1..Len(stream') /\ at[k] + i <= Len(stream)
      BY <1>2, <2>1, <2>2
    <2> QED BY <2>1, <2>3 DEF FrameAt
  <1>4. /\ Len(stream') <= EndOf(Len(frames))
        /\ open' => Len(stream') = EndOf(Len(frames))
    <2>1. Len(stream) <= EndOf(Len(frames)) /\ (open => Len(stream) = EndOf(Len(frames)))
      BY FramesParts
    <2> QED BY <1>2, <2>1
  <1>5. FramesInv'
    BY <1>1, <1>2, <1>3, <1>4, FramesPartsNext
  <1>6. Ascending'
    BY <1>1 DEF Positions, Ascending
  <1>7. Sized'
    BY DEF Positions, Sized
  <1> QED BY <1>1, <1>5, <1>6, <1>7

(* The entry is freed: what was not sent is lost.                          *)
LEMMA ExitKept ==
    ASSUME IInv, ExitPlayer, wire' = wire
    PROVE  IInv' /\ ReceivedBytes' = ReceivedBytes
  <1> DEFINE S == SentBytes
  <1>1. /\ open' = FALSE /\ tptr' = 0 /\ obuf' = NoData /\ iptr' = 0 /\ optr' = 0
        /\ rest' = <<>> /\ linked' = linked /\ inbuf' = inbuf /\ got' = got
        /\ frames' = frames /\ at' = at
        /\ stream' = SubSeq(stream, 1, S)
    BY DEF ExitPlayer, clientVars, history, SentBytes, CopiedBytes
  <1>2. /\ S \in Nat /\ S <= Len(stream) /\ Len(stream) \in Nat /\ S <= CopiedBytes
        /\ CopiedBytes \in Nat /\ ReceivedBytes \in Nat /\ ReceivedBytes <= S
        /\ linked => TakenBytes \in Nat /\ TakenBytes <= ReceivedBytes
        /\ Len(wire) \in Nat /\ Len(inbuf) \in Nat
    BY Numbers DEF IInv, Positions
  <1>3. /\ stream' \in Seq(Bytes) /\ Len(stream') = S
        /\ \A i \in 1..S : stream'[i] = stream[i]
    BY <1>1, <1>2 DEF IInv, Types
  <1>4. Used' = 0
    BY <1>1 DEF Used
  <1>5. CopiedBytes' = S /\ SentBytes' = S
    BY <1>1, <1>2, <1>3, <1>4 DEF CopiedBytes, SentBytes
  <1>6. ReceivedBytes' = ReceivedBytes /\ TakenBytes' = TakenBytes
    BY <1>1, <1>5 DEF ReceivedBytes, TakenBytes
  <1> HIDE DEF S
  <1>7. Types'
    <2>1. NoData \in [0..(Size - 1) -> Bytes] /\ 0 \in 0..(Size - 1)
      BY Constants DEF NoData
    <2>2. /\ open' \in BOOLEAN /\ linked' \in BOOLEAN /\ tptr' \in 0..(Size - 1)
          /\ iptr' \in 0..(Size - 1) /\ optr' \in 0..(Size - 1)
          /\ obuf' \in [0..(Size - 1) -> Bytes]
      BY <1>1, <2>1 DEF IInv, Types
    <2>3. /\ rest' \in Seq(Bytes) /\ wire' \in Seq(Bytes) /\ inbuf' \in Seq(Bytes)
          /\ frames' \in Seq(Frames) /\ got' \in Seq(Frames) /\ at' \in Seq(Nat)
      BY <1>1 DEF IInv, Types
    <2> QED BY <1>3, <2>2, <2>3 DEF Types
  <1>8. Order'
    <2>1. RestInv' /\ RingInv'
      BY <1>1, <1>4 DEF RestInv, RingInv
    <2>2. WireInv'
      <3> SUFFICES ASSUME NEW i \in 1..Len(wire)
                   PROVE  wire[i] = stream'[ReceivedBytes + i]
        BY <1>6 DEF WireInv
      <3>1. wire[i] = stream[ReceivedBytes + i]
        BY DEF IInv, Order, WireInv
      <3>2. ReceivedBytes + i \in 1..S
        BY <1>2 DEF S, ReceivedBytes
      <3> QED BY <1>3, <3>1, <3>2
    <2>3. InbufInv'
      <3> SUFFICES ASSUME linked, NEW i \in 1..Len(inbuf)
                   PROVE  inbuf[i] = stream'[TakenBytes + i]
        BY <1>1, <1>6 DEF InbufInv
      <3>1. inbuf[i] = stream[TakenBytes + i]
        BY DEF IInv, Order, InbufInv
      <3>2. TakenBytes + i \in 1..S
        BY <1>2 DEF TakenBytes
      <3> QED BY <1>3, <3>1, <3>2
    <2> QED BY <2>1, <2>2, <2>3 DEF Order
  <1>9. FramesInv' /\ Ascending' /\ Sized' /\ \A k \in 0..Len(frames) : EndOf(k)' = EndOf(k)
    BY <1>1, <1>2, <1>3, FramesKept DEF IInv
  <1>10. Places'
    <2>1. Len(wire) <= S /\ (linked => Len(inbuf) <= ReceivedBytes)
      BY DEF IInv, Positions, Places, S
    <2>2. Len(rest') = 0
      BY <1>1
    <2> QED BY <1>1, <1>2, <1>3, <1>4, <1>5, <1>6, <2>1, <2>2 DEF Places
  <1>11. InRing'
    BY <1>1 DEF InRing
  <1>12. Fits'
    <2> SUFFICES ASSUME NEW k \in 1..Len(frames), at[k] < S \/ EndOf(k) <= S
                 PROVE  Len(frames[k].body) < Small * Base
      BY <1>1, <1>5, <1>9 DEF Fits
    <2>1. EndOf(k) <= S => EndOf(k) <= CopiedBytes
      BY <1>2, FrameNumbers DEF IInv
    <2> QED BY <2>1 DEF IInv, Positions, Fits, S
  <1>13. AtFrame'
    <2> SUFFICES ASSUME linked PROVE /\ Len(got) <= Len(frames)
                                     /\ TakenBytes = EndOf(Len(got))'
                                     /\ \A k \in 1..Len(got) : got[k] = frames[k]
      BY <1>1, <1>6 DEF AtFrame
    <2>1. EndOf(Len(got))' = EndOf(Len(got))
      BY <1>1 DEF EndOf
    <2> QED BY <2>1 DEF IInv, Positions, AtFrame
  <1> QED BY <1>6, <1>7, <1>8, <1>9, <1>10, <1>11, <1>12, <1>13 DEF IInv, Positions

(* A frame is made.                                                        *)
LEMMA PflushKept ==
    ASSUME IInv, NEW zip \in BOOLEAN, NEW body, Pflush(zip, body)
    PROVE  /\ IInv' /\ ReceivedBytes' = ReceivedBytes
           /\ \A k \in 0..Len(frames) : EndOf(k)' = EndOf(k)
  <1> DEFINE f == [zip |-> zip, body |-> body]
             C == CopiedBytes
  <1>0. Len(frames) \in Nat
    BY DEF IInv, Types
  <1> PICK n \in Nat : n = Len(frames)
    BY <1>0
  <1>1. /\ open /\ rest = <<>> /\ rest' = Raw(f) /\ tptr' = 0
        /\ frames' = Append(frames, f) /\ at' = Append(at, Len(stream))
        /\ stream' = stream \o Raw(f)
        /\ open' = open /\ obuf' = obuf /\ iptr' = iptr /\ optr' = optr /\ wire' = wire
        /\ linked' = linked /\ inbuf' = inbuf /\ got' = got
    BY DEF Pflush, Idle, clientVars
  <1>2. /\ f \in Frames /\ Len(f.body) <= Size /\ f.zip = zip /\ f.body = body
        /\ f.zip => f.body # <<>> /\ f.body[1] # AllOnes
        /\ ~f.zip => Len(f.body) <= MinZip
    BY PflushFrame DEF IInv
  <1>3. /\ Raw(f) \in Seq(Bytes) /\ Len(Raw(f)) \in Nat /\ Len(f.body) \in Nat
        /\ Len(Raw(f)) > Len(f.body)
    BY <1>2, RawType
  <1> HIDE DEF f
  <1>4. /\ stream \in Seq(Bytes) /\ frames \in Seq(Frames) /\ at \in Seq(Nat)
        /\ Len(stream) \in Nat /\ n \in Nat /\ Len(at) = n /\ EndOf(n) = Len(stream)
    BY <1>1, FramesParts, FrameNumbers DEF IInv, Types
  <1>5. /\ Len(frames') = n + 1 /\ Len(at') = n + 1
        /\ \A k \in 1..n : frames'[k] = frames[k] /\ at'[k] = at[k]
        /\ frames'[n + 1] = f /\ at'[n + 1] = Len(stream)
        /\ frames' \in Seq(Frames) /\ at' \in Seq(Nat)
    BY <1>1, <1>2, <1>4
  <1>6. /\ stream' \in Seq(Bytes) /\ Len(stream') = Len(stream) + Len(Raw(f))
        /\ \A i \in 1..Len(stream) : stream'[i] = stream[i]
        /\ \A i \in 1..Len(Raw(f)) : stream'[Len(stream) + i] = Raw(f)[i]
    BY <1>1, <1>3, <1>4, ConcatProperties
  <1>7. /\ \A k \in 0..n : EndOf(k)' = EndOf(k)
        /\ EndOf(n + 1)' = Len(stream) + Len(Raw(f))
    <2>1. \A k \in 0..n : EndOf(k)' = EndOf(k)
      BY <1>4, <1>5 DEF EndOf
    <2>2. n + 1 # 0
      BY <1>4
    <2> QED BY <1>5, <2>1, <2>2 DEF EndOf
  <1>8. /\ C = Len(stream) /\ SentBytes \in Nat /\ SentBytes <= C
        /\ ReceivedBytes \in Nat /\ ReceivedBytes <= SentBytes
        /\ linked => TakenBytes \in Nat /\ TakenBytes <= ReceivedBytes
        /\ Len(wire) \in Nat /\ Len(inbuf) \in Nat /\ Used \in 0..(Size - 1) /\ Size \in Nat
        /\ Len(got) \in Nat
    BY <1>1, <1>4, Numbers, Constants DEF IInv, Positions, CopiedBytes
  <1>9. Used' = Used
    BY <1>1 DEF Used
  <1>10. /\ CopiedBytes' = C /\ SentBytes' = SentBytes
         /\ ReceivedBytes' = ReceivedBytes /\ TakenBytes' = TakenBytes
    <2>1. CopiedBytes' = C
      BY <1>1, <1>3, <1>4, <1>6, <1>8 DEF CopiedBytes
    <2> QED BY <1>1, <1>9, <2>1 DEF SentBytes, ReceivedBytes, TakenBytes
  <1> HIDE DEF C
  <1>11. Types'
    <2>1. 0 \in 0..(Size - 1)
      BY Constants
    <2> QED BY <1>1, <1>3, <1>5, <1>6, <2>1 DEF IInv, Types
  <1>12. Order'
    <2>1. RestInv'
      BY <1>1, <1>6, <1>8, <1>10 DEF RestInv
    <2>2. RingInv'
      <3> SUFFICES ASSUME NEW i \in 0..(Size - 1), i < Used
                   PROVE  obuf[Wrap(optr + i)] = stream'[SentBytes + i + 1]
        BY <1>1, <1>9, <1>10 DEF RingInv, Wrap
      <3>1. obuf[Wrap(optr + i)] = stream[SentBytes + i + 1]
        BY DEF IInv, Order, RingInv
      <3>2. SentBytes + i + 1 \in 1..Len(stream)
        BY <1>8 DEF SentBytes, C
      <3> QED BY <1>6, <3>1, <3>2
    <2>3. WireInv'
      <3> SUFFICES ASSUME NEW i \in 1..Len(wire)
                   PROVE  wire[i] = stream'[ReceivedBytes + i]
        BY <1>1, <1>10 DEF WireInv
      <3>1. wire[i] = stream[ReceivedBytes + i]
        BY DEF IInv, Order, WireInv
      <3>2. ReceivedBytes + i \in 1..Len(stream)
        BY <1>8 DEF ReceivedBytes
      <3> QED BY <1>6, <3>1, <3>2
    <2>4. InbufInv'
      <3> SUFFICES ASSUME linked, NEW i \in 1..Len(inbuf)
                   PROVE  inbuf[i] = stream'[TakenBytes + i]
        BY <1>1, <1>10 DEF InbufInv
      <3>1. inbuf[i] = stream[TakenBytes + i]
        BY DEF IInv, Order, InbufInv
      <3>2. TakenBytes + i \in 1..Len(stream)
        BY <1>8 DEF TakenBytes
      <3> QED BY <1>6, <3>1, <3>2
    <2> QED BY <2>1, <2>2, <2>3, <2>4 DEF Order
  <1>13. FramesInv'
    <2>1. ASSUME NEW k \in 1..(n + 1)
          PROVE  FrameAt(k, frames'[k], at'[k], EndOf(k - 1)', stream')
      <3>1. CASE k \in 1..n
        <4>1. FrameAt(k, frames[k], at[k], EndOf(k - 1), stream) /\ at[k] \in Nat
              /\ at[k] + Len(Raw(frames[k])) <= Len(stream) /\ Len(Raw(frames[k])) \in Nat
          <5>1. EndOf(k) = at[k] + Len(Raw(frames[k])) /\ EndOf(k) <= EndOf(n)
                /\ at[k] \in Nat /\ Len(Raw(frames[k])) \in Nat
            BY <1>4, <3>1, FrameNumbers DEF IInv
          <5> QED BY <1>4, <3>1, <5>1, FramesParts DEF IInv
        <4>2. EndOf(k - 1)' = EndOf(k - 1)
          BY <1>4, <1>7, <3>1
        <4>3. \A i \in 1..Len(Raw(frames[k])) : stream'[at[k] + i] = Raw(frames[k])[i]
          <5> SUFFICES ASSUME NEW i \in 1..Len(Raw(frames[k]))
                       PROVE  stream'[at[k] + i] = Raw(frames[k])[i]
            OBVIOUS
          <5>1. at[k] + i \in 1..Len(stream)
            BY <1>4, <4>1
          <5>2. at[k] + i <= Len(stream)
            BY <5>1
          <5>3. stream[at[k] + i] = Raw(frames[k])[i]
            BY <4>1, <5>2 DEF FrameAt
          <5> QED BY <1>6, <5>1, <5>3
        <4> QED BY <1>5, <3>1, <4>1, <4>2, <4>3 DEF FrameAt
      <3>2. CASE k = n + 1
        <4>1. EndOf(k - 1)' = Len(stream)
          BY <1>4, <1>7, <3>2
        <4> QED BY <1>2, <1>5, <1>6, <3>2, <4>1 DEF FrameAt
      <3> QED BY <1>4, <3>1, <3>2
    <2>2. Len(stream') = EndOf(Len(frames))'
      <3>1. EndOf(Len(frames))' = EndOf(n + 1)'
        BY <1>5 DEF EndOf
      <3> QED BY <1>6, <1>7, <3>1
    <2>3. Len(stream') \in Nat
      BY <1>6
    <2> QED BY <1>5, <2>1, <2>2, <2>3, FramesPartsNext
  <1>14. Places'
    BY <1>1, <1>3, <1>4, <1>6, <1>8, <1>9, <1>10 DEF IInv, Positions, Places, C
  <1>15. Ascending'
    <2> SUFFICES ASSUME NEW j \in 1..(n + 1), NEW k \in 1..(n + 1), j < k
                 PROVE  EndOf(j)' <= at'[k]
      BY <1>5 DEF Ascending
    <2>1. j \in 1..n /\ EndOf(j)' = EndOf(j)
      BY <1>4, <1>7
    <2>2. CASE k \in 1..n
      BY <1>5, <2>1, <2>2 DEF IInv, Positions, Ascending
    <2>3. CASE k = n + 1
      BY <1>4, <1>5, <2>1, <2>3, FrameNumbers DEF IInv
    <2>4. k \in 1..n \/ k = n + 1
      OBVIOUS
    <2> QED BY <2>2, <2>3, <2>4
  <1>16. InRing'
    <2>1. at'[Len(frames')] = C /\ frames' # <<>>
      BY <1>4, <1>5, <1>8
    <2> QED BY <1>1, <1>4, <1>8, <1>9, <1>10, <2>1 DEF InRing
  <1>17. Fits'
    <2> SUFFICES ASSUME NEW k \in 1..(n + 1), at'[k] < SentBytes \/ EndOf(k)' <= C
                 PROVE  Len(frames'[k].body) < Small * Base
      BY <1>5, <1>10 DEF Fits
    <2>1. CASE k \in 1..n
      <3>1. /\ at'[k] = at[k] /\ frames'[k] = frames[k] /\ EndOf(k)' = EndOf(k)
            /\ k \in 1..Len(frames)
        BY <1>5, <1>7, <2>1
      <3>2. at[k] < SentBytes \/ EndOf(k) <= CopiedBytes
        BY <3>1 DEF C
      <3> QED BY <3>1, <3>2 DEF IInv, Positions, Fits
    <2>2. CASE k = n + 1
      <3>1. at'[k] = C /\ EndOf(k)' = C + Len(Raw(f))
        BY <1>5, <1>7, <1>8, <2>2
      <3> QED BY <1>3, <1>4, <1>8, <3>1
    <2>3. k \in 1..n \/ k = n + 1
      OBVIOUS
    <2> QED BY <2>1, <2>2, <2>3
  <1>18. Sized'
    <2> SUFFICES ASSUME NEW k \in 1..(n + 1) PROVE Len(frames'[k].body) <= Size
      BY <1>5 DEF Sized
    <2>1. CASE k \in 1..n
      BY <1>5, <2>1 DEF IInv, Positions, Sized
    <2>2. CASE k = n + 1
      BY <1>2, <1>5, <2>2
    <2> QED BY <1>4, <2>1, <2>2
  <1>19. AtFrame'
    <2> SUFFICES ASSUME linked PROVE /\ Len(got) <= n + 1
                                     /\ TakenBytes = EndOf(Len(got))'
                                     /\ \A k \in 1..Len(got) : got[k] = frames'[k]
      BY <1>1, <1>5, <1>10 DEF AtFrame
    <2>1. /\ Len(got) <= n /\ TakenBytes = EndOf(Len(got))
          /\ \A k \in 1..Len(got) : got[k] = frames[k]
      BY DEF IInv, Positions, AtFrame
    <2>2. EndOf(Len(got))' = EndOf(Len(got))
      BY <1>1, <1>4, <1>5, <1>8, <2>1 DEF EndOf
    <2> QED BY <1>4, <1>5, <1>8, <2>1, <2>2
  <1> QED BY <1>7, <1>10, <1>11, <1>12, <1>13, <1>14, <1>15, <1>16, <1>17, <1>18, <1>19
          DEF IInv, Positions

(* Steps that leave the frames and the stream alone.                       *)
LEMMA StreamSame ==
    ASSUME IInv, open' = open, stream' = stream, frames' = frames, at' = at
    PROVE  /\ FramesInv' /\ Ascending' /\ Sized'
           /\ \A k \in 0..Len(frames) : EndOf(k)' = EndOf(k)
  <1>1. Len(stream) \in Nat
    BY DEF IInv, Types
  <1> QED BY <1>1, FramesKept DEF IInv

(* csend copies a chunk.                                                   *)
LEMMA CsendKept ==
    ASSUME IInv, Csend
    PROVE  IInv' /\ ReceivedBytes' = ReceivedBytes
  <1> DEFINE S == SentBytes
             C == CopiedBytes
  <1>1. /\ open /\ rest # <<>>
        /\ rest' = SubSeq(rest, Chunk + 1, Len(rest))
        /\ open' = open /\ tptr' = tptr /\ optr' = optr /\ wire' = wire
        /\ linked' = linked /\ inbuf' = inbuf /\ got' = got
        /\ frames' = frames /\ at' = at /\ stream' = stream
    BY DEF Csend, clientVars, history
  <1> PICK m \in Nat : m = Chunk
    BY CsendMoves DEF IInv
  <1>2. /\ m \in 1..Len(rest) /\ iptr' \in 0..(Size - 1)
        /\ Used' = Used + m
        /\ obuf' \in [0..(Size - 1) -> Bytes]
        /\ \A i \in 0..(Used - 1) : obuf'[Wrap(optr + i)] = obuf[Wrap(optr + i)]
        /\ \A j \in 0..(m - 1) : obuf'[Wrap(optr + Used + j)] = rest[j + 1]
    BY CsendMoves DEF IInv
  <1>3. /\ S \in Nat /\ C \in Nat /\ S <= C /\ C <= Len(stream) /\ Len(stream) \in Nat
        /\ ReceivedBytes \in Nat /\ ReceivedBytes <= S
        /\ Used \in 0..(Size - 1) /\ Len(rest) \in Nat /\ Size \in Nat
        /\ C = Len(stream) - Len(rest) /\ S = C - Used /\ optr \in 0..(Size - 1)
    BY Numbers, Constants DEF IInv, Positions, CopiedBytes, SentBytes, Types
  <1>4. /\ rest' \in Seq(Bytes) /\ Len(rest') = Len(rest) - m
        /\ \A i \in 1..(Len(rest) - m) : rest'[i] = rest[m + i]
    <2>1. rest \in Seq(Bytes)
      BY DEF IInv, Types
    <2> QED BY <1>1, <1>2, <1>3, <2>1
  <1>5. Used' \in 0..(Size - 1)
    <2>1. optr' \in 0..(Size - 1) /\ iptr' \in 0..(Size - 1)
      BY <1>1, <1>2 DEF IInv, Types
    <2> QED BY <2>1, RingNumbers, Zenon DEF Used
  <1>6. CopiedBytes' = C + m /\ SentBytes' = S
    <2>1. CopiedBytes' = C + m
      <3>1. CopiedBytes' = Len(stream') - Len(rest') /\ stream' = stream
        BY <1>1 DEF CopiedBytes
      <3>2. CopiedBytes' = Len(stream) - (Len(rest) - m)
        BY <1>4, <3>1
      <3> QED BY <1>2, <1>3, <3>2
    <2>2. SentBytes' = CopiedBytes' - Used'
      BY DEF SentBytes
    <2> QED BY <1>2, <1>3, <2>1, <2>2
  <1>7. ReceivedBytes' = ReceivedBytes /\ TakenBytes' = TakenBytes
    BY <1>1, <1>6 DEF ReceivedBytes, TakenBytes
  <1> HIDE DEF S, C
  <1>8. Types'
    BY <1>1, <1>2, <1>4 DEF IInv, Types
  <1>9. Order'
    <2>1. RestInv'
      <3> SUFFICES ASSUME NEW i \in 1..(Len(rest) - m)
                   PROVE  rest'[i] = stream[C + m + i]
        BY <1>1, <1>4, <1>6 DEF RestInv
      <3>1. m + i \in 1..Len(rest) /\ C + m + i = C + (m + i)
        BY <1>2, <1>3
      <3>2. rest[m + i] = stream[C + (m + i)]
        BY <3>1 DEF IInv, Order, RestInv, C
      <3> QED BY <1>4, <3>1, <3>2
    <2>2. RingInv'
      <3> SUFFICES ASSUME NEW i \in 0..(Size - 1), i < Used + m
                   PROVE  obuf'[Wrap(optr + i)] = stream[S + i + 1]
        BY <1>1, <1>2, <1>6 DEF RingInv, Wrap
      <3>1. CASE i < Used
        <4>1. obuf[Wrap(optr + i)] = stream[S + i + 1]
          BY <3>1 DEF IInv, Order, RingInv, S
        <4>2. i \in 0..(Used - 1)
          BY <1>3, <3>1
        <4> QED BY <1>2, <4>1, <4>2
      <3>2. CASE ~(i < Used)
        <4> DEFINE j == i - Used
        <4>1. /\ j \in 0..(m - 1) /\ j + 1 \in 1..Len(rest) /\ i = Used + j
              /\ optr + i = optr + Used + j /\ C + (j + 1) = S + i + 1
          BY <1>2, <1>3, <3>2
        <4> HIDE DEF j
        <4>2. obuf'[Wrap(optr + Used + j)] = rest[j + 1]
          BY <1>2, <4>1
        <4>3. rest[j + 1] = stream[C + (j + 1)]
          BY <4>1 DEF IInv, Order, RestInv, C
        <4> QED BY <4>1, <4>2, <4>3
      <3> QED BY <3>1, <3>2
    <2>3. WireInv' /\ InbufInv'
      BY <1>1, <1>7 DEF IInv, Order, WireInv, InbufInv
    <2> QED BY <2>1, <2>2, <2>3 DEF Order
  <1>10. FramesInv' /\ Ascending' /\ Sized' /\ \A k \in 0..Len(frames) : EndOf(k)' = EndOf(k)
    BY <1>1, StreamSame
  <1>11. Places'
    <2>1. Len(wire) <= S /\ (linked => Len(inbuf) <= ReceivedBytes)
      BY DEF IInv, Positions, Places, S
    <2>2. Len(rest') <= Len(stream) /\ Used' <= C + m
      BY <1>2, <1>3, <1>4
    <2> QED BY <1>1, <1>6, <1>7, <2>1, <2>2 DEF Places
  <1>12. PICK n \in Nat : n = Len(frames)
    BY DEF IInv, Types
  <1>13. /\ n \in 1..n /\ at[n] \in Nat /\ at[n] <= C /\ C - at[n] <= Used
         /\ frames # <<>>
    <2>1. frames # <<>> /\ at[n] <= C /\ C - at[n] <= Used
      BY <1>1, <1>12 DEF IInv, Positions, InRing, C
    <2>2. n \in 1..n
      BY <1>12, <2>1 DEF IInv, Types
    <2> QED BY <1>12, <2>1, <2>2, FrameNumbers DEF IInv
  <1>14. InRing'
    <2>1. at[n] <= C + m /\ (C + m) - at[n] <= Used + m
      BY <1>3, <1>13
    <2>2. at'[Len(frames')] = at[n] /\ frames' # <<>> /\ open'
      BY <1>1, <1>12, <1>13
    <2>3. at'[Len(frames')] <= CopiedBytes' /\ CopiedBytes' - at'[Len(frames')] <= Used'
      <3>1. CopiedBytes' = C + m /\ Used' = Used + m /\ at'[Len(frames')] = at[n]
        BY <1>2, <1>6, <2>2
      <3> QED BY <2>1, <3>1, Zenon
    <2> QED BY <2>2, <2>3 DEF InRing
  <1>15. Fits'
    <2> SUFFICES ASSUME NEW k \in 1..n, at[k] < S \/ EndOf(k) <= C + m
                 PROVE  Len(frames[k].body) < Small * Base
      BY <1>1, <1>6, <1>10, <1>12 DEF Fits
    <2>1. CASE at[k] < S \/ EndOf(k) <= C
      BY <1>12, <2>1 DEF IInv, Positions, Fits, S, C
    <2>2. CASE EndOf(k) > C /\ EndOf(k) <= C + m
      <3>1. k = n
        <4> SUFFICES ASSUME k < n PROVE FALSE
          OBVIOUS
        <4>1. EndOf(k) <= at[n]
          BY <1>12, <1>13 DEF IInv, Positions, Ascending
        <4>2. EndOf(k) \in Nat
          BY <1>12, FrameNumbers DEF IInv
        <4> QED BY <1>3, <1>13, <2>2, <4>1, <4>2
      <3>2. /\ EndOf(n) = at[n] + Len(Raw(frames[n])) /\ Len(Raw(frames[n])) \in Nat
            /\ Len(frames[n].body) < Len(Raw(frames[n])) /\ Len(frames[n].body) \in Nat
        BY <1>12, <1>13, FrameNumbers DEF IInv
      <3>3. Len(Raw(frames[n])) <= Used + m
        BY <1>2, <1>3, <1>13, <2>2, <3>1, <3>2, SMTT(30)
      <3>4. Used + m < Size /\ Size <= Small * Base /\ Small * Base \in Nat
        BY <1>2, <1>3, <1>5, Constants
      <3> QED BY <1>2, <1>3, <3>1, <3>2, <3>3, <3>4, SMTT(30)
    <2>3. EndOf(k) \in Nat
      BY <1>12, FrameNumbers DEF IInv
    <2> QED BY <1>3, <2>1, <2>2, <2>3
  <1>16. AtFrame'
    <2>1. EndOf(Len(got))' = EndOf(Len(got))
      BY <1>1 DEF EndOf
    <2> QED BY <1>1, <1>7, <2>1 DEF IInv, Positions, AtFrame
  <1> QED BY <1>7, <1>8, <1>9, <1>10, <1>11, <1>14, <1>15, <1>16 DEF IInv, Positions

(* send_player sends.                                                      *)
LEMMA SendKept ==
    ASSUME IInv, NEW n \in Nat \ {0}, SendPlayer(n)
    PROVE  IInv' /\ ReceivedBytes' = ReceivedBytes
  <1> DEFINE S == SentBytes
             C == CopiedBytes
  <1>1. /\ open /\ rest = <<>> /\ linked
        /\ open' = open /\ tptr' = tptr /\ obuf' = obuf /\ iptr' = iptr /\ rest' = rest
        /\ linked' = linked /\ inbuf' = inbuf /\ got' = got
        /\ frames' = frames /\ at' = at /\ stream' = stream
    BY DEF SendPlayer, Idle, clientVars, history
  <1> DEFINE out == [i \in 1..n |-> obuf[optr + i - 1]]
  <1>2. /\ optr' \in 0..(Size - 1) /\ n <= Used /\ Used' = Used - n
        /\ wire' = wire \o out
        /\ out \in Seq(Bytes)
        /\ \A i \in 1..n : optr + i - 1 = Wrap(optr + (i - 1))
        /\ \A i \in Nat : i < Used - n => Wrap(optr' + i) = Wrap(optr + (i + n))
    BY SendMoves DEF IInv
  <1>3. Len(out) = n /\ \A i \in 1..n : out[i] = obuf[optr + i - 1]
    OBVIOUS
  <1> HIDE DEF out
  <1>4. /\ S \in Nat /\ C \in Nat /\ S <= C /\ C <= Len(stream) /\ Len(stream) \in Nat
        /\ ReceivedBytes \in Nat /\ ReceivedBytes = S - Len(wire) /\ Len(wire) \in Nat
        /\ Used \in 0..(Size - 1) /\ Len(rest) \in Nat /\ Size \in Nat
        /\ C = Len(stream) - Len(rest) /\ S = C - Used /\ optr \in 0..(Size - 1)
        /\ Len(inbuf) \in Nat
    BY Numbers, Constants DEF IInv, Positions, CopiedBytes, SentBytes, ReceivedBytes, Types
  <1>5. /\ wire' \in Seq(Bytes) /\ Len(wire') = Len(wire) + n
        /\ \A i \in 1..Len(wire) : wire'[i] = wire[i]
        /\ \A i \in 1..n : wire'[Len(wire) + i] = out[i]
    <2>1. wire \in Seq(Bytes)
      BY DEF IInv, Types
    <2>2. /\ wire \o out \in Seq(Bytes) /\ Len(wire \o out) = Len(wire) + Len(out)
          /\ \A i \in 1..Len(wire) : (wire \o out)[i] = wire[i]
          /\ \A i \in 1..Len(out) : (wire \o out)[Len(wire) + i] = out[i]
      BY <1>2, <2>1
    <2>3. Len(out) = n
      BY <1>3
    <2> QED BY <1>2, <2>2, <2>3
  <1>6. CopiedBytes' = C /\ SentBytes' = S + n
    <2>1. CopiedBytes' = C
      BY <1>1 DEF CopiedBytes
    <2>2. SentBytes' = CopiedBytes' - Used'
      BY DEF SentBytes
    <2> QED BY <1>2, <1>4, <2>1, <2>2
  <1>7. ReceivedBytes' = ReceivedBytes /\ TakenBytes' = TakenBytes
    <2>1. ReceivedBytes' = SentBytes' - Len(wire')
      BY DEF ReceivedBytes
    <2>2. ReceivedBytes' = ReceivedBytes
      BY <1>4, <1>5, <1>6, <2>1, SMTT(30)
    <2> QED BY <1>1, <2>2 DEF TakenBytes
  <1> HIDE DEF S, C
  <1>8. Types'
    BY <1>1, <1>2, <1>5 DEF IInv, Types
  <1>9. Order'
    <2>1. RestInv'
      BY <1>1 DEF RestInv
    <2>2. RingInv'
      <3> SUFFICES ASSUME NEW i \in 0..(Size - 1), i < Used - n
                   PROVE  obuf[Wrap(optr' + i)] = stream[S + n + i + 1]
        BY <1>1, <1>2, <1>6 DEF RingInv, Wrap
      <3>1. /\ i + n \in 0..(Size - 1) /\ i + n < Used /\ S + (i + n) + 1 = S + n + i + 1
            /\ i \in Nat
        BY <1>2, <1>4
      <3>2. obuf[Wrap(optr + (i + n))] = stream[S + (i + n) + 1]
        BY <3>1 DEF IInv, Order, RingInv, S
      <3>3. Wrap(optr' + i) = Wrap(optr + (i + n))
        BY <1>2, <3>1
      <3> QED BY <3>1, <3>2, <3>3
    <2>3. WireInv'
      <3> SUFFICES ASSUME NEW i \in 1..(Len(wire) + n)
                   PROVE  wire'[i] = stream[ReceivedBytes + i]
        BY <1>1, <1>5, <1>7 DEF WireInv
      <3>1. CASE i \in 1..Len(wire)
        BY <1>5, <3>1 DEF IInv, Order, WireInv
      <3>2. CASE i > Len(wire)
        <4> DEFINE j == i - Len(wire)
        <4>1. /\ j \in 1..n /\ i = Len(wire) + j
              /\ j - 1 \in 0..(Size - 1) /\ j - 1 < Used
              /\ S + (j - 1) + 1 = ReceivedBytes + i
          BY <1>2, <1>4, <3>2
        <4> HIDE DEF j
        <4>2. wire'[i] = obuf[Wrap(optr + (j - 1))]
          BY <1>2, <1>3, <1>5, <4>1
        <4>3. obuf[Wrap(optr + (j - 1))] = stream[S + (j - 1) + 1]
          BY <4>1 DEF IInv, Order, RingInv, S
        <4> QED BY <4>1, <4>2, <4>3
      <3>3. i \in 1..Len(wire) \/ i > Len(wire)
        BY <1>4
      <3> QED BY <3>1, <3>2, <3>3
    <2>4. InbufInv'
      BY <1>1, <1>7 DEF IInv, Order, InbufInv
    <2> QED BY <2>1, <2>2, <2>3, <2>4 DEF Order
  <1>10. FramesInv' /\ Ascending' /\ Sized' /\ \A k \in 0..Len(frames) : EndOf(k)' = EndOf(k)
    BY <1>1, StreamSame
  <1>11. Places'
    <2>1. Len(wire) <= S /\ (linked => Len(inbuf) <= ReceivedBytes)
      BY DEF IInv, Positions, Places, S
    <2>2. Len(rest') = 0 /\ Used' <= C /\ Len(wire') <= S + n
      BY <1>1, <1>2, <1>4, <1>5, <2>1
    <2> QED BY <1>1, <1>4, <1>6, <1>7, <2>1, <2>2, SMTT(30) DEF Places
  <1>12. InRing'
    BY <1>1 DEF InRing
  <1>13. Fits'
    <2> SUFFICES ASSUME NEW k \in 1..Len(frames)
                 PROVE  Len(frames[k].body) < Small * Base
      BY <1>1, <1>6, <1>10 DEF Fits
    <2>1. EndOf(k) <= EndOf(Len(frames))
      BY FrameNumbers DEF IInv
    <2>2. C = Len(stream) /\ Len(stream) = EndOf(Len(frames))
      BY <1>1, <1>4, FramesParts DEF IInv
    <2> QED BY <2>1, <2>2 DEF IInv, Positions, Fits, C
  <1>14. AtFrame'
    <2>1. EndOf(Len(got))' = EndOf(Len(got))
      BY <1>1 DEF EndOf
    <2> QED BY <1>1, <1>7, <2>1 DEF IInv, Positions, AtFrame
  <1> QED BY <1>7, <1>8, <1>9, <1>10, <1>11, <1>12, <1>13, <1>14 DEF IInv, Positions

(* The client receives.                                                    *)
LEMMA PollKept ==
    ASSUME IInv, NEW n \in Nat, PollNetwork(n)
    PROVE  IInv' /\ TakenBytes' = TakenBytes
  <1> DEFINE R == ReceivedBytes
             T == TakenBytes
  <1>1. /\ linked /\ n <= Len(wire)
        /\ inbuf' = inbuf \o SubSeq(wire, 1, n)
        /\ wire' = SubSeq(wire, n + 1, Len(wire))
        /\ open' = open /\ tptr' = tptr /\ obuf' = obuf /\ iptr' = iptr
        /\ optr' = optr /\ rest' = rest /\ linked' = linked /\ got' = got
        /\ frames' = frames /\ at' = at /\ stream' = stream
    BY DEF PollNetwork, serverVars, history
  <1>2. /\ R \in Nat /\ SentBytes \in Nat /\ R = SentBytes - Len(wire)
        /\ T \in Nat /\ T = R - Len(inbuf) /\ Len(wire) \in Nat /\ Len(inbuf) \in Nat
        /\ wire \in Seq(Bytes) /\ inbuf \in Seq(Bytes) /\ Len(inbuf) <= R
    BY <1>1, Numbers DEF IInv, Positions, Places, Types, ReceivedBytes, TakenBytes
  <1>3. /\ wire' \in Seq(Bytes) /\ Len(wire') = Len(wire) - n
        /\ \A i \in 1..(Len(wire) - n) : wire'[i] = wire[n + i]
    BY <1>1, <1>2
  <1>4. /\ inbuf' \in Seq(Bytes) /\ Len(inbuf') = Len(inbuf) + n
        /\ \A i \in 1..Len(inbuf) : inbuf'[i] = inbuf[i]
        /\ \A i \in 1..n : inbuf'[Len(inbuf) + i] = wire[i]
    <2> DEFINE w == SubSeq(wire, 1, n)
    <2>1. w \in Seq(Bytes) /\ Len(w) = n /\ \A i \in 1..n : w[i] = wire[i]
      BY <1>1, <1>2
    <2> HIDE DEF w
    <2>2. /\ inbuf \o w \in Seq(Bytes) /\ Len(inbuf \o w) = Len(inbuf) + Len(w)
          /\ \A i \in 1..Len(inbuf) : (inbuf \o w)[i] = inbuf[i]
          /\ \A i \in 1..Len(w) : (inbuf \o w)[Len(inbuf) + i] = w[i]
      BY <1>2, <2>1, SMTT(30)
    <2>3. inbuf' = inbuf \o w
      BY <1>1 DEF w
    <2> QED BY <2>1, <2>2, <2>3
  <1>5. Used' = Used /\ CopiedBytes' = CopiedBytes /\ SentBytes' = SentBytes
    BY <1>1 DEF Used, CopiedBytes, SentBytes
  <1>6. ReceivedBytes' = R + n /\ TakenBytes' = T
    <2>1. ReceivedBytes' = SentBytes' - Len(wire')
      BY DEF ReceivedBytes
    <2>2. ReceivedBytes' = R + n
      BY <1>2, <1>3, <1>5, <2>1
    <2>3. TakenBytes' = ReceivedBytes' - Len(inbuf')
      BY DEF TakenBytes
    <2> QED BY <1>2, <1>4, <2>2, <2>3
  <1> HIDE DEF R, T
  <1>7. Types'
    BY <1>1, <1>3, <1>4 DEF IInv, Types
  <1>8. Order'
    <2>1. RestInv' /\ RingInv'
      BY <1>1, <1>5 DEF IInv, Order, RestInv, RingInv, Wrap
    <2>2. WireInv'
      <3> SUFFICES ASSUME NEW i \in 1..(Len(wire) - n)
                   PROVE  wire'[i] = stream[R + n + i]
        BY <1>1, <1>3, <1>6 DEF WireInv
      <3>1. n + i \in 1..Len(wire) /\ R + n + i = R + (n + i)
        BY <1>2
      <3>2. wire[n + i] = stream[R + (n + i)]
        BY <3>1 DEF IInv, Order, WireInv, R
      <3> QED BY <1>3, <3>1, <3>2
    <2>3. InbufInv'
      <3> SUFFICES ASSUME NEW i \in 1..(Len(inbuf) + n)
                   PROVE  inbuf'[i] = stream[T + i]
        BY <1>1, <1>4, <1>6 DEF InbufInv
      <3>1. CASE i \in 1..Len(inbuf)
        BY <1>1, <1>4, <3>1 DEF IInv, Order, InbufInv, T
      <3>2. CASE i > Len(inbuf)
        <4> DEFINE j == i - Len(inbuf)
        <4>1. j \in 1..n /\ j \in 1..Len(wire) /\ i = Len(inbuf) + j /\ R + j = T + i
          BY <1>1, <1>2, <3>2
        <4> HIDE DEF j
        <4>2. inbuf'[i] = wire[j]
          BY <1>4, <4>1
        <4>3. wire[j] = stream[R + j]
          BY <4>1 DEF IInv, Order, WireInv, R
        <4> QED BY <4>1, <4>2, <4>3
      <3>3. i \in 1..Len(inbuf) \/ i > Len(inbuf)
        BY <1>2
      <3> QED BY <3>1, <3>2, <3>3
    <2> QED BY <2>1, <2>2, <2>3 DEF Order
  <1>9. FramesInv' /\ Ascending' /\ Sized' /\ \A k \in 0..Len(frames) : EndOf(k)' = EndOf(k)
    BY <1>1, StreamSame
  <1>10. Places'
    <2>1. Len(wire') <= SentBytes /\ Len(inbuf') <= R + n
      BY <1>1, <1>2, <1>3, <1>4
    <2> QED BY <1>1, <1>5, <1>6, <2>1 DEF IInv, Positions, Places
  <1>11. InRing'
    BY <1>1, <1>5 DEF IInv, Positions, InRing
  <1>12. Fits'
    BY <1>1, <1>5, <1>9 DEF IInv, Positions, Fits
  <1>13. AtFrame'
    <2>1. EndOf(Len(got))' = EndOf(Len(got))
      BY <1>1 DEF EndOf
    <2> QED BY <1>1, <1>6, <2>1 DEF IInv, Positions, AtFrame, T
  <1> QED BY <1>6, <1>7, <1>8, <1>9, <1>10, <1>11, <1>12, <1>13 DEF IInv, Positions, T

(* The client loses its connection.                                        *)
LEMMA LostKept ==
    ASSUME IInv, linked' = FALSE, wire' = wire \/ wire' = <<>>,
           UNCHANGED <<serverVars, inbuf, got, history, stream>>
    PROVE  IInv'
  <1>1. /\ open' = open /\ tptr' = tptr /\ obuf' = obuf /\ iptr' = iptr
        /\ optr' = optr /\ rest' = rest /\ inbuf' = inbuf /\ got' = got
        /\ frames' = frames /\ at' = at /\ stream' = stream
    BY DEF serverVars, history
  <1>2. Used' = Used /\ CopiedBytes' = CopiedBytes /\ SentBytes' = SentBytes
    BY <1>1 DEF Used, CopiedBytes, SentBytes
  <1>3. wire' = <<>> => Len(wire') = 0
    OBVIOUS
  <1>4. SentBytes \in Nat
    BY Numbers DEF IInv, Positions
  <1>5. Types'
    <2>1. wire' \in Seq(Bytes)
      <3>1. wire \in Seq(Bytes) /\ <<>> \in Seq(Bytes)
        BY DEF IInv, Types
      <3> QED BY <3>1
    <2>2. linked' \in BOOLEAN
      OBVIOUS
    <2> QED BY <1>1, <2>1, <2>2 DEF IInv, Types
  <1>6. Order'
    <2>1. RestInv' /\ RingInv'
      BY <1>1, <1>2 DEF IInv, Order, RestInv, RingInv, Wrap
    <2>2. InbufInv'
      BY DEF InbufInv
    <2>3. CASE wire' = wire
      <3>1. ReceivedBytes' = ReceivedBytes
        BY <1>2, <2>3 DEF ReceivedBytes
      <3> QED BY <1>1, <2>1, <2>2, <2>3, <3>1 DEF IInv, Order, WireInv
    <2>4. CASE wire' = <<>>
      BY <2>1, <2>2, <2>4 DEF Order, WireInv
    <2> QED BY <2>3, <2>4
  <1>7. FramesInv' /\ Ascending' /\ Sized' /\ \A k \in 0..Len(frames) : EndOf(k)' = EndOf(k)
    BY <1>1, StreamSame
  <1>8. Places'
    <2>1. Len(wire') <= SentBytes
      BY <1>3, <1>4 DEF IInv, Positions, Places
    <2> QED BY <1>1, <1>2, <2>1 DEF IInv, Positions, Places
  <1>9. InRing' /\ Fits' /\ AtFrame'
    BY <1>1, <1>2, <1>7 DEF IInv, Positions, InRing, Fits, AtFrame
  <1> QED BY <1>5, <1>6, <1>7, <1>8, <1>9 DEF IInv, Positions

(* The server adds to tbuf, or nothing happens.                            *)
LEMMA PsendKept ==
    ASSUME IInv, tptr' \in 0..(Size - 1),
           UNCHANGED <<open, obuf, iptr, optr, rest, wire, linked, inbuf, got,
                       history, stream>>
    PROVE  IInv' /\ ReceivedBytes' = ReceivedBytes
  <1>1. /\ open' = open /\ obuf' = obuf /\ iptr' = iptr /\ optr' = optr
        /\ rest' = rest /\ wire' = wire /\ linked' = linked /\ inbuf' = inbuf
        /\ got' = got /\ frames' = frames /\ at' = at /\ stream' = stream
    BY DEF history
  <1>2. Used' = Used /\ CopiedBytes' = CopiedBytes /\ SentBytes' = SentBytes
    BY <1>1 DEF Used, CopiedBytes, SentBytes
  <1>3. ReceivedBytes' = ReceivedBytes /\ TakenBytes' = TakenBytes
    BY <1>1, <1>2 DEF ReceivedBytes, TakenBytes
  <1>4. Types'
    BY <1>1 DEF IInv, Types
  <1>5. Order'
    BY <1>1, <1>2, <1>3
       DEF IInv, Order, RestInv, RingInv, WireInv, InbufInv, Wrap
  <1>6. FramesInv' /\ Ascending' /\ Sized' /\ \A k \in 0..Len(frames) : EndOf(k)' = EndOf(k)
    BY <1>1, StreamSame
  <1>7. Places' /\ InRing'
    BY <1>1, <1>2, <1>3 DEF IInv, Positions, Places, InRing
  <1>8. Fits'
    BY <1>1, <1>2, <1>6 DEF IInv, Positions, Fits
  <1>9. AtFrame'
    <2>1. EndOf(Len(got))' = EndOf(Len(got))
      BY <1>1 DEF EndOf
    <2> QED BY <1>1, <1>3, <2>1 DEF IInv, Positions, AtFrame
  <1> QED BY <1>3, <1>4, <1>5, <1>6, <1>7, <1>8, <1>9 DEF IInv, Positions

(* What next_tick takes is the next frame.                                 *)
LEMMA NextTickTakes ==
    ASSUME IInv, NextTick
    PROVE  /\ Len(got) < Len(frames)
           /\ got' = Append(got, frames[Len(got) + 1])
           /\ Len(Raw(frames[Len(got) + 1])) <= Len(inbuf)
           /\ inbuf' = SubSeq(inbuf, Len(Raw(frames[Len(got) + 1])) + 1, Len(inbuf))
  <1> DEFINE t == TickAt(inbuf, 0)
  <1>1. /\ linked /\ t.size # 0 /\ t.size <= Len(inbuf)
        /\ got' = Append(got, [zip |-> t.zip, body |-> SubSeq(inbuf, t.skip + 1, t.size)])
        /\ inbuf' = SubSeq(inbuf, t.size + 1, Len(inbuf))
    BY DEF NextTick
  <1>2. inbuf \in Seq(Bytes) /\ Len(inbuf) \in Nat /\ Len(inbuf) >= 1
    <2>1. inbuf \in Seq(Bytes) /\ Len(inbuf) \in Nat
      BY DEF IInv, Types
    <2>2. Len(inbuf) < 0 + 1 => t = NoTick
      BY DEF TickAt
    <2> HIDE DEF t
    <2> QED BY <1>1, <2>1, <2>2 DEF NoTick
  <1> HIDE DEF t
  <1>3. PICK g \in Nat : g = Len(got)
    BY DEF IInv, Types
  <1>4. PICK n \in Nat : n = Len(frames)
    BY DEF IInv, Types
  <1>5. /\ TakenBytes \in Nat /\ TakenBytes = ReceivedBytes - Len(inbuf)
        /\ ReceivedBytes \in Nat /\ ReceivedBytes <= SentBytes /\ SentBytes \in Nat
        /\ SentBytes <= Len(stream) /\ Len(stream) \in Nat
    BY <1>1, Numbers DEF IInv, Positions, TakenBytes
  <1>6. g <= n /\ TakenBytes = EndOf(g)
    BY <1>1, <1>3, <1>4 DEF IInv, Positions, AtFrame
  <1>7. Len(stream) <= EndOf(n) /\ EndOf(n) \in Nat
    BY <1>4, FramesParts, FrameNumbers DEF IInv
  <1>8. g < n
    <2>1. g = n => EndOf(g) = EndOf(n)
      OBVIOUS
    <2>2. EndOf(g) < EndOf(n)
      BY <1>2, <1>5, <1>6, <1>7
    <2> QED BY <1>6, <1>7, <2>1, <2>2
  <1> DEFINE k == g + 1
             f == frames[k]
  <1>9. /\ k \in 1..n /\ k - 1 = g
    BY <1>8
  <1> HIDE DEF k
  <1>10. /\ f \in Frames /\ Len(f.body) \in Nat /\ Len(Raw(f)) \in Nat
         /\ at[k] = TakenBytes
         /\ f.zip => f.body # <<>> /\ f.body[1] # AllOnes
         /\ ~f.zip => Len(f.body) <= MinZip
         /\ \A i \in 1..Len(Raw(f)) : at[k] + i <= Len(stream) => stream[at[k] + i] = Raw(f)[i]
    <2>1. FrameAt(k, frames[k], at[k], EndOf(k - 1), stream)
      BY <1>4, <1>9, FramesParts DEF IInv
    <2>2. EndOf(k - 1) = TakenBytes
      BY <1>6, <1>9
    <2> QED BY <1>4, <1>9, <2>1, <2>2, FrameNumbers DEF IInv, FrameAt
  <1>11. Len(f.body) <= Size /\ Len(f.body) < Small * Base
    <2>1. at[k] < SentBytes
      BY <1>2, <1>5, <1>10
    <2> QED BY <1>4, <1>9, <2>1 DEF IInv, Positions, Sized, Fits
  <1> HIDE DEF f
  <1>12. \A i \in 1..Len(inbuf) : i <= Len(Raw(f)) => inbuf[i] = Raw(f)[i]
    <2> SUFFICES ASSUME NEW i \in 1..Len(inbuf), i <= Len(Raw(f))
                 PROVE  inbuf[i] = Raw(f)[i]
      OBVIOUS
    <2>1. inbuf[i] = stream[TakenBytes + i]
      BY <1>1 DEF IInv, Order, InbufInv
    <2>2. i \in 1..Len(Raw(f)) /\ TakenBytes + i <= Len(stream)
      BY <1>2, <1>5, <1>10
    <2> QED BY <1>10, <2>1, <2>2
  <1> DEFINE h == Len(Header(Len(f.body), f.zip))
  <1>13. t.size = Len(Raw(f)) /\ t.skip = h /\ t.zip = f.zip
    BY <1>1, <1>2, <1>10, <1>11, <1>12, HeaderRead DEF t
  <1>14. /\ h \in Nat /\ Len(Raw(f)) = Len(f.body) + h
         /\ \A i \in 1..Len(f.body) : Raw(f)[h + i] = f.body[i]
    <2>1. f.zip \in BOOLEAN /\ f.body \in Seq(Bytes) /\ Len(f.body) \in 0..Size
      BY <1>10, <1>11, Constants DEF Frames
    <2> DEFINE hd == Header(Len(f.body), f.zip)
    <2>2. hd \in Seq(Bytes)
      BY <2>1, HeaderType, Zenon
    <2>3. Raw(f) = hd \o f.body
      BY DEF Raw
    <2>4. h = Len(hd)
      OBVIOUS
    <2> HIDE DEF hd, h
    <2> QED BY <2>1, <2>2, <2>3, <2>4, ConcatProperties
  <1> HIDE DEF h
  <1>15. SubSeq(inbuf, t.skip + 1, t.size) = f.body
    <2> DEFINE w == SubSeq(inbuf, h + 1, Len(Raw(f)))
    <2>1. /\ w \in Seq(Bytes) /\ Len(w) = Len(f.body)
          /\ \A i \in 1..Len(f.body) : w[i] = inbuf[h + i]
      BY <1>1, <1>2, <1>10, <1>13, <1>14
    <2>2. \A i \in 1..Len(f.body) : inbuf[h + i] = f.body[i]
      <3> SUFFICES ASSUME NEW i \in 1..Len(f.body) PROVE inbuf[h + i] = f.body[i]
        OBVIOUS
      <3>1. h + i \in 1..Len(inbuf) /\ h + i <= Len(Raw(f))
        BY <1>1, <1>2, <1>10, <1>13, <1>14
      <3> QED BY <1>12, <1>14, <3>1
    <2>3. f.body \in Seq(Bytes)
      BY <1>10 DEF Frames
    <2>4. w = SubSeq(inbuf, t.skip + 1, t.size)
      BY <1>13
    <2> HIDE DEF w
    <2>5. w = f.body
      BY <2>1, <2>2, <2>3, SeqEqual
    <2> QED BY <2>4, <2>5
  <1>16. [zip |-> t.zip, body |-> SubSeq(inbuf, t.skip + 1, t.size)] = f
    <2>1. f = [zip |-> f.zip, body |-> f.body]
      BY <1>10 DEF Frames
    <2> QED BY <1>13, <1>15, <2>1
  <1>17. f = frames[Len(got) + 1]
    BY <1>3 DEF f, k
  <1> QED BY <1>1, <1>3, <1>4, <1>8, <1>13, <1>16, <1>17


(* The client takes a frame.                                               *)
LEMMA NextTickKept ==
    ASSUME IInv, NextTick
    PROVE  IInv' /\ ReceivedBytes' = ReceivedBytes
  <1> DEFINE T == TakenBytes
  <1>1. /\ linked /\ linked' = linked /\ open' = open /\ tptr' = tptr /\ obuf' = obuf
        /\ iptr' = iptr /\ optr' = optr /\ rest' = rest /\ wire' = wire
        /\ frames' = frames /\ at' = at /\ stream' = stream
    BY DEF NextTick, serverVars, history
  <1>2. PICK g \in Nat : g = Len(got)
    BY DEF IInv, Types
  <1>3. PICK n \in Nat : n = Len(frames)
    BY DEF IInv, Types
  <1> DEFINE k == g + 1
             f == frames[k]
  <1>4. k \in 1..n /\ f \in Frames /\ Len(Raw(f)) \in Nat
        /\ EndOf(k) = at[k] + Len(Raw(f)) /\ at[k] = EndOf(g) /\ at[k] \in Nat
    <2>1. k \in 1..n /\ k - 1 = g
      BY <1>2, <1>3, NextTickTakes
    <2> HIDE DEF k
    <2>2. FrameAt(k, frames[k], at[k], EndOf(k - 1), stream)
      BY <1>3, <2>1, FramesParts DEF IInv
    <2> QED BY <1>3, <2>1, <2>2, FrameNumbers DEF IInv, FrameAt
  <1> HIDE DEF f
  <1>5. PICK size \in Nat : size = Len(Raw(f))
    BY <1>4
  <1>6. /\ got' = Append(got, f) /\ size <= Len(inbuf)
        /\ inbuf' = SubSeq(inbuf, size + 1, Len(inbuf))
    BY <1>2, <1>5, NextTickTakes DEF f
  <1>7. /\ inbuf \in Seq(Bytes) /\ Len(inbuf) \in Nat /\ got \in Seq(Frames)
        /\ ReceivedBytes \in Nat /\ T \in Nat /\ T = ReceivedBytes - Len(inbuf)
        /\ Len(inbuf) <= ReceivedBytes
    BY <1>1, Numbers DEF IInv, Positions, Places, Types, TakenBytes
  <1>8. /\ inbuf' \in Seq(Bytes) /\ Len(inbuf') = Len(inbuf) - size
        /\ \A i \in 1..(Len(inbuf) - size) : inbuf'[i] = inbuf[size + i]
    BY <1>6, <1>7
  <1>9. /\ got' \in Seq(Frames) /\ Len(got') = k
        /\ \A j \in 1..g : got'[j] = got[j]
        /\ got'[k] = f
    BY <1>2, <1>4, <1>6, <1>7
  <1>10. Used' = Used /\ CopiedBytes' = CopiedBytes /\ SentBytes' = SentBytes
    BY <1>1 DEF Used, CopiedBytes, SentBytes
  <1>11. ReceivedBytes' = ReceivedBytes /\ TakenBytes' = T + size
    <2>1. ReceivedBytes' = ReceivedBytes
      BY <1>1, <1>10 DEF ReceivedBytes
    <2>2. TakenBytes' = ReceivedBytes' - Len(inbuf')
      BY DEF TakenBytes
    <2> QED BY <1>6, <1>7, <1>8, <2>1, <2>2
  <1> HIDE DEF T
  <1>12. Types'
    BY <1>1, <1>8, <1>9 DEF IInv, Types
  <1>13. Order'
    <2>1. RestInv' /\ RingInv' /\ WireInv'
      BY <1>1, <1>10, <1>11 DEF IInv, Order, RestInv, RingInv, WireInv, Wrap
    <2>2. InbufInv'
      <3> SUFFICES ASSUME NEW i \in 1..(Len(inbuf) - size)
                   PROVE  inbuf'[i] = stream[T + size + i]
        BY <1>1, <1>8, <1>11 DEF InbufInv
      <3>1. size + i \in 1..Len(inbuf) /\ T + size + i = T + (size + i)
        BY <1>6, <1>7
      <3>2. inbuf[size + i] = stream[T + (size + i)]
        BY <1>1, <3>1 DEF IInv, Order, InbufInv, T
      <3> QED BY <1>8, <3>1, <3>2
    <2> QED BY <2>1, <2>2 DEF Order
  <1>14. FramesInv' /\ Ascending' /\ Sized' /\ \A j \in 0..Len(frames) : EndOf(j)' = EndOf(j)
    BY <1>1, StreamSame
  <1>15. Places'
    <2>1. Len(inbuf') <= ReceivedBytes
      BY <1>6, <1>7, <1>8
    <2> QED BY <1>1, <1>10, <1>11, <2>1 DEF IInv, Positions, Places
  <1>16. InRing'
    BY <1>1, <1>10 DEF IInv, Positions, InRing
  <1>17. Fits'
    BY <1>1, <1>10, <1>14 DEF IInv, Positions, Fits
  <1>18. AtFrame'
    <2>1. /\ g <= n /\ T = EndOf(g) /\ \A j \in 1..g : got[j] = frames[j]
      BY <1>1, <1>2, <1>3 DEF IInv, Positions, AtFrame, T
    <2>2. EndOf(Len(got))' = EndOf(k)'
      BY <1>9 DEF EndOf
    <2>3. EndOf(k)' = EndOf(k)
      BY <1>1 DEF EndOf
    <2>4. TakenBytes' = EndOf(Len(got))'
      BY <1>4, <1>5, <1>11, <2>1, <2>2, <2>3
    <2>5. \A j \in 1..Len(got') : got'[j] = frames'[j]
      <3> SUFFICES ASSUME NEW j \in 1..k PROVE got'[j] = frames[j]
        BY <1>1, <1>9
      <3>1. j \in 1..g \/ j = k
        OBVIOUS
      <3> QED BY <1>9, <2>1, <3>1 DEF f
    <2>6. Len(got') <= Len(frames')
      BY <1>1, <1>3, <1>4, <1>9
    <2> QED BY <2>4, <2>5, <2>6 DEF AtFrame
  <1> QED BY <1>11, <1>12, <1>13, <1>14, <1>15, <1>16, <1>17, <1>18 DEF IInv, Positions

(* Both sides start afresh.                                                *)
Fresh ==
    /\ open = TRUE /\ linked = TRUE /\ tptr = Greeting
    /\ obuf \in [0..(Size - 1) -> Bytes]
    /\ iptr \in 0..(Size - 1) /\ optr = iptr
    /\ rest = <<>> /\ wire = <<>> /\ inbuf = <<>> /\ got = <<>>
    /\ frames = <<>> /\ at = <<>> /\ stream = <<>>

(* The invariant holds at the start of a connection, ...                   *)
LEMMA FreshInv == Fresh => IInv
  <1> SUFFICES ASSUME Fresh PROVE IInv
    OBVIOUS
  <1>1. /\ Len(rest) = 0 /\ Len(wire) = 0 /\ Len(inbuf) = 0 /\ Len(got) = 0
        /\ Len(frames) = 0 /\ Len(at) = 0 /\ Len(stream) = 0
    BY DEF Fresh
  <1>2. Used = 0
    BY Constants DEF Fresh, Used
  <1>3. CopiedBytes = 0 /\ SentBytes = 0
    BY <1>1, <1>2 DEF CopiedBytes, SentBytes
  <1>4. ReceivedBytes = 0 /\ TakenBytes = 0
    BY <1>1, <1>3 DEF ReceivedBytes, TakenBytes
  <1>5. EndOf(0) = 0
    BY DEF EndOf
  <1>6. Types
    <2>1. tptr \in 0..(Size - 1)
      BY SizeAssumption DEF Fresh
    <2>2. /\ rest \in Seq(Bytes) /\ wire \in Seq(Bytes) /\ inbuf \in Seq(Bytes)
          /\ stream \in Seq(Bytes) /\ at \in Seq(Nat)
          /\ frames \in Seq(Frames) /\ got \in Seq(Frames)
      BY DEF Fresh
    <2> QED BY <2>1, <2>2 DEF Fresh, Types
  <1>7. Order
    <2>1. RestInv /\ WireInv /\ InbufInv
      BY <1>1 DEF RestInv, WireInv, InbufInv
    <2>2. RingInv
      BY <1>2 DEF RingInv
    <2> QED BY <2>1, <2>2 DEF Order
  <1>8. FramesInv
    BY <1>1, <1>5 DEF FramesInv
  <1>9. Positions
    <2>1. Places
      BY <1>1, <1>2, <1>3, <1>4 DEF Fresh, Places
    <2>2. Ascending /\ Fits /\ Sized /\ InRing
      BY <1>1 DEF Ascending, Fits, Sized, InRing, Fresh
    <2>3. AtFrame
      BY <1>1, <1>4, <1>5 DEF AtFrame
    <2> QED BY <2>1, <2>2, <2>3 DEF Positions
  <1> QED BY <1>6, <1>7, <1>8, <1>9 DEF IInv

(* ... of the first one and of the next ones.                              *)
LEMMA FreshInvNext == Fresh' => IInv'
  BY FreshInv, PTL

(* The client connects again.                                              *)
LEMMA ConnectKept ==
    ASSUME IInv, Connect
    PROVE  IInv'
  <1>1. Fresh'
    <2>1. /\ ~open /\ open' = TRUE /\ linked' = TRUE /\ tptr' = Greeting
          /\ obuf' = obuf /\ iptr' = iptr /\ optr' = optr /\ rest' = rest
          /\ wire' = <<>> /\ inbuf' = <<>> /\ got' = <<>>
          /\ frames' = <<>> /\ at' = <<>> /\ stream' = <<>>
      BY DEF Connect
    <2>2. rest = <<>> /\ optr = iptr
      BY <2>1 DEF IInv, Positions, Places
    <2> QED BY <2>1, <2>2 DEF IInv, Types, Fresh
  <1> QED BY <1>1, FreshInvNext

-----------------------------------------------------------------------------
(* The invariant of every step.                                            *)

(* The first connection.                                                  *)
LEMMA InitInv == Init => IInv
  <1>1. Init => Fresh
    <2>1. NoData \in [0..(Size - 1) -> Bytes] /\ 0 \in 0..(Size - 1)
      BY Constants DEF NoData
    <2> QED BY <2>1 DEF Init, Fresh
  <1> QED BY <1>1, FreshInv

(* No step breaks the invariant.                                           *)
LEMMA NextInv == IInv /\ [Next]_vars => IInv'
  <1> SUFFICES ASSUME IInv, [Next]_vars PROVE IInv'
    OBVIOUS
  <1>1. CASE Collect
    <2> PICK n \in Lens : Psend(n) \/ PsendOverflow(n)
      BY <1>1 DEF Collect
    <2>1. CASE Psend(n)
      <3>1. tptr' \in 0..(Size - 1)
        BY <2>1, BoundAssumption, Constants DEF Psend, IInv, Types
      <3> QED BY <2>1, <3>1, PsendKept DEF Psend, clientVars
    <2>2. CASE PsendOverflow(n)
      BY <2>2, ExitKept DEF PsendOverflow
    <2> QED BY <2>1, <2>2
  <1>2. CASE Flush
    <2>1. CASE \E zip \in BOOLEAN, body \in RawBodies \cup ZipBodies : Pflush(zip, body)
      BY <2>1, PflushKept
    <2>2. CASE PflushFails
      BY <2>2, ExitKept DEF PflushFails
    <2> QED BY <1>2, <2>1, <2>2 DEF Flush
  <1>3. CASE Copy
    BY <1>3, CsendKept, ExitKept DEF Copy, CsendOverflow
  <1>4. CASE Transmit
    <2>1. PICK n \in Pieces \cup {Sendable} : SendPlayer(n)
      BY <1>4 DEF Transmit
    <2>2. Sendable \in Nat \ {0}
      BY <2>1, Constants DEF SendPlayer, Sendable, IInv, Types
    <2> QED BY <2>1, <2>2, BoundAssumption, SendKept
  <1>5. CASE FindBroken \/ Kick
    BY <1>5, ExitKept DEF FindBroken, Kick
  <1>6. CASE Receive
    <2>1. PICK n \in Pieces \cup {Len(wire)} : PollNetwork(n)
      BY <1>6 DEF Receive
    <2>2. Len(wire) \in Nat
      BY DEF IInv, Types
    <2> QED BY <2>1, <2>2, BoundAssumption, PollKept
  <1>7. CASE ConnectionLost
    BY <1>7, LostKept DEF ConnectionLost
  <1>8. CASE NextTick
    BY <1>8, NextTickKept
  <1>9. CASE Break
    BY <1>9, LostKept DEF Break
  <1>10. CASE Connect
    BY <1>10, ConnectKept
  <1>11. CASE UNCHANGED vars
    <2>1. tptr' \in 0..(Size - 1)
      BY <1>11 DEF vars, serverVars, IInv, Types
    <2> QED BY <1>11, <2>1, PsendKept DEF vars, serverVars, clientVars
  <1> QED BY <1>1, <1>2, <1>3, <1>4, <1>5, <1>6, <1>7, <1>8, <1>9, <1>10, <1>11 DEF Next

(* The invariant, for good.                                                *)
LEMMA Invariant == Spec => []IInv
  BY InitInv, NextInv, PTL DEF Spec

-----------------------------------------------------------------------------
(* The bytes of the stream are where they belong in every reachable state: *)
(* in what csend has still to copy, in the ring buffer however far it has  *)
(* wrapped round, on the network and in inbuf, and the frames lie in the   *)
(* stream one behind the other.                                            *)
THEOREM BytesInOrder == Spec => [](RestInv /\ RingInv /\ WireInv /\ InbufInv /\ FramesInv)
  <1>1. IInv => RestInv /\ RingInv /\ WireInv /\ InbufInv /\ FramesInv
    BY DEF IInv, Order
  <1> QED BY <1>1, Invariant, PTL

(* A length that does not fit into a header of two bytes never goes out as *)
(* a whole, because csend runs out of room in the ring buffer first.       *)
THEOREM LengthFits == Spec => []HeaderFits
  <1>1. IInv => HeaderFits
    BY DEF IInv, Positions, Fits, HeaderFits
  <1> QED BY <1>1, Invariant, PTL

(* A step of the connection is a step of FrameChannel, or none.            *)
LEMMA StepOfChannel ==
    IInv /\ [Next]_vars => [Channel!ChannelNext]_(Channel!channelVars)
  <1> USE DEF Channel!ChannelNext, Channel!channelVars
  <1> SUFFICES ASSUME IInv, [Next]_vars
               PROVE  [Channel!ChannelNext]_(Channel!channelVars)
    OBVIOUS
  <1>1. ExitPlayer => Channel!End
    BY DEF ExitPlayer, clientVars, history, Channel!End
  <1>2. CASE Collect
    BY <1>1, <1>2 DEF Collect, Psend, PsendOverflow, clientVars, history
  <1>3. CASE Flush
    <2>1. CASE \E zip \in BOOLEAN, body \in RawBodies \cup ZipBodies : Pflush(zip, body)
      <3> PICK zip \in BOOLEAN, body \in RawBodies \cup ZipBodies : Pflush(zip, body)
        BY <2>1
      <3> DEFINE f == [zip |-> zip, body |-> body]
      <3>1. f \in Frames
        BY PflushFrame DEF IInv
      <3>2. frames' = Append(frames, f) /\ open /\ open' = open /\ got' = got
        BY DEF Pflush, Idle, clientVars
      <3> HIDE DEF f
      <3>3. frames' # <<>> /\ Channel!Last(frames') = f
        <4>1. frames \in Seq(Frames) /\ Len(frames) \in Nat
          BY DEF IInv, Types
        <4>2. /\ frames' \in Seq(Frames) /\ Len(frames') = Len(frames) + 1
              /\ frames'[Len(frames) + 1] = f
          BY <3>1, <3>2, <4>1
        <4>3. frames' # <<>>
          BY <4>1, <4>2
        <4>4. frames'[Len(frames')] = f
          BY <4>2
        <4> QED BY <4>3, <4>4 DEF Channel!Last
      <3> QED BY <3>1, <3>2, <3>3 DEF Channel!Send
    <2>2. CASE PflushFails
      BY <1>1, <2>2 DEF PflushFails
    <2> QED BY <1>3, <2>1, <2>2 DEF Flush
  <1>4. CASE Copy
    BY <1>1, <1>4 DEF Copy, Csend, CsendOverflow, clientVars, history
  <1>5. CASE Transmit
    BY <1>5 DEF Transmit, SendPlayer, clientVars, history
  <1>6. CASE FindBroken \/ Kick
    BY <1>1, <1>6 DEF FindBroken, Kick
  <1>7. CASE Receive \/ ConnectionLost \/ Break
    BY <1>7 DEF Receive, PollNetwork, ConnectionLost, Break, serverVars, history
  <1>8. CASE NextTick
    BY <1>8, NextTickTakes DEF NextTick, serverVars, history, Channel!Take
  <1>9. CASE Connect
    BY <1>9 DEF Connect, Channel!Renew
  <1>10. CASE UNCHANGED vars
    BY <1>10 DEF vars, serverVars, clientVars, history
  <1> QED BY <1>2, <1>3, <1>4, <1>5, <1>6, <1>7, <1>8, <1>9, <1>10 DEF Next

(* psend, pflush, csend, send_player, poll_network and next_tick together  *)
(* are the channel of FrameChannel: the client takes the frames the server *)
(* made, whole, in order and from the first one on.                        *)
THEOREM FramesDelivered == Spec => IsChannel
  <1>1. Init => Channel!ChannelInit
    BY DEF Init, Channel!ChannelInit
  <1> QED BY <1>1, Invariant, StepOfChannel, PTL DEF Spec, IsChannel, Channel!ChannelSpec

-----------------------------------------------------------------------------
(* The loop of poll_network.                                               *)

(* Induction, over the members of a set of numbers.                        *)
Less == {p \in Nat \X Nat : p[1] < p[2]}

(* Below every number there are only so many.                              *)
LEMMA LessWF == IsWellFoundedOn(Less, Nat)
  <1>1. OpToRel(<, Nat) = Less
    BY DEF OpToRel, Less
  <1> QED BY <1>1, NatLessThanWellFounded

(* A set with 0 and every successor has all numbers.                       *)
LEMMA Induction ==
    ASSUME NEW S \in SUBSET Nat, 0 \in S, \A n \in S : n + 1 \in S
    PROVE  S = Nat
  <1> DEFINE T == Nat \ S
  <1> SUFFICES ASSUME T # {} PROVE FALSE
    OBVIOUS
  <1>1. PICK m \in T : \A y \in T : <<y, m>> \notin Less
    <2>1. T \in SUBSET Nat /\ T # {}
      OBVIOUS
    <2> HIDE DEF T
    <2> QED BY <2>1, LessWF, WFMin
  <1>2. m \in Nat /\ m # 0
    OBVIOUS
  <1>3. m - 1 \in Nat /\ <<m - 1, m>> \in Less
    BY <1>2 DEF Less
  <1>4. m - 1 \in S
    BY <1>1, <1>3
  <1>5. (m - 1) + 1 \in S
    BY <1>4
  <1>6. (m - 1) + 1 = m
    BY <1>2
  <1> QED BY <1>5, <1>6

(* The size of a tick is a number, none behind the end of the buffer.      *)
LEMMA TickSize ==
    ASSUME NEW buf \in Seq(Bytes), NEW p \in Nat
    PROVE  TickAt(buf, p).size \in Nat /\ (p >= Len(buf) => TickAt(buf, p).size = 0)
  <1> DEFINE b == buf[p + 1]
             c == buf[p + 2]
  <1>1. Len(buf) \in Nat /\ Base \in Nat /\ Small \in Nat /\ \A x \in Bytes : x \in Nat
    BY Constants
  <1>2. \A i \in 1..Len(buf) : buf[i] \in Nat
    BY <1>1
  <1>3. p >= Len(buf) => TickAt(buf, p) = NoTick
    BY <1>1 DEF TickAt
  <1>4. \A x \in Bytes : SixBits(x) \in Nat
    BY Constants DEF SixBits, SevenBits, SmallBit, ZipBit
  <1>5. CASE p < Len(buf)
    <2>1. b \in Bytes
      BY <1>1, <1>5
    <2>2. p + 2 <= Len(buf) => c \in Nat
      BY <1>1, <1>2
    <2>3. p + 4 <= Len(buf) => buf[p + 3] \in Nat /\ buf[p + 4] \in Nat
      BY <1>1, <1>2
    <2>4. /\ Len(buf) - p \in Nat
          /\ Len(buf) - p >= 2 => p + 2 <= Len(buf)
          /\ Len(buf) - p >= 4 => p + 4 <= Len(buf)
      BY <1>1, <1>5
    <2>5. SixBits(b) \in Nat /\ SixBits(b) * Base \in Nat
      BY <1>1, <1>4, <2>1
    <2>6. p + 4 <= Len(buf) => buf[p + 3] * Base \in Nat
      BY <1>1, <2>3
    <2>7. TickAt(buf, p).size \in
             {0, 4 + buf[p + 3] * Base + buf[p + 4], 1 + SixBits(b), 2 + SixBits(b) * Base + c}
      BY DEF TickAt, NoTick
    <2> DEFINE n == Len(buf) - p
    <2>8. CASE TickAt(buf, p) = NoTick
      BY <2>8 DEF NoTick
    <2>9. CASE n >= 4 /\ TickAt(buf, p).size = 4 + buf[p + 3] * Base + buf[p + 4]
      BY <1>5, <2>3, <2>4, <2>6, <2>9
    <2>10. CASE TickAt(buf, p).size = 1 + SixBits(b)
      BY <1>5, <1>1, <2>5, <2>10
    <2>11. CASE n >= 2 /\ TickAt(buf, p).size = 2 + SixBits(b) * Base + c
      BY <1>5, <1>1, <2>2, <2>4, <2>5, <2>11
    <2>12. ~(n < 4) => n >= 4
      BY <2>4
    <2> QED BY <1>1, <1>5, <2>4, <2>8, <2>9, <2>10, <2>11, <2>12 DEF TickAt
  <1> QED BY <1>1, <1>3, <1>5 DEF NoTick

(* The loop of poll_network, as an equation.                               *)
LEMMA CountedStep ==
    ASSUME NEW buf \in Seq(Bytes), NEW p \in Nat
    PROVE  Counted(buf, p) = IF TickAt(buf, p).size = 0 THEN p
                             ELSE Counted(buf, p + TickAt(buf, p).size)
  <1> DEFINE s == [q \in Nat |-> TickAt(buf, q).size]
             Eq(g, q) == g[q] = IF s[q] = 0 THEN q ELSE g[q + s[q]]
             L == Len(buf)
             S == {n \in Nat : \E g \in [Nat -> Nat] : \A q \in Nat : q + n >= L => Eq(g, q)}
  <1>1. /\ L \in Nat /\ s \in [Nat -> Nat]
        /\ \A q \in Nat : s[q] = TickAt(buf, q).size /\ (q >= L => s[q] = 0)
    BY TickSize
  <1> HIDE DEF s, L, Eq, S
  <1>2. 0 \in S
    <2> DEFINE g == [q \in Nat |-> q]
    <2>1. g \in [Nat -> Nat]
      OBVIOUS
    <2>2. \A q \in Nat : q + 0 >= L => Eq(g, q)
      BY <1>1 DEF Eq
    <2> QED BY <2>1, <2>2 DEF S
  <1>3. ASSUME NEW n \in Nat, n \in S PROVE n + 1 \in S
    <2>1. PICK g \in [Nat -> Nat] : \A q \in Nat : q + n >= L => Eq(g, q)
      BY <1>3 DEF S
    <2> DEFINE h == [q \in Nat |-> IF q + n >= L THEN g[q]
                                   ELSE IF s[q] = 0 THEN q ELSE g[q + s[q]]]
    <2> HIDE DEF h
    <2>2. ASSUME NEW q \in Nat PROVE s[q] \in Nat /\ q + s[q] \in Nat
      <3>1. s[q] \in Nat
        BY <1>1
      <3>2. \A a, b \in Nat : a + b \in Nat
        OBVIOUS
      <3> QED BY <3>1, <3>2, Zenon
    <2>3. h \in [Nat -> Nat]
      BY <2>2 DEF h
    <2>4. ASSUME NEW q \in Nat, q + (n + 1) >= L PROVE Eq(h, q)
      <3>1. PICK d \in Nat : d = s[q]
        BY <2>2
      <3>2. CASE q + n >= L
        <4>1. h[q] = g[q] /\ Eq(g, q)
          BY <2>1, <3>2 DEF h
        <4>2. q + d \in Nat /\ (q + d) + n >= L
          BY <1>1, <3>2
        <4>3. h[q + d] = g[q + d]
          BY <4>2 DEF h
        <4> QED BY <3>1, <4>1, <4>3 DEF Eq
      <3>3. CASE ~(q + n >= L)
        <4>1. h[q] = IF d = 0 THEN q ELSE g[q + d]
          BY <3>1, <3>3 DEF h
        <4>2. d # 0 => q + d \in Nat /\ (q + d) + n >= L
          BY <1>1, <2>4
        <4>3. d # 0 => h[q + d] = g[q + d]
          BY <4>2 DEF h
        <4> QED BY <3>1, <4>1, <4>3 DEF Eq
      <3> QED BY <3>2, <3>3
    <2>5. n + 1 \in Nat /\ \A q \in Nat : q + (n + 1) >= L => Eq(h, q)
      BY <2>4
    <2> QED BY <2>3, <2>5, Zenon DEF S
  <1>4. L \in S
    <2>1. S \in SUBSET Nat
      BY DEF S
    <2> QED BY <1>1, <1>2, <1>3, <2>1, Induction
  <1>5. PICK f \in [Nat -> Nat] : \A q \in Nat : Eq(f, q)
    <2>1. PICK f \in [Nat -> Nat] : \A q \in Nat : q + L >= L => Eq(f, q)
      BY <1>4 DEF S
    <2>2. \A q \in Nat : q + L >= L
      BY <1>1
    <2> QED BY <2>1, <2>2
  <1> DEFINE C == CHOOSE g : g = [q \in Nat |-> IF TickAt(buf, q).size = 0 THEN q
                                               ELSE g[q + TickAt(buf, q).size]]
  <1>6. f = [q \in Nat |-> IF TickAt(buf, q).size = 0 THEN q
                            ELSE f[q + TickAt(buf, q).size]]
    BY <1>1, <1>5 DEF Eq
  <1>7. C = [q \in Nat |-> IF TickAt(buf, q).size = 0 THEN q
                            ELSE C[q + TickAt(buf, q).size]]
    BY <1>6, Zenon
  <1>8. \A q \in Nat : Counted(buf, q) = C[q]
    BY DEF Counted
  <1> HIDE DEF C
  <1>9. p + TickAt(buf, p).size \in Nat
    <2>1. TickAt(buf, p).size \in Nat
      BY TickSize
    <2>2. \A a, b \in Nat : a + b \in Nat
      OBVIOUS
    <2> QED BY <2>1, <2>2, Zenon
  <1> QED BY <1>7, <1>8, <1>9

(* What stands behind the first bytes is what the rest starts with.        *)
LEMMA TickShift ==
    ASSUME NEW buf \in Seq(Bytes), NEW p \in Nat, p <= Len(buf)
    PROVE  TickAt(buf, p) = TickAt(SubSeq(buf, p + 1, Len(buf)), 0)
  <1> DEFINE w == SubSeq(buf, p + 1, Len(buf))
  <1>1. PICK u \in Nat : u = Len(buf) - p
    OBVIOUS
  <1>2. Len(w) = u /\ \A i \in 1..u : w[0 + i] = buf[p + i]
    BY <1>1
  <1>3. Len(buf) - p = u /\ Len(w) - 0 = u
    BY <1>1, <1>2
  <1>4. (Len(buf) < p + 1 <=> u = 0) /\ (Len(w) < 0 + 1 <=> u = 0)
    BY <1>1, <1>2
  <1> HIDE DEF w
  <1>5. CASE u = 0
    BY <1>4, <1>5 DEF TickAt, w
  <1>6. CASE u = 1
    <2>1. w[0 + 1] = buf[p + 1] /\ u # 0
      BY <1>2, <1>6
    <2> QED BY <1>3, <1>4, <1>6, <2>1 DEF TickAt, w
  <1>7. CASE u >= 2 /\ u < 4
    <2>1. w[0 + 1] = buf[p + 1] /\ w[0 + 2] = buf[p + 2] /\ u # 0 /\ u # 1
      BY <1>2, <1>7
    <2> QED BY <1>3, <1>4, <1>7, <2>1 DEF TickAt, w
  <1>8. CASE u >= 4
    <2>1. /\ w[0 + 1] = buf[p + 1] /\ w[0 + 2] = buf[p + 2] /\ u # 0 /\ u # 1
          /\ w[0 + 3] = buf[p + 3] /\ w[0 + 4] = buf[p + 4]
      BY <1>2, <1>8
    <2> QED BY <1>3, <1>4, <1>8, <2>1 DEF TickAt, w
  <1>9. u = 0 \/ u = 1 \/ (u >= 2 /\ u < 4) \/ u >= 4
    OBVIOUS
  <1> QED BY <1>5, <1>6, <1>7, <1>8, <1>9

(* A frame that is there has a header that can be read.                    *)
LEMMA HeaderThere ==
    ASSUME NEW f \in Frames, NEW buf \in Seq(Bytes),
           Len(f.body) < Small * Base, Len(f.body) <= Size,
           f.zip => f.body # <<>> /\ f.body[1] # AllOnes,
           ~f.zip => Len(f.body) <= MinZip,
           Len(Raw(f)) <= Len(buf),
           \A i \in 1..Len(Raw(f)) : buf[i] = Raw(f)[i]
    PROVE  TickAt(buf, 0).size # 0
  <1> DEFINE n == Len(f.body)
             h == Header(n, f.zip)
             b == buf[0 + 1]
             c == buf[0 + 2]
  <1>1. n \in Nat /\ f.zip \in BOOLEAN /\ f.body \in Seq(Bytes) /\ Len(buf) \in Nat
    BY DEF Frames
  <1>2. h \in Seq(Bytes) /\ Len(h) = IF n > Small - 1 THEN 2 ELSE 1
    <2>1. n \in 0..Size
      BY <1>1, Constants
    <2> HIDE DEF n
    <2> QED BY <1>1, <2>1, HeaderType, Zenon
  <1>3. /\ Len(Raw(f)) = Len(h) + n
        /\ \A i \in 1..Len(h) : Raw(f)[i] = h[i]
        /\ \A i \in 1..n : Raw(f)[Len(h) + i] = f.body[i]
    <2>1. Raw(f) = h \o f.body
      BY DEF Raw
    <2> HIDE DEF h
    <2>2. h \in Seq(Bytes) /\ f.body \in Seq(Bytes)
      BY <1>1, <1>2
    <2> QED BY <2>1, <2>2, ConcatProperties
  <1>4. Len(buf) >= Len(h) + n /\ b = h[1] /\ b \in Bytes
    <2>1. Len(h) \in Nat /\ Len(h) >= 1
      BY <1>2
    <2>2. Len(buf) >= Len(h) + n
      BY <1>3
    <2> HIDE DEF h, n
    <2>3. Len(buf) >= 1 /\ Len(Raw(f)) >= 1 /\ Len(Raw(f)) \in Nat
      BY <1>1, <1>3, <2>1, <2>2
    <2>4. 1 \in 1..Len(h) /\ 1 \in 1..Len(Raw(f)) /\ 1 \in 1..Len(buf)
      BY <1>1, <2>1, <2>3
    <2>5. b = h[1]
      BY <1>3, <2>4
    <2>6. b \in Bytes
      BY <2>4
    <2> QED BY <2>2, <2>5, <2>6
  <1>5. \A x \in Bytes : SixBits(x) \in Nat /\ SixBits(x) * Base \in Nat
    BY Constants DEF SixBits, SevenBits, SmallBit, ZipBit
  <1>6. CASE n > Small - 1
    <2> DEFINE q == n \div Base
    <2>1. Len(buf) >= 2 /\ c \in Nat
      <3>1. Len(buf) >= 2
        BY <1>1, <1>2, <1>4, <1>6
      <3>2. c \in Bytes
        BY <1>1, <3>1
      <3> QED BY <3>1, <3>2, Constants
    <2>2. q \in Nat /\ q < Small
      <3>1. n \in Nat /\ n <= Small * Base /\ n < Small * Base
        BY <1>1, Constants
      <3> HIDE DEF n
      <3>2. q \in 0..Small /\ (n < Small * Base => q < Small)
        BY <3>1, TwoDigits, Zenon
      <3> QED BY <3>1, <3>2, Constants
    <2>3. b = q + Bit(f.zip, 2 * Small)
      BY <1>4, <1>6 DEF Header
    <2> HIDE DEF q, b, c, h, n
    <2>4. b # AllOnes /\ ~SmallBit(b)
      BY <1>1, <2>2, <2>3, Constants DEF Bit, ZipBit, SmallBit, SevenBits
    <2>5. TickAt(buf, 0).size = 2 + SixBits(b) * Base + c
      BY <1>1, <2>1, <2>4 DEF TickAt, b, c
    <2>6. SixBits(b) * Base \in Nat
      BY <1>4, <1>5
    <2> QED BY <2>1, <2>5, <2>6
  <1>7. CASE ~(n > Small - 1)
    <2>1. h = <<n + Small + Bit(f.zip, 2 * Small)>>
      BY <1>7 DEF Header
    <2>2. b = n + Small + Bit(f.zip, 2 * Small)
      BY <1>4, <2>1
    <2>3. f.zip /\ Len(buf) >= 2 => c # AllOnes
      BY <1>1, <1>2, <1>3, <1>7
    <2>4. f.zip => Len(buf) >= 2
      BY <1>1, <1>2, <1>4, <1>7
    <2>5. Len(buf) >= 1
      BY <1>1, <1>2, <1>4, <1>7
    <2> HIDE DEF b, c, h, n
    <2>6. SmallBit(b) /\ (b = AllOnes => f.zip)
      BY <1>1, <1>7, <2>2, Constants DEF Bit, ZipBit, SmallBit, SevenBits
    <2>7. TickAt(buf, 0) = [size |-> 1 + SixBits(b), skip |-> 1, zip |-> ZipBit(b)]
      <3>1. CASE b # AllOnes
        BY <1>1, <2>5, <2>6, <3>1 DEF TickAt, b, c
      <3>2. CASE b = AllOnes
        <4>1. Len(buf) >= 2 /\ c # AllOnes
          BY <2>3, <2>4, <2>6, <3>2
        <4> QED BY <1>1, <2>6, <3>2, <4>1 DEF TickAt, b, c
      <3> QED BY <3>1, <3>2
    <2> QED BY <1>4, <1>5, <2>7
  <1> QED BY <1>6, <1>7

(* One frame ends where the next one starts.                               *)
LEMMA EndsAscend ==
    ASSUME Types, FramesInv, Positions
    PROVE  /\ \A k \in 0..(Len(frames) - 1) :
                 EndOf(k) = at[k + 1] /\ EndOf(k + 1) = EndOf(k) + Len(Raw(frames[k + 1]))
           /\ \A j, k \in 0..Len(frames) : j <= k => EndOf(j) <= EndOf(k)
  <1>1. /\ Len(frames) \in Nat /\ EndOf(0) = 0
        /\ \A k \in 0..Len(frames) : EndOf(k) \in Nat
        /\ \A k \in 1..Len(frames) : at[k] \in Nat /\ Len(Raw(frames[k])) \in Nat
                                     /\ EndOf(k) = at[k] + Len(Raw(frames[k]))
    BY FrameNumbers
  <1>2. ASSUME NEW k \in 0..(Len(frames) - 1)
        PROVE  EndOf(k) = at[k + 1] /\ EndOf(k + 1) = EndOf(k) + Len(Raw(frames[k + 1]))
    <2>1. PICK m \in 1..Len(frames) : m = k + 1 /\ m - 1 = k
      BY <1>1
    <2>2. FrameAt(m, frames[m], at[m], EndOf(m - 1), stream)
      BY FramesParts
    <2>3. EndOf(k) = at[m] /\ EndOf(m) = at[m] + Len(Raw(frames[m]))
      BY <1>1, <2>1, <2>2 DEF FrameAt
    <2> QED BY <2>1, <2>3
  <1>3. ASSUME NEW j \in 0..Len(frames), NEW k \in 0..Len(frames), j <= k
        PROVE  EndOf(j) <= EndOf(k)
    <2>1. CASE j = k
      BY <1>1, <2>1
    <2>2. CASE j = 0
      BY <1>1, <2>2
    <2>3. CASE j \in 1..Len(frames) /\ j < k
      <3>1. k \in 1..Len(frames)
        BY <1>1, <2>3
      <3>2. EndOf(j) <= at[k]
        BY <2>3, <3>1 DEF Positions, Ascending
      <3> QED BY <1>1, <3>1, <3>2
    <2>4. j = k \/ j = 0 \/ (j \in 1..Len(frames) /\ j < k)
      BY <1>1, <1>3
    <2> QED BY <2>1, <2>2, <2>3, <2>4
  <1> QED BY <1>2, <1>3

(* At the end of a frame stands the next one, as far as it was received.   *)
LEMMA TickBehind ==
    ASSUME IInv, linked, NEW k \in Len(got)..Len(frames),
           NEW p \in Nat, p = EndOf(k) - TakenBytes
    PROVE  /\ TickAt(inbuf, p).size # 0 =>
                k < Len(frames) /\ TickAt(inbuf, p).size = Len(Raw(frames[k + 1]))
           /\ k < Len(frames) /\ EndOf(k + 1) <= ReceivedBytes =>
                TickAt(inbuf, p).size # 0
  <1> DEFINE t == TickAt(inbuf, p).size
             T == TakenBytes
             R == ReceivedBytes
  <1>1. /\ inbuf \in Seq(Bytes) /\ Len(inbuf) \in Nat
        /\ Len(got) \in Nat /\ Len(stream) \in Nat /\ Len(frames) \in Nat
        /\ T \in Nat /\ R \in Nat /\ R = T + Len(inbuf) /\ R <= SentBytes
        /\ SentBytes \in Nat /\ SentBytes <= Len(stream)
    <2>1. inbuf \in Seq(Bytes) /\ Types /\ Places
      BY DEF IInv, Positions, Types
    <2>2. /\ Len(got) \in Nat /\ Len(stream) \in Nat /\ Len(frames) \in Nat
          /\ Len(inbuf) \in Nat /\ CopiedBytes \in Nat
          /\ TakenBytes \in Nat /\ ReceivedBytes \in Nat /\ SentBytes \in Nat
          /\ ReceivedBytes <= SentBytes /\ SentBytes <= CopiedBytes
          /\ CopiedBytes <= Len(stream)
      BY <2>1, Numbers
    <2>3. T = R - Len(inbuf)
      BY DEF TakenBytes
    <2> QED BY <2>1, <2>2, <2>3
  <1>2. PICK n \in Nat : n = Len(frames)
    BY <1>1
  <1>3. /\ k \in 0..n /\ EndOf(k) \in Nat /\ EndOf(n) \in Nat /\ Len(stream) <= EndOf(n)
        /\ EndOf(k) = T + p
    BY <1>1, <1>2, FrameNumbers DEF IInv, FramesInv
  <1>4. k < n => k + 1 \in 1..n /\ k \in 0..(n - 1)
    BY <1>3
  <1> HIDE DEF T, R
  <1>5. ASSUME k < n
        PROVE  /\ frames[k + 1] \in Frames /\ Len(Raw(frames[k + 1])) \in Nat
               /\ at[k + 1] = T + p /\ EndOf(k + 1) = T + p + Len(Raw(frames[k + 1]))
               /\ Len(frames[k + 1].body) \in Nat
               /\ Len(frames[k + 1].body) < Len(Raw(frames[k + 1]))
    BY <1>2, <1>3, <1>4, <1>5, EndsAscend, FrameNumbers DEF IInv
  <1>6. CASE p >= Len(inbuf)
    <2>1. t = 0
      BY <1>1, <1>6, TickSize
    <2>2. k < n => ~(EndOf(k + 1) <= R)
      <3> SUFFICES ASSUME k < n PROVE ~(EndOf(k + 1) <= R)
        OBVIOUS
      <3> PICK l \in Nat : l = Len(Raw(frames[k + 1])) /\ l > 0
        BY <1>5
      <3>1. EndOf(k + 1) = T + p + l
        BY <1>5
      <3> QED BY <1>1, <1>6, <3>1 DEF T, R
    <2> QED BY <1>2, <2>1, <2>2 DEF R
  <1>7. CASE p < Len(inbuf)
    <2> DEFINE f == frames[k + 1]
               w == SubSeq(inbuf, p + 1, Len(inbuf))
    <2>1. k < n
      <3>1. k = n => EndOf(k) = EndOf(n)
        OBVIOUS
      <3>2. EndOf(k) < EndOf(n)
        BY <1>1, <1>3, <1>7 DEF T, R
      <3> QED BY <1>3, <3>1, <3>2
    <2> PICK l \in Nat : l = Len(Raw(f))
      BY <1>5, <2>1
    <2>2. f \in Frames /\ at[k + 1] = T + p /\ EndOf(k + 1) = T + p + l
      BY <1>5, <2>1
    <2>3. /\ f.zip => f.body # <<>> /\ f.body[1] # AllOnes
          /\ ~f.zip => Len(f.body) <= MinZip
          /\ \A i \in 1..l : at[k + 1] + i <= Len(stream) => stream[at[k + 1] + i] = Raw(f)[i]
      BY <1>2, <1>4, <2>1, FramesParts DEF IInv, FrameAt
    <2>4. Len(f.body) <= Size /\ Len(f.body) < Small * Base
      <3>1. at[k + 1] < SentBytes
        BY <1>1, <1>7, <2>2 DEF T, R
      <3> QED BY <1>2, <1>4, <2>1, <3>1 DEF IInv, Positions, Sized, Fits
    <2> HIDE DEF f
    <2>5. /\ w \in Seq(Bytes) /\ Len(w) = Len(inbuf) - p
          /\ \A i \in 1..(Len(inbuf) - p) : w[i] = inbuf[p + i]
      BY <1>1, <1>7
    <2>6. TickAt(inbuf, p) = TickAt(w, 0)
      BY <1>1, <1>7, TickShift
    <2> HIDE DEF w
    <2>7. \A i \in 1..Len(w) : i <= l => w[i] = Raw(f)[i]
      <3> SUFFICES ASSUME NEW i \in 1..(Len(inbuf) - p), i <= l
                   PROVE  w[i] = Raw(f)[i]
        BY <2>5
      <3>1. p + i \in 1..Len(inbuf) /\ i \in 1..l
        BY <1>1, <1>7
      <3>2. inbuf[p + i] = stream[T + (p + i)]
        BY <3>1 DEF IInv, Order, InbufInv, T
      <3>3. T + (p + i) = at[k + 1] + i /\ at[k + 1] + i <= Len(stream)
        <4>1. at[k + 1] + i = T + (p + i)
          BY <1>1, <2>2 DEF T
        <4>2. T + (p + i) <= R
          BY <1>1, <3>1 DEF T, R
        <4> QED BY <1>1, <4>1, <4>2 DEF T, R
      <3> QED BY <2>3, <2>5, <3>1, <3>2, <3>3
    <2>8. t # 0 => t = l
      BY <2>2, <2>3, <2>4, <2>5, <2>6, <2>7, HeaderRead
    <2>9. EndOf(k + 1) <= R => t # 0
      <3> SUFFICES ASSUME T + p + l <= R PROVE t # 0
        BY <2>2
      <3>1. l <= Len(w)
        BY <1>1, <1>7, <2>5 DEF T, R
      <3>2. \A i \in 1..l : w[i] = Raw(f)[i]
        BY <1>1, <1>7, <2>5, <2>7, <3>1
      <3> QED BY <2>2, <2>3, <2>4, <2>5, <2>6, <3>1, <3>2, HeaderThere
    <2> QED BY <1>2, <2>1, <2>8, <2>9 DEF f, R
  <1> QED BY <1>1, <1>6, <1>7

-----------------------------------------------------------------------------
(* The ticks counted.                                                      *)

(* Ticks are counted up to p: a frame ends there, and none that was        *)
(* received as a whole ends behind it.                                     *)
UpTo(p) ==
    /\ \E k \in Len(got)..Len(frames) : p = EndOf(k) - TakenBytes
    /\ \A k \in Len(got)..Len(frames) :
          EndOf(k) <= ReceivedBytes => EndOf(k) - TakenBytes <= p

(* Counting from the end of a frame, poll_network gets there.              *)
CountsOn == linked =>
    \A k \in Len(got)..Len(frames) : UpTo(Counted(inbuf, EndOf(k) - TakenBytes))

(* By induction on the frames that are left.                               *)
LEMMA Counting == IInv => CountsOn
  <1> SUFFICES ASSUME IInv, linked
               PROVE  \A k \in Len(got)..Len(frames) :
                          UpTo(Counted(inbuf, EndOf(k) - TakenBytes))
    BY DEF CountsOn
  <1>1. PICK g \in Nat : g = Len(got)
    BY DEF IInv, Types
  <1>2. PICK n \in Nat : n = Len(frames)
    BY DEF IInv, Types
  <1>3. PICK T \in Nat : T = TakenBytes
    BY Numbers DEF IInv, Positions
  <1>4. g <= n /\ EndOf(g) = T
    BY <1>1, <1>2, <1>3 DEF IInv, Positions, AtFrame
  <1>5. /\ \A k \in g..n : EndOf(k) \in Nat /\ EndOf(k) - T \in Nat
        /\ \A j, k \in g..n : j <= k => EndOf(j) <= EndOf(k)
    <2>1. /\ \A k \in 0..n : EndOf(k) \in Nat
          /\ \A j, k \in 0..n : j <= k => EndOf(j) <= EndOf(k)
      BY <1>2, FrameNumbers, EndsAscend DEF IInv
    <2>2. \A k \in g..n : k \in 0..n /\ g \in 0..n /\ g <= k
      BY <1>4
    <2>3. \A k \in g..n : EndOf(k) \in Nat /\ T <= EndOf(k)
      BY <1>4, <2>1, <2>2
    <2> QED BY <2>1, <2>2, <2>3
  <1>6. inbuf \in Seq(Bytes) /\ ReceivedBytes \in Nat
    BY Numbers DEF IInv, Types, Positions
  <1> DEFINE Good(k) == UpTo(Counted(inbuf, EndOf(k) - T))
  <1>7. ASSUME NEW k \in g..n, k < n => Good(k + 1)
        PROVE  Good(k)
    <2>1. PICK p \in Nat : p = EndOf(k) - T
      BY <1>5
    <2>2. PICK s \in Nat : s = TickAt(inbuf, p).size
      BY <1>6, TickSize
    <2>3. /\ s # 0 => k < n /\ s = Len(Raw(frames[k + 1]))
          /\ k < n /\ EndOf(k + 1) <= ReceivedBytes => s # 0
      BY <1>1, <1>2, <1>3, <2>1, <2>2, TickBehind
    <2>4. Counted(inbuf, p) = IF s = 0 THEN p ELSE Counted(inbuf, p + s)
      BY <1>6, <2>2, CountedStep
    <2>5. CASE s = 0
      <3>1. ASSUME NEW j \in g..n, EndOf(j) <= ReceivedBytes
            PROVE  EndOf(j) - T <= p
        <4>1. CASE j <= k
          <5>1. EndOf(j) <= EndOf(k) /\ EndOf(j) \in Nat /\ EndOf(k) \in Nat
            BY <1>5, <4>1
          <5> QED BY <2>1, <5>1
        <4>2. CASE j > k
          <5>1. k + 1 \in g..n /\ k + 1 <= j /\ k < n
            BY <4>2
          <5>2. EndOf(k + 1) <= EndOf(j) /\ EndOf(k + 1) \in Nat /\ EndOf(j) \in Nat
            BY <1>5, <5>1
          <5>3. EndOf(k + 1) <= ReceivedBytes
            BY <1>6, <3>1, <5>2
          <5> QED BY <2>3, <2>5, <5>1, <5>3
        <4> QED BY <4>1, <4>2
      <3> QED BY <1>1, <1>2, <1>3, <2>1, <2>4, <2>5, <3>1 DEF UpTo
    <2>6. CASE s # 0
      <3>1. k < n /\ k \in 0..(n - 1) /\ k + 1 \in g..n
        BY <2>3, <2>6
      <3>2. EndOf(k + 1) = EndOf(k) + s
        BY <1>2, <2>3, <2>6, <3>1, EndsAscend DEF IInv
      <3>3. EndOf(k + 1) - T = p + s
        BY <1>5, <2>1, <3>2
      <3> QED BY <1>7, <2>1, <2>4, <2>6, <3>1, <3>3
    <2> QED BY <2>5, <2>6
  <1> DEFINE S == {m \in Nat : \A k \in g..n : n - k = m => Good(k)}
  <1> HIDE DEF Good
  <1>8. 0 \in S
    <2>1. \A k \in g..n : n - k = 0 => ~(k < n)
      OBVIOUS
    <2> QED BY <1>7, <2>1
  <1>9. ASSUME NEW m \in S PROVE m + 1 \in S
    <2> SUFFICES ASSUME NEW k \in g..n, n - k = m + 1 PROVE Good(k)
      OBVIOUS
    <2>1. k + 1 \in g..n /\ n - (k + 1) = m
      OBVIOUS
    <2> QED BY <1>7, <2>1
  <1>10. S = Nat
    <2>1. S \in SUBSET Nat
      OBVIOUS
    <2> HIDE DEF S
    <2> QED BY <1>8, <1>9, <2>1, Induction
  <1>11. \A k \in g..n : Good(k)
    <2> TAKE k \in g..n
    <2>1. n - k \in Nat
      OBVIOUS
    <2>2. n - k \in S
      BY <1>10, <2>1
    <2> QED BY <2>2
  <1> QED BY <1>1, <1>2, <1>3, <1>11 DEF Good

(* The same after a step.                                                  *)
LEMMA CountingNext == IInv' => CountsOn'
  BY Counting, PTL

(* What is counted, as an invariant.                                       *)
CountInv == TicksCounted /\ ticksize \in Nat /\ conns \in Nat

(* Where frames end is a number, also after a step, ...                    *)
EndsNat == \A k \in 0..Len(frames) : EndOf(k) \in Nat

(* By where the frames lie.                                                *)
LEMMA EndsNext == IInv' => EndsNat'
  <1>1. IInv => EndsNat
    BY FrameNumbers DEF IInv, EndsNat
  <1> QED BY <1>1, PTL

(* ... and so is what is counted.                                          *)
CountNat == linked => \A p : UpTo(p) => p \in Nat

(* By where the client stands.                                             *)
LEMMA UpToNext == IInv' => CountNat'
  <1>1. IInv => CountNat
    <2> SUFFICES ASSUME IInv, linked, NEW p, UpTo(p) PROVE p \in Nat
      BY DEF CountNat
    <2>1. PICK k \in Len(got)..Len(frames) : p = EndOf(k) - TakenBytes
      BY DEF UpTo
    <2>2. /\ Len(got) \in Nat /\ Len(frames) \in Nat /\ Len(got) <= Len(frames)
          /\ TakenBytes = EndOf(Len(got))
      BY DEF IInv, Types, Positions, AtFrame
    <2>3. Len(got) \in 0..Len(frames) /\ k \in 0..Len(frames) /\ Len(got) <= k
      BY <2>2
    <2>4. EndOf(Len(got)) <= EndOf(k) /\ EndOf(k) \in Nat /\ EndOf(Len(got)) \in Nat
      BY <2>3, EndsAscend, FrameNumbers DEF IInv
    <2> QED BY <2>1, <2>2, <2>4
  <1> QED BY <1>1, PTL

(* Later frames end further behind.                                        *)
FramesGrow == \A j, k \in 0..Len(frames) : j < k => EndOf(j) < EndOf(k)

(* Because no frame is empty.                                              *)
LEMMA Growing == IInv => FramesGrow
  <1> SUFFICES ASSUME IInv, NEW j \in 0..Len(frames), NEW k \in 0..Len(frames), j < k
               PROVE  EndOf(j) < EndOf(k)
    BY DEF FramesGrow
  <1>1. /\ Len(frames) \in Nat /\ \A i \in 0..Len(frames) : EndOf(i) \in Nat
        /\ \A i \in 1..Len(frames) : Len(frames[i].body) \in Nat
              /\ Len(Raw(frames[i])) \in Nat /\ Len(frames[i].body) < Len(Raw(frames[i]))
    BY FrameNumbers DEF IInv
  <1>2. PICK i \in 0..(Len(frames) - 1) : k = i + 1 /\ j <= i /\ i \in 0..Len(frames)
    BY <1>1
  <1>3. EndOf(j) <= EndOf(i) /\ EndOf(k) = EndOf(i) + Len(Raw(frames[k]))
    BY <1>2, EndsAscend DEF IInv
  <1>4. PICK l \in Nat : l = Len(Raw(frames[k])) /\ l > 0
    BY <1>1
  <1> QED BY <1>1, <1>2, <1>3, <1>4

(* The same after a step.                                                  *)
LEMMA GrowingNext == IInv' => FramesGrow'
  BY Growing, PTL

(* The client does nothing.                                                *)
LEMMA CountKept ==
    ASSUME IInv, CountInv, IInv', UNCHANGED <<linked, inbuf, ticksize, got, conns>>,
           ReceivedBytes' = ReceivedBytes, Len(frames) <= Len(frames'),
           \A k \in 0..Len(frames) : EndOf(k)' = EndOf(k)
    PROVE  CountInv'
  <1>1. PICK g \in Nat : g = Len(got)
    BY DEF IInv, Types
  <1>2. PICK n \in Nat : n = Len(frames)
    BY DEF IInv, Types
  <1>3. PICK m \in Nat : m = Len(frames') /\ n <= m
    BY <1>2 DEF IInv, Types
  <1>4. TakenBytes' = TakenBytes
    BY DEF TakenBytes
  <1>5. ticksize' \in Nat /\ conns' \in Nat
    BY DEF CountInv
  <1>6. ASSUME linked
        PROVE  /\ \E k \in g..m : ticksize = EndOf(k)' - TakenBytes
               /\ \A k \in g..m : EndOf(k)' <= ReceivedBytes
                                      => EndOf(k)' - TakenBytes <= ticksize
    <2>1. /\ \E k \in g..n : ticksize = EndOf(k) - TakenBytes
          /\ \A k \in g..n : EndOf(k) <= ReceivedBytes => EndOf(k) - TakenBytes <= ticksize
      BY <1>1, <1>2, <1>6 DEF CountInv, TicksCounted
    <2>2. \A k \in g..n : EndOf(k)' = EndOf(k) /\ k \in g..m
      BY <1>2, <1>3
    <2>3. ASSUME NEW k \in g..m, k > n PROVE ~(EndOf(k)' <= ReceivedBytes)
      <3>1. n \in 0..m /\ k \in 0..m
        BY <1>3
      <3>2. EndOf(n)' < EndOf(k)'
        BY <1>3, <2>3, <3>1, GrowingNext DEF FramesGrow
      <3>3. EndOf(n)' = EndOf(n) /\ EndOf(n) \in Nat /\ Len(stream) <= EndOf(n)
        BY <1>2, FrameNumbers DEF IInv, FramesInv
      <3>4. /\ ReceivedBytes \in Nat /\ Len(stream) \in Nat /\ SentBytes \in Nat
            /\ CopiedBytes \in Nat /\ ReceivedBytes <= SentBytes
            /\ SentBytes <= CopiedBytes /\ CopiedBytes <= Len(stream)
        BY Numbers DEF IInv, Positions
      <3>5. EndOf(k)' \in Nat
        BY <1>3, <3>1, EndsNext DEF EndsNat
      <3> QED BY <3>2, <3>3, <3>4, <3>5
    <2>4. \A k \in g..m : k \in g..n \/ k > n
      BY <1>2, <1>3
    <2> QED BY <2>1, <2>2, <2>3, <2>4
  <1> QED BY <1>1, <1>3, <1>4, <1>5, <1>6 DEF CountInv, TicksCounted

(* The client receives.                                                    *)
LEMMA CountPoll ==
    ASSUME IInv, CountInv, NEW n \in Nat, PollNetwork(n)
    PROVE  CountInv'
  <1>1. /\ linked /\ linked' = linked /\ got' = got /\ frames' = frames /\ at' = at
        /\ conns' = conns /\ ticksize' = Counted(inbuf', ticksize)
    BY DEF PollNetwork, serverVars, history
  <1>2. IInv' /\ TakenBytes' = TakenBytes
    BY PollKept
  <1>3. PICK k \in Len(got)..Len(frames) : ticksize = EndOf(k) - TakenBytes
    BY <1>1 DEF CountInv, TicksCounted
  <1>4. EndOf(k)' = EndOf(k)
    BY <1>1 DEF EndOf
  <1>5. UpTo(Counted(inbuf, EndOf(k) - TakenBytes))'
    BY <1>1, <1>2, CountingNext DEF CountsOn
  <1>6. (EndOf(k) - TakenBytes)' = ticksize
    BY <1>2, <1>3, <1>4
  <1>7. UpTo(ticksize)'
    BY <1>1, <1>5, <1>6 DEF UpTo
  <1>8. ticksize' \in Nat
    BY <1>1, <1>2, <1>7, UpToNext DEF CountNat
  <1> QED BY <1>1, <1>7, <1>8 DEF CountInv, TicksCounted, UpTo

(* The client takes a frame.                                               *)
LEMMA CountTake ==
    ASSUME IInv, CountInv, NextTick
    PROVE  CountInv'
  <1>1. /\ linked /\ linked' = linked /\ frames' = frames /\ at' = at /\ conns' = conns
        /\ TickAt(inbuf, 0).size # 0 /\ ticksize' = ticksize - TickAt(inbuf, 0).size
        /\ TickAt(inbuf, 0).size <= Len(inbuf)
    BY DEF NextTick, serverVars, history
  <1>2. PICK g \in Nat : g = Len(got)
    BY DEF IInv, Types
  <1>3. PICK n \in Nat : n = Len(frames)
    BY DEF IInv, Types
  <1>4. /\ IInv' /\ ReceivedBytes' = ReceivedBytes
    BY NextTickKept
  <1>5. /\ Len(got') = g + 1 /\ g < n
        /\ inbuf' = SubSeq(inbuf, Len(Raw(frames[g + 1])) + 1, Len(inbuf))
    <2>1. got \in Seq(Frames)
      BY DEF IInv, Types
    <2> QED BY <1>2, <1>3, <2>1, NextTickTakes
  <1>6. PICK T \in Nat : T = TakenBytes
    BY <1>1, Numbers DEF IInv, Positions
  <1>7. EndOf(g) = T
    BY <1>1, <1>2, <1>6 DEF IInv, Positions, AtFrame
  <1>8. /\ inbuf \in Seq(Bytes) /\ Len(inbuf) \in Nat /\ ReceivedBytes \in Nat
        /\ T = ReceivedBytes - Len(inbuf) /\ ticksize \in Nat
    BY <1>6, Numbers DEF IInv, Types, Positions, CountInv, TakenBytes
  <1>9. PICK s \in Nat : s = TickAt(inbuf, 0).size
    BY <1>8, TickSize
  <1>10. s = Len(Raw(frames[g + 1])) /\ s # 0 /\ s <= Len(inbuf)
    <2>1. g \in Len(got)..Len(frames) /\ 0 = EndOf(g) - TakenBytes
      BY <1>2, <1>3, <1>5, <1>6, <1>7
    <2> QED BY <1>1, <1>9, <2>1, TickBehind
  <1>11. TakenBytes' = T + s
    <2>1. Len(inbuf') = Len(inbuf) - s
      <3>1. inbuf' = SubSeq(inbuf, s + 1, Len(inbuf))
        BY <1>5, <1>10
      <3>2. \A q \in Seq(Bytes), m \in Nat :
               m <= Len(q) => Len(SubSeq(q, m + 1, Len(q))) = Len(q) - m
        OBVIOUS
      <3> QED BY <1>8, <1>10, <3>1, <3>2
    <2> QED BY <1>4, <1>8, <2>1 DEF TakenBytes
  <1>12. \A k \in 0..n : EndOf(k)' = EndOf(k)
    BY <1>1 DEF EndOf
  <1>13. EndOf(g + 1) = T + s
    <2>1. g \in 0..(Len(frames) - 1)
      BY <1>3, <1>5
    <2> QED BY <1>7, <1>10, <2>1, EndsAscend DEF IInv
  <1>14. /\ \E k \in g..n : ticksize = EndOf(k) - T
         /\ \A k \in g..n : EndOf(k) <= ReceivedBytes => EndOf(k) - T <= ticksize
    BY <1>1, <1>2, <1>3, <1>6 DEF CountInv, TicksCounted
  <1>15. \A k \in 0..n : EndOf(k) \in Nat
    BY <1>3, FrameNumbers DEF IInv
  <1>16. PICK k \in g..n : ticksize = EndOf(k) - T
    BY <1>14
  <1>17. s <= ticksize
    <2>1. g + 1 \in g..n /\ T + s <= ReceivedBytes
      BY <1>3, <1>5, <1>8, <1>10
    <2>2. EndOf(g + 1) - T <= ticksize
      BY <1>13, <1>14, <2>1
    <2> QED BY <1>13, <2>2
  <1>18. k \in (g + 1)..n
    <2>1. k # g
      BY <1>7, <1>8, <1>10, <1>16, <1>17
    <2> QED BY <1>16, <2>1
  <1>19. \A j \in (g + 1)..n : j \in 0..n /\ j \in g..n /\ EndOf(j)' = EndOf(j) /\ EndOf(j) \in Nat
    BY <1>12, <1>15
  <1>20. ticksize' = ticksize - s /\ ticksize' \in Nat
    BY <1>1, <1>8, <1>9, <1>17
  <1>21. ticksize' = EndOf(k)' - (T + s)
    BY <1>16, <1>18, <1>19, <1>20
  <1>22. ASSUME NEW j \in (g + 1)..n, EndOf(j)' <= ReceivedBytes
         PROVE  EndOf(j)' - (T + s) <= ticksize'
    <2>1. EndOf(j) - T <= ticksize
      BY <1>14, <1>19, <1>22
    <2> QED BY <1>8, <1>19, <1>20, <2>1
  <1> QED BY <1>1, <1>3, <1>4, <1>5, <1>11, <1>18, <1>20, <1>21, <1>22
          DEF CountInv, TicksCounted

(* A connection starts with nothing counted.                               *)
FreshCount == Fresh /\ ticksize = 0 /\ conns \in Nat

(* The first one, ...                                                      *)
LEMMA CountFresh == FreshCount => CountInv
  <1> SUFFICES ASSUME Fresh, ticksize = 0, conns \in Nat PROVE CountInv
    BY DEF FreshCount
  <1>1. IInv /\ linked /\ Len(got) = 0 /\ Len(frames) = 0
    BY FreshInv DEF Fresh
  <1>2. TakenBytes = EndOf(0) /\ EndOf(0) = 0
    BY <1>1 DEF IInv, Positions, AtFrame, EndOf
  <1> QED BY <1>1, <1>2 DEF CountInv, TicksCounted

(* ... and the next ones.                                                  *)
LEMMA CountFreshNext == FreshCount' => CountInv'
  BY CountFresh, PTL

(* No step miscounts.                                                      *)
LEMMA CountNext == IInv /\ CountInv /\ [Next]_vars => CountInv'
  <1> SUFFICES ASSUME IInv, CountInv, [Next]_vars PROVE CountInv'
    OBVIOUS
  <1>1. IInv'
    BY NextInv
  <1>2. Len(frames) \in Nat
    BY DEF IInv, Types
  <1>3. ASSUME ExitPlayer, wire' = wire PROVE CountInv'
    <2>1. ReceivedBytes' = ReceivedBytes
      BY <1>3, ExitKept
    <2>2. /\ linked' = linked /\ inbuf' = inbuf /\ ticksize' = ticksize /\ got' = got
          /\ frames' = frames /\ at' = at /\ conns' = conns
      BY <1>3 DEF ExitPlayer, clientVars, history
    <2> QED BY <1>1, <1>2, <2>1, <2>2, CountKept DEF EndOf
  <1>4. CASE Collect
    <2> PICK n \in Lens : Psend(n) \/ PsendOverflow(n)
      BY <1>4 DEF Collect
    <2>1. CASE Psend(n)
      <3>1. tptr' \in 0..(Size - 1)
        BY <2>1, BoundAssumption, Constants DEF Psend, IInv, Types
      <3>2. ReceivedBytes' = ReceivedBytes
        BY <2>1, <3>1, PsendKept DEF Psend, clientVars
      <3>3. /\ linked' = linked /\ inbuf' = inbuf /\ ticksize' = ticksize /\ got' = got
            /\ frames' = frames /\ at' = at /\ conns' = conns
        BY <2>1 DEF Psend, clientVars, history
      <3> QED BY <1>1, <1>2, <3>2, <3>3, CountKept DEF EndOf
    <2>2. CASE PsendOverflow(n)
      BY <1>3, <2>2 DEF PsendOverflow
    <2> QED BY <2>1, <2>2
  <1>5. CASE Flush
    <2>1. CASE \E zip \in BOOLEAN, body \in RawBodies \cup ZipBodies : Pflush(zip, body)
      <3> PICK zip \in BOOLEAN, body \in RawBodies \cup ZipBodies : Pflush(zip, body)
        BY <2>1
      <3>1. /\ linked' = linked /\ inbuf' = inbuf /\ ticksize' = ticksize /\ got' = got
            /\ frames' = Append(frames, [zip |-> zip, body |-> body]) /\ conns' = conns
        BY DEF Pflush, clientVars
      <3>2. Len(frames') = Len(frames) + 1
        BY <3>1 DEF IInv, Types
      <3>3. Len(frames) <= Len(frames')
        BY <1>2, <3>2
      <3> QED BY <1>1, <3>1, <3>3, PflushKept, CountKept
    <2>2. CASE PflushFails
      BY <1>3, <2>2 DEF PflushFails
    <2> QED BY <1>5, <2>1, <2>2 DEF Flush
  <1>6. CASE Copy
    <2>1. CASE Csend
      <3>1. /\ linked' = linked /\ inbuf' = inbuf /\ ticksize' = ticksize /\ got' = got
            /\ frames' = frames /\ at' = at /\ conns' = conns
        BY <2>1 DEF Csend, clientVars, history
      <3> QED BY <1>1, <1>2, <2>1, <3>1, CsendKept, CountKept DEF EndOf
    <2>2. CASE CsendOverflow
      BY <1>3, <2>2 DEF CsendOverflow
    <2> QED BY <1>6, <2>1, <2>2 DEF Copy
  <1>7. CASE Transmit
    <2>1. PICK n \in Pieces \cup {Sendable} : SendPlayer(n)
      BY <1>7 DEF Transmit
    <2>2. Sendable \in Nat \ {0}
      BY <2>1, Constants DEF SendPlayer, Sendable, IInv, Types
    <2>3. n \in Nat \ {0}
      BY <2>2, BoundAssumption
    <2>4. /\ linked' = linked /\ inbuf' = inbuf /\ ticksize' = ticksize /\ got' = got
          /\ frames' = frames /\ at' = at /\ conns' = conns
      BY <2>1 DEF SendPlayer, clientVars, history
    <2> QED BY <1>1, <1>2, <2>1, <2>3, <2>4, SendKept, CountKept DEF EndOf
  <1>8. CASE FindBroken \/ Kick
    BY <1>3, <1>8 DEF FindBroken, Kick
  <1>9. CASE Receive
    <2>1. PICK n \in Pieces \cup {Len(wire)} : PollNetwork(n)
      BY <1>9 DEF Receive
    <2>2. Len(wire) \in Nat
      BY DEF IInv, Types
    <2> QED BY <2>1, <2>2, BoundAssumption, CountPoll
  <1>10. CASE ConnectionLost \/ Break
    BY <1>10 DEF ConnectionLost, Break, CountInv, TicksCounted
  <1>11. CASE NextTick
    BY <1>11, CountTake
  <1>12. CASE Connect
    <2>1. /\ ~open /\ open' = TRUE /\ linked' = TRUE /\ tptr' = Greeting
          /\ obuf' = obuf /\ iptr' = iptr /\ optr' = optr /\ rest' = rest
          /\ wire' = <<>> /\ inbuf' = <<>> /\ got' = <<>>
          /\ frames' = <<>> /\ at' = <<>> /\ stream' = <<>>
          /\ ticksize' = 0 /\ conns' = conns + 1
      BY <1>12 DEF Connect
    <2>2. rest = <<>> /\ optr = iptr
      BY <2>1 DEF IInv, Positions, Places
    <2>3. conns + 1 \in Nat
      BY DEF CountInv
    <2>4. Fresh'
      BY <2>1, <2>2 DEF IInv, Types, Fresh
    <2>5. FreshCount'
      BY <2>1, <2>3, <2>4 DEF FreshCount
    <2> QED BY <2>5, CountFreshNext
  <1>13. CASE UNCHANGED vars
    <2>1. tptr' \in 0..(Size - 1)
      BY <1>13 DEF vars, serverVars, IInv, Types
    <2>2. ReceivedBytes' = ReceivedBytes
      BY <1>13, <2>1, PsendKept DEF vars, serverVars, clientVars
    <2>3. /\ linked' = linked /\ inbuf' = inbuf /\ ticksize' = ticksize /\ got' = got
          /\ frames' = frames /\ at' = at /\ conns' = conns
      BY <1>13 DEF vars, clientVars, history
    <2> QED BY <1>1, <1>2, <2>2, <2>3, CountKept DEF EndOf
  <1> QED BY <1>4, <1>5, <1>6, <1>7, <1>8, <1>9, <1>10, <1>11, <1>12, <1>13 DEF Next

(* Nothing is counted before something is received.                        *)
LEMMA CountInit == Init => CountInv
  <1> SUFFICES ASSUME Init PROVE FreshCount
    BY CountFresh
  <1>1. NoData \in [0..(Size - 1) -> Bytes] /\ 0 \in 0..(Size - 1)
    BY Constants DEF NoData
  <1> QED BY <1>1 DEF Init, Fresh, FreshCount

(* lastticksize is where the frames end that the client has a whole one or *)
(* at least a header of, and none of those it has is left out: next_tick   *)
(* never takes a tick that poll_network has not counted.                   *)
THEOREM TicksAreCounted == Spec => []TicksCounted
  <1>1. CountInv => TicksCounted
    BY DEF CountInv
  <1> QED BY <1>1, InitInv, NextInv, CountInit, CountNext, PTL DEF Spec

(* Every reachable state is of the declared types, and the bytes of the    *)
(* stream are where they belong in it.                                     *)
THEOREM Streams == Spec => []StreamInv
  <1>1. IInv /\ CountInv => StreamInv
    BY DEF IInv, CountInv, Types, Order, StreamInv, TypeOK
  <1> QED BY <1>1, InitInv, NextInv, CountInit, CountNext, PTL DEF Spec
=============================================================================

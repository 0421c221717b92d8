---------------------------- MODULE Chat_proofs ----------------------------
(***************************************************************************)
(* Proofs about Chat, for any number of servers, messages, connections and *)
(* pieces of a packet and any buffer of the hub: the buffers hold whole    *)
(* packets in order, cut anywhere, and the chat implements ChatBus as long *)
(* as no stream is torn.                                                   *)
(***************************************************************************)
EXTENDS Chat, TLAPS

-----------------------------------------------------------------------------
(* Numbers.                                                                *)

(* Whole parts of a number, and what is left over.                         *)
LEMMA Division ==
    ASSUME NEW b \in Nat, b > 0, NEW n \in Nat
    PROVE  /\ n \div b \in Nat /\ n % b \in Nat /\ n % b < b
           /\ n = (n \div b) * b + (n % b)
  <1>1. n \div b \in Nat
    OBVIOUS
  <1>2. n % b \in 0..(b - 1)
    OBVIOUS
  <1>3. n = (n \div b) * b + (n % b)
    OBVIOUS
  <1> QED BY <1>1, <1>2, <1>3

(* There is one way to divide.                                             *)
LEMMA OneDivision ==
    ASSUME NEW b \in Nat, b > 0, NEW a \in Nat, NEW r \in Nat, r < b,
           NEW n \in Nat, n = a * b + r
    PROVE  n \div b = a /\ n % b = r
  <1> DEFINE d == n \div b
             m == n % b
  <1>1. d \in Nat /\ m \in Nat /\ m < b /\ n = d * b + m
    BY Division
  <1> HIDE DEF d, m
  <1>2. /\ \A x, y \in Nat : x < y => (x + 1) * b <= y * b
        /\ \A x \in Nat : (x + 1) * b = x * b + b /\ x * b \in Nat
    OBVIOUS
  <1>3. ~(d < a)
    <2> SUFFICES ASSUME d < a PROVE FALSE
      OBVIOUS
    <2>1. d * b + b <= a * b
      BY <1>1, <1>2
    <2>2. d * b \in Nat /\ a * b \in Nat
      BY <1>1, <1>2
    <2> QED BY <1>1, <2>1, <2>2
  <1>4. ~(a < d)
    <2> SUFFICES ASSUME a < d PROVE FALSE
      OBVIOUS
    <2>1. a * b + b <= d * b
      BY <1>1, <1>2
    <2>2. d * b \in Nat /\ a * b \in Nat
      BY <1>1, <1>2
    <2> QED BY <1>1, <2>1, <2>2
  <1>5. d = a
    BY <1>1, <1>3, <1>4
  <1>6. m = r
    BY <1>1, <1>5
  <1> QED BY <1>5, <1>6 DEF d, m

-----------------------------------------------------------------------------
(* Sequences.                                                              *)

(* What a sequence of sequences one behind the other is.                   *)
LEMMA ConcatElements ==
    ASSUME NEW S, NEW x \in Seq(S), NEW y \in Seq(S)
    PROVE  /\ x \o y \in Seq(S) /\ Len(x) \in Nat /\ Len(y) \in Nat
           /\ Len(x \o y) = Len(x) + Len(y)
           /\ \A i \in 1..Len(x) : (x \o y)[i] = x[i]
           /\ \A i \in 1..Len(y) : (x \o y)[Len(x) + i] = y[i]
  OBVIOUS

(* Two sequences with the same elements.                                   *)
LEMMA SameSeq ==
    ASSUME NEW S, NEW x \in Seq(S), NEW y \in Seq(S), Len(x) = Len(y),
           \A i \in 1..Len(x) : x[i] = y[i]
    PROVE  x = y
  OBVIOUS

(* A sequence is cut in one way.                                           *)
LEMMA OneCut ==
    ASSUME NEW S, NEW x \in Seq(S), NEW y \in Seq(S), NEW u \in Seq(S), NEW v \in Seq(S),
           x \o y = u \o v, Len(x) = Len(u)
    PROVE  x = u /\ y = v
  <1>1. /\ Len(x) \in Nat /\ Len(y) \in Nat /\ Len(v) \in Nat
        /\ Len(x \o y) = Len(x) + Len(y) /\ Len(u \o v) = Len(u) + Len(v)
    BY ConcatElements
  <1>2. Len(y) = Len(v)
    BY <1>1
  <1>3. \A i \in 1..Len(x) : x[i] = u[i]
    <2>1. \A i \in 1..Len(x) : (x \o y)[i] = x[i] /\ (u \o v)[i] = u[i]
      BY ConcatElements
    <2> QED BY <2>1
  <1>4. \A i \in 1..Len(y) : y[i] = v[i]
    <2>1. \A i \in 1..Len(y) : (x \o y)[Len(x) + i] = y[i]
      BY ConcatElements
    <2>2. \A i \in 1..Len(v) : (u \o v)[Len(u) + i] = v[i]
      BY ConcatElements
    <2> QED BY <1>2, <2>1, <2>2
  <1>5. x = u
    BY <1>3, SameSeq
  <1>6. y = v
    BY <1>2, <1>4, SameSeq
  <1> QED BY <1>5, <1>6

(* The two parts of a sequence.                                            *)
LEMMA TwoParts ==
    ASSUME NEW S, NEW x \in Seq(S), NEW n \in 0..Len(x)
    PROVE  /\ SubSeq(x, 1, n) \in Seq(S) /\ SubSeq(x, n + 1, Len(x)) \in Seq(S)
           /\ Len(SubSeq(x, 1, n)) = n /\ Len(SubSeq(x, n + 1, Len(x))) = Len(x) - n
           /\ \A i \in 1..n : SubSeq(x, 1, n)[i] = x[i]
           /\ \A i \in 1..(Len(x) - n) : SubSeq(x, n + 1, Len(x))[i] = x[n + i]
           /\ x = SubSeq(x, 1, n) \o SubSeq(x, n + 1, Len(x))
  <1> DEFINE a == SubSeq(x, 1, n)
             b == SubSeq(x, n + 1, Len(x))
  <1>1. a \in Seq(S) /\ Len(a) = n /\ \A i \in 1..n : a[i] = x[i]
    OBVIOUS
  <1>2. /\ b \in Seq(S) /\ Len(b) = Len(x) - n
        /\ \A i \in 1..(Len(x) - n) : b[i] = x[n + i]
    OBVIOUS
  <1> HIDE DEF a, b
  <1>3. /\ a \o b \in Seq(S) /\ Len(a \o b) = Len(a) + Len(b)
        /\ \A i \in 1..Len(a) : (a \o b)[i] = a[i]
        /\ \A i \in 1..Len(b) : (a \o b)[Len(a) + i] = b[i]
    BY <1>1, <1>2, ConcatElements
  <1>4. Len(a \o b) = Len(x)
    BY <1>1, <1>2, <1>3
  <1>5. \A i \in 1..Len(x) : x[i] = (a \o b)[i]
    <2> SUFFICES ASSUME NEW i \in 1..Len(x) PROVE x[i] = (a \o b)[i]
      OBVIOUS
    <2>1. CASE i <= n
      BY <1>1, <1>3, <2>1
    <2>2. CASE i > n
      <3> DEFINE j == i - n
      <3>1. j \in 1..(Len(x) - n) /\ n + j = i
        <4>1. Len(x) \in Nat /\ n \in Nat /\ i \in Nat /\ i <= Len(x)
          OBVIOUS
        <4> QED BY <2>2, <4>1
      <3> HIDE DEF j
      <3>2. x[i] = b[j]
        BY <1>2, <3>1
      <3>3. (a \o b)[Len(a) + j] = b[j]
        BY <1>2, <1>3, <3>1
      <3> QED BY <1>1, <3>1, <3>2, <3>3
    <2>3. n \in Nat /\ i \in Nat
      OBVIOUS
    <2>4. i <= n \/ i > n
      BY <2>3
    <2> QED BY <2>1, <2>2, <2>4
  <1>6. x = a \o b
    BY <1>3, <1>4, <1>5, SameSeq
  <1> QED BY <1>1, <1>2, <1>6 DEF a, b

(* Concatenation is associative, and the empty sequence does nothing.      *)
LEMMA Concats ==
    ASSUME NEW S, NEW x \in Seq(S), NEW y \in Seq(S), NEW z \in Seq(S)
    PROVE  /\ (x \o y) \o z = x \o (y \o z)
           /\ <<>> \in Seq(S) /\ x \o <<>> = x /\ <<>> \o x = x
  OBVIOUS

-----------------------------------------------------------------------------
(* Packets.                                                                *)

(* What whole packets stand for.                                           *)
All == Messages \cup {Junk}

(* A packet has more than one piece.                                       *)
LEMMA PacketLenType == PacketLen \in Nat /\ PacketLen > 1 /\ Junk \notin Messages
  BY ChatAssumption

(* Where a piece of a sequence of packets comes from.                      *)
LEMMA PieceOf ==
    ASSUME NEW n \in Nat, NEW i \in 1..(n * PacketLen)
    PROVE  /\ (i - 1) \div PacketLen \in Nat /\ (i - 1) % PacketLen \in Nat
           /\ (i - 1) \div PacketLen + 1 \in 1..n
           /\ ((i - 1) % PacketLen) + 1 \in 1..PacketLen
           /\ i = ((i - 1) \div PacketLen) * PacketLen + ((i - 1) % PacketLen) + 1
  <1> DEFINE k == i - 1
             d == k \div PacketLen
             m == k % PacketLen
  <1>1. PacketLen \in Nat /\ PacketLen > 0 /\ n * PacketLen \in Nat
    BY PacketLenType
  <1>2. k \in Nat /\ k < n * PacketLen /\ i = k + 1
    BY <1>1
  <1> HIDE DEF k
  <1>3. d \in Nat /\ m \in Nat /\ m < PacketLen /\ k = d * PacketLen + m
    BY <1>1, <1>2, Division
  <1> HIDE DEF d, m
  <1>4. d < n
    <2> SUFFICES ASSUME n <= d PROVE FALSE
      BY <1>3
    <2>1. n * PacketLen <= d * PacketLen
      BY <1>1, <1>3
    <2> QED BY <1>1, <1>2, <1>3, <2>1
  <1>5. /\ d \in Nat /\ m \in Nat /\ d + 1 \in 1..n /\ m + 1 \in 1..PacketLen
        /\ i = d * PacketLen + m + 1
    BY <1>1, <1>2, <1>3, <1>4
  <1> QED BY <1>5 DEF d, m, k

(* A number of packets of pieces.                                          *)
LEMMA PacketsType ==
    ASSUME NEW ms \in Seq(All)
    PROVE  /\ Packets(ms) \in Seq(Pieces)
           /\ Len(ms) \in Nat /\ Len(ms) * PacketLen \in Nat
           /\ Len(Packets(ms)) = Len(ms) * PacketLen
           /\ \A i \in 1..(Len(ms) * PacketLen) : Packets(ms)[i] =
                  <<ms[(i - 1) \div PacketLen + 1], ((i - 1) % PacketLen) + 1>>
  <1> DEFINE n == Len(ms) * PacketLen
             f(i) == <<ms[(i - 1) \div PacketLen + 1], ((i - 1) % PacketLen) + 1>>
  <1>1. Len(ms) \in Nat /\ n \in Nat /\ \A j \in 1..Len(ms) : ms[j] \in All
    BY PacketLenType
  <1>2. \A i \in 1..n : f(i) \in Pieces
    <2> SUFFICES ASSUME NEW i \in 1..n PROVE f(i) \in Pieces
      OBVIOUS
    <2>1. /\ (i - 1) \div PacketLen + 1 \in 1..Len(ms)
          /\ ((i - 1) % PacketLen) + 1 \in 1..PacketLen
      BY <1>1, PieceOf
    <2>2. ms[(i - 1) \div PacketLen + 1] \in All
      BY <1>1, <2>1
    <2> QED BY <2>1, <2>2 DEF Pieces, All
  <1>3. Packets(ms) = [i \in 1..n |-> f(i)]
    BY DEF Packets
  <1> HIDE DEF n, f
  <1>4. Packets(ms) \in Seq(Pieces) /\ Len(Packets(ms)) = n
        /\ \A i \in 1..n : Packets(ms)[i] = f(i)
    BY <1>1, <1>2, <1>3
  <1> QED BY <1>1, <1>4 DEF n, f

(* A packet of its own.                                                    *)
LEMMA OnePacket ==
    ASSUME NEW m \in All
    PROVE  /\ Packets(<<m>>) = Packet(m) /\ Len(Packet(m)) = PacketLen
           /\ Packet(m) \in Seq(Pieces) /\ <<m>> \in Seq(All) /\ Len(<<m>>) = 1
  <1>1. <<m>> \in Seq(All) /\ Len(<<m>>) = 1 /\ <<m>>[1] = m
    OBVIOUS
  <1>2. PacketLen \in Nat /\ PacketLen > 0 /\ 1 * PacketLen = PacketLen
    BY PacketLenType
  <1>3. /\ Packets(<<m>>) \in Seq(Pieces) /\ Len(Packets(<<m>>)) = PacketLen
        /\ \A i \in 1..PacketLen : Packets(<<m>>)[i] =
               <<(<<m>>)[(i - 1) \div PacketLen + 1], ((i - 1) % PacketLen) + 1>>
    BY <1>1, <1>2, PacketsType
  <1>4. \A i \in 1..PacketLen : (i - 1) \div PacketLen = 0 /\ (i - 1) % PacketLen = i - 1
    <2> SUFFICES ASSUME NEW i \in 1..PacketLen
                 PROVE  (i - 1) \div PacketLen = 0 /\ (i - 1) % PacketLen = i - 1
      OBVIOUS
    <2> DEFINE k == i - 1
    <2>1. k \in Nat /\ k < PacketLen /\ k = 0 * PacketLen + k
      BY <1>2
    <2> HIDE DEF k
    <2>2. k \div PacketLen = 0 /\ k % PacketLen = k
      BY <1>2, <2>1, OneDivision
    <2> QED BY <2>2 DEF k
  <1>5. \A i \in 1..PacketLen : Packets(<<m>>)[i] = <<m, i>>
    <2> SUFFICES ASSUME NEW i \in 1..PacketLen PROVE Packets(<<m>>)[i] = <<m, i>>
      OBVIOUS
    <2>1. Packets(<<m>>)[i] = <<(<<m>>)[0 + 1], (i - 1) + 1>>
      BY <1>3, <1>4
    <2>2. 0 + 1 = 1 /\ (i - 1) + 1 = i
      BY <1>2
    <2> QED BY <1>1, <2>1, <2>2
  <1>6. /\ Packet(m) \in Seq(Pieces) /\ Len(Packet(m)) = PacketLen
        /\ \A i \in 1..PacketLen : Packet(m)[i] = <<m, i>>
    <2>1. \A i \in 1..PacketLen : <<m, i>> \in Pieces
      BY DEF Pieces, All
    <2> QED BY <1>2, <2>1 DEF Packet
  <1>7. Packets(<<m>>) = Packet(m)
    BY <1>3, <1>5, <1>6, SameSeq
  <1> QED BY <1>1, <1>6, <1>7

(* No packets.                                                             *)
LEMMA NoPackets == Packets(<<>>) = <<>> /\ <<>> \in Seq(All) /\ Len(<<>>) = 0
  <1>1. <<>> \in Seq(All) /\ Len(<<>>) = 0 /\ 0 * PacketLen = 0
    BY PacketLenType
  <1>2. Packets(<<>>) \in Seq(Pieces) /\ Len(Packets(<<>>)) = 0
    BY <1>1, PacketsType
  <1> QED BY <1>1, <1>2

(* Packets behind packets.                                                 *)
LEMMA PacketsConcat ==
    ASSUME NEW a \in Seq(All), NEW b \in Seq(All)
    PROVE  Packets(a \o b) = Packets(a) \o Packets(b)
  <1> DEFINE n == Len(a)
             p == Packets(a) \o Packets(b)
             q == Packets(a \o b)
             w == PacketLen
  <1>1. /\ a \o b \in Seq(All) /\ n \in Nat /\ Len(b) \in Nat /\ Len(a \o b) = n + Len(b)
        /\ \A i \in 1..n : (a \o b)[i] = a[i]
        /\ \A i \in 1..Len(b) : (a \o b)[n + i] = b[i]
    BY ConcatElements
  <1>2. w \in Nat /\ w > 0 /\ n * w \in Nat /\ Len(b) * w \in Nat
        /\ (n + Len(b)) * w = n * w + Len(b) * w
    BY <1>1, PacketLenType
  <1>3. /\ Packets(a) \in Seq(Pieces) /\ Len(Packets(a)) = n * w
        /\ \A i \in 1..(n * w) : Packets(a)[i] = <<a[(i - 1) \div w + 1], ((i - 1) % w) + 1>>
    BY PacketsType
  <1>4. /\ Packets(b) \in Seq(Pieces) /\ Len(Packets(b)) = Len(b) * w
        /\ \A i \in 1..(Len(b) * w) :
               Packets(b)[i] = <<b[(i - 1) \div w + 1], ((i - 1) % w) + 1>>
    BY PacketsType
  <1>5. /\ q \in Seq(Pieces) /\ Len(q) = (n + Len(b)) * w
        /\ \A i \in 1..((n + Len(b)) * w) :
               q[i] = <<(a \o b)[(i - 1) \div w + 1], ((i - 1) % w) + 1>>
    BY <1>1, PacketsType
  <1>6. /\ p \in Seq(Pieces) /\ Len(p) = n * w + Len(b) * w
        /\ \A i \in 1..(n * w) : p[i] = Packets(a)[i]
        /\ \A i \in 1..(Len(b) * w) : p[n * w + i] = Packets(b)[i]
    <2>1. PICK x \in Seq(Pieces), y \in Seq(Pieces) :
              /\ x = Packets(a) /\ y = Packets(b)
              /\ Len(x) = n * w /\ Len(y) = Len(b) * w
      BY <1>3, <1>4
    <2>2. /\ x \o y \in Seq(Pieces) /\ Len(x \o y) = Len(x) + Len(y)
          /\ \A i \in 1..Len(x) : (x \o y)[i] = x[i]
          /\ \A i \in 1..Len(y) : (x \o y)[Len(x) + i] = y[i]
      BY ConcatElements
    <2> QED BY <2>1, <2>2
  <1> HIDE DEF p, q
  <1>7. ASSUME NEW i \in 1..(n * w) PROVE q[i] = p[i]
    <2>1. (i - 1) \div w + 1 \in 1..n
      BY <1>1, PieceOf
    <2>2. i \in 1..((n + Len(b)) * w)
      BY <1>2
    <2>3. (a \o b)[(i - 1) \div w + 1] = a[(i - 1) \div w + 1]
      BY <1>1, <2>1
    <2> QED BY <1>3, <1>5, <1>6, <2>2, <2>3
  <1>8. ASSUME NEW j \in 1..(Len(b) * w) PROVE q[n * w + j] = p[n * w + j]
    <2> DEFINE d == (j - 1) \div w
               m == (j - 1) % w
               i == n * w + j
    <2>1. d \in Nat /\ m \in Nat /\ d + 1 \in 1..Len(b) /\ m + 1 \in 1..w
          /\ j = d * w + m + 1
      BY <1>1, PieceOf
    <2>2. Packets(b)[j] = <<b[d + 1], m + 1>>
      BY <1>4
    <2> HIDE DEF d, m
    <2>3. i \in 1..((n + Len(b)) * w) /\ i - 1 \in Nat
      BY <1>2
    <2>4. i - 1 = (n + d) * w + m /\ n + d \in Nat /\ m < w
      <3>1. (n + d) * w = n * w + d * w /\ d * w \in Nat
        BY <1>1, <1>2, <2>1
      <3> QED BY <1>1, <1>2, <2>1, <3>1
    <2>5. (i - 1) \div w = n + d /\ (i - 1) % w = m
      <3> DEFINE k == i - 1
                 c == n + d
      <3>1. k \in Nat /\ c \in Nat /\ k = c * w + m /\ m \in Nat /\ m < w /\ w \in Nat /\ w > 0
        BY <1>2, <2>1, <2>3, <2>4
      <3> HIDE DEF k, c, w
      <3>2. k \div w = c /\ k % w = m
        BY <3>1, OneDivision
      <3> QED BY <3>2 DEF k, c
    <2>6. q[i] = <<(a \o b)[(n + d) + 1], m + 1>>
      BY <1>5, <2>3, <2>5
    <2>7. (n + d) + 1 = n + (d + 1)
      BY <1>1, <2>1
    <2>8. (a \o b)[n + (d + 1)] = b[d + 1]
      BY <1>1, <2>1
    <2> QED BY <1>6, <2>2, <2>6, <2>7, <2>8
  <1>9. \A i \in 1..Len(q) : q[i] = p[i]
    <2> SUFFICES ASSUME NEW i \in 1..Len(q) PROVE q[i] = p[i]
      OBVIOUS
    <2>1. i \in Nat /\ i >= 1 /\ i <= n * w + Len(b) * w
      BY <1>2, <1>5
    <2>2. CASE i <= n * w
      BY <1>2, <1>7, <2>1, <2>2
    <2>3. CASE i > n * w
      <3> DEFINE j == i - n * w
      <3>1. j \in 1..(Len(b) * w) /\ n * w + j = i
        BY <1>2, <2>1, <2>3
      <3> HIDE DEF j
      <3> QED BY <1>8, <3>1
    <2> QED BY <1>2, <2>1, <2>2, <2>3
  <1>10. q = p
    BY <1>2, <1>5, <1>6, <1>9, SameSeq
  <1> QED BY <1>10 DEF p, q

(* Two parts of a sequence.                                                *)
Behind(x, y, z) == x \o y = z

(* a and b are x, cut behind its first n elements.                         *)
Cut(x, n, a, b) ==
    /\ a = SubSeq(x, 1, n) /\ b = SubSeq(x, n + 1, Len(x)) /\ x = a \o b
    /\ Len(a) = n /\ Len(b) = Len(x) - n
    /\ \A i \in 1..n : a[i] = x[i]

(* Two parts of any sequence.                                              *)
LEMMA CutAny ==
    ASSUME NEW S, NEW x \in Seq(S), NEW n \in 0..Len(x)
    PROVE  \E a, b : a \in Seq(S) /\ b \in Seq(S) /\ Cut(x, n, a, b)
  <1> DEFINE a == SubSeq(x, 1, n)
             b == SubSeq(x, n + 1, Len(x))
  <1>1. a \in Seq(S) /\ b \in Seq(S)
    BY TwoParts, Zenon
  <1>2. Len(a) = n /\ Len(b) = Len(x) - n
    BY TwoParts, ZenonT(30)
  <1>3. x = a \o b
    BY TwoParts, Zenon
  <1>4. \A i \in 1..n : a[i] = x[i]
    BY TwoParts, Zenon
  <1>5. Cut(x, n, a, b)
    BY <1>2, <1>3, <1>4, Zenon DEF Cut
  <1> QED BY <1>1, <1>5, Zenon

(* Of pieces, ...                                                          *)
LEMMA CutPieces ==
    ASSUME NEW x \in Seq(Pieces), NEW n \in 0..Len(x)
    PROVE  \E a, b : a \in Seq(Pieces) /\ b \in Seq(Pieces) /\ Cut(x, n, a, b)
  BY CutAny, Zenon

(* ... and of messages.                                                    *)
LEMMA CutMessages ==
    ASSUME NEW x \in Seq(All), NEW n \in 0..Len(x)
    PROVE  \E a, b : a \in Seq(All) /\ b \in Seq(All) /\ Cut(x, n, a, b)
  BY CutAny, Zenon

(* Three sequences of pieces, one behind the other.                        *)
LEMMA ThreePieces ==
    ASSUME NEW x \in Seq(Pieces), NEW y \in Seq(Pieces), NEW z \in Seq(Pieces)
    PROVE  /\ x \o y \in Seq(Pieces) /\ y \o z \in Seq(Pieces)
           /\ (x \o y) \o z = x \o (y \o z) /\ x \o (y \o z) \in Seq(Pieces)
           /\ Len(x) \in Nat /\ Len(y) \in Nat /\ Len(x \o y) = Len(x) + Len(y)
  <1>1. PICK S : S = Pieces
    OBVIOUS
  <1>2. x \in Seq(S) /\ y \in Seq(S) /\ z \in Seq(S)
    BY <1>1
  <1>3. /\ x \o y \in Seq(S) /\ y \o z \in Seq(S)
        /\ Len(x) \in Nat /\ Len(y) \in Nat /\ Len(x \o y) = Len(x) + Len(y)
    BY <1>2, ConcatElements
  <1>4. x \o (y \o z) \in Seq(S)
    BY <1>2, <1>3, ConcatElements
  <1>5. (x \o y) \o z = x \o (y \o z)
    BY <1>2, Concats
  <1> QED BY <1>1, <1>3, <1>4, <1>5

(* They are cut in one way.                                                *)
LEMMA SameCut ==
    ASSUME NEW x \in Seq(Pieces), NEW y \in Seq(Pieces),
           NEW u \in Seq(Pieces), NEW v \in Seq(Pieces), x \o y = u \o v, Len(x) = Len(u)
    PROVE  x = u /\ y = v
  <1>1. PICK S : S = Pieces
    OBVIOUS
  <1>2. x \in Seq(S) /\ y \in Seq(S) /\ u \in Seq(S) /\ v \in Seq(S)
    BY <1>1
  <1> QED BY <1>2, OneCut

(* Parts from the middle.                                                  *)
LEMMA Middle ==
    ASSUME NEW p \in Seq(Pieces), NEW a \in Nat, NEW w \in Nat, a + w <= Len(p)
    PROVE  /\ SubSeq(p, a + 1, a + w) \in Seq(Pieces) /\ Len(SubSeq(p, a + 1, a + w)) = w
           /\ \A i \in 1..w : SubSeq(p, a + 1, a + w)[i] = p[a + i]
  <1>1. Len(SubSeq(p, a + 1, a + w)) = w
    OBVIOUS
  <1>2. \A i \in 1..w : SubSeq(p, a + 1, a + w)[i] = p[a + i]
    OBVIOUS
  <1>3. SubSeq(p, a + 1, a + w) \in Seq(Pieces)
    OBVIOUS
  <1> QED BY <1>1, <1>2, <1>3

(* Products of numbers.                                                   *)
LEMMA Times ==
    ASSUME NEW w \in Nat
    PROVE  /\ \A x \in Nat : x * w \in Nat /\ (x + 1) * w = x * w + w
           /\ \A x, y \in Nat : x <= y => x * w <= y * w
           /\ 0 * w = 0 /\ 1 * w = w
  OBVIOUS

(* Cut again, in the same place.                                           *)
LEMMA Recut ==
    ASSUME NEW x \in Seq(Pieces), NEW y \in Seq(Pieces), NEW rest \in Seq(Pieces)
    PROVE  /\ y \o rest \in Seq(Pieces)
           /\ \A u, v \in Seq(Pieces) :
                 Behind(x \o y, rest, u \o v) /\ Len(x) = Len(u) => x = u /\ y \o rest = v
  <1>1. (x \o y) \o rest = x \o (y \o rest)
    BY ThreePieces, Zenon
  <1>2. y \o rest \in Seq(Pieces)
    BY ThreePieces, Zenon
  <1>3. SUFFICES ASSUME NEW u \in Seq(Pieces), NEW v \in Seq(Pieces),
                        Behind(x \o y, rest, u \o v), Len(x) = Len(u)
                 PROVE  x = u /\ y \o rest = v
    BY <1>2
  <1>4. x \o (y \o rest) = u \o v
    BY <1>1, <1>3 DEF Behind
  <1> QED BY <1>2, <1>3, <1>4, SameCut, Zenon

(* The messages of whole packets.                                          *)
LEMMA MessagesBack ==
    ASSUME NEW ms \in Seq(Messages)
    PROVE  MessagesOf(Packets(ms)) = ms
  <1> DEFINE w == PacketLen
  <1>1. ms \in Seq(All) /\ Len(ms) \in Nat /\ w \in Nat /\ w > 1 /\ Len(ms) * w \in Nat
    BY PacketLenType DEF All
  <1>2. PICK p \in Seq(Pieces) :
            /\ p = Packets(ms) /\ Len(p) = Len(ms) * w
            /\ \A i \in 1..(Len(ms) * w) : p[i] = <<ms[(i - 1) \div w + 1], ((i - 1) % w) + 1>>
    BY <1>1, PacketsType
  <1>3. Count(p) = Len(ms)
    <2>1. Len(p) = Len(ms) * w + 0 /\ Len(p) \in Nat /\ 0 < w
      BY <1>1, <1>2
    <2>2. Len(p) \div w = Len(ms)
      BY <1>1, <2>1, OneDivision
    <2> QED BY <2>2 DEF Count
  <1>4. ASSUME NEW k \in 1..Len(ms) PROVE Whole(p, k) = ms[k]
    <2> DEFINE from0 == (k - 1) * w
    <2>1. ms[k] \in Messages /\ ms[k] \in All /\ k - 1 \in Nat
      BY DEF All
    <2>2. from0 \in Nat /\ k * w = from0 + w /\ from0 + w <= Len(ms) * w
      <3>1. (k - 1) * w \in Nat /\ k * w = (k - 1) * w + w
        BY <1>1, <2>1
      <3>2. k * w <= Len(ms) * w
        BY <1>1
      <3> QED BY <3>1, <3>2
    <2> HIDE DEF from0
    <2>3. \A i \in 1..w : p[from0 + i] = <<ms[k], i>>
      <3> SUFFICES ASSUME NEW i \in 1..w PROVE p[from0 + i] = <<ms[k], i>>
        OBVIOUS
      <3>1. from0 + i \in 1..(Len(ms) * w)
        BY <1>1, <2>2
      <3>2. PICK c \in Nat, m \in Nat, n \in Nat :
                c = k - 1 /\ m = i - 1 /\ n = (from0 + i) - 1
        BY <1>1, <2>1, <2>2
      <3>3. n = c * w + m /\ m < w
        BY <1>1, <2>2, <3>2 DEF from0
      <3>4. n \div w = c /\ n % w = m
        BY <1>1, <3>3, OneDivision
      <3>5. p[from0 + i] = <<ms[c + 1], m + 1>>
        BY <1>2, <3>1, <3>2, <3>4
      <3>6. c + 1 = k /\ m + 1 = i
        BY <1>1, <2>1, <3>2
      <3> QED BY <3>5, <3>6
    <2>4. SubSeq(p, from0 + 1, k * w) = Packet(ms[k])
      <3>1. PICK q : q = SubSeq(p, from0 + 1, k * w)
        OBVIOUS
      <3>2. /\ q \in Seq(Pieces) /\ Len(q) = w /\ \A i \in 1..w : q[i] = p[from0 + i]
        <4>1. PICK z \in Nat : z = w
          BY <1>1
        <4>2. from0 + z <= Len(p) /\ q = SubSeq(p, from0 + 1, from0 + z)
          BY <1>2, <2>2, <3>1, <4>1
        <4> QED BY <2>2, <4>1, <4>2, Middle
      <3>3. /\ Packet(ms[k]) \in Seq(Pieces) /\ Len(Packet(ms[k])) = w
        BY <2>1, OnePacket
      <3>4. \A i \in 1..w : Packet(ms[k])[i] = <<ms[k], i>>
        BY DEF Packet
      <3>5. q = Packet(ms[k])
        BY <2>3, <3>2, <3>3, <3>4, SameSeq
      <3> QED BY <3>1, <3>5
    <2>5. Packet(ms[k])[1][1] = ms[k]
      <3>1. Packet(ms[k])[1] = <<ms[k], 1>>
        BY <1>1 DEF Packet
      <3> QED BY <3>1
    <2>6. Whole(p, k) = Packet(ms[k])[1][1]
      BY <2>1, <2>4 DEF Whole, from0
    <2> QED BY <2>5, <2>6
  <1>5. MessagesOf(p) = [k \in 1..Len(ms) |-> ms[k]]
    BY <1>3, <1>4 DEF MessagesOf
  <1> QED BY <1>2, <1>5

(* Packets in two parts, cut behind a packet.                              *)
LEMMA CutPackets ==
    ASSUME NEW ms \in Seq(All), NEW c \in 0..Len(ms)
    PROVE  /\ Packets(ms) = Packets(SubSeq(ms, 1, c)) \o Packets(SubSeq(ms, c + 1, Len(ms)))
           /\ Len(Packets(SubSeq(ms, 1, c))) = c * PacketLen
  <1>1. PICK a, b :
            /\ a \in Seq(All) /\ b \in Seq(All)
            /\ a = SubSeq(ms, 1, c) /\ b = SubSeq(ms, c + 1, Len(ms))
            /\ ms = a \o b /\ Len(a) = c
    BY CutMessages, Zenon DEF Cut
  <1>2. Packets(ms) = Packets(a) \o Packets(b)
    BY <1>1, PacketsConcat
  <1>3. Len(Packets(a)) = c * PacketLen
    BY <1>1, PacketsType
  <1> QED BY <1>1, <1>2, <1>3

(* What is made of a first part of packets, cut anywhere.                  *)
LEMMA CutAnywhere ==
    ASSUME NEW ms \in Seq(Messages), NEW buf \in Seq(Pieces), NEW rest \in Seq(Pieces),
           Behind(buf, rest, Packets(ms))
    PROVE  \E c \in 0..Len(ms) :
               /\ Count(buf) = c
               /\ SubSeq(buf, 1, c * PacketLen) = Packets(SubSeq(ms, 1, c))
               /\ Rest(buf) \in Seq(Pieces)
               /\ Rest(buf) \o rest = Packets(SubSeq(ms, c + 1, Len(ms)))
               /\ MessagesOf(SubSeq(buf, 1, c * PacketLen)) = SubSeq(ms, 1, c)
  <1>1. PICK w \in Nat, l \in Nat, bl \in Nat, rl \in Nat :
            /\ w = PacketLen /\ w > 1 /\ l = Len(ms) /\ bl = Len(buf) /\ rl = Len(rest)
    <2>1. Len(ms) \in Nat /\ Len(buf) \in Nat /\ Len(rest) \in Nat
      OBVIOUS
    <2> QED BY <2>1, PacketLenType, Zenon
  <1>2. ms \in Seq(All)
    BY DEF All
  <1>3. bl + rl = l * w
    <2>1. Len(buf \o rest) = bl + rl
      BY <1>1, ThreePieces
    <2>2. Len(Packets(ms)) = l * w
      BY <1>1, <1>2, PacketsType
    <2> QED BY <2>1, <2>2 DEF Behind
  <1>4. PICK c \in Nat, m \in Nat : c = bl \div w /\ bl = c * w + m /\ m < w
    <2>1. bl \div w \in Nat /\ bl % w \in Nat /\ bl % w < w /\ bl = (bl \div w) * w + (bl % w)
      BY <1>1, Division
    <2> QED BY <2>1
  <1>5. c <= l
    <2> SUFFICES ASSUME l + 1 <= c PROVE FALSE
      OBVIOUS
    <2>1. (l + 1) * w <= c * w /\ (l + 1) * w = l * w + w /\ l * w \in Nat /\ c * w \in Nat
      BY Times
    <2> QED BY <1>1, <1>3, <1>4, <2>1
  <1>6. PICK cw \in Nat : cw = c * w
    BY Times
  <1>7. Count(buf) = c /\ c \in 0..Len(ms) /\ cw \in 0..Len(buf)
    BY <1>1, <1>4, <1>5, <1>6 DEF Count
  <1>8. PICK x, y : x \in Seq(Pieces) /\ y \in Seq(Pieces) /\ Cut(buf, cw, x, y)
    BY <1>7, CutPieces, Zenon
  <1>9. y = Rest(buf)
    BY <1>1, <1>6, <1>7, <1>8 DEF Rest, Cut
  <1>10. PICK a, b : a \in Seq(All) /\ b \in Seq(All) /\ Cut(ms, c, a, b)
    BY <1>2, <1>7, CutMessages, Zenon
  <1>11. a \in Seq(Messages)
    <2>1. PICK n \in 0..Len(ms) : n = c
      BY <1>7
    <2>2. SubSeq(ms, 1, n) \in Seq(Messages)
      BY TwoParts
    <2> QED BY <1>10, <2>1, <2>2 DEF Cut
  <1>12. PICK u, v :
             /\ u \in Seq(Pieces) /\ v \in Seq(Pieces)
             /\ u = Packets(a) /\ v = Packets(b) /\ Packets(ms) = u \o v /\ Len(u) = cw
    <2>1. Packets(ms) = Packets(a) \o Packets(b) /\ Len(Packets(a)) = cw
      BY <1>1, <1>2, <1>6, <1>7, <1>10, CutPackets DEF Cut
    <2> QED BY <1>10, <2>1, PacketsType
  <1>13. Behind(x \o y, rest, u \o v) /\ Len(x) = Len(u)
    BY <1>8, <1>12 DEF Behind, Cut
  <1>14. x = u /\ y \o rest = v
    <2>1. \A p, q \in Seq(Pieces) :
              Behind(x \o y, rest, p \o q) /\ Len(x) = Len(p) => x = p /\ y \o rest = q
      BY <1>8, Recut, Zenon
    <2> QED BY <1>12, <1>13, <2>1, Zenon
  <1>15. MessagesOf(x) = a
    BY <1>11, <1>12, <1>14, MessagesBack
  <1> QED BY <1>1, <1>6, <1>7, <1>8, <1>9, <1>10, <1>12, <1>14, <1>15 DEF Cut

(* The first packet.                                                       *)
LEMMA FirstPacket ==
    ASSUME NEW ms \in Seq(Messages), NEW buf \in Seq(Pieces), NEW rest \in Seq(Pieces),
           Behind(buf, rest, Packets(ms)), Len(buf) >= PacketLen
    PROVE  /\ Len(ms) \in Nat \ {0} /\ Whole(buf, 1) = ms[1]
           /\ SubSeq(buf, PacketLen + 1, Len(buf)) \in Seq(Pieces)
           /\ SubSeq(buf, PacketLen + 1, Len(buf)) \o rest = Packets(SubSeq(ms, 2, Len(ms)))
  <1>1. PICK w \in Nat, l \in Nat, bl \in Nat, rl \in Nat :
            /\ w = PacketLen /\ w > 1 /\ l = Len(ms) /\ bl = Len(buf) /\ rl = Len(rest)
    <2>1. Len(ms) \in Nat /\ Len(buf) \in Nat /\ Len(rest) \in Nat
      OBVIOUS
    <2> QED BY <2>1, PacketLenType, Zenon
  <1>2. ms \in Seq(All)
    BY DEF All
  <1>3. bl + rl = l * w
    <2>1. Len(buf \o rest) = bl + rl
      BY <1>1, ThreePieces
    <2>2. Len(Packets(ms)) = l * w
      BY <1>1, <1>2, PacketsType
    <2> QED BY <2>1, <2>2 DEF Behind
  <1>4. l # 0
    <2> SUFFICES ASSUME l = 0 PROVE FALSE
      OBVIOUS
    <2>1. l * w = 0
      BY Times
    <2> QED BY <1>1, <1>3, <2>1
  <1>5. 1 \in 0..Len(ms) /\ w \in 0..Len(buf)
    BY <1>1, <1>4
  <1>6. PICK x, y : x \in Seq(Pieces) /\ y \in Seq(Pieces) /\ Cut(buf, w, x, y)
    BY <1>5, CutPieces, Zenon
  <1>7. PICK a, b : a \in Seq(All) /\ b \in Seq(All) /\ Cut(ms, 1, a, b)
    BY <1>2, <1>5, CutMessages, Zenon
  <1>8. PICK u, v :
             /\ u \in Seq(Pieces) /\ v \in Seq(Pieces)
             /\ u = Packets(a) /\ v = Packets(b) /\ Packets(ms) = u \o v /\ Len(u) = w
    <2>1. Packets(ms) = Packets(a) \o Packets(b) /\ Len(Packets(a)) = 1 * PacketLen
      BY <1>2, <1>5, <1>7, CutPackets DEF Cut
    <2>2. 1 * PacketLen = w
      BY <1>1
    <2> QED BY <1>7, <2>1, <2>2, PacketsType
  <1>9. Behind(x \o y, rest, u \o v) /\ Len(x) = Len(u)
    BY <1>6, <1>8 DEF Behind, Cut
  <1>10. x = u /\ y \o rest = v
    <2>1. \A p, q \in Seq(Pieces) :
              Behind(x \o y, rest, p \o q) /\ Len(x) = Len(p) => x = p /\ y \o rest = q
      BY <1>6, Recut, Zenon
    <2> QED BY <1>8, <1>9, <2>1, Zenon
  <1>11. PICK m : m \in Messages /\ m = ms[1] /\ m \in All /\ a = <<m>>
    <2>1. ms[1] \in Messages /\ ms[1] \in All
      BY <1>1, <1>4 DEF All
    <2>2. a = <<ms[1]>>
      <3>1. a \in Seq(All) /\ Len(a) = 1 /\ a[1] = ms[1]
        BY <1>7 DEF Cut
      <3> QED BY <3>1
    <2> QED BY <2>1, <2>2
  <1>12. Whole(buf, 1) = m
    <2>1. x = Packet(m)
      BY <1>8, <1>10, <1>11, OnePacket
    <2>2. SubSeq(buf, (1 - 1) * PacketLen + 1, 1 * PacketLen) = SubSeq(buf, 1, w)
      <3>1. (1 - 1) * w + 1 = 1 /\ 1 * w = w
        OBVIOUS
      <3> QED BY <1>1, <3>1
    <2>3. Packet(m)[1][1] = m
      <3>1. Packet(m)[1] = <<m, 1>>
        BY <1>1 DEF Packet
      <3> QED BY <3>1
    <2> QED BY <1>6, <1>11, <2>1, <2>2, <2>3 DEF Whole, Cut
  <1>13. 1 + 1 = 2
    OBVIOUS
  <1> QED BY <1>1, <1>4, <1>6, <1>7, <1>8, <1>10, <1>11, <1>12, <1>13 DEF Cut

-----------------------------------------------------------------------------
(* Types.                                                                  *)

(* Cut and joined.                                                         *)
LEMMA Parts ==
    ASSUME NEW x \in Seq(Pieces), NEW n \in 0..Len(x)
    PROVE  SubSeq(x, 1, n) \in Seq(Pieces) /\ SubSeq(x, n + 1, Len(x)) \in Seq(Pieces)
  <1>1. PICK a, b : a \in Seq(Pieces) /\ b \in Seq(Pieces) /\ Cut(x, n, a, b)
    BY CutPieces, Zenon
  <1> QED BY <1>1 DEF Cut

(* One behind the other.                                                   *)
LEMMA Joined ==
    ASSUME NEW x \in Seq(Pieces), NEW y \in Seq(Pieces)
    PROVE  x \o y \in Seq(Pieces)
  OBVIOUS

(* In whatever order they are joined.                                      *)
LEMMA Assoc ==
    ASSUME NEW x \in Seq(Pieces), NEW y \in Seq(Pieces), NEW z \in Seq(Pieces)
    PROVE  (x \o y) \o z = x \o (y \o z)
  BY ThreePieces, Zenon

(* A packet is a message or junk.                                          *)
LEMMA WholeType ==
    ASSUME NEW p, NEW k
    PROVE  Whole(p, k) \in All
  <1> DEFINE q == SubSeq(p, (k - 1) * PacketLen + 1, k * PacketLen)
  <1>1. CASE \E m \in Messages : q = Packet(m)
    <2>1. PICK m \in Messages : q = Packet(m)
      BY <1>1
    <2>2. Packet(m)[1] = <<m, 1>>
      BY PacketLenType DEF Packet
    <2>3. Packet(m)[1][1] = m
      BY <2>2
    <2>4. Whole(p, k) = q[1][1]
      BY <1>1 DEF Whole
    <2> HIDE DEF q
    <2> QED BY <2>1, <2>3, <2>4 DEF All
  <1>2. CASE ~\E m \in Messages : q = Packet(m)
    BY <1>2 DEF Whole, All
  <1> QED BY <1>1, <1>2

(* Some of them.                                                           *)
LEMMA Counted ==
    ASSUME NEW p \in Seq(Pieces)
    PROVE  /\ Count(p) \in Nat /\ Count(p) * PacketLen \in 0..Len(p)
           /\ MessagesOf(p) \in Seq(All) /\ Rest(p) \in Seq(Pieces)
           /\ SubSeq(p, 1, Count(p) * PacketLen) \in Seq(Pieces)
  <1>1. PICK w \in Nat, l \in Nat : w = PacketLen /\ w > 0 /\ l = Len(p)
    BY PacketLenType
  <1>2. PICK c \in Nat, m \in Nat : c = l \div w /\ l = c * w + m /\ m < w
    BY <1>1, Division
  <1>3. PICK n \in Nat : n = c * w /\ n <= l
    BY <1>2, Times
  <1>4. Count(p) = c /\ n = Count(p) * PacketLen /\ n \in 0..Len(p)
    BY <1>1, <1>2, <1>3 DEF Count
  <1>5. MessagesOf(p) \in Seq(All)
    <2>1. \A k \in 1..c : Whole(p, k) \in All
      BY WholeType
    <2>2. MessagesOf(p) = [k \in 1..c |-> Whole(p, k)]
      BY <1>4 DEF MessagesOf
    <2> QED BY <2>1, <2>2
  <1>6. SubSeq(p, 1, n) \in Seq(Pieces) /\ SubSeq(p, n + 1, Len(p)) \in Seq(Pieces)
    BY <1>4, Parts
  <1> QED BY <1>4, <1>5, <1>6 DEF Rest

(* Types at the start.                                                     *)
LEMMA TypeInit == Init => TypeOK
  <1> SUFFICES ASSUME Init PROVE TypeOK
    OBVIOUS
  <1>1. <<>> \in Seq(Pieces) /\ <<>> \in Seq(Servers) /\ Len(<<>>) = 0
        /\ <<>> \in Seq(Messages \cup {Junk}) /\ MaxConns \in Nat /\ MaxTrouble \in Nat
    BY ChatAssumption
  <1>2. 0 \in 0..Len(owner) /\ 0 \in 0..MaxTrouble /\ Len(owner) <= MaxConns
    BY <1>1 DEF Init
  <1>3. /\ inbuf \in [Servers -> Seq(Pieces)] /\ heard \in [Servers -> Seq(Messages \cup {Junk})]
        /\ from \in [Servers -> Nat]
    BY <1>1 DEF Init
  <1>4. /\ up \in [Conns -> Seq(Pieces)] /\ down \in [Conns -> Seq(Pieces)]
        /\ hin \in [Conns -> Seq(Pieces)] /\ hout \in [Conns -> Seq(Pieces)]
    BY <1>1 DEF Init
  <1>5. /\ state \in [Servers -> {"off", "trying", "on"}]
        /\ cur \in [Servers -> 0..Len(owner)] /\ owner \in Seq(Servers)
    BY <1>1, <1>2 DEF Init
  <1>6. hub \in [Conns -> {"new", "open", "gone"}]
    BY DEF Init
  <1>7. /\ broken \subseteq Conns /\ said \subseteq Messages /\ log \in Seq(Messages \cup {Junk})
        /\ torn \in BOOLEAN /\ trouble \in 0..MaxTrouble
    BY <1>1, <1>2 DEF Init
  <1> QED BY <1>2, <1>3, <1>4, <1>5, <1>6, <1>7 DEF TypeOK

(* Connections not opened yet are not accepted and nothing is sent on      *)
(* them; a server that has one has opened it.                              *)
Lines ==
    /\ \A k \in Conns : k > Len(owner) => hub[k] = "new" /\ up[k] = <<>> /\ k \notin broken
    /\ \A k \in Conns : hub[k] = "new" => hin[k] = <<>> /\ hout[k] = <<>> /\ down[k] = <<>>
    /\ \A s \in Servers :
          IF state[s] = "off" THEN cur[s] = 0
          ELSE cur[s] \in 1..Len(owner) /\ owner[cur[s]] = s

(* The connection of a server, which nobody else has.                      *)
LEMMA OwnLine ==
    ASSUME TypeOK, Lines, NEW s \in Servers, state[s] # "off"
    PROVE  /\ cur[s] \in Conns /\ cur[s] \in 1..Len(owner) /\ owner[cur[s]] = s
           /\ \A r \in Servers \ {s} : cur[r] # cur[s]
  <1>1. Len(owner) \in Nat /\ MaxConns \in Nat /\ Len(owner) <= MaxConns
    BY ChatAssumption DEF TypeOK
  <1>2. cur[s] \in 1..Len(owner) /\ owner[cur[s]] = s
    BY DEF Lines
  <1>3. cur[s] \in Conns
    BY <1>1, <1>2 DEF Conns
  <1>4. ASSUME NEW r \in Servers, cur[r] = cur[s] PROVE r = s
    <2>1. cur[r] # 0
      BY <1>1, <1>2, <1>4
    <2> QED BY <1>2, <1>4, <2>1 DEF Lines
  <1> QED BY <1>2, <1>3, <1>4

(* At the start.                                                           *)
LEMMA LinesInit == Init => Lines
  BY DEF Init, Lines

(* The actions, and whose they are.                                        *)
LEMMA Cases ==
    ASSUME Next
    PROVE  \/ \E s \in Servers :
                 \/ Connect(s) \/ Connected(s) \/ ConnectFails(s)
                 \/ \E m \in Messages : SayAlone(s, m) \/ Say(s, m) \/ SayFails(s, m)
                                        \/ \E n \in 1..(PacketLen - 1) : SayPart(s, m, n)
                 \/ \E n \in Nat : TickChat(s, n)
           \/ \E k \in Conns :
                 \/ Accept(k) \/ RecNonsense(k) \/ KickClosed(k) \/ Break(k)
                 \/ \E n \in Nat : RecChat(k, n) \/ SendOn(k, n)
  <1>1. ASSUME NEW s \in Servers, Listen(s) PROVE \E n \in Nat : TickChat(s, n)
    BY <1>1 DEF Listen
  <1>2. ASSUME NEW k \in Conns, Receive(k) PROVE \E n \in Nat : RecChat(k, n)
    BY <1>2 DEF Receive
  <1>3. ASSUME NEW k \in Conns, Forward(k) PROVE \E n \in Nat : SendOn(k, n)
    BY <1>3 DEF Forward
  <1> QED BY <1>1, <1>2, <1>3, Zenon DEF Next, Speak

(* Types of what a server does to its connection.                          *)
LEMMA TypeServer ==
    ASSUME TypeOK, Lines, NEW s \in Servers,
           Connect(s) \/ Connected(s) \/ ConnectFails(s)
    PROVE  TypeOK'
  <1>1. PacketLen \in Nat /\ PacketLen > 1 /\ MaxConns \in Nat /\ MaxTrouble \in Nat
    BY ChatAssumption, PacketLenType
  <1>2. trouble \in Nat /\ Len(owner) \in Nat
    BY <1>1 DEF TypeOK
  <1>4. ASSUME Connect(s) PROVE TypeOK'
    <2>1. owner' \in Seq(Servers) /\ Len(owner') = Len(owner) + 1 /\ Len(owner') <= MaxConns
      BY <1>1, <1>2, <1>4 DEF Connect, TypeOK
    <2>2. cur' \in [Servers -> 0..Len(owner')]
      <3>1. \A x \in 0..Len(owner) : x \in 0..Len(owner')
        BY <1>2, <2>1
      <3>2. Len(owner') \in 0..Len(owner')
        BY <1>2, <2>1
      <3> QED BY <1>4, <3>1, <3>2 DEF Connect, TypeOK
    <2>3. torn' \in BOOLEAN
      BY <1>4 DEF Connect, TypeOK
    <2>4. state' \in [Servers -> {"off", "trying", "on"}]
      BY <1>4 DEF Connect, TypeOK
    <2> QED BY <1>4, <2>1, <2>2, <2>3, <2>4 DEF Connect, TypeOK, hubVars
  <1>5. ASSUME Connected(s) PROVE TypeOK'
    BY <1>5 DEF Connected, TypeOK, network, hubVars, history
  <1>6. ASSUME ConnectFails(s) PROVE TypeOK'
    <2>1. 0 \in 0..Len(owner) /\ trouble' \in 0..MaxTrouble
      BY <1>1, <1>2, <1>6 DEF ConnectFails, Trouble
    <2>2. cur[s] \in Conns
      BY <1>6, OwnLine DEF ConnectFails
    <2> QED BY <1>6, <2>1, <2>2 DEF ConnectFails, TypeOK, hubVars, history
  <1> QED BY <1>4, <1>5, <1>6

(* Sending packets.                                                        *)
LEMMA TypeSpeak ==
    ASSUME TypeOK, Lines, NEW s \in Servers, NEW m \in Messages,
           SayAlone(s, m) \/ Say(s, m) \/ SayFails(s, m)
               \/ \E n \in 1..(PacketLen - 1) : SayPart(s, m, n)
    PROVE  TypeOK'
  <1>1. PacketLen \in Nat /\ PacketLen > 1 /\ MaxConns \in Nat /\ MaxTrouble \in Nat
    BY ChatAssumption, PacketLenType
  <1>2. trouble \in Nat /\ Len(owner) \in Nat
    BY <1>1 DEF TypeOK
  <1>3. Packet(m) \in Seq(Pieces) /\ Len(Packet(m)) = PacketLen
    BY OnePacket DEF All
  <1>4. ASSUME SayAlone(s, m) PROVE TypeOK'
    BY <1>4 DEF SayAlone, TypeOK, network, hubVars, client
  <1>5. ASSUME Say(s, m) PROVE TypeOK'
    <2>1. cur[s] \in Conns
      BY <1>5, OwnLine DEF Say
    <2>2. up[cur[s]] \in Seq(Pieces)
      BY <2>1 DEF TypeOK
    <2>3. up[cur[s]] \o Packet(m) \in Seq(Pieces)
      BY <1>3, <2>2, Joined
    <2>4. up' \in [Conns -> Seq(Pieces)]
      BY <1>5, <2>2, <2>3 DEF Say, TypeOK
    <2> QED BY <1>5, <2>4 DEF Say, TypeOK, client, hubVars
  <1>6. ASSUME SayFails(s, m) PROVE TypeOK'
    <2>1. cur[s] \in Conns
      BY <1>6, OwnLine DEF SayFails
    <2>2. 0 \in 0..Len(owner) /\ trouble' \in 0..MaxTrouble
      BY <1>1, <1>2, <1>6 DEF SayFails, TypeOK
    <2>3. <<>> \in Seq(Pieces)
      OBVIOUS
    <2>4. down' \in [Conns -> Seq(Pieces)]
      BY <1>6, <2>3 DEF SayFails, TypeOK
    <2>5. cur' \in [Servers -> 0..Len(owner)] /\ state' \in [Servers -> {"off", "trying", "on"}]
      BY <1>6, <2>2 DEF SayFails, TypeOK
    <2> QED BY <1>6, <2>2, <2>4, <2>5 DEF SayFails, TypeOK, hubVars
  <1>7. ASSUME NEW n \in 1..(PacketLen - 1), SayPart(s, m, n) PROVE TypeOK'
    <2>1. cur[s] \in Conns
      BY <1>7, OwnLine DEF SayPart
    <2>2. up[cur[s]] \in Seq(Pieces)
      BY <2>1 DEF TypeOK
    <2>3. n \in 0..Len(Packet(m))
      BY <1>1, <1>3
    <2>4. SubSeq(Packet(m), 1, n) \in Seq(Pieces)
      BY <1>3, <2>3, Parts, Zenon
    <2>5. up[cur[s]] \o SubSeq(Packet(m), 1, n) \in Seq(Pieces)
      BY <2>2, <2>4, Joined, Zenon
    <2>6. up' \in [Conns -> Seq(Pieces)]
      BY <1>7, <2>2, <2>5 DEF SayPart, TypeOK
    <2>7. trouble' \in 0..MaxTrouble
      BY <1>1, <1>2, <1>7 DEF SayPart, Trouble
    <2> QED BY <1>7, <2>6, <2>7 DEF SayPart, TypeOK, client, hubVars
  <1> QED BY <1>4, <1>5, <1>6, <1>7

(* What the loop of tick_chat does.                                        *)
LEMMA TypeTick ==
    ASSUME TypeOK, Lines, NEW s \in Servers, NEW n \in Nat, TickChat(s, n)
    PROVE  /\ TypeOK' /\ cur[s] \in Conns /\ n \in 0..Len(down[cur[s]])
           /\ SubSeq(down[cur[s]], 1, n) \in Seq(Pieces)
           /\ inbuf[s] \o SubSeq(down[cur[s]], 1, n) \in Seq(Pieces)
           /\ SubSeq(down[cur[s]], n + 1, Len(down[cur[s]])) \in Seq(Pieces)
  <1>1. PICK k : k = cur[s] /\ k \in Conns
    BY OwnLine DEF TickChat
  <1>2. PICK d, i : d = down[k] /\ i = inbuf[s] /\ d \in Seq(Pieces) /\ i \in Seq(Pieces)
    BY <1>1 DEF TypeOK
  <1>3. n \in 0..Len(d)
    BY <1>1, <1>2 DEF TickChat
  <1>4. PICK x, y : /\ x = SubSeq(d, 1, n) /\ y = SubSeq(d, n + 1, Len(d))
                    /\ x \in Seq(Pieces) /\ y \in Seq(Pieces)
    BY <1>2, <1>3, Parts, Zenon
  <1>5. PICK b : b = i \o x /\ b \in Seq(Pieces)
    BY <1>2, <1>4, Joined, Zenon
  <1>6. down' = [down EXCEPT ![k] = y] /\ Hears(s, b)
    BY <1>1, <1>2, <1>4, <1>5 DEF TickChat
  <1>7. down' \in [Conns -> Seq(Pieces)]
    BY <1>4, <1>6 DEF TypeOK
  <1>8. inbuf' \in [Servers -> Seq(Pieces)] /\ heard' \in [Servers -> Seq(All)]
    <2>1. PacketLen \in Nat /\ Len(b) \in Nat /\ heard \in [Servers -> Seq(All)]
      BY <1>5, PacketLenType DEF TypeOK, All
    <2>2. CASE Len(b) < PacketLen
      BY <1>5, <1>6, <2>1, <2>2 DEF Hears, TypeOK
    <2>3. CASE ~(Len(b) < PacketLen)
      <3>1. PICK c : c = SubSeq(b, PacketLen + 1, Len(b)) /\ c \in Seq(Pieces)
        <4>1. PacketLen \in 0..Len(b)
          BY <2>1, <2>3
        <4> QED BY <1>5, <4>1, Parts, Zenon
      <3>2. inbuf' \in [Servers -> Seq(Pieces)]
        BY <1>6, <2>3, <3>1 DEF Hears, TypeOK
      <3>3. PICK h : h = Whole(b, 1) /\ h \in All
        BY WholeType
      <3>4. heard' = [heard EXCEPT ![s] = Append(@, h)]
        BY <1>6, <2>3, <3>3 DEF Hears
      <3>5. heard' \in [Servers -> Seq(All)]
        BY <2>1, <3>3, <3>4
      <3> QED BY <3>2, <3>5
    <2> QED BY <2>2, <2>3
  <1>9. TypeOK'
    BY <1>7, <1>8 DEF TickChat, TypeOK, All, hubVars
  <1> QED BY <1>1, <1>2, <1>3, <1>4, <1>5, <1>9

(* Accepting, kicking, breaking.                                           *)
LEMMA TypeHub ==
    ASSUME TypeOK, Lines, NEW k \in Conns,
           Accept(k) \/ RecNonsense(k) \/ KickClosed(k) \/ Break(k)
    PROVE  TypeOK'
  <1>1. <<>> \in Seq(Pieces) /\ MaxTrouble \in Nat /\ trouble \in Nat /\ Len(log) \in Nat
        /\ <<>> \in Seq(Messages \cup {Junk})
    BY ChatAssumption DEF TypeOK
  <1>2. ASSUME Accept(k) PROVE TypeOK'
    <2>1. hub' \in [Conns -> {"new", "open", "gone"}]
      BY <1>2 DEF Accept, TypeOK
    <2>2. /\ from' \in [Servers -> Nat]
          /\ heard' \in [Servers -> Seq(Messages \cup {Junk})]
      BY <1>1, <1>2 DEF Accept, TypeOK
    <2> QED BY <1>2, <2>1, <2>2 DEF Accept, TypeOK, client, network
  <1>3. ASSUME RecNonsense(k) \/ KickClosed(k) PROVE TypeOK'
    <2>1. Kicked({k}, hin, hout) /\ UNCHANGED <<client, network, history, trouble>>
      BY <1>3 DEF RecNonsense, KickClosed
    <2>2. /\ hub' \in [Conns -> {"new", "open", "gone"}]
          /\ hin' \in [Conns -> Seq(Pieces)] /\ hout' \in [Conns -> Seq(Pieces)]
      BY <1>1, <2>1 DEF Kicked, TypeOK
    <2> QED BY <2>1, <2>2 DEF TypeOK, client, network, history
  <1>4. ASSUME Break(k) PROVE TypeOK'
    <2>1. up' \in [Conns -> Seq(Pieces)] /\ down' \in [Conns -> Seq(Pieces)]
      BY <1>1, <1>4 DEF Break, TypeOK
    <2>2. trouble' \in 0..MaxTrouble
      BY <1>1, <1>4 DEF Break, Trouble
    <2> QED BY <1>4, <2>1, <2>2 DEF Break, TypeOK, client, hubVars, history
  <1> QED BY <1>2, <1>3, <1>4

(* Sending on to a server.                                                 *)
LEMMA TypeSend ==
    ASSUME TypeOK, NEW k \in Conns, NEW n \in Nat, SendOn(k, n)
    PROVE  /\ TypeOK' /\ n \in 0..Len(hout[k])
           /\ SubSeq(hout[k], 1, n) \in Seq(Pieces)
           /\ SubSeq(hout[k], n + 1, Len(hout[k])) \in Seq(Pieces)
  <1>1. PICK o, d : o = hout[k] /\ d = down[k] /\ o \in Seq(Pieces) /\ d \in Seq(Pieces)
    BY DEF TypeOK
  <1>2. n \in 0..Len(o)
    BY <1>1 DEF SendOn
  <1>3. PICK x, y : /\ x = SubSeq(o, 1, n) /\ y = SubSeq(o, n + 1, Len(o))
                    /\ x \in Seq(Pieces) /\ y \in Seq(Pieces)
    BY <1>1, <1>2, Parts, Zenon
  <1>4. PICK z : z = d \o x /\ z \in Seq(Pieces)
    BY <1>1, <1>3, Joined, Zenon
  <1>5. hout' = [hout EXCEPT ![k] = y] /\ down' = [down EXCEPT ![k] = z]
    BY <1>1, <1>3, <1>4 DEF SendOn, TypeOK
  <1>6. TypeOK'
    <2>1. hout' \in [Conns -> Seq(Pieces)] /\ down' \in [Conns -> Seq(Pieces)]
      BY <1>3, <1>4, <1>5 DEF TypeOK
    <2> QED BY <2>1 DEF SendOn, TypeOK, client, history
  <1> QED BY <1>1, <1>2, <1>3, <1>6

(* What RecChat makes of the pieces: all are whole packets.                *)
Received(k, buf, rest, all) ==
    /\ buf \in Seq(Pieces) /\ rest \in Seq(Pieces) /\ all \in Seq(Pieces)
    /\ Behind(buf, rest, hin[k] \o up[k]) /\ Rest(buf) \in Seq(Pieces)
    /\ up' = [up EXCEPT ![k] = rest]
    /\ all = SubSeq(buf, 1, Count(buf) * PacketLen)
    /\ MessagesOf(all) \in Seq(All) /\ log' = log \o MessagesOf(all)
    /\ \E slow \in SUBSET Conns :
          /\ \A j \in slow : hub[j] = "open"
          /\ Kicked(slow, [hin EXCEPT ![k] = Rest(buf)],
                    [j \in Conns |-> IF hub[j] = "open" THEN hout[j] \o all ELSE hout[j]])

(* Some of the pieces sent are received, the rest stays in the network.    *)
LEMMA RecEffect ==
    ASSUME TypeOK, NEW k \in Conns, NEW n \in Nat, RecChat(k, n)
    PROVE  \E buf, rest, all : Received(k, buf, rest, all)
  <1>1. PICK i, u : i = hin[k] /\ u = up[k] /\ i \in Seq(Pieces) /\ u \in Seq(Pieces)
    BY DEF TypeOK
  <1>2. n \in 0..Len(u)
    BY <1>1 DEF RecChat
  <1>3. PICK x, y : x \in Seq(Pieces) /\ y \in Seq(Pieces) /\ Cut(u, n, x, y)
    BY <1>1, <1>2, CutPieces, Zenon
  <1>4. PICK buf : buf = i \o x /\ buf \in Seq(Pieces)
    BY <1>1, <1>3, Joined, Zenon
  <1>5. Behind(buf, y, hin[k] \o up[k])
    <2>1. (i \o x) \o y = i \o (x \o y)
      <3>1. i \in Seq(Pieces) /\ x \in Seq(Pieces) /\ y \in Seq(Pieces)
        BY <1>1, <1>3
      <3> QED BY <3>1, Assoc, Zenon
    <2>2. u = x \o y
      BY <1>3 DEF Cut
    <2> QED BY <1>1, <1>4, <2>1, <2>2 DEF Behind
  <1>6. PICK all : /\ all = SubSeq(buf, 1, Count(buf) * PacketLen) /\ all \in Seq(Pieces)
                   /\ Rest(buf) \in Seq(Pieces)
    BY <1>4, Counted, Zenon
  <1>7. MessagesOf(all) \in Seq(All)
    BY <1>6, Counted, Zenon
  <1>8. buf = hin[k] \o SubSeq(up[k], 1, n) /\ y = SubSeq(up[k], n + 1, Len(up[k]))
    BY <1>1, <1>3, <1>4 DEF Cut
  <1>9. /\ up' = [up EXCEPT ![k] = y] /\ log' = log \o MessagesOf(all)
        /\ \E slow \in SUBSET Conns :
              /\ \A j \in slow : hub[j] = "open"
              /\ Kicked(slow, [hin EXCEPT ![k] = Rest(buf)],
                        [j \in Conns |-> IF hub[j] = "open" THEN hout[j] \o all ELSE hout[j]])
    <2> DEFINE slow == {j \in Conns : hub[j] = "open" /\ Len(hout[j]) + Len(all) > HubBuffer}
    <2>1. up' = [up EXCEPT ![k] = y] /\ log' = log \o MessagesOf(all)
      BY <1>6, <1>8 DEF RecChat, TypeOK
    <2>2. Kicked(slow, [hin EXCEPT ![k] = Rest(buf)],
                 [j \in Conns |-> IF hub[j] = "open" THEN hout[j] \o all ELSE hout[j]])
      BY <1>6, <1>8, Zenon DEF RecChat
    <2>3. slow \in SUBSET Conns /\ \A j \in slow : hub[j] = "open"
      OBVIOUS
    <2> HIDE DEF slow
    <2> QED BY <2>1, <2>2, <2>3, Zenon
  <1> QED BY <1>3, <1>4, <1>5, <1>6, <1>7, <1>9, Zenon DEF Received

(* Types of what the hub receives and sends on.                            *)
LEMMA TypeReceive ==
    ASSUME TypeOK, NEW k \in Conns, NEW n \in Nat, RecChat(k, n)
    PROVE  TypeOK'
  <1>1. PICK buf, rest, all : Received(k, buf, rest, all)
    BY RecEffect, Zenon
  <1>2. up' \in [Conns -> Seq(Pieces)]
    BY <1>1 DEF Received, TypeOK
  <1>3. log' \in Seq(Messages \cup {Junk})
    BY <1>1 DEF Received, TypeOK, All
  <1>4. PICK slow \in SUBSET Conns :
            Kicked(slow, [hin EXCEPT ![k] = Rest(buf)],
                   [j \in Conns |-> IF hub[j] = "open" THEN hout[j] \o all ELSE hout[j]])
    BY <1>1, Zenon DEF Received
  <1>5. hub' \in [Conns -> {"new", "open", "gone"}]
    BY <1>4 DEF Kicked, TypeOK
  <1>6. <<>> \in Seq(Pieces) /\ Rest(buf) \in Seq(Pieces) /\ all \in Seq(Pieces)
    BY <1>1 DEF Received
  <1>7. hin' \in [Conns -> Seq(Pieces)]
    BY <1>4, <1>6 DEF Kicked, TypeOK
  <1>8. hout' \in [Conns -> Seq(Pieces)]
    <2>1. \A j \in Conns : hout[j] \in Seq(Pieces) /\ hout[j] \o all \in Seq(Pieces)
      BY <1>6, Joined DEF TypeOK
    <2> QED BY <1>4, <1>6, <2>1 DEF Kicked
  <1> QED BY <1>2, <1>3, <1>5, <1>7, <1>8 DEF RecChat, TypeOK, client

(* Types, step by step.                                                    *)
LEMMA TypeNext == TypeOK /\ Lines /\ [Next]_vars => TypeOK'
  <1> SUFFICES ASSUME TypeOK, Lines, [Next]_vars PROVE TypeOK'
    OBVIOUS
  <1>1. CASE UNCHANGED vars
    BY <1>1 DEF vars, client, network, hubVars, history, TypeOK
  <1>2. CASE Next
    BY <1>2, Cases, TypeServer, TypeSpeak, TypeTick, TypeHub, TypeSend, TypeReceive, Zenon
  <1> QED BY <1>1, <1>2

(* Lines of a server that gets a connection.                               *)
LEMMA LinesConnect ==
    ASSUME TypeOK, Lines, NEW s \in Servers, Connect(s)
    PROVE  Lines'
  <1>1. Len(owner) \in Nat
    BY DEF TypeOK
  <1>2. /\ owner' \in Seq(Servers) /\ Len(owner') = Len(owner) + 1 /\ owner'[Len(owner')] = s
        /\ \A k \in 1..Len(owner) : owner'[k] = owner[k]
    BY <1>1 DEF Connect, TypeOK
  <1>3. \A k \in Conns : k > Len(owner') => hub'[k] = "new" /\ up'[k] = <<>> /\ k \notin broken'
    BY <1>1, <1>2 DEF Connect, Lines, Conns, hubVars
  <1>4. \A k \in Conns : hub'[k] = "new" => hin'[k] = <<>> /\ hout'[k] = <<>> /\ down'[k] = <<>>
    BY DEF Connect, Lines, hubVars
  <1>5. ASSUME NEW r \in Servers
        PROVE  IF state'[r] = "off" THEN cur'[r] = 0
               ELSE cur'[r] \in 1..Len(owner') /\ owner'[cur'[r]] = r
    <2>1. CASE r = s
      <3>1. cur'[s] = Len(owner') /\ state'[s] = "trying"
        BY DEF Connect, TypeOK
      <3> QED BY <1>1, <1>2, <2>1, <3>1
    <2>2. CASE r # s
      <3>1. cur'[r] = cur[r] /\ state'[r] = state[r]
        BY <2>2 DEF Connect, TypeOK
      <3>2. IF state[r] = "off" THEN cur[r] = 0 ELSE cur[r] \in 1..Len(owner) /\ owner[cur[r]] = r
        BY DEF Lines
      <3> QED BY <1>1, <1>2, <3>1, <3>2
    <2> QED BY <2>1, <2>2
  <1> QED BY <1>3, <1>4, <1>5 DEF Lines

(* Lines when servers close or use them.                                   *)
LEMMA LinesServer ==
    ASSUME TypeOK, Lines, NEW s \in Servers,
           \/ Connected(s) \/ ConnectFails(s)
           \/ \E m \in Messages : \/ SayAlone(s, m) \/ Say(s, m) \/ SayFails(s, m)
                                  \/ \E n \in 1..(PacketLen - 1) : SayPart(s, m, n)
    PROVE  Lines'
  <1>1. Len(owner) \in Nat
    BY DEF TypeOK
  <1>2. state[s] # "off" => cur[s] \in Conns /\ cur[s] \in 1..Len(owner)
    BY OwnLine
  <1>3. UNCHANGED <<owner, hub, hin, hout>>
    BY DEF Connected, ConnectFails, SayAlone, Say, SayFails, SayPart, hubVars, network
  <1>4. \A k \in Conns : k > Len(owner) => up'[k] = up[k] /\ (k \in broken' => k \in broken)
    <2>1. CASE state[s] = "off"
      BY <2>1 DEF Connected, ConnectFails, SayAlone, Say, SayFails, SayPart, network
    <2>2. CASE state[s] # "off"
      <3>1. \A k \in Conns : k # cur[s] => up'[k] = up[k] /\ (k \in broken' => k \in broken)
        BY DEF Connected, ConnectFails, SayAlone, Say, SayFails, SayPart, network, TypeOK
      <3> QED BY <1>1, <1>2, <2>2, <3>1
    <2> QED BY <2>1, <2>2
  <1>5. \A k \in Conns : down'[k] = down[k] \/ down'[k] = <<>>
    BY DEF Connected, ConnectFails, SayAlone, Say, SayFails, SayPart, network, TypeOK
  <1>6. \A r \in Servers : \/ state'[r] = "off" /\ cur'[r] = 0
                           \/ state'[r] = state[r] /\ cur'[r] = cur[r]
                           \/ state[r] # "off" /\ state'[r] # "off" /\ cur'[r] = cur[r]
    BY DEF Connected, ConnectFails, SayAlone, Say, SayFails, SayPart, client, TypeOK
  <1>7. \A k \in Conns : k > Len(owner') => hub'[k] = "new" /\ up'[k] = <<>> /\ k \notin broken'
    BY <1>3, <1>4 DEF Lines
  <1>8. \A k \in Conns : hub'[k] = "new" => hin'[k] = <<>> /\ hout'[k] = <<>> /\ down'[k] = <<>>
    BY <1>3, <1>5 DEF Lines
  <1>9. \A r \in Servers : IF state'[r] = "off" THEN cur'[r] = 0
                           ELSE cur'[r] \in 1..Len(owner') /\ owner'[cur'[r]] = r
    BY <1>3, <1>6 DEF Lines
  <1> QED BY <1>7, <1>8, <1>9 DEF Lines

(* Lines when a server receives.                                           *)
LEMMA LinesTick ==
    ASSUME TypeOK, Lines, NEW s \in Servers, NEW n \in Nat, TickChat(s, n)
    PROVE  Lines'
  <1>1. PICK k : k = cur[s] /\ k \in Conns
    BY OwnLine DEF TickChat
  <1>2. down' = [down EXCEPT ![k] = SubSeq(@, n + 1, Len(@))] /\ n <= Len(down[k])
    BY <1>1 DEF TickChat
  <1>3. down[k] = <<>> => SubSeq(down[k], n + 1, Len(down[k])) = <<>>
    <2> SUFFICES ASSUME down[k] = <<>> PROVE SubSeq(<<>>, n + 1, 0) = <<>>
      OBVIOUS
    <2> QED OBVIOUS
  <1>4. \A j \in Conns : down[j] = <<>> => down'[j] = <<>>
    BY <1>2, <1>3 DEF TypeOK
  <1> QED BY <1>4 DEF TickChat, Lines, hubVars

(* Lines when the hub accepts, kicks or sends, or the network breaks.      *)
LEMMA LinesHub ==
    ASSUME TypeOK, Lines, NEW k \in Conns, NEW n \in Nat,
           Accept(k) \/ RecNonsense(k) \/ KickClosed(k) \/ Break(k) \/ SendOn(k, n)
    PROVE  Lines'
  <1>1. Len(owner) \in Nat /\ UNCHANGED <<state, cur, owner>>
    BY DEF TypeOK, Accept, RecNonsense, KickClosed, Break, SendOn, client, network
  <1>2. CASE Accept(k)
    <2>1. \A j \in Conns : hub'[j] = "new" => hub[j] = "new"
      BY <1>2 DEF Accept, TypeOK
    <2>2. \A j \in Conns : j > Len(owner) => hub'[j] = hub[j]
      BY <1>1, <1>2 DEF Accept, TypeOK
    <2> QED BY <1>1, <1>2, <2>1, <2>2 DEF Accept, Lines, network
  <1>3. CASE RecNonsense(k) \/ KickClosed(k)
    <2>1. Kicked({k}, hin, hout) /\ hub[k] = "open" /\ UNCHANGED network
      BY <1>3 DEF RecNonsense, KickClosed
    <2>2. \A j \in Conns : hub[j] = "new" \/ hub'[j] = "new" =>
              hub'[j] = hub[j] /\ hin'[j] = hin[j] /\ hout'[j] = hout[j]
      BY <2>1 DEF Kicked
    <2> QED BY <1>1, <2>1, <2>2 DEF Lines, network
  <1>4. CASE Break(k)
    <2>1. \A j \in Conns : /\ up'[j] = up[j] \/ up'[j] = <<>>
                           /\ down'[j] = down[j] \/ down'[j] = <<>>
      BY <1>4 DEF Break, TypeOK
    <2>2. \A j \in Conns : j > Len(owner) => (j \in broken' => j \in broken)
      BY <1>1, <1>4 DEF Break
    <2>3. UNCHANGED <<hub, hin, hout>>
      BY <1>4 DEF Break, hubVars
    <2> QED BY <1>1, <2>1, <2>2, <2>3 DEF Lines
  <1>5. CASE SendOn(k, n)
    <2>1. \A j \in Conns : hub[j] = "new" => hout'[j] = hout[j] /\ down'[j] = down[j]
      BY <1>5 DEF SendOn, TypeOK
    <2> QED BY <1>1, <1>5, <2>1 DEF SendOn, Lines
  <1> QED BY <1>2, <1>3, <1>4, <1>5

(* Lines when the hub receives.                                            *)
LEMMA LinesReceive ==
    ASSUME TypeOK, Lines, NEW k \in Conns, NEW n \in Nat, RecChat(k, n)
    PROVE  Lines'
  <1>1. PICK buf, rest, all : Received(k, buf, rest, all)
    BY RecEffect, Zenon
  <1>2. PICK slow \in SUBSET Conns :
            /\ \A j \in slow : hub[j] = "open"
            /\ Kicked(slow, [hin EXCEPT ![k] = Rest(buf)],
                      [j \in Conns |-> IF hub[j] = "open" THEN hout[j] \o all ELSE hout[j]])
    BY <1>1, Zenon DEF Received
  <1>3. hub[k] = "open" /\ UNCHANGED <<state, cur, owner, down, broken>>
    BY DEF RecChat, client
  <1>4. \A j \in Conns : hub[j] = "new" \/ hub'[j] = "new" =>
            hub'[j] = hub[j] /\ hin'[j] = hin[j] /\ hout'[j] = hout[j]
    BY <1>2, <1>3 DEF Kicked, TypeOK
  <1>5. \A j \in Conns : j # k => up'[j] = up[j]
    BY <1>1 DEF Received, TypeOK
  <1> QED BY <1>3, <1>4, <1>5 DEF Lines

(* Lines, step by step.                                                    *)
LEMMA LinesNext == TypeOK /\ Lines /\ [Next]_vars => Lines'
  <1> SUFFICES ASSUME TypeOK, Lines, [Next]_vars PROVE Lines'
    OBVIOUS
  <1>1. CASE UNCHANGED vars
    BY <1>1 DEF vars, client, network, hubVars, history, Lines
  <1>2. CASE Next
    <2>1. ASSUME NEW k \in Conns, Accept(k) \/ RecNonsense(k) \/ KickClosed(k) \/ Break(k)
          PROVE  Lines'
      <3>1. 0 \in Nat
        OBVIOUS
      <3> QED BY <2>1, <3>1, LinesHub, Zenon
    <2> QED BY <1>2, <2>1, Cases, LinesConnect, LinesServer, LinesTick, LinesHub, LinesReceive,
               Zenon
  <1> QED BY <1>1, <1>2

(* The packets on their way to the hub are those of the messages in pend:  *)
(* messages that have been sent, each once, and that the hub has not sent  *)
(* on yet.                                                                 *)
Sent(pend) ==
    /\ pend \in [Conns -> Seq(Messages)]
    /\ \A k \in Conns : Live(k) => Behind(hin[k], up[k], Packets(pend[k]))
    /\ \A k \in Conns : \A i \in 1..Len(pend[k]) :
          pend[k][i] \in said /\ \A j \in 1..Len(log) : log[j] # pend[k][i]
    /\ \A k, l \in Conns : \A i \in 1..Len(pend[k]), j \in 1..Len(pend[l]) :
          pend[k][i] = pend[l][j] => k = l /\ i = j

(* The hub has sent on messages that have been sent, each once.            *)
Logged ==
    /\ log \in Seq(Messages)
    /\ \A i, j \in 1..Len(log) : log[i] = log[j] => i = j
    /\ \A i \in 1..Len(log) : log[i] \in said

(* Both.                                                                   *)
Carries == Logged /\ \E pend : Sent(pend)

(* At the start nothing is on its way.                                     *)
LEMMA SentInit == Init => Carries
  <1> SUFFICES ASSUME Init PROVE Carries
    OBVIOUS
  <1>1. <<>> \in Seq(Messages) /\ Len(<<>>) = 0
    OBVIOUS
  <1>2. Logged
    BY <1>1 DEF Init, Logged
  <1>3. PICK pend : pend = [k \in Conns |-> <<>>]
    OBVIOUS
  <1>4. Behind(<<>>, <<>>, Packets(<<>>))
    BY NoPackets DEF Behind
  <1>5. \A k \in Conns : pend[k] = <<>> /\ hin[k] = <<>> /\ up[k] = <<>>
    BY <1>3 DEF Init
  <1>6. Sent(pend)
    <2>1. pend \in [Conns -> Seq(Messages)]
      BY <1>1, <1>3
    <2>2. \A k \in Conns : Behind(hin[k], up[k], Packets(pend[k]))
      BY <1>4, <1>5
    <2>3. \A k \in Conns : ~\E i \in 1..Len(pend[k]) : TRUE
      BY <1>1, <1>5
    <2> QED BY <2>1, <2>2, <2>3 DEF Sent
  <1> QED BY <1>2, <1>6 DEF Carries

(* Nothing is sent, and the hub receives nothing.                          *)
LEMMA SentStays ==
    ASSUME Carries, log' = log, said \subseteq said',
           \A k \in Conns : Live(k)' => Live(k) /\ hin'[k] = hin[k] /\ up'[k] = up[k]
    PROVE  Carries'
  <1>1. PICK pend : Sent(pend)
    BY DEF Carries
  <1>2. Sent(pend)'
    <2>1. \A k \in Conns : Live(k)' => Behind(hin'[k], up'[k], Packets(pend[k]))
      BY <1>1, Zenon DEF Sent
    <2> QED BY <1>1, <2>1 DEF Sent
  <1>3. Logged'
    BY DEF Carries, Logged
  <1> QED BY <1>2, <1>3 DEF Carries

(* A message is sent.                                                      *)
LEMMA SentSay ==
    ASSUME TypeOK, Carries, NEW k \in Conns, NEW m \in Messages \ said, Live(k),
           said' = said \cup {m}, up' = [up EXCEPT ![k] = @ \o Packet(m)],
           UNCHANGED <<broken, hubVars, log>>
    PROVE  Carries'
  <1>1. PICK pend : Sent(pend)
    BY DEF Carries
  <1>2. PICK ms : ms = pend[k] /\ ms \in Seq(Messages) /\ ms \in Seq(All) /\ Len(ms) \in Nat
    BY <1>1 DEF Sent, All
  <1>3. PICK ns : /\ ns = ms \o <<m>> /\ ns \in Seq(Messages) /\ Len(ns) = Len(ms) + 1
                  /\ ns[Len(ms) + 1] = m /\ \A i \in 1..Len(ms) : ns[i] = ms[i]
    <2>1. PICK x : x = <<m>> /\ x \in Seq(Messages) /\ Len(x) = 1 /\ x[1] = m
      <3>1. <<m>> \in Seq(Messages) /\ Len(<<m>>) = 1 /\ <<m>>[1] = m
        OBVIOUS
      <3> QED BY <3>1
    <2>2. /\ ms \o x \in Seq(Messages) /\ Len(ms \o x) = Len(ms) + Len(x)
          /\ \A i \in 1..Len(ms) : (ms \o x)[i] = ms[i]
          /\ \A i \in 1..Len(x) : (ms \o x)[Len(ms) + i] = x[i]
      BY <1>2, <2>1, ConcatElements
    <2>3. PICK y : y = ms \o x
      OBVIOUS
    <2>4. y = ms \o <<m>>
      BY <2>1, <2>3
    <2>5. /\ y \in Seq(Messages) /\ Len(y) = Len(ms) + 1
          /\ y[Len(ms) + 1] = m /\ \A i \in 1..Len(ms) : y[i] = ms[i]
      BY <2>1, <2>2, <2>3
    <2> QED BY <2>4, <2>5, Zenon
  <1>4. PICK q : q = [pend EXCEPT ![k] = ns]
    OBVIOUS
  <1>5. /\ q \in [Conns -> Seq(Messages)] /\ q[k] = ns
        /\ \A j \in Conns \ {k} : q[j] = pend[j]
    BY <1>1, <1>3, <1>4 DEF Sent
  <1>6. \A j \in Conns : Live(j)' => Behind(hin'[j], up'[j], Packets(q[j]))
    <2>1. Behind(hin[k], up[k] \o Packet(m), Packets(ns))
      <3>1. Packets(ns) = Packets(ms) \o Packet(m) /\ Packet(m) \in Seq(Pieces)
        <4>1. m \in All
          BY DEF All
        <4>2. Packets(<<m>>) = Packet(m) /\ <<m>> \in Seq(All) /\ Packet(m) \in Seq(Pieces)
          BY <4>1, OnePacket
        <4> QED BY <1>2, <1>3, <4>2, PacketsConcat
      <3>2. hin[k] \o up[k] = Packets(ms)
        BY <1>1, <1>2 DEF Sent, Behind
      <3>3. (hin[k] \o up[k]) \o Packet(m) = hin[k] \o (up[k] \o Packet(m))
        <4>1. hin[k] \in Seq(Pieces) /\ up[k] \in Seq(Pieces)
          BY DEF TypeOK
        <4> QED BY <3>1, <4>1, Assoc, Zenon
      <3> QED BY <3>1, <3>2, <3>3, Zenon DEF Behind
    <2>2. \A j \in Conns : hin'[j] = hin[j] /\ (Live(j)' <=> Live(j))
      BY DEF Live, hubVars
    <2>3. up'[k] = up[k] \o Packet(m) /\ \A j \in Conns \ {k} : up'[j] = up[j]
      BY DEF TypeOK
    <2>4. \A j \in Conns : Live(j) => Behind(hin[j], up[j], Packets(pend[j]))
      BY <1>1 DEF Sent
    <2> QED BY <1>5, <2>1, <2>2, <2>3, <2>4, Zenon
  <1>7. ASSUME NEW j \in Conns, NEW i \in 1..Len(q[j])
        PROVE  \/ i \in 1..Len(pend[j]) /\ q[j][i] = pend[j][i]
               \/ j = k /\ i = Len(ms) + 1 /\ q[j][i] = m
    BY <1>2, <1>3, <1>5
  <1>8. /\ \A j \in Conns : \A i \in 1..Len(pend[j]) :
              pend[j][i] \in said /\ \A l \in 1..Len(log) : log[l] # pend[j][i]
        /\ \A j, l \in Conns : \A i \in 1..Len(pend[j]), n \in 1..Len(pend[l]) :
              pend[j][i] = pend[l][n] => j = l /\ i = n
        /\ \A l \in 1..Len(log) : log[l] \in said
    BY <1>1 DEF Sent, Carries, Logged
  <1>9. \A j \in Conns : \A i \in 1..Len(q[j]) :
            q[j][i] \in said' /\ \A l \in 1..Len(log') : log'[l] # q[j][i]
    BY <1>7, <1>8
  <1>10. \A j, l \in Conns : \A i \in 1..Len(q[j]), n \in 1..Len(q[l]) :
             q[j][i] = q[l][n] => j = l /\ i = n
    BY <1>7, <1>8, SMTT(30)
  <1>11. Sent(q)'
    BY <1>5, <1>6, <1>9, <1>10 DEF Sent
  <1>12. Logged'
    BY DEF Carries, Logged
  <1> QED BY <1>11, <1>12 DEF Carries

(* The hub receives some.                                                  *)
LEMMA SentReceived ==
    ASSUME TypeOK, Carries, NEW k \in Conns, NEW n \in Nat, RecChat(k, n)
    PROVE  /\ Carries'
           /\ \E a, buf, rest :
                 /\ a \in Seq(Messages) /\ Received(k, buf, rest, Packets(a)) /\ log' = log \o a
  <1>1. PICK pend : Sent(pend)
    BY DEF Carries
  <1>2. PICK ms : ms = pend[k] /\ ms \in Seq(Messages) /\ ms \in Seq(All) /\ Len(ms) \in Nat
    BY <1>1 DEF Sent, All
  <1>3. PICK buf, rest, all : Received(k, buf, rest, all)
    BY RecEffect, Zenon
  <1>4. Live(k) /\ UNCHANGED <<broken, said>>
    BY DEF RecChat, Live
  <1>5. Behind(buf, rest, Packets(ms)) /\ buf \in Seq(Pieces) /\ rest \in Seq(Pieces)
    <2>1. Behind(hin[k], up[k], Packets(ms))
      BY <1>1, <1>2, <1>4 DEF Sent
    <2> QED BY <1>3, <2>1 DEF Received, Behind
  <1>6. PICK c \in 0..Len(ms) :
            /\ Count(buf) = c
            /\ SubSeq(buf, 1, c * PacketLen) = Packets(SubSeq(ms, 1, c))
            /\ Rest(buf) \o rest = Packets(SubSeq(ms, c + 1, Len(ms)))
            /\ MessagesOf(SubSeq(buf, 1, c * PacketLen)) = SubSeq(ms, 1, c)
    BY <1>2, <1>5, CutAnywhere, Zenon
  <1>7. PICK a, b :
            /\ a = SubSeq(ms, 1, c) /\ b = SubSeq(ms, c + 1, Len(ms))
            /\ a \in Seq(Messages) /\ b \in Seq(Messages)
            /\ Len(a) = c /\ Len(b) = Len(ms) - c
            /\ \A i \in 1..c : a[i] = ms[i]
            /\ \A i \in 1..(Len(ms) - c) : b[i] = ms[c + i]
    <2>1. SubSeq(ms, 1, c) \in Seq(Messages) /\ Len(SubSeq(ms, 1, c)) = c
          /\ \A i \in 1..c : SubSeq(ms, 1, c)[i] = ms[i]
      BY <1>2, TwoParts
    <2>2. /\ SubSeq(ms, c + 1, Len(ms)) \in Seq(Messages)
          /\ Len(SubSeq(ms, c + 1, Len(ms))) = Len(ms) - c
          /\ \A i \in 1..(Len(ms) - c) : SubSeq(ms, c + 1, Len(ms))[i] = ms[c + i]
      BY <1>2, TwoParts
    <2> QED BY <2>1, <2>2
  <1>8. /\ all = Packets(a) /\ log' = log \o a /\ up' = [up EXCEPT ![k] = rest]
        /\ Behind(Rest(buf), rest, Packets(b))
    BY <1>3, <1>6, <1>7 DEF Received, Behind
  <1>9. PICK q : q = [pend EXCEPT ![k] = b]
    OBVIOUS
  <1>10. /\ q \in [Conns -> Seq(Messages)] /\ q[k] = b
         /\ \A j \in Conns \ {k} : q[j] = pend[j]
    BY <1>1, <1>7, <1>9 DEF Sent
  <1>11. \A j \in Conns : Live(j)' => Behind(hin'[j], up'[j], Packets(q[j]))
    <2>1. PICK slow \in SUBSET Conns :
              Kicked(slow, [hin EXCEPT ![k] = Rest(buf)],
                     [j \in Conns |-> IF hub[j] = "open" THEN hout[j] \o all ELSE hout[j]])
      BY <1>3, Zenon DEF Received
    <2>2. \A j \in Conns : Live(j)' =>
              Live(j) /\ hin'[j] = IF j = k THEN Rest(buf) ELSE hin[j]
      BY <1>4, <2>1 DEF Kicked, Live, TypeOK
    <2>3. up'[k] = rest /\ \A j \in Conns \ {k} : up'[j] = up[j]
      BY <1>8 DEF TypeOK
    <2>4. \A j \in Conns : Live(j) => Behind(hin[j], up[j], Packets(pend[j]))
      BY <1>1 DEF Sent
    <2> QED BY <1>8, <1>10, <2>2, <2>3, <2>4
  <1>12. PICK l : l = log /\ l \in Seq(Messages) /\ Len(l) \in Nat
    BY DEF Carries, Logged
  <1>13. /\ log' \in Seq(Messages) /\ Len(log') = Len(l) + c
         /\ \A i \in 1..Len(l) : log'[i] = l[i]
         /\ \A i \in 1..c : log'[Len(l) + i] = ms[i]
    <2>1. /\ l \o a \in Seq(Messages) /\ Len(l \o a) = Len(l) + Len(a)
          /\ \A i \in 1..Len(l) : (l \o a)[i] = l[i]
          /\ \A i \in 1..Len(a) : (l \o a)[Len(l) + i] = a[i]
      BY <1>7, <1>12, ConcatElements
    <2> QED BY <1>7, <1>8, <1>12, <2>1
  <1>14. ASSUME NEW i \in 1..Len(log')
         PROVE  \/ i \in 1..Len(l) /\ log'[i] = l[i]
                \/ \E x \in 1..c : i = Len(l) + x /\ log'[i] = ms[x]
    <2>1. CASE i <= Len(l)
      BY <1>12, <1>13, <2>1
    <2>2. CASE ~(i <= Len(l))
      <3>1. PICK x \in 1..c : i = Len(l) + x
        <4>1. i - Len(l) \in 1..c /\ i = Len(l) + (i - Len(l))
          BY <1>6, <1>12, <1>13, <2>2
        <4> QED BY <4>1
      <3> QED BY <1>13, <3>1
    <2> QED BY <2>1, <2>2
  <1>15. ASSUME NEW j \in Conns, NEW i \in 1..Len(q[j])
         PROVE  \/ j # k /\ i \in 1..Len(pend[j]) /\ q[j][i] = pend[j][i]
                \/ j = k /\ c + i \in 1..Len(ms) /\ q[j][i] = ms[c + i]
    <2>1. CASE j # k
      BY <1>10, <2>1
    <2>2. CASE j = k
      <3>1. i \in 1..(Len(ms) - c) /\ q[j][i] = b[i] /\ c \in Nat
        BY <1>2, <1>6, <1>7, <1>10, <2>2
      <3>2. c + i \in 1..Len(ms)
        BY <1>2, <3>1
      <3> QED BY <1>7, <2>2, <3>1, <3>2
    <2> QED BY <2>1, <2>2
  <1>16. /\ \A j \in Conns : \A i \in 1..Len(pend[j]) :
               pend[j][i] \in said /\ \A x \in 1..Len(l) : l[x] # pend[j][i]
         /\ \A j, x \in Conns : \A i \in 1..Len(pend[j]), y \in 1..Len(pend[x]) :
               pend[j][i] = pend[x][y] => j = x /\ i = y
         /\ \A x \in 1..Len(l) : l[x] \in said
         /\ \A x, y \in 1..Len(l) : l[x] = l[y] => x = y
    BY <1>1, <1>12 DEF Sent, Carries, Logged
  <1>17. \A x \in 1..c : x \in 1..Len(ms)
    BY <1>2, <1>6
  <1>18. /\ \A i, j \in 1..Len(log') : log'[i] = log'[j] => i = j
         /\ \A i \in 1..Len(log') : log'[i] \in said
    <2>1. \A x, y \in 1..c : ms[x] = ms[y] => x = y
      BY <1>2, <1>16, <1>17
    <2>2. \A x \in 1..c : ms[x] \in said /\ \A y \in 1..Len(l) : l[y] # ms[x]
      BY <1>2, <1>16, <1>17
    <2>3. \A i, j \in 1..Len(log') : log'[i] = log'[j] => i = j
      <3> SUFFICES ASSUME NEW i \in 1..Len(log'), NEW j \in 1..Len(log'), log'[i] = log'[j]
                   PROVE  i = j
        OBVIOUS
      <3>1. \/ i \in 1..Len(l) /\ log'[i] = l[i]
            \/ \E x \in 1..c : i = Len(l) + x /\ log'[i] = ms[x]
        BY <1>14
      <3>2. \/ j \in 1..Len(l) /\ log'[j] = l[j]
            \/ \E x \in 1..c : j = Len(l) + x /\ log'[j] = ms[x]
        BY <1>14
      <3> QED BY <1>16, <2>1, <2>2, <3>1, <3>2, Zenon
    <2>4. \A i \in 1..Len(log') : log'[i] \in said
      BY <1>14, <1>16, <2>2, Zenon
    <2> QED BY <2>3, <2>4
  <1>19. \A j \in Conns : \A i \in 1..Len(q[j]) :
             q[j][i] \in said /\ \A x \in 1..Len(log') : log'[x] # q[j][i]
    <2> SUFFICES ASSUME NEW j \in Conns, NEW i \in 1..Len(q[j])
                 PROVE  q[j][i] \in said /\ \A x \in 1..Len(log') : log'[x] # q[j][i]
      OBVIOUS
    <2>1. CASE j # k
      BY <1>2, <1>14, <1>15, <1>16, <1>17, <2>1
    <2>2. CASE j = k
      <3>1. PICK y \in 1..Len(ms) : y = c + i /\ q[j][i] = ms[y]
        BY <1>15, <2>2
      <3>2. \A x \in 1..c : x # y
        BY <1>2, <1>6, <3>1, <1>10, <2>2, <1>7
      <3> QED BY <1>2, <1>14, <1>16, <1>17, <3>1, <3>2
    <2> QED BY <2>1, <2>2
  <1>20. \A j, x \in Conns : \A i \in 1..Len(q[j]), y \in 1..Len(q[x]) :
             q[j][i] = q[x][y] => j = x /\ i = y
    <2> SUFFICES ASSUME NEW j \in Conns, NEW x \in Conns,
                        NEW i \in 1..Len(q[j]), NEW y \in 1..Len(q[x]), q[j][i] = q[x][y]
                 PROVE  j = x /\ i = y
      OBVIOUS
    <2>1. \/ j # k /\ i \in 1..Len(pend[j]) /\ q[j][i] = pend[j][i]
          \/ j = k /\ c + i \in 1..Len(pend[k]) /\ q[j][i] = pend[k][c + i]
      BY <1>2, <1>15
    <2>2. \/ x # k /\ y \in 1..Len(pend[x]) /\ q[x][y] = pend[x][y]
          \/ x = k /\ c + y \in 1..Len(pend[k]) /\ q[x][y] = pend[k][c + y]
      BY <1>2, <1>15
    <2>3. i \in Nat /\ y \in Nat /\ c \in Nat
      BY <1>6, <1>10
    <2>4. c + i = c + y => i = y
      BY <2>3
    <2>5. CASE j = k /\ x = k
      <3>1. c + i \in 1..Len(pend[k]) /\ c + y \in 1..Len(pend[k])
            /\ pend[k][c + i] = pend[k][c + y]
        BY <2>1, <2>2, <2>5
      <3>2. c + i = c + y
        <4>1. \A a1 \in 1..Len(pend[k]), a2 \in 1..Len(pend[k]) :
                  pend[k][a1] = pend[k][a2] => a1 = a2
          BY <1>16, Zenon
        <4> QED BY <3>1, <4>1, Zenon
      <3> QED BY <2>4, <2>5, <3>2
    <2>6. CASE j # k /\ x # k
      <3>1. i \in 1..Len(pend[j]) /\ y \in 1..Len(pend[x]) /\ pend[j][i] = pend[x][y]
        BY <2>1, <2>2, <2>6
      <3>2. \A a1 \in 1..Len(pend[j]), a2 \in 1..Len(pend[x]) :
                pend[j][a1] = pend[x][a2] => j = x /\ a1 = a2
        BY <1>16, Zenon
      <3> QED BY <3>1, <3>2, Zenon
    <2>7. CASE j = k /\ x # k
      <3>1. c + i \in 1..Len(pend[k]) /\ y \in 1..Len(pend[x]) /\ pend[k][c + i] = pend[x][y]
        BY <2>1, <2>2, <2>7
      <3> QED BY <1>16, <2>7, <3>1, Zenon
    <2>8. CASE j # k /\ x = k
      <3>1. i \in 1..Len(pend[j]) /\ c + y \in 1..Len(pend[k]) /\ pend[j][i] = pend[k][c + y]
        BY <2>1, <2>2, <2>8
      <3> QED BY <1>16, <2>8, <3>1, Zenon
    <2> QED BY <2>5, <2>6, <2>7, <2>8
  <1>21. Sent(q)'
    BY <1>4, <1>10, <1>11, <1>19, <1>20 DEF Sent
  <1>22. Carries'
    BY <1>4, <1>13, <1>18, <1>21 DEF Carries, Logged
  <1> QED BY <1>3, <1>7, <1>8, <1>22

(* The rest of a log, ...                                                  *)
LEMMA RestOf ==
    ASSUME NEW x \in Seq(Messages), NEW p \in 0..Len(x)
    PROVE  /\ SubSeq(x, p + 1, Len(x)) \in Seq(Messages)
           /\ Len(SubSeq(x, p + 1, Len(x))) = Len(x) - p
           /\ \A i \in 1..(Len(x) - p) : SubSeq(x, p + 1, Len(x))[i] = x[p + i]
  BY TwoParts

(* ... when one more has been heard, ...                                   *)
LEMMA RestLater ==
    ASSUME NEW x \in Seq(Messages), NEW p \in Nat, p + 1 <= Len(x),
           NEW r \in Seq(Messages), r = SubSeq(x, p + 1, Len(x))
    PROVE  r[1] = x[p + 1] /\ SubSeq(r, 2, Len(r)) = SubSeq(x, (p + 1) + 1, Len(x))
  <1>1. PICK l \in Nat : l = Len(x)
    OBVIOUS
  <1>2. p \in 0..Len(x) /\ p + 1 \in 0..Len(x)
    BY <1>1
  <1>3. Len(r) = l - p /\ \A i \in 1..(l - p) : r[i] = x[p + i]
    BY <1>1, <1>2, RestOf
  <1>4. PICK u : /\ u = SubSeq(x, (p + 1) + 1, Len(x)) /\ u \in Seq(Messages)
                 /\ Len(u) = l - (p + 1) /\ \A i \in 1..(l - (p + 1)) : u[i] = x[(p + 1) + i]
    <2>1. PICK n : n = p + 1 /\ n \in 0..Len(x)
      BY <1>2
    <2>2. /\ SubSeq(x, n + 1, Len(x)) \in Seq(Messages)
          /\ Len(SubSeq(x, n + 1, Len(x))) = Len(x) - n
          /\ \A i \in 1..(Len(x) - n) : SubSeq(x, n + 1, Len(x))[i] = x[n + i]
      BY <2>1, RestOf
    <2> QED BY <1>1, <2>1, <2>2
  <1>5. PICK v : /\ v = SubSeq(r, 2, Len(r)) /\ v \in Seq(Messages)
                 /\ Len(v) = Len(r) - 1 /\ \A i \in 1..(Len(r) - 1) : v[i] = r[1 + i]
    <2>1. PICK n : n = 1 /\ n \in 0..Len(r) /\ n + 1 = 2
      BY <1>1, <1>3
    <2>2. /\ SubSeq(r, n + 1, Len(r)) \in Seq(Messages)
          /\ Len(SubSeq(r, n + 1, Len(r))) = Len(r) - n
          /\ \A i \in 1..(Len(r) - n) : SubSeq(r, n + 1, Len(r))[i] = r[n + i]
      BY <2>1, RestOf
    <2> QED BY <2>1, <2>2
  <1>6. Len(v) = Len(u) /\ Len(u) \in Nat
    BY <1>1, <1>3, <1>4, <1>5
  <1>7. \A i \in 1..Len(v) : v[i] = u[i]
    <2> SUFFICES ASSUME NEW i \in 1..Len(v) PROVE v[i] = u[i]
      OBVIOUS
    <2>1. i \in Nat /\ i >= 1 /\ i <= l - (p + 1) /\ Len(r) - 1 = l - (p + 1)
      BY <1>1, <1>3, <1>4, <1>5
    <2>2. v[i] = r[1 + i] /\ u[i] = x[(p + 1) + i]
      BY <1>4, <1>5, <2>1
    <2>3. 1 + i \in 1..(l - p) /\ p + (1 + i) = (p + 1) + i
      BY <1>1, <2>1
    <2> QED BY <1>3, <2>2, <2>3
  <1>8. v = u
    BY <1>4, <1>5, <1>6, <1>7, SameSeq
  <1>9. r[1] = x[p + 1]
    BY <1>1, <1>3
  <1> QED BY <1>4, <1>5, <1>8, <1>9

(* Messages behind others.                                                 *)
Joins(x, y, z) ==
    /\ z = x \o y /\ Len(z) = Len(x) + Len(y)
    /\ \A i \in 1..Len(x) : z[i] = x[i]
    /\ \A i \in 1..Len(y) : z[Len(x) + i] = y[i]

(* There is such a sequence.                                               *)
LEMMA JoinMessages ==
    ASSUME NEW x \in Seq(Messages), NEW y \in Seq(Messages)
    PROVE  \E z : z \in Seq(Messages) /\ Joins(x, y, z)
  <1>1. PICK z : z = x \o y
    OBVIOUS
  <1>2. z \in Seq(Messages) /\ Joins(x, y, z)
    BY <1>1, ConcatElements DEF Joins
  <1> QED BY <1>2

(* ... and when the log gets longer.                                       *)
LEMMA RestLonger ==
    ASSUME NEW x \in Seq(Messages), NEW p \in 0..Len(x), NEW a \in Seq(Messages)
    PROVE  /\ SubSeq(x \o a, p + 1, Len(x \o a)) = SubSeq(x, p + 1, Len(x)) \o a
           /\ p <= Len(x \o a)
  <1>1. PICK l \in Nat, c \in Nat : l = Len(x) /\ c = Len(a) /\ p \in Nat /\ p <= l
    OBVIOUS
  <1>2. PICK y : /\ y = x \o a /\ y \in Seq(Messages) /\ Len(y) = l + c
                 /\ \A i \in 1..l : y[i] = x[i]
                 /\ \A i \in 1..c : y[l + i] = a[i]
    <2>1. /\ x \o a \in Seq(Messages) /\ Len(x \o a) = Len(x) + Len(a)
          /\ \A i \in 1..Len(x) : (x \o a)[i] = x[i]
          /\ \A i \in 1..Len(a) : (x \o a)[Len(x) + i] = a[i]
      BY ConcatElements
    <2>2. PICK y : y = x \o a
      OBVIOUS
    <2> QED BY <1>1, <2>1, <2>2
  <1>3. p \in 0..Len(y) /\ p <= Len(y)
    BY <1>1, <1>2
  <1>4. PICK r : /\ r = SubSeq(x, p + 1, Len(x)) /\ r \in Seq(Messages) /\ Len(r) = l - p
                 /\ \A i \in 1..(l - p) : r[i] = x[p + i]
    <2>1. /\ SubSeq(x, p + 1, Len(x)) \in Seq(Messages)
          /\ Len(SubSeq(x, p + 1, Len(x))) = Len(x) - p
          /\ \A i \in 1..(Len(x) - p) : SubSeq(x, p + 1, Len(x))[i] = x[p + i]
      BY RestOf, Zenon
    <2>2. PICK r : r = SubSeq(x, p + 1, Len(x))
      OBVIOUS
    <2> QED BY <1>1, <2>1, <2>2, Zenon
  <1>5. PICK u : /\ u = SubSeq(y, p + 1, Len(y)) /\ u \in Seq(Messages) /\ Len(u) = (l + c) - p
                 /\ \A i \in 1..((l + c) - p) : u[i] = y[p + i]
    <2>1. /\ SubSeq(y, p + 1, Len(y)) \in Seq(Messages)
          /\ Len(SubSeq(y, p + 1, Len(y))) = Len(y) - p
          /\ \A i \in 1..(Len(y) - p) : SubSeq(y, p + 1, Len(y))[i] = y[p + i]
      BY <1>2, <1>3, RestOf
    <2>2. PICK u : u = SubSeq(y, p + 1, Len(y))
      OBVIOUS
    <2> QED BY <1>2, <2>1, <2>2
  <1>6. PICK v : /\ v = r \o a /\ v \in Seq(Messages) /\ Len(v) = (l - p) + c
                 /\ \A i \in 1..(l - p) : v[i] = r[i]
                 /\ \A i \in 1..c : v[(l - p) + i] = a[i]
    <2>1. PICK v : v \in Seq(Messages) /\ Joins(r, a, v)
      BY <1>4, JoinMessages, Zenon
    <2>2. Len(r) = l - p /\ Len(a) = c
      BY <1>1, <1>4
    <2>3. v = r \o a
      BY <2>1 DEF Joins
    <2>4. Len(v) = Len(r) + Len(a) /\ \A i \in 1..Len(r) : v[i] = r[i]
      BY <2>1, Zenon DEF Joins
    <2>5. \A i \in 1..Len(a) : v[Len(r) + i] = a[i]
      BY <2>1, Zenon DEF Joins
    <2>6. /\ Len(v) = (l - p) + c /\ \A i \in 1..(l - p) : v[i] = r[i]
          /\ \A i \in 1..c : v[(l - p) + i] = a[i]
      BY <2>2, <2>4, <2>5, Zenon
    <2> QED BY <2>1, <2>3, <2>6, Zenon
  <1>7. Len(u) = Len(v)
    BY <1>1, <1>5, <1>6
  <1>8. \A i \in 1..Len(u) : u[i] = v[i]
    <2> SUFFICES ASSUME NEW i \in 1..Len(u) PROVE u[i] = v[i]
      OBVIOUS
    <2>1. i \in Nat /\ i >= 1 /\ i <= (l + c) - p /\ u[i] = y[p + i]
      BY <1>1, <1>5
    <2>2. CASE i <= l - p
      <3>1. i \in 1..(l - p) /\ p + i \in 1..l
        BY <1>1, <2>1, <2>2
      <3> QED BY <1>2, <1>4, <1>6, <2>1, <3>1
    <2>3. CASE ~(i <= l - p)
      <3>1. PICK j \in Nat : i = (l - p) + j /\ j \in 1..c /\ p + i = l + j
        <4>1. i - (l - p) \in Nat /\ i = (l - p) + (i - (l - p)) /\ i - (l - p) \in 1..c
              /\ p + i = l + (i - (l - p))
          BY <1>1, <2>1, <2>3
        <4> QED BY <4>1
      <3> QED BY <1>2, <1>6, <2>1, <3>1
    <2> QED BY <2>2, <2>3
  <1>9. u = v
    BY <1>5, <1>6, <1>7, <1>8, SameSeq
  <1> QED BY <1>2, <1>3, <1>4, <1>5, <1>6, <1>9

(* A server whose connection has not been accepted yet has an empty inbuf. *)
(* The others have, behind what is in their inbuf and on the way to it,    *)
(* the rest of what they have not heard yet: in the buffer of the hub, if  *)
(* that still sends.                                                       *)
Hearing(s) ==
    state[s] # "off" =>
        IF hub[cur[s]] = "new" THEN inbuf[s] = <<>>
        ELSE /\ from[s] + Len(heard[s]) <= Len(log)
             /\ \E z \in Seq(Pieces) :
                   /\ Behind(inbuf[s] \o down[cur[s]], z, Unheard(s))
                   /\ hub[cur[s]] = "open" /\ cur[s] \notin broken => z = hout[cur[s]]

(* At the start nobody has a connection.                                   *)
LEMMA HearingInit == Init => \A s \in Servers : Hearing(s)
  BY DEF Init, Hearing

(* Steps that do nothing for this server, or close its connection.         *)
LEMMA HearingStays ==
    ASSUME NEW s \in Servers, Hearing(s), log' = log,
           state'[s] = "off" \/ (state[s] # "off" /\ state'[s] # "off"),
           state'[s] # "off" =>
              /\ cur'[s] = cur[s] /\ inbuf'[s] = inbuf[s] /\ from'[s] = from[s]
              /\ heard'[s] = heard[s] /\ down'[cur[s]] = down[cur[s]]
              /\ hub'[cur[s]] = "new" <=> hub[cur[s]] = "new"
              /\ hub'[cur[s]] = "open" /\ cur[s] \notin broken' =>
                    /\ hub[cur[s]] = "open" /\ cur[s] \notin broken
                    /\ hout'[cur[s]] = hout[cur[s]]
    PROVE  Hearing(s)'
  <1> SUFFICES ASSUME state'[s] # "off" PROVE Hearing(s)'
    BY DEF Hearing
  <1>1. Unheard(s)' = Unheard(s)
    BY DEF Unheard
  <1>2. CASE hub[cur[s]] = "new"
    BY <1>2 DEF Hearing
  <1>3. CASE hub[cur[s]] # "new"
    <2>1. PICK z \in Seq(Pieces) :
              /\ Behind(inbuf[s] \o down[cur[s]], z, Unheard(s))
              /\ hub[cur[s]] = "open" /\ cur[s] \notin broken => z = hout[cur[s]]
      BY <1>3 DEF Hearing
    <2>2. /\ Behind(inbuf'[s] \o down'[cur'[s]], z, Unheard(s)')
          /\ hub'[cur'[s]] = "open" /\ cur'[s] \notin broken' => z = hout'[cur'[s]]
      BY <1>1, <2>1
    <2>3. from'[s] + Len(heard'[s]) <= Len(log') /\ hub'[cur'[s]] # "new"
      BY <1>3 DEF Hearing
    <2> QED BY <2>2, <2>3 DEF Hearing
  <1> QED BY <1>2, <1>3

(* What a server has not heard yet.                                        *)
LEMMA UnheardType ==
    ASSUME TypeOK, Carries, NEW s \in Servers, from[s] + Len(heard[s]) <= Len(log)
    PROVE  \E p, ms : /\ p = from[s] + Len(heard[s]) /\ p \in Nat /\ p \in 0..Len(log)
                      /\ ms = SubSeq(log, p + 1, Len(log)) /\ ms \in Seq(Messages)
                      /\ ms \in Seq(All) /\ Unheard(s) = Packets(ms)
                      /\ Len(ms) = Len(log) - p
  <1>1. log \in Seq(Messages) /\ Len(log) \in Nat
    BY DEF Carries, Logged
  <1>2. PICK p : p = from[s] + Len(heard[s]) /\ p \in Nat /\ p \in 0..Len(log)
    <2>1. from[s] \in Nat /\ Len(heard[s]) \in Nat
      BY DEF TypeOK
    <2> QED BY <1>1, <2>1
  <1>3. PICK ms : /\ ms = SubSeq(log, p + 1, Len(log)) /\ ms \in Seq(Messages)
                  /\ Len(ms) = Len(log) - p
    BY <1>1, <1>2, RestOf
  <1>4. Unheard(s) = Packets(ms) /\ ms \in Seq(All)
    BY <1>2, <1>3 DEF Unheard, All
  <1> QED BY <1>2, <1>3, <1>4, Zenon

(* A server takes pieces: it hears the next message, or nothing.           *)
LEMMA HearingTick ==
    ASSUME TypeOK, Lines, Carries, NEW s \in Servers, NEW n \in Nat, TickChat(s, n), Hearing(s)
    PROVE  /\ Hearing(s)' /\ cur[s] \in Conns /\ \A j \in Conns \ {cur[s]} : down'[j] = down[j]
           /\ \/ heard' = heard
              \/ /\ from[s] + Len(heard[s]) + 1 <= Len(log)
                 /\ heard' = [heard EXCEPT ![s] = Append(@, log[from[s] + Len(heard[s]) + 1])]
  <1>1. PICK k : k = cur[s] /\ k \in Conns
    BY OwnLine DEF TickChat
  <1>2. PICK d, i : d = down[k] /\ i = inbuf[s] /\ d \in Seq(Pieces) /\ i \in Seq(Pieces)
    BY <1>1 DEF TypeOK
  <1>3. /\ state[s] = "on" /\ n \in 0..Len(d) /\ (n = 0 => Len(i) >= PacketLen)
        /\ UNCHANGED <<state, cur, hub, hout, broken, log, from>>
    BY <1>1, <1>2 DEF TickChat, hubVars
  <1>4. hub[k] # "new"
    <2> SUFFICES ASSUME hub[k] = "new" PROVE FALSE
      OBVIOUS
    <2>1. i = <<>> /\ d = <<>>
      BY <1>1, <1>2, <1>3 DEF Hearing, Lines
    <2>2. Len(<<>>) = 0
      OBVIOUS
    <2> QED BY <1>3, <2>1, <2>2, PacketLenType
  <1>5. PICK x, y : x \in Seq(Pieces) /\ y \in Seq(Pieces) /\ Cut(d, n, x, y)
    BY <1>2, <1>3, CutPieces, Zenon
  <1>6. PICK b : b = i \o x /\ b \in Seq(Pieces) /\ b = inbuf[s] \o SubSeq(down[k], 1, n)
    <2>1. i \o x \in Seq(Pieces)
      BY <1>2, <1>5, Joined, Zenon
    <2>2. x = SubSeq(d, 1, n)
      BY <1>5 DEF Cut
    <2> QED BY <1>2, <2>1, <2>2
  <1>7. down' = [down EXCEPT ![k] = y] /\ Hears(s, b)
    <2>1. y = SubSeq(down[k], n + 1, Len(down[k]))
      BY <1>2, <1>5 DEF Cut
    <2> QED BY <1>1, <1>6, <2>1 DEF TickChat, TypeOK
  <1>8. down'[k] = y /\ \A j \in Conns \ {k} : down'[j] = down[j]
    BY <1>1, <1>7 DEF TypeOK
  <1>9. from[s] + Len(heard[s]) <= Len(log)
    BY <1>1, <1>3, <1>4 DEF Hearing
  <1>10. PICK z : /\ z \in Seq(Pieces) /\ Behind(i \o d, z, Unheard(s))
                  /\ hub[k] = "open" /\ k \notin broken => z = hout[k]
    BY <1>1, <1>2, <1>3, <1>4 DEF Hearing
  <1>11. PICK p, ms : /\ p = from[s] + Len(heard[s]) /\ p \in Nat /\ p \in 0..Len(log)
                      /\ ms = SubSeq(log, p + 1, Len(log)) /\ ms \in Seq(Messages)
                      /\ Unheard(s) = Packets(ms) /\ Len(ms) = Len(log) - p
    BY <1>9, UnheardType, Zenon
  <1>12. b \o y = i \o d
    <2>1. (i \o x) \o y = i \o (x \o y)
      BY <1>2, <1>5, Assoc, Zenon
    <2>2. d = x \o y
      BY <1>5 DEF Cut
    <2> QED BY <1>6, <2>1, <2>2
  <1>13. hub'[k] # "new" /\ cur'[s] = k /\ state'[s] = "on" /\
         (hub'[k] = "open" /\ k \notin broken' => z = hout'[k])
    BY <1>1, <1>3, <1>4, <1>10
  <1>14. CASE Len(b) < PacketLen
    <2>1. inbuf' = [inbuf EXCEPT ![s] = b] /\ heard' = heard
      BY <1>7, <1>14 DEF Hears
    <2>2. inbuf'[s] = b
      BY <2>1 DEF TypeOK
    <2>3. Unheard(s)' = Unheard(s)
      BY <1>3, <2>1 DEF Unheard
    <2>4. Behind(inbuf'[s] \o down'[cur'[s]], z, Unheard(s)')
      BY <1>8, <1>10, <1>12, <1>13, <2>2, <2>3
    <2>5. Hearing(s)'
      BY <1>3, <1>9, <1>10, <1>13, <2>1, <2>4 DEF Hearing
    <2> QED BY <1>1, <1>8, <2>1, <2>5
  <1>15. CASE ~(Len(b) < PacketLen)
    <2>1. PICK r : r = y \o z /\ r \in Seq(Pieces)
      BY <1>5, <1>10, Joined, Zenon
    <2>2. Behind(b, r, Packets(ms)) /\ Len(b) >= PacketLen
      <3>1. (b \o y) \o z = b \o (y \o z)
        BY <1>5, <1>6, <1>10, Assoc, Zenon
      <3>2. (b \o y) \o z = Packets(ms)
        BY <1>10, <1>11, <1>12 DEF Behind
      <3>3. Len(b) \in Nat
        <4>1. b \in Seq(Pieces)
          BY <1>6
        <4> QED BY <4>1
      <3> QED BY <1>15, <2>1, <3>1, <3>2, <3>3, PacketLenType DEF Behind
    <2>3. PICK c : c = SubSeq(b, PacketLen + 1, Len(b))
      OBVIOUS
    <2>4. /\ Len(ms) \in Nat \ {0} /\ Whole(b, 1) = ms[1] /\ c \in Seq(Pieces)
          /\ c \o r = Packets(SubSeq(ms, 2, Len(ms)))
      BY <1>6, <1>11, <2>1, <2>2, <2>3, FirstPacket, Zenon
    <2>5. Len(log) \in Nat /\ log \in Seq(Messages)
      BY DEF Carries, Logged
    <2>6. p + 1 <= Len(log)
      BY <1>11, <2>4, <2>5
    <2>7. ms[1] = log[p + 1] /\ SubSeq(ms, 2, Len(ms)) = SubSeq(log, (p + 1) + 1, Len(log))
      BY <1>11, <2>5, <2>6, RestLater
    <2>8. /\ heard' = [heard EXCEPT ![s] = Append(@, log[p + 1])]
          /\ inbuf' = [inbuf EXCEPT ![s] = c]
      BY <1>7, <1>15, <2>3, <2>4, <2>7 DEF Hears
    <2>9. inbuf'[s] = c
      BY <2>8 DEF TypeOK
    <2>10. from'[s] + Len(heard'[s]) = p + 1
      <3>1. Len(heard'[s]) = Len(heard[s]) + 1 /\ Len(heard[s]) \in Nat /\ from[s] \in Nat
        BY <2>8 DEF TypeOK
      <3> QED BY <1>3, <1>11, <3>1
    <2>11. Unheard(s)' = Packets(SubSeq(ms, 2, Len(ms)))
      BY <1>3, <2>7, <2>10 DEF Unheard
    <2>12. (c \o y) \o z = c \o (y \o z)
      BY <1>5, <1>10, <2>4, Assoc, Zenon
    <2>13. Behind(inbuf'[s] \o down'[cur'[s]], z, Unheard(s)')
      BY <1>8, <1>13, <2>1, <2>4, <2>9, <2>11, <2>12 DEF Behind
    <2>14. from'[s] + Len(heard'[s]) <= Len(log')
      BY <1>3, <2>6, <2>10
    <2>15. Hearing(s)'
      BY <1>10, <1>13, <2>13, <2>14 DEF Hearing
    <2> QED BY <1>1, <1>8, <1>11, <2>6, <2>8, <2>15
  <1> QED BY <1>14, <1>15

(* A new connection of a server with an empty inbuf.                       *)
LEMMA HearingConnect ==
    ASSUME TypeOK, Lines, NEW s \in Servers, Connect(s), ~torn', Hearing(s)
    PROVE  Hearing(s)'
  <1>1. Len(owner) \in Nat /\ MaxConns \in Nat
    BY ChatAssumption DEF TypeOK
  <1>2. Len(owner') = Len(owner) + 1
    BY DEF Connect, TypeOK
  <1>3. cur'[s] = Len(owner') /\ inbuf' = inbuf /\ hub' = hub
    BY DEF Connect, TypeOK, hubVars
  <1>4. Len(owner) < MaxConns
    BY DEF Connect
  <1>5. cur'[s] \in Conns /\ cur'[s] > Len(owner)
    BY <1>1, <1>2, <1>3, <1>4 DEF Conns
  <1>6. hub'[cur'[s]] = "new"
    BY <1>3, <1>5 DEF Lines
  <1>7. inbuf'[s] = <<>>
    BY <1>3 DEF Connect, TypeOK
  <1> QED BY <1>6, <1>7 DEF Hearing

(* The hub accepts it.                                                     *)
LEMMA HearingAccept ==
    ASSUME TypeOK, Lines, Carries, NEW k \in Conns, Accept(k), NEW s \in Servers, Hearing(s)
    PROVE  Hearing(s)'
  <1>1. UNCHANGED <<state, cur, inbuf, down, broken, hout, log>> /\ hub[k] = "new"
        /\ k \in 1..Len(owner) /\ hub' = [hub EXCEPT ![k] = "open"]
    BY DEF Accept, client, network
  <1>2. hub'[k] = "open" /\ \A j \in Conns \ {k} : hub'[j] = hub[j]
    BY <1>1 DEF TypeOK
  <1>3. CASE state[s] # "off" /\ cur[s] = k
    <2>1. owner[k] = s /\ cur[owner[k]] = k
      BY <1>3 DEF Lines
    <2>2. from'[s] = Len(log) /\ heard'[s] = <<>>
      BY <2>1 DEF Accept, TypeOK
    <2>3. inbuf[s] = <<>> /\ down[k] = <<>> /\ hout[k] = <<>>
      BY <1>1, <1>3 DEF Hearing, Lines
    <2>4. Len(log) \in Nat /\ log \in Seq(Messages)
      BY DEF Carries, Logged
    <2>5. from'[s] + Len(heard'[s]) = Len(log)
      <3>1. Len(<<>>) = 0
        OBVIOUS
      <3> QED BY <2>2, <2>4, <3>1
    <2>6. Unheard(s)' = <<>>
      <3>1. SubSeq(log, Len(log) + 1, Len(log)) = <<>>
        BY <2>4
      <3> QED BY <1>1, <2>5, <3>1, NoPackets DEF Unheard
    <2>7. Behind(inbuf'[s] \o down'[cur'[s]], <<>>, Unheard(s)') /\ <<>> \in Seq(Pieces)
      BY <1>1, <1>3, <2>3, <2>6 DEF Behind
    <2>8. hout'[cur'[s]] = <<>> /\ hub'[cur'[s]] # "new"
      BY <1>1, <1>2, <1>3, <2>3
    <2>9. from'[s] + Len(heard'[s]) <= Len(log')
      BY <1>1, <2>4, <2>5
    <2> QED BY <2>7, <2>8, <2>9 DEF Hearing
  <1>4. CASE state[s] # "off" /\ cur[s] # k
    <2>1. cur[s] \in Conns /\ owner[cur[s]] = s
      BY <1>4, OwnLine
    <2>2. from'[s] = from[s] /\ heard'[s] = heard[s]
      <3>1. CASE cur[owner[k]] = k
        <4>1. owner[k] # s
          BY <1>4, <3>1
        <4> QED BY <3>1, <4>1 DEF Accept, TypeOK
      <3>2. CASE cur[owner[k]] # k
        BY <3>2 DEF Accept
      <3> QED BY <3>1, <3>2
    <2>3. hub'[cur[s]] = hub[cur[s]]
      BY <1>2, <1>4, <2>1
    <2> QED BY <1>1, <1>4, <2>2, <2>3, HearingStays
  <1>5. CASE state[s] = "off"
    BY <1>1, <1>5 DEF Hearing
  <1> QED BY <1>3, <1>4, <1>5

(* The hub sends packets on to all: to those it kicks they are lost.       *)
LEMMA HearingReceive ==
    ASSUME TypeOK, Lines, Carries, NEW k \in Conns, NEW n \in Nat, RecChat(k, n),
           NEW s \in Servers, Hearing(s)
    PROVE  Hearing(s)'
  <1>1. UNCHANGED <<state, cur, inbuf, down, broken, from, heard>>
    BY DEF RecChat, client
  <1>2. PICK a, buf, rest :
            a \in Seq(Messages) /\ Received(k, buf, rest, Packets(a)) /\ log' = log \o a
    BY SentReceived, Zenon
  <1>3. PICK all : all = Packets(a) /\ all \in Seq(Pieces)
    BY <1>2 DEF Received
  <1>4. PICK slow \in SUBSET Conns :
            /\ \A j \in slow : hub[j] = "open"
            /\ Kicked(slow, [hin EXCEPT ![k] = Rest(buf)],
                      [j \in Conns |-> IF hub[j] = "open" THEN hout[j] \o all ELSE hout[j]])
    BY <1>2, <1>3, Zenon DEF Received
  <1>5. SUFFICES ASSUME state[s] # "off" PROVE Hearing(s)'
    BY <1>1 DEF Hearing
  <1>6. PICK j : j = cur[s] /\ j \in Conns
    BY <1>5, OwnLine
  <1>7. CASE hub[j] = "new"
    <2>1. hub'[j] = "new"
      BY <1>4, <1>6, <1>7 DEF Kicked
    <2> QED BY <1>1, <1>5, <1>6, <1>7, <2>1 DEF Hearing
  <1>8. CASE hub[j] # "new"
    <2>1. PICK z : /\ z \in Seq(Pieces) /\ Behind(inbuf[s] \o down[j], z, Unheard(s))
                   /\ hub[j] = "open" /\ j \notin broken => z = hout[j]
      BY <1>5, <1>6, <1>8 DEF Hearing
    <2>2. from[s] + Len(heard[s]) <= Len(log)
      BY <1>5, <1>6, <1>8 DEF Hearing
    <2>3. PICK p, ms : /\ p = from[s] + Len(heard[s]) /\ p \in 0..Len(log)
                       /\ ms = SubSeq(log, p + 1, Len(log)) /\ ms \in Seq(All)
                       /\ Unheard(s) = Packets(ms)
      BY <2>2, UnheardType, Zenon
    <2>4. log \in Seq(Messages)
      BY DEF Carries, Logged
    <2>5. SubSeq(log', p + 1, Len(log')) = ms \o a /\ p <= Len(log')
      BY <1>2, <2>3, <2>4, RestLonger
    <2>6. Unheard(s)' = Packets(ms) \o all
      <3>1. a \in Seq(All)
        BY <1>2 DEF All
      <3>2. Packets(ms \o a) = Packets(ms) \o Packets(a)
        BY <2>3, <3>1, PacketsConcat, Zenon
      <3>3. Unheard(s)' = Packets(SubSeq(log', p + 1, Len(log')))
        BY <1>1, <2>3 DEF Unheard
      <3> QED BY <1>3, <2>5, <3>2, <3>3
    <2>7. PICK y : y = z \o all /\ y \in Seq(Pieces)
      BY <1>3, <2>1, Joined, Zenon
    <2>8. PICK x : x = inbuf[s] \o down[j] /\ x \in Seq(Pieces)
      <3>1. inbuf[s] \in Seq(Pieces) /\ down[j] \in Seq(Pieces)
        BY <1>6 DEF TypeOK
      <3> QED BY <3>1, Joined, Zenon
    <2>9. Behind(x, y, Unheard(s)')
      <3>1. (x \o z) \o all = x \o (z \o all)
        BY <1>3, <2>1, <2>8, Assoc, Zenon
      <3>2. x \o z = Packets(ms)
        BY <2>1, <2>3, <2>8 DEF Behind
      <3> QED BY <2>6, <2>7, <3>1, <3>2 DEF Behind
    <2>10. hub'[j] # "new" /\ (hub'[j] = "open" => hub[j] = "open" /\ hout'[j] = hout[j] \o all)
      BY <1>4, <1>6, <1>8 DEF Kicked
    <2>11. hub'[cur'[s]] = "open" /\ cur'[s] \notin broken' => y = hout'[cur'[s]]
      BY <1>1, <1>6, <2>1, <2>7, <2>10
    <2>12. Behind(inbuf'[s] \o down'[cur'[s]], y, Unheard(s)')
      BY <1>1, <1>6, <2>8, <2>9
    <2>13. from'[s] + Len(heard'[s]) <= Len(log') /\ hub'[cur'[s]] # "new"
      BY <1>1, <1>6, <2>3, <2>5, <2>10
    <2> QED BY <2>7, <2>11, <2>12, <2>13 DEF Hearing
  <1> QED BY <1>7, <1>8

(* The hub's socket takes some.                                            *)
LEMMA HearingSend ==
    ASSUME TypeOK, Lines, NEW k \in Conns, NEW n \in Nat, SendOn(k, n),
           NEW s \in Servers, Hearing(s), state[s] # "off", cur[s] = k
    PROVE  Hearing(s)'
  <1>1. UNCHANGED <<state, cur, inbuf, broken, hub, from, heard, log>>
        /\ hub[k] = "open" /\ k \notin broken
    BY DEF SendOn, client, history
  <1>2. PICK o, d, i : /\ o = hout[k] /\ d = down[k] /\ i = inbuf[s] /\ o \in Seq(Pieces)
                       /\ d \in Seq(Pieces) /\ i \in Seq(Pieces)
    BY DEF TypeOK
  <1>3. n \in 0..Len(o)
    BY <1>2 DEF SendOn
  <1>4. PICK x, y : x \in Seq(Pieces) /\ y \in Seq(Pieces) /\ Cut(o, n, x, y)
    BY <1>2, <1>3, CutPieces, Zenon
  <1>5. hout'[k] = y /\ down'[k] = d \o x /\ o = x \o y
    <2>1. x = SubSeq(hout[k], 1, n) /\ y = SubSeq(hout[k], n + 1, Len(hout[k])) /\ o = x \o y
      BY <1>2, <1>4 DEF Cut
    <2> QED BY <1>2, <2>1 DEF SendOn, TypeOK
  <1>6. Behind(i \o d, o, Unheard(s)) /\ from[s] + Len(heard[s]) <= Len(log)
    BY <1>1, <1>2 DEF Hearing
  <1>7. Unheard(s)' = Unheard(s)
    BY <1>1 DEF Unheard
  <1>8. (i \o (d \o x)) \o y = (i \o d) \o (x \o y)
    <2>1. PICK e, f : /\ e = d \o x /\ e \in Seq(Pieces)
                      /\ f = x \o y /\ f \in Seq(Pieces)
      BY <1>2, <1>4, Joined, Zenon
    <2>2. (i \o e) \o y = i \o (e \o y)
      <3>1. i \in Seq(Pieces) /\ e \in Seq(Pieces) /\ y \in Seq(Pieces)
        BY <1>2, <1>4, <2>1
      <3> QED BY <3>1, Assoc, Zenon
    <2>3. (d \o x) \o y = d \o (x \o y)
      <3>1. d \in Seq(Pieces) /\ x \in Seq(Pieces) /\ y \in Seq(Pieces)
        BY <1>2, <1>4
      <3> QED BY <3>1, Assoc, Zenon
    <2>4. (i \o d) \o f = i \o (d \o f)
      <3>1. i \in Seq(Pieces) /\ d \in Seq(Pieces) /\ f \in Seq(Pieces)
        BY <1>2, <2>1
      <3> QED BY <3>1, Assoc, Zenon
    <2> QED BY <2>1, <2>2, <2>3, <2>4
  <1>9. Behind(inbuf'[s] \o down'[cur'[s]], y, Unheard(s)')
    BY <1>1, <1>2, <1>5, <1>6, <1>7, <1>8 DEF Behind
  <1> QED BY <1>1, <1>4, <1>5, <1>6, <1>9 DEF Hearing

(* The network loses what is on its way.                                   *)
LEMMA HearingBreak ==
    ASSUME TypeOK, Lines, NEW k \in Conns, Break(k),
           NEW s \in Servers, Hearing(s), state[s] # "off", cur[s] = k
    PROVE  Hearing(s)'
  <1>1. UNCHANGED <<state, cur, inbuf, hub, hout, from, heard, log>> /\ k \in broken'
        /\ down'[k] = <<>>
    BY DEF Break, client, hubVars, history, TypeOK
  <1>2. CASE hub[k] = "new"
    BY <1>1, <1>2 DEF Hearing
  <1>3. CASE hub[k] # "new"
    <2>1. PICK d, i : /\ d = down[k] /\ i = inbuf[s]
                      /\ d \in Seq(Pieces) /\ i \in Seq(Pieces)
      BY DEF TypeOK
    <2>2. PICK z : z \in Seq(Pieces) /\ Behind(i \o d, z, Unheard(s))
      BY <1>3, <2>1 DEF Hearing
    <2>3. PICK y : y = d \o z /\ y \in Seq(Pieces)
      BY <2>1, <2>2, Joined, Zenon
    <2>4. (i \o d) \o z = i \o (d \o z)
      BY <2>1, <2>2, Assoc, Zenon
    <2>5. i \o <<>> = i
      BY <2>1
    <2>6. Behind(inbuf'[s] \o down'[cur'[s]], y, Unheard(s))
      BY <1>1, <2>1, <2>2, <2>3, <2>4, <2>5 DEF Behind
    <2>7. Unheard(s)' = Unheard(s)
      BY <1>1 DEF Unheard
    <2>8. from[s] + Len(heard[s]) <= Len(log)
      BY <1>3 DEF Hearing
    <2> QED BY <1>1, <1>3, <2>3, <2>6, <2>7, <2>8 DEF Hearing
  <1> QED BY <1>2, <1>3

(* Steps of the servers.                                                   *)
LEMMA KeptByServer ==
    ASSUME TypeOK, Lines, Carries, ~torn', \A r \in Servers : Hearing(r), NEW s \in Servers,
           \/ Connect(s) \/ Connected(s) \/ ConnectFails(s)
           \/ \E m \in Messages : SayAlone(s, m) \/ Say(s, m) \/ SayFails(s, m)
    PROVE  Carries' /\ (\A r \in Servers : Hearing(r)') /\ UNCHANGED <<log, from, heard>>
  <1>1. UNCHANGED <<log, from, heard, hub, hin, hout>>
    BY DEF Connect, Connected, ConnectFails, SayAlone, Say, SayFails, history, hubVars
  <1>2. Carries'
    <2>1. ASSUME NEW m \in Messages, Say(s, m) PROVE Carries'
      <3>1. cur[s] \in Conns
        BY <2>1, OwnLine DEF Say
      <3>2. CASE Live(cur[s])
        <4>1. m \in Messages \ said /\ said' = said \cup {m} /\ UNCHANGED <<broken, hubVars, log>>
              /\ up' = [up EXCEPT ![cur[s]] = @ \o Packet(m)]
          BY <2>1, <3>2 DEF Say
        <4> QED BY <3>1, <3>2, <4>1, SentSay
      <3>3. CASE ~Live(cur[s])
        <4>1. up' = up /\ said \subseteq said' /\ UNCHANGED <<broken, hubVars, log>>
          BY <2>1, <3>1, <3>3 DEF Say, TypeOK
        <4>2. \A k \in Conns : Live(k)' => Live(k) /\ hin'[k] = hin[k] /\ up'[k] = up[k]
          BY <4>1 DEF Live, hubVars
        <4> QED BY <4>1, <4>2, SentStays
      <3> QED BY <3>2, <3>3
    <2>2. ASSUME \/ Connect(s) \/ Connected(s) \/ ConnectFails(s)
                 \/ \E m \in Messages : SayAlone(s, m) \/ SayFails(s, m)
          PROVE  Carries'
      <3>1. up' = up /\ said \subseteq said' /\ broken \subseteq broken'
        BY <2>2 DEF Connect, Connected, ConnectFails, SayAlone, SayFails, network, history
      <3>2. \A k \in Conns : Live(k)' => Live(k) /\ hin'[k] = hin[k] /\ up'[k] = up[k]
        BY <1>1, <3>1 DEF Live
      <3> QED BY <1>1, <3>1, <3>2, SentStays
    <2> QED BY <2>1, <2>2
  <1>3. ASSUME NEW r \in Servers PROVE Hearing(r)'
    <2>1. CASE Connect(s) /\ r = s
      BY <2>1, HearingConnect
    <2>2. CASE ~(Connect(s) /\ r = s)
      <3>1. state'[r] = "off" \/ (state[r] # "off" /\ state'[r] # "off" /\ cur'[r] = cur[r])
        BY <2>2 DEF Connect, Connected, ConnectFails, SayAlone, Say, SayFails, client, TypeOK
      <3>2. inbuf' = inbuf /\ broken \subseteq broken'
        BY DEF Connect, Connected, ConnectFails, SayAlone, Say, SayFails, client, network
      <3>3. state'[r] # "off" => down'[cur[r]] = down[cur[r]]
        <4> SUFFICES ASSUME state'[r] # "off" PROVE down'[cur[r]] = down[cur[r]]
          OBVIOUS
        <4>1. CASE \E m \in Messages : SayFails(s, m)
          <5>1. state[s] # "off" /\ down' = [down EXCEPT ![cur[s]] = <<>>] /\ r # s
            BY <4>1 DEF SayFails, TypeOK
          <5>2. cur[r] # cur[s] /\ cur[r] \in Conns
            BY <3>1, <5>1, OwnLine
          <5> QED BY <5>1, <5>2 DEF TypeOK
        <4>2. CASE ~\E m \in Messages : SayFails(s, m)
          BY <4>2 DEF Connect, Connected, ConnectFails, SayAlone, Say, network
        <4> QED BY <4>1, <4>2
      <3> QED BY <1>1, <3>1, <3>2, <3>3, HearingStays
    <2> QED BY <2>1, <2>2
  <1> QED BY <1>1, <1>2, <1>3

(* A server receives.                                                      *)
LEMMA KeptByTick ==
    ASSUME TypeOK, Lines, Carries, \A r \in Servers : Hearing(r),
           NEW s \in Servers, NEW n \in Nat, TickChat(s, n)
    PROVE  Carries' /\ \A r \in Servers : Hearing(r)'
  <1>1. UNCHANGED <<state, cur, owner, up, broken, hub, hin, hout, said, log, from>>
    BY DEF TickChat, hubVars
  <1>2. Carries'
    <2>1. \A k \in Conns : Live(k)' => Live(k) /\ hin'[k] = hin[k] /\ up'[k] = up[k]
      BY <1>1 DEF Live
    <2> QED BY <1>1, <2>1, SentStays
  <1>3. /\ Hearing(s)' /\ cur[s] \in Conns /\ state[s] # "off"
        /\ \A j \in Conns \ {cur[s]} : down'[j] = down[j]
    BY HearingTick DEF TickChat
  <1>4. ASSUME NEW r \in Servers \ {s} PROVE Hearing(r)'
    <2>1. inbuf'[r] = inbuf[r] /\ heard'[r] = heard[r]
      BY DEF TickChat, Hears, TypeOK
    <2>2. state[r] # "off" => down'[cur[r]] = down[cur[r]]
      BY <1>3, OwnLine
    <2> QED BY <1>1, <2>1, <2>2, HearingStays
  <1> QED BY <1>2, <1>3, <1>4

(* Steps of the hub and the network.                                       *)
LEMMA KeptByHub ==
    ASSUME TypeOK, Lines, Carries, \A r \in Servers : Hearing(r),
           NEW k \in Conns, NEW n \in Nat,
           Accept(k) \/ KickClosed(k) \/ Break(k) \/ RecChat(k, n) \/ SendOn(k, n)
    PROVE  Carries' /\ \A r \in Servers : Hearing(r)'
  <1>1. CASE RecChat(k, n)
    BY <1>1, SentReceived, HearingReceive
  <1>2. CASE Accept(k)
    <2>1. UNCHANGED <<said, log, up, broken, hin>> /\ hub[k] = "new"
          /\ hub' = [hub EXCEPT ![k] = "open"]
      BY <1>2 DEF Accept, network
    <2>2. \A j \in Conns : Live(j)' => Live(j) /\ hin'[j] = hin[j] /\ up'[j] = up[j]
      BY <2>1 DEF Live, TypeOK
    <2>3. Carries'
      BY <2>1, <2>2, SentStays
    <2> QED BY <1>2, <2>3, HearingAccept
  <1>3. CASE KickClosed(k)
    <2>1. UNCHANGED <<said, log, up, broken, state, cur, inbuf, from, heard, down>>
          /\ hub[k] = "open" /\ Kicked({k}, hin, hout)
      BY <1>3 DEF KickClosed, client, network, history
    <2>2. \A j \in Conns : /\ hub'[j] = "new" <=> hub[j] = "new"
                           /\ hub'[j] # "gone" => hub[j] # "gone" /\ hub'[j] = hub[j]
                                 /\ hin'[j] = hin[j] /\ hout'[j] = hout[j]
      BY <2>1 DEF Kicked
    <2>3. \A j \in Conns : Live(j)' => Live(j) /\ hin'[j] = hin[j] /\ up'[j] = up[j]
      BY <2>1, <2>2 DEF Live
    <2>4. Carries'
      BY <2>1, <2>3, SentStays
    <2>5. ASSUME NEW r \in Servers PROVE Hearing(r)'
      <3>1. state[r] # "off" => cur[r] \in Conns
        BY OwnLine
      <3> QED BY <2>1, <2>2, <3>1, HearingStays
    <2> QED BY <2>4, <2>5
  <1>4. CASE SendOn(k, n)
    <2>1. UNCHANGED <<said, log, up, broken, hub, hin, state, cur, inbuf, from, heard>>
          /\ \A j \in Conns \ {k} : down'[j] = down[j] /\ hout'[j] = hout[j]
      BY <1>4 DEF SendOn, client, history, TypeOK
    <2>2. \A j \in Conns : Live(j)' => Live(j) /\ hin'[j] = hin[j] /\ up'[j] = up[j]
      BY <2>1 DEF Live
    <2>3. Carries'
      BY <2>1, <2>2, SentStays
    <2>4. ASSUME NEW r \in Servers PROVE Hearing(r)'
      <3>1. CASE state[r] # "off" /\ cur[r] = k
        BY <1>4, <3>1, HearingSend
      <3>2. CASE ~(state[r] # "off" /\ cur[r] = k)
        <4>1. state[r] # "off" => cur[r] \in Conns \ {k}
          BY <3>2, OwnLine
        <4> QED BY <2>1, <4>1, HearingStays
      <3> QED BY <3>1, <3>2
    <2> QED BY <2>3, <2>4
  <1>5. CASE Break(k)
    <2>1. UNCHANGED <<said, log, hub, hin, hout, state, cur, inbuf, from, heard>>
          /\ broken' = broken \cup {k}
          /\ \A j \in Conns \ {k} : down'[j] = down[j] /\ up'[j] = up[j]
      BY <1>5 DEF Break, client, hubVars, history, TypeOK
    <2>2. \A j \in Conns : Live(j)' => Live(j) /\ hin'[j] = hin[j] /\ up'[j] = up[j]
      BY <2>1 DEF Live
    <2>3. Carries'
      BY <2>1, <2>2, SentStays
    <2>4. ASSUME NEW r \in Servers PROVE Hearing(r)'
      <3>1. CASE state[r] # "off" /\ cur[r] = k
        BY <1>5, <3>1, HearingBreak
      <3>2. CASE ~(state[r] # "off" /\ cur[r] = k)
        <4>1. state[r] # "off" => cur[r] \in Conns \ {k}
          BY <3>2, OwnLine
        <4> QED BY <2>1, <4>1, HearingStays
      <3> QED BY <3>1, <3>2
    <2> QED BY <2>3, <2>4
  <1> QED BY <1>1, <1>2, <1>3, <1>4, <1>5

(* What is promised while no stream is torn.                               *)
Untorn == ~torn => Carries /\ \A s \in Servers : Hearing(s)

(* The inductive invariant, ...                                            *)
IInv == TypeOK /\ Lines /\ Untorn

(* ... at the start, ...                                                   *)
LEMMA InitInv == Init => IInv
  BY TypeInit, LinesInit, SentInit, HearingInit DEF IInv, Untorn

(* Torn is torn.                                                           *)
LEMMA StaysTorn == TypeOK /\ [Next]_vars /\ ~torn' => ~torn
  <1> SUFFICES ASSUME TypeOK, [Next]_vars, torn PROVE torn'
    OBVIOUS
  <1>1. CASE UNCHANGED vars
    BY <1>1 DEF vars, history
  <1>2. CASE Next
    BY <1>2, Cases DEF Connect, Connected, ConnectFails, SayAlone, Say, SayFails, SayPart,
       TickChat, Accept, RecNonsense, KickClosed, Break, RecChat, SendOn, history
  <1> QED BY <1>1, <1>2

(* ... and step by step.                                                   *)
LEMMA NextInv == IInv /\ [Next]_vars => IInv'
  <1> SUFFICES ASSUME IInv, [Next]_vars PROVE IInv'
    OBVIOUS
  <1>1. TypeOK /\ Lines /\ TypeOK' /\ Lines'
    BY TypeNext, LinesNext DEF IInv
  <1>2. Untorn'
    <2> SUFFICES ASSUME ~torn' PROVE Carries' /\ \A s \in Servers : Hearing(s)'
      BY DEF Untorn
    <2>1. ~torn /\ Carries /\ \A s \in Servers : Hearing(s)
      BY <1>1, StaysTorn DEF IInv, Untorn
    <2>2. CASE UNCHANGED vars
      <3>1. \A k \in Conns : Live(k)' => Live(k) /\ hin'[k] = hin[k] /\ up'[k] = up[k]
        BY <2>2 DEF vars, hubVars, network, Live
      <3>2. Carries'
        BY <2>1, <2>2, <3>1, SentStays DEF vars, history
      <3>3. \A s \in Servers : Hearing(s)'
        BY <2>1, <2>2, HearingStays DEF vars, client, network, hubVars, history
      <3> QED BY <3>2, <3>3
    <2>3. CASE Next
      <3>1. ASSUME NEW s \in Servers, NEW m \in Messages, NEW n, SayPart(s, m, n) PROVE FALSE
        BY <3>1 DEF SayPart
      <3>2. ASSUME NEW k \in Conns, RecNonsense(k) PROVE FALSE
        BY <2>1, <3>2 DEF RecNonsense
      <3>3. ASSUME NEW k \in Conns, Accept(k) \/ KickClosed(k) \/ Break(k)
            PROVE  Carries' /\ \A s \in Servers : Hearing(s)'
        <4>1. 0 \in Nat
          OBVIOUS
        <4> QED BY <1>1, <2>1, <3>3, <4>1, KeptByHub, Zenon
      <3>4. ASSUME NEW s \in Servers,
                   \/ Connect(s) \/ Connected(s) \/ ConnectFails(s)
                   \/ \E m \in Messages : SayAlone(s, m) \/ Say(s, m) \/ SayFails(s, m)
            PROVE  Carries' /\ \A r \in Servers : Hearing(r)'
        BY <1>1, <2>1, <3>4, KeptByServer, Zenon
      <3>5. ASSUME NEW s \in Servers, NEW n \in Nat, TickChat(s, n)
            PROVE  Carries' /\ \A r \in Servers : Hearing(r)'
        BY <1>1, <2>1, <3>5, KeptByTick, Zenon
      <3>6. ASSUME NEW k \in Conns, NEW n \in Nat, RecChat(k, n) \/ SendOn(k, n)
            PROVE  Carries' /\ \A r \in Servers : Hearing(r)'
        BY <1>1, <2>1, <3>6, KeptByHub, Zenon
      <3> QED BY <2>3, Cases, <3>1, <3>2, <3>3, <3>4, <3>5, <3>6, Zenon
    <2> QED BY <2>2, <2>3
  <1> QED BY <1>1, <1>2 DEF IInv

(* A first part.                                                           *)
LEMMA PrefixOf ==
    ASSUME NEW x \in Seq(Pieces), NEW y \in Seq(Pieces), NEW w, Behind(x, y, w)
    PROVE  IsPrefix(x, w)
  <1>1. PICK z : z = x \o y /\ z = w
    BY DEF Behind
  <1>2. /\ z \in Seq(Pieces) /\ Len(x) \in Nat /\ Len(y) \in Nat /\ Len(z) = Len(x) + Len(y)
        /\ \A i \in 1..Len(x) : z[i] = x[i]
    <2>1. /\ x \o y \in Seq(Pieces) /\ Len(x) \in Nat /\ Len(y) \in Nat
          /\ Len(x \o y) = Len(x) + Len(y) /\ \A i \in 1..Len(x) : (x \o y)[i] = x[i]
      BY ConcatElements
    <2> QED BY <1>1, <2>1
  <1>3. PICK n \in 0..Len(z) : n = Len(x) /\ n \in 0..Len(x)
    BY <1>2
  <1>4. PICK a, b : a \in Seq(Pieces) /\ b \in Seq(Pieces) /\ Cut(x, n, a, b)
    BY <1>3, CutPieces, Zenon
  <1>5. PICK c, d : c \in Seq(Pieces) /\ d \in Seq(Pieces) /\ Cut(z, n, c, d)
    BY <1>2, <1>3, CutPieces, Zenon
  <1>6. a = SubSeq(x, 1, n) /\ Len(a) = n /\ \A i \in 1..n : a[i] = x[i]
    BY <1>4 DEF Cut
  <1>7. c = SubSeq(z, 1, n) /\ Len(c) = n /\ \A i \in 1..n : c[i] = z[i]
    BY <1>5 DEF Cut
  <1>8. a = c
    <2>1. Len(a) = Len(c) /\ \A i \in 1..Len(a) : a[i] = c[i]
      BY <1>2, <1>3, <1>6, <1>7
    <2> QED BY <1>4, <1>5, <2>1, SameSeq
  <1>9. Len(x) <= Len(z)
    BY <1>2
  <1> QED BY <1>1, <1>3, <1>6, <1>7, <1>8, <1>9 DEF IsPrefix

(* What the buffers hold, from what the servers will hear.                 *)
LEMMA FromHearing == IInv => ChatInv
  <1> SUFFICES ASSUME IInv, ~torn, NEW s \in Servers, state[s] = "on", hub[cur[s]] # "new"
               PROVE  IF hub[cur[s]] = "open" /\ cur[s] \notin broken
                      THEN (inbuf[s] \o down[cur[s]]) \o hout[cur[s]] = Unheard(s)
                      ELSE IsPrefix(inbuf[s] \o down[cur[s]], Unheard(s))
    BY DEF IInv, ChatInv, OnTheWay
  <1>1. PICK z \in Seq(Pieces) :
            /\ Behind(inbuf[s] \o down[cur[s]], z, Unheard(s))
            /\ hub[cur[s]] = "open" /\ cur[s] \notin broken => z = hout[cur[s]]
    BY DEF IInv, Untorn, Hearing
  <1>2. inbuf[s] \o down[cur[s]] \in Seq(Pieces)
    <2>1. cur[s] \in Conns
      BY OwnLine DEF IInv
    <2>2. inbuf[s] \in Seq(Pieces) /\ down[cur[s]] \in Seq(Pieces)
      BY <2>1 DEF IInv, TypeOK
    <2> QED BY <2>2, Joined, Zenon
  <1>3. CASE hub[cur[s]] = "open" /\ cur[s] \notin broken
    BY <1>1, <1>3 DEF Behind
  <1>4. CASE ~(hub[cur[s]] = "open" /\ cur[s] \notin broken)
    BY <1>1, <1>2, <1>4, PrefixOf, Zenon
  <1> QED BY <1>3, <1>4

(* Whatever is torn, types are correct; as long as nothing is, the buffers *)
(* of the hub, the network and the servers hold exactly what the servers   *)
(* have still to hear, in order (send_chat, tick_chat, chatserver.c).      *)
THEOREM OnTheWayInOrder == Spec => []ChatInv
  BY InitInv, NextInv, FromHearing, PTL DEF Spec

(* A step of the hub is a message that gets into the order, or none.       *)
LEMMA ReceiveIsBroadcast ==
    ASSUME TypeOK, Carries, NEW k \in Conns, NEW n \in Nat, RecChat(k, n)
    PROVE  Bus!Broadcast \/ UNCHANGED Bus!bus
  <1>1. UNCHANGED <<from, heard, torn>>
    BY DEF RecChat
  <1>2. PICK a : a \in Seq(Messages) /\ log' = log \o a
    BY SentReceived, Zenon
  <1>3. /\ log \in Seq(Messages) /\ log' \in Seq(Messages)
        /\ \A i, j \in 1..Len(log') : log'[i] = log'[j] => i = j
    BY SentReceived DEF Carries, Logged
  <1>4. /\ Len(log) \in Nat /\ Len(a) \in Nat /\ Len(log') = Len(log) + Len(a)
        /\ \A i \in 1..Len(log) : log'[i] = log[i]
    <2>1. /\ Len(log) \in Nat /\ Len(a) \in Nat /\ Len(log \o a) = Len(log) + Len(a)
          /\ \A i \in 1..Len(log) : (log \o a)[i] = log[i]
      BY <1>2, <1>3, ConcatElements
    <2> QED BY <1>2, <2>1
  <1>5. CASE Len(a) = 0
    <2>1. log' = log
      BY <1>3, <1>4, <1>5, SameSeq
    <2> QED BY <1>1, <2>1 DEF Bus!bus
  <1>6. CASE Len(a) # 0
    <2>1. Len(log') > Len(log)
      BY <1>4, <1>6
    <2> QED BY <1>1, <1>3, <1>4, <2>1 DEF Bus!Broadcast
  <1> QED BY <1>5, <1>6

(* A step of a server is that it hears a message, or none.                 *)
LEMMA TickIsHear ==
    ASSUME TypeOK, Lines, Carries, NEW s \in Servers, NEW n \in Nat, TickChat(s, n), Hearing(s)
    PROVE  Bus!Hear(s) \/ UNCHANGED Bus!bus
  <1>1. UNCHANGED <<log, from, torn>>
    BY DEF TickChat
  <1> QED BY <1>1, HearingTick DEF Bus!Hear, Bus!bus

(* Accepting a connection is tuning in.                                    *)
LEMMA AcceptIsTuneIn ==
    ASSUME TypeOK, NEW k \in Conns, Accept(k)
    PROVE  (\E s \in Servers : Bus!TuneIn(s)) \/ UNCHANGED Bus!bus
  <1>1. owner[k] \in Servers /\ UNCHANGED <<log, torn>>
    BY DEF Accept, TypeOK
  <1> QED BY <1>1 DEF Accept, Bus!TuneIn, Bus!bus

(* All others do nothing to the order.                                     *)
LEMMA StepOfBus == IInv /\ [Next]_vars => [Bus!BusNext]_Bus!bus
  <1> SUFFICES ASSUME IInv, [Next]_vars, ~torn' PROVE [Bus!BusNext]_Bus!bus
    BY DEF Bus!BusNext
  <1>1. TypeOK /\ Lines /\ ~torn /\ Carries /\ \A s \in Servers : Hearing(s)
    BY StaysTorn DEF IInv, Untorn
  <1>2. CASE UNCHANGED vars
    BY <1>2 DEF vars, history, Bus!bus
  <1>3. CASE Next
    <2>1. ASSUME NEW s \in Servers,
                 \/ Connect(s) \/ Connected(s) \/ ConnectFails(s)
                 \/ \E m \in Messages : SayAlone(s, m) \/ Say(s, m) \/ SayFails(s, m)
          PROVE  UNCHANGED Bus!bus
      <3>1. UNCHANGED <<log, from, heard>>
        BY <2>1 DEF Connect, Connected, ConnectFails, SayAlone, Say, SayFails, history
      <3>2. torn \in BOOLEAN /\ torn' \in BOOLEAN
        BY <1>1, TypeNext DEF TypeOK
      <3> QED BY <1>1, <3>1, <3>2 DEF Bus!bus
    <2>2. ASSUME NEW s \in Servers, NEW m \in Messages, NEW n, SayPart(s, m, n) PROVE FALSE
      BY <2>2 DEF SayPart
    <2>3. ASSUME NEW k \in Conns, RecNonsense(k) PROVE FALSE
      BY <1>1, <2>3 DEF RecNonsense
    <2>4. ASSUME NEW k \in Conns, NEW n, KickClosed(k) \/ Break(k) \/ SendOn(k, n)
          PROVE  UNCHANGED Bus!bus
      BY <2>4 DEF KickClosed, Break, SendOn, history, Bus!bus
    <2>5. ASSUME NEW s \in Servers, NEW n \in Nat, TickChat(s, n)
          PROVE  Bus!Hear(s) \/ UNCHANGED Bus!bus
      BY <1>1, <2>5, TickIsHear, Zenon
    <2>6. ASSUME NEW k \in Conns, NEW n \in Nat, RecChat(k, n)
          PROVE  Bus!Broadcast \/ UNCHANGED Bus!bus
      BY <1>1, <2>6, ReceiveIsBroadcast, Zenon
    <2>7. ASSUME NEW k \in Conns, Accept(k)
          PROVE  (\E s \in Servers : Bus!TuneIn(s)) \/ UNCHANGED Bus!bus
      BY <1>1, <2>7, AcceptIsTuneIn, Zenon
    <2> QED BY <1>3, Cases, <2>1, <2>2, <2>3, <2>4, <2>5, <2>6, <2>7, Zenon DEF Bus!BusNext
  <1> QED BY <1>2, <1>3

(* As long as no stream is torn, servers hear the messages that pass the   *)
(* hub in one order and each of them once, whoever is kicked, whatever     *)
(* breaks and is opened again, and whatever pieces the sockets make of the *)
(* packets.                                                                *)
THEOREM OneOrder == Spec => IsBus
  <1>1. Init => Bus!BusInit
    BY DEF Init, Bus!BusInit
  <1> QED BY <1>1, InitInv, NextInv, StepOfBus, PTL DEF Spec, IsBus, Bus!BusSpec
=============================================================================

---------------------------- MODULE World_proofs ----------------------------
(***************************************************************************)
(* Proofs about World, for any size of ch[], any map, any spots and any    *)
(* durations.                                                              *)
(***************************************************************************)
EXTENDS World, FiniteSetTheorems, SequenceTheorems, TLAPS

-----------------------------------------------------------------------------
(* The inductive invariant.                                                *)

(* Who stands goes nowhere, and who walks goes somewhere, but for the time *)
(* between the end of the walk and the reset of the action.                *)
Walking == \A c \in Used :
    /\ action[c] = "stand" => to[c] = Nowhere
    /\ action[c] = "walk" /\ ~(pc = "acted" /\ cur = c) => to[c] # Nowhere

(* Where the loop stands.                                                  *)
Loop ==
    /\ pc \in {"acted", "driver"} => cur \in Used /\ to[cur] = Nowhere
    /\ pc \in {"timer", "rest"} => nxt = NoChar
    /\ pc # "timer" => fired = 0

(* Only the killed die: who is moved while it dies stays dead.             *)
Dying == \A c \in Used : action[c] = "die" => dead[c]

(* Whose driver runs is not the next.                                      *)
Apart == pc \in {"acted", "driver"} => nxt # cur

(* Timers are in order, those called are due.                              *)
TimersInv ==
    /\ \A i, j \in 1..Len(timers) : i <= j => timers[i].left <= timers[j].left
    /\ \A i \in 1..fired : timers[i].left <= 0

(* Population without counting.                                            *)
OneOf(s) ==
    \/ Returns(s) = {} /\ \E c \in Entries : Alive(s) = {c}
    \/ Alive(s) = {} /\ \E i \in Nat : Returns(s) = {i}

EachSpot == \A s \in Spots : OneOf(s)

IInv ==
    /\ TypeOK /\ ListsInv /\ MapInv
    /\ Walking /\ Loop /\ Dying
    /\ TimersInv /\ EachSpot /\ RespawnCheckOk /\ TurnsInv /\ Apart

-----------------------------------------------------------------------------
(* Sequences.                                                              *)

(* An element in front.                                                    *)
LEMMA InFront ==
    ASSUME NEW S, NEW s \in Seq(S), NEW x \in S
    PROVE  /\ <<x>> \o s \in Seq(S) /\ Len(<<x>> \o s) = Len(s) + 1
           /\ (<<x>> \o s)[1] = x
           /\ \A i \in 1..Len(s) : (<<x>> \o s)[i + 1] = s[i]
  OBVIOUS

(* An element less.                                                        *)
LEMMA Removed ==
    ASSUME NEW S, NEW s \in Seq(S), NEW i \in 1..Len(s)
    PROVE  /\ RemoveAt(s, i) \in Seq(S) /\ Len(RemoveAt(s, i)) = Len(s) - 1
           /\ \A j \in 1..(i - 1) : RemoveAt(s, i)[j] = s[j]
           /\ \A j \in i..(Len(s) - 1) : RemoveAt(s, i)[j] = s[j + 1]
  <1> DEFINE a == SubSeq(s, 1, i - 1)
             b == SubSeq(s, i + 1, Len(s))
  <1>1. Len(s) \in Nat /\ i \in Nat /\ i >= 1 /\ i <= Len(s)
    OBVIOUS
  <1>2. /\ a \in Seq(S) /\ Len(a) = i - 1 /\ \A j \in 1..(i - 1) : a[j] = s[j]
    BY <1>1
  <1>3. /\ b \in Seq(S) /\ Len(b) = Len(s) - i
        /\ \A j \in 1..(Len(s) - i) : b[j] = s[i + j]
    BY <1>1
  <1>4. RemoveAt(s, i) = a \o b
    BY DEF RemoveAt
  <1> HIDE DEF a, b
  <1>5. /\ a \o b \in Seq(S) /\ Len(a \o b) = Len(s) - 1
        /\ \A j \in 1..(i - 1) : (a \o b)[j] = s[j]
    <2>1. /\ a \o b \in Seq(S) /\ Len(a \o b) = Len(a) + Len(b)
          /\ \A j \in 1..Len(a) : (a \o b)[j] = a[j]
      <3>1. a \in Seq(S) /\ b \in Seq(S)
        BY <1>2, <1>3
      <3> QED BY <3>1
    <2>2. Len(a) + Len(b) = Len(s) - 1
      BY <1>1, <1>2, <1>3
    <2> QED BY <1>2, <2>1, <2>2
  <1>6. ASSUME NEW j \in i..(Len(s) - 1) PROVE (a \o b)[j] = s[j + 1]
    <2> DEFINE k == j - (i - 1)
    <2>1. k \in 1..(Len(s) - i) /\ j = (i - 1) + k /\ i + k = j + 1
      BY <1>1
    <2> HIDE DEF k
    <2>2. (a \o b)[Len(a) + k] = b[k]
      BY <1>2, <1>3, <2>1, ConcatProperties
    <2> QED BY <1>2, <1>3, <2>1, <2>2
  <1> QED BY <1>4, <1>5, <1>6

(* q is s with x in place p, and the others where they were.               *)
PutInto(q, s, p, x) ==
    /\ Len(q) = Len(s) + 1 /\ q[p] = x
    /\ \A j \in 1..(p - 1) : q[j] = s[j]
    /\ \A j \in p..Len(s) : q[j + 1] = s[j]

(* An element more.                                                        *)
LEMMA Inserted ==
    ASSUME NEW S, NEW s \in Seq(S), NEW p \in 1..(Len(s) + 1), NEW x \in S
    PROVE  InsertAt(s, p, x) \in Seq(S) /\ PutInto(InsertAt(s, p, x), s, p, x)
  <1> DEFINE a == SubSeq(s, 1, p - 1)
             b == SubSeq(s, p, Len(s))
             c == <<x>> \o b
  <1>1. Len(s) \in Nat /\ p \in Nat /\ p >= 1 /\ p <= Len(s) + 1
    OBVIOUS
  <1>2. /\ a \in Seq(S) /\ Len(a) = p - 1 /\ \A j \in 1..(p - 1) : a[j] = s[j]
    BY <1>1
  <1>3. /\ b \in Seq(S) /\ Len(b) = (Len(s) + 1) - p
        /\ \A j \in 1..((Len(s) + 1) - p) : b[j] = s[p - 1 + j]
    BY <1>1
  <1>4. InsertAt(s, p, x) = a \o c
    <2>1. InsertAt(s, p, x) = (a \o <<x>>) \o b
      BY DEF InsertAt
    <2> HIDE DEF a, b
    <2>2. <<x>> \in Seq(S)
      OBVIOUS
    <2> QED BY <1>2, <1>3, <2>1, <2>2, ConcatAssociative
  <1> HIDE DEF a, b
  <1>5. /\ c \in Seq(S) /\ Len(c) = (Len(s) + 1) - p + 1 /\ c[1] = x
        /\ \A j \in 1..((Len(s) + 1) - p) : c[j + 1] = b[j]
    <2>1. /\ c \in Seq(S) /\ Len(c) = Len(b) + 1 /\ c[1] = x
          /\ \A j \in 1..Len(b) : c[j + 1] = b[j]
      BY <1>3, InFront
    <2> QED BY <1>1, <1>3, <2>1
  <1> HIDE DEF c
  <1>6. /\ a \o c \in Seq(S) /\ Len(a \o c) = Len(s) + 1
        /\ \A j \in 1..(p - 1) : (a \o c)[j] = s[j]
    <2>1. /\ a \o c \in Seq(S) /\ Len(a \o c) = Len(a) + Len(c)
          /\ \A j \in 1..Len(a) : (a \o c)[j] = a[j]
      <3>1. a \in Seq(S) /\ c \in Seq(S)
        BY <1>2, <1>5
      <3> QED BY <3>1
    <2>2. Len(a) + Len(c) = Len(s) + 1
      BY <1>1, <1>2, <1>5
    <2> QED BY <1>2, <2>1, <2>2
  <1>7. (a \o c)[p] = x
    <2>1. 1 \in 1..Len(c) /\ Len(a) + 1 = p
      BY <1>1, <1>2, <1>5
    <2>2. (a \o c)[Len(a) + 1] = c[1]
      BY <1>2, <1>5, <2>1, ConcatProperties
    <2> QED BY <1>5, <2>1, <2>2
  <1>8. ASSUME NEW j \in p..Len(s) PROVE (a \o c)[j + 1] = s[j]
    <2> DEFINE k == j - p + 1
    <2>1. /\ k \in 1..((Len(s) + 1) - p) /\ k + 1 \in 1..Len(c)
          /\ j + 1 = (p - 1) + (k + 1) /\ p - 1 + k = j
      BY <1>1, <1>5
    <2> HIDE DEF k
    <2>2. (a \o c)[Len(a) + (k + 1)] = c[k + 1]
      BY <1>2, <1>5, <2>1, ConcatProperties
    <2> QED BY <1>2, <1>3, <1>5, <2>1, <2>2
  <1>9. PutInto(a \o c, s, p, x)
    BY <1>6, <1>7, <1>8 DEF PutInto
  <1> QED BY <1>4, <1>6, <1>9

-----------------------------------------------------------------------------
(* The two lists.                                                          *)

(* Where a used entry is.                                                  *)
LEMMA PlaceOf ==
    ASSUME used \in Seq(Entries), NEW c \in Used
    PROVE  Place(c) \in 1..Len(used) /\ used[Place(c)] = c
  <1>1. \E i \in 1..Len(used) : used[i] = c
    BY DEF Used, Range
  <1> QED BY <1>1 DEF Place

LEMMA PlaceIs ==
    ASSUME used \in Seq(Entries), IsInjective(used), NEW i \in 1..Len(used)
    PROVE  Place(used[i]) = i
  <1>1. used[i] \in Used
    BY DEF Used, Range
  <1>2. Place(used[i]) \in 1..Len(used) /\ used[Place(used[i])] = used[i]
    BY <1>1, PlaceOf
  <1> QED BY <1>2 DEF IsInjective

(* An entry is in use, or it is free.                                      *)
LEMMA Lists ==
    ASSUME TypeOK, ListsInv
    PROVE  /\ used \in Seq(Entries) /\ free \in Seq(Entries)
           /\ Used \subseteq Entries /\ Len(used) \in Nat /\ Len(free) \in Nat
           /\ \A i \in 1..Len(used) : used[i] \in Used
           /\ \A i \in 1..Len(free) : free[i] \in Entries \ Used
           /\ \A c \in Entries \ Used : \E i \in 1..Len(free) : free[i] = c
           /\ \A i, j \in 1..Len(used) : used[i] = used[j] => i = j
           /\ \A i, j \in 1..Len(free) : free[i] = free[j] => i = j
           /\ NoChar \notin Entries
  <1>1. /\ used \in Seq(Entries) /\ free \in Seq(Entries)
        /\ DOMAIN used = 1..Len(used) /\ DOMAIN free = 1..Len(free)
        /\ Len(used) \in Nat /\ Len(free) \in Nat
    BY DEF TypeOK
  <1>2. /\ \A i \in 1..Len(used) : used[i] \in Used
        /\ \A i \in 1..Len(free) : free[i] \in Range(free)
        /\ \A c \in Range(free) : \E i \in 1..Len(free) : free[i] = c
    BY <1>1 DEF Used, Range
  <1>3. Used \cap Range(free) = {} /\ Used \cup Range(free) = Entries
    BY DEF ListsInv
  <1>4. /\ \A i, j \in 1..Len(used) : used[i] = used[j] => i = j
        /\ \A i, j \in 1..Len(free) : free[i] = free[j] => i = j
    BY <1>1 DEF ListsInv, IsInjective
  <1>5. NoChar \notin Entries
    BY DEF NoChar, Entries
  <1> HIDE DEF Used
  <1> QED BY <1>1, <1>2, <1>3, <1>4, <1>5

(* What the lists are after a step.                                        *)
LEMMA ListsNext ==
    ASSUME used' \in Seq(Entries), free' \in Seq(Entries), NEW U, U \subseteq Entries,
           \A i \in 1..Len(used') : used'[i] \in U,
           \A c \in U : \E i \in 1..Len(used') : used'[i] = c,
           \A i \in 1..Len(free') : free'[i] \in Entries \ U,
           \A c \in Entries \ U : \E i \in 1..Len(free') : free'[i] = c,
           \A i, j \in 1..Len(used') : used'[i] = used'[j] => i = j,
           \A i, j \in 1..Len(free') : free'[i] = free'[j] => i = j
    PROVE  ListsInv' /\ Used' = U
  <1>1. DOMAIN used' = 1..Len(used') /\ DOMAIN free' = 1..Len(free')
    OBVIOUS
  <1>2. Used' = U
    BY <1>1 DEF Used, Range
  <1>3. Range(free)' = Entries \ U
    BY <1>1 DEF Range
  <1> QED BY <1>1, <1>2, <1>3 DEF ListsInv, IsInjective

(* alloc_char takes an entry that was free.                                *)
LEMMA AllocLists ==
    ASSUME TypeOK, ListsInv, NEW k, NEW t, AllocChar(k, t)
    PROVE  /\ ListsInv' /\ Used' = Used \cup {Fresh} /\ Fresh \in Entries \ Used
           /\ used' \in Seq(Entries) /\ free' \in Seq(Entries)
           /\ Len(used') = Len(used) + 1 /\ used'[1] = Fresh
           /\ \A i \in 1..Len(used) : used'[i + 1] = used[i]
  <1>1. free # <<>> /\ used' = <<Fresh>> \o used /\ free' = Tail(free)
    BY DEF AllocChar
  <1>2. /\ Fresh = free[1] /\ 1 \in 1..Len(free) /\ Len(free) \in Nat /\ Len(used) \in Nat
    BY <1>1, Lists DEF Fresh
  <1>3. Fresh \in Entries \ Used
    BY <1>2, Lists
  <1>4. /\ used' \in Seq(Entries) /\ Len(used') = Len(used) + 1 /\ used'[1] = Fresh
        /\ \A i \in 1..Len(used) : used'[i + 1] = used[i]
    BY <1>1, <1>3, InFront, Lists
  <1>5. /\ free' \in Seq(Entries) /\ Len(free') = Len(free) - 1
        /\ \A i \in 1..(Len(free) - 1) : free'[i] = free[i + 1]
    BY <1>1, <1>2, Lists
  <1> DEFINE U == Used \cup {Fresh}
  <1>6. U \subseteq Entries
    BY <1>3, Lists
  <1>7. ASSUME NEW i \in 1..Len(used')
        PROVE  i = 1 \/ (i - 1 \in 1..Len(used) /\ used'[i] = used[i - 1])
    <2>1. i # 1 => i - 1 \in 1..Len(used) /\ (i - 1) + 1 = i
      BY <1>2, <1>4
    <2> QED BY <1>4, <2>1
  <1>8. \A i \in 1..Len(used') : used'[i] \in U
    BY <1>4, <1>7, Lists
  <1>9. ASSUME NEW c \in U PROVE \E i \in 1..Len(used') : used'[i] = c
    <2>1. CASE c = Fresh
      BY <1>2, <1>4, <2>1
    <2>2. CASE c \in Used
      <3>1. Place(c) \in 1..Len(used) /\ used[Place(c)] = c
        BY <2>2, PlaceOf, Lists
      <3>2. Place(c) + 1 \in 1..Len(used')
        BY <1>2, <1>4, <3>1
      <3> QED BY <1>4, <3>1, <3>2
    <2> QED BY <2>1, <2>2
  <1>10. ASSUME NEW i \in 1..Len(free') PROVE free'[i] \in Entries \ U
    <2>1. i + 1 \in 1..Len(free) /\ i + 1 # 1 /\ free'[i] = free[i + 1]
      BY <1>2, <1>5
    <2>2. free[i + 1] # Fresh
      BY <1>2, <2>1, Lists
    <2> QED BY <2>1, <2>2, Lists
  <1>11. ASSUME NEW c \in Entries \ U PROVE \E i \in 1..Len(free') : free'[i] = c
    <2>1. PICK j \in 1..Len(free) : free[j] = c
      BY Lists
    <2>2. j # 1
      BY <1>2, <2>1
    <2>3. j - 1 \in 1..Len(free') /\ (j - 1) + 1 = j
      BY <1>2, <1>5, <2>2
    <2>4. free'[j - 1] = c
      BY <1>5, <2>1, <2>3
    <2> QED BY <2>3, <2>4
  <1>12. ASSUME NEW i \in 1..Len(used'), NEW j \in 1..Len(used'), used'[i] = used'[j]
         PROVE  i = j
    <2>1. CASE i = 1 \/ j = 1
      <3>1. \A h \in 1..Len(used') : h # 1 => used'[h] \in Used
        BY <1>7, Lists
      <3> QED BY <1>3, <1>4, <1>12, <2>1, <3>1
    <2>2. CASE i # 1 /\ j # 1
      <3>1. /\ i - 1 \in 1..Len(used) /\ used'[i] = used[i - 1]
            /\ j - 1 \in 1..Len(used) /\ used'[j] = used[j - 1]
        BY <1>7, <2>2
      <3>2. i - 1 = j - 1
        BY <1>12, <3>1, Lists
      <3> QED BY <3>2
    <2> QED BY <2>1, <2>2
  <1>13. ASSUME NEW i \in 1..Len(free'), NEW j \in 1..Len(free'), free'[i] = free'[j]
         PROVE  i = j
    <2>1. /\ i + 1 \in 1..Len(free) /\ free'[i] = free[i + 1]
          /\ j + 1 \in 1..Len(free) /\ free'[j] = free[j + 1]
      BY <1>2, <1>5
    <2>2. i + 1 = j + 1
      BY <1>13, <2>1, Lists
    <2> QED BY <2>2
  <1> HIDE DEF U
  <1>14. ListsInv' /\ Used' = U
    BY <1>4, <1>5, <1>6, <1>8, <1>9, <1>10, <1>11, <1>12, <1>13, ListsNext
  <1> QED BY <1>3, <1>4, <1>5, <1>14 DEF U

(* free_char takes an entry out of the one list and into the other.        *)
LEMMA FreeLists ==
    ASSUME TypeOK, ListsInv, NEW c \in Used, FreeChar(c)
    PROVE  /\ ListsInv' /\ Used' = Used \ {c}
           /\ used' \in Seq(Entries) /\ free' \in Seq(Entries)
           /\ Len(used') = Len(used) - 1
           /\ \A j \in 1..(Place(c) - 1) : used'[j] = used[j]
           /\ \A j \in Place(c)..(Len(used) - 1) : used'[j] = used[j + 1]
  <1>1. used' = RemoveAt(used, Place(c)) /\ free' = <<c>> \o free
    BY DEF FreeChar, Without
  <1>2. PICK p \in 1..Len(used) : p = Place(c) /\ used[p] = c
    BY PlaceOf, Lists
  <1>3. /\ used' \in Seq(Entries) /\ Len(used') = Len(used) - 1
        /\ \A j \in 1..(p - 1) : used'[j] = used[j]
        /\ \A j \in p..(Len(used) - 1) : used'[j] = used[j + 1]
    <2>1. used \in Seq(Entries) /\ used' = RemoveAt(used, p)
      BY <1>1, <1>2, Lists
    <2> QED BY <2>1, Removed
  <1>4. /\ free' \in Seq(Entries) /\ Len(free') = Len(free) + 1 /\ free'[1] = c
        /\ \A i \in 1..Len(free) : free'[i + 1] = free[i]
    BY <1>1, InFront, Lists
  <1>5. Len(used) \in Nat /\ Len(free) \in Nat /\ p \in Nat /\ c \in Entries
    BY Lists
  <1> DEFINE U == Used \ {c}
             old(j) == IF j < p THEN j ELSE j + 1
  <1>6. ASSUME NEW j \in 1..Len(used')
        PROVE  old(j) \in 1..Len(used) /\ old(j) # p /\ used'[j] = used[old(j)]
    BY <1>3, <1>5
  <1>7. ASSUME NEW i \in 1..Len(used), i # p
        PROVE  \E j \in 1..Len(used') : used'[j] = used[i]
    <2>1. CASE i < p
      BY <1>3, <1>5, <2>1
    <2>2. CASE i > p
      <3>1. i - 1 \in p..(Len(used) - 1) /\ i - 1 \in 1..Len(used') /\ (i - 1) + 1 = i
        BY <1>3, <1>5, <2>2
      <3>2. used'[i - 1] = used[i]
        BY <1>3, <3>1
      <3> QED BY <3>1, <3>2
    <2> QED BY <1>5, <1>7, <2>1, <2>2
  <1>8. U \subseteq Entries
    BY Lists
  <1>9. ASSUME NEW j \in 1..Len(used') PROVE used'[j] \in U
    <2>1. old(j) \in 1..Len(used) /\ old(j) # p /\ used'[j] = used[old(j)]
      BY <1>6
    <2> HIDE DEF old
    <2>2. used[old(j)] # c
      BY <1>2, <2>1, Lists
    <2> QED BY <2>1, <2>2, Lists
  <1>10. ASSUME NEW d \in U PROVE \E j \in 1..Len(used') : used'[j] = d
    <2>1. Place(d) \in 1..Len(used) /\ used[Place(d)] = d
      BY PlaceOf, Lists
    <2>2. Place(d) # p
      BY <1>2, <2>1
    <2> QED BY <1>7, <2>1, <2>2
  <1>11. ASSUME NEW i \in 1..Len(free')
         PROVE  i = 1 \/ (i - 1 \in 1..Len(free) /\ free'[i] = free[i - 1])
    <2>1. i # 1 => i - 1 \in 1..Len(free) /\ (i - 1) + 1 = i
      BY <1>4, <1>5
    <2> QED BY <1>4, <2>1
  <1>12. ASSUME NEW i \in 1..Len(free') PROVE free'[i] \in Entries \ U
    BY <1>4, <1>5, <1>11, Lists
  <1>13. ASSUME NEW d \in Entries \ U PROVE \E i \in 1..Len(free') : free'[i] = d
    <2>1. CASE d = c
      BY <1>4, <1>5, <2>1
    <2>2. CASE d # c
      <3>1. PICK i \in 1..Len(free) : free[i] = d
        BY <2>2, Lists
      <3>2. i + 1 \in 1..Len(free')
        BY <1>4, <1>5
      <3> QED BY <1>4, <3>1, <3>2
    <2> QED BY <2>1, <2>2
  <1>14. ASSUME NEW i \in 1..Len(used'), NEW j \in 1..Len(used'), used'[i] = used'[j]
         PROVE  i = j
    <2>1. /\ old(i) \in 1..Len(used) /\ used'[i] = used[old(i)]
          /\ old(j) \in 1..Len(used) /\ used'[j] = used[old(j)]
      BY <1>6
    <2>2. old(i) = old(j)
      <3> HIDE DEF old
      <3> QED BY <1>14, <2>1, Lists
    <2> QED BY <1>5, <2>2
  <1>15. ASSUME NEW i \in 1..Len(free'), NEW j \in 1..Len(free'), free'[i] = free'[j]
         PROVE  i = j
    <2>1. CASE i = 1 \/ j = 1
      <3>1. \A h \in 1..Len(free') : h # 1 => free'[h] \notin Used
        BY <1>11, Lists
      <3> QED BY <1>4, <1>15, <2>1, <3>1
    <2>2. CASE i # 1 /\ j # 1
      <3>1. /\ i - 1 \in 1..Len(free) /\ free'[i] = free[i - 1]
            /\ j - 1 \in 1..Len(free) /\ free'[j] = free[j - 1]
        BY <1>11, <2>2
      <3>2. i - 1 = j - 1
        BY <1>15, <3>1, Lists
      <3> QED BY <3>2
    <2> QED BY <2>1, <2>2
  <1> HIDE DEF U, old
  <1>16. ListsInv' /\ Used' = U
    BY <1>3, <1>4, <1>8, <1>9, <1>10, <1>12, <1>13, <1>14, <1>15, ListsNext
  <1> QED BY <1>2, <1>3, <1>4, <1>16 DEF U

-----------------------------------------------------------------------------
(* Types.                                                                  *)

DataTypes ==
    /\ used \in Seq(Entries) /\ free \in Seq(Entries)
    /\ kind \in [Entries -> Kinds] /\ dead \in [Entries -> BOOLEAN]
    /\ serial \in [Entries -> Nat]
    /\ action \in [Entries -> Actions] /\ left \in [Entries -> Nat]
    /\ at \in [Entries -> Tiles \cup {Nowhere}]
    /\ to \in [Entries -> Tiles \cup {Nowhere}]
    /\ on \in [Tiles -> Entries \cup {NoChar}] /\ block \subseteq Tiles

TimerTypes ==
    /\ timers \in Seq([left : Int, spot : Spots])
    /\ fired \in 0..Len(timers)
    /\ known \in [Spots -> [cn : Entries \cup {NoChar}, serial : Nat]]

LoopTypes ==
    /\ pc \in {"timer", "char", "acted", "driver", "rest"}
    /\ cur \in Entries \cup {NoChar} /\ nxt \in Entries \cup {NoChar}
    /\ waiting \subseteq Entries /\ upset \in BOOLEAN

LEMMA TypeParts == TypeOK <=> DataTypes /\ TimerTypes /\ LoopTypes
  BY DEF TypeOK, DataTypes, TimerTypes, LoopTypes

LEMMA TypePartsNext ==
    ASSUME DataTypes', TimerTypes', LoopTypes' PROVE TypeOK'
  BY DEF TypeOK, DataTypes, TimerTypes, LoopTypes

(* There is always a serial number that nobody holds.                      *)
LEMMA SerialType ==
    ASSUME TypeOK, NEW c
    PROVE  NewSerial(c) \in Nat
  <1> DEFINE K == {s \in Spots : known[s].cn = c}
             n == Cardinality(Held(c)) + 1
  <1>1. IsFiniteSet(K)
    BY WorldAssumption, FS_Subset
  <1>2. IsFiniteSet(Held(c))
    <2> DEFINE g == [s \in K |-> known[s].serial]
    <2>1. /\ \A h \in Held(c) : \E s \in K : g[s] = h
          /\ g \in [K -> Held(c)]
      BY DEF Held
    <2>2. g \in Surjection(K, Held(c))
      BY <2>1 DEF Surjection
    <2> HIDE DEF g, K
    <2> QED BY <1>1, <2>2, FS_Surjection
  <1>3. Cardinality(Held(c)) \in Nat
    BY <1>2, FS_CardinalityType
  <1>4. \E m \in 1..n : m \notin Held(c)
    <2> SUFFICES ASSUME 1..n \subseteq Held(c) PROVE FALSE
      OBVIOUS
    <2>1. Cardinality(1..n) <= Cardinality(Held(c))
      BY <1>2, FS_Subset
    <2>2. Cardinality(1..n) = n
      <3>1. 1 \in Int /\ n \in Int /\ 1 <= n /\ n - 1 + 1 = n
        BY <1>3
      <3> HIDE DEF n
      <3> QED BY <3>1, FS_Interval
    <2> QED BY <1>3, <2>1, <2>2
  <1>5. NewSerial(c) \in 1..n
    BY <1>4 DEF NewSerial
  <1> QED BY <1>3, <1>5

LEMMA AllocTypes ==
    ASSUME TypeOK, ListsInv, NEW k \in Kinds, NEW t \in Tiles, AllocChar(k, t)
    PROVE  DataTypes'
  <1>1. Fresh \in Entries /\ used' \in Seq(Entries) /\ free' \in Seq(Entries)
    BY AllocLists
  <1>2. NewSerial(Fresh) \in Nat
    BY SerialType
  <1>3. /\ kind' = [kind EXCEPT ![Fresh] = k]
        /\ dead' = [dead EXCEPT ![Fresh] = FALSE]
        /\ serial' = [serial EXCEPT ![Fresh] = NewSerial(Fresh)]
        /\ action' = [action EXCEPT ![Fresh] = "stand"]
        /\ left' = [left EXCEPT ![Fresh] = 0]
        /\ at' = [at EXCEPT ![Fresh] = t] /\ to' = [to EXCEPT ![Fresh] = Nowhere]
        /\ on' = [on EXCEPT ![t] = Fresh] /\ block' = block \cup {t}
    BY DEF AllocChar
  <1>4. DataTypes
    BY TypeParts
  <1> HIDE DEF Fresh
  <1>5. /\ kind' \in [Entries -> Kinds] /\ dead' \in [Entries -> BOOLEAN]
        /\ serial' \in [Entries -> Nat]
    BY <1>1, <1>2, <1>3, <1>4 DEF DataTypes
  <1>6. action' \in [Entries -> Actions] /\ left' \in [Entries -> Nat]
    BY <1>1, <1>3, <1>4 DEF DataTypes, Actions
  <1>7. /\ at' \in [Entries -> Tiles \cup {Nowhere}]
        /\ to' \in [Entries -> Tiles \cup {Nowhere}]
        /\ on' \in [Tiles -> Entries \cup {NoChar}] /\ block' \subseteq Tiles
    BY <1>1, <1>3, <1>4 DEF DataTypes
  <1> QED BY <1>1, <1>5, <1>6, <1>7 DEF DataTypes

LEMMA FreeTypes ==
    ASSUME TypeOK, ListsInv, NEW c \in Used, FreeChar(c)
    PROVE  DataTypes' /\ waiting' \subseteq Entries
  <1>1. c \in Entries /\ used' \in Seq(Entries) /\ free' \in Seq(Entries)
    BY FreeLists, Lists
  <1>2. /\ kind' = [kind EXCEPT ![c] = "spawned"] /\ dead' = [dead EXCEPT ![c] = FALSE]
        /\ serial' = [serial EXCEPT ![c] = 0]
        /\ action' = [action EXCEPT ![c] = "stand"] /\ left' = [left EXCEPT ![c] = 0]
        /\ at' = [at EXCEPT ![c] = Nowhere] /\ to' = [to EXCEPT ![c] = Nowhere]
        /\ on' = [t \in Tiles |-> IF t = at[c] THEN NoChar ELSE on[t]]
        /\ block' = block \ {at[c], to[c]}
        /\ waiting' = waiting \ {c}
    BY DEF FreeChar
  <1>3. DataTypes /\ LoopTypes
    BY TypeParts
  <1>4. /\ kind' \in [Entries -> Kinds] /\ dead' \in [Entries -> BOOLEAN]
        /\ serial' \in [Entries -> Nat]
    BY <1>2, <1>3 DEF DataTypes, Kinds
  <1>5. action' \in [Entries -> Actions] /\ left' \in [Entries -> Nat]
    BY <1>2, <1>3 DEF DataTypes, Actions
  <1>6. /\ at' \in [Entries -> Tiles \cup {Nowhere}]
        /\ to' \in [Entries -> Tiles \cup {Nowhere}]
        /\ on' \in [Tiles -> Entries \cup {NoChar}] /\ block' \subseteq Tiles
    BY <1>2, <1>3 DEF DataTypes
  <1>7. waiting' \subseteq Entries
    BY <1>2, <1>3 DEF LoopTypes
  <1> QED BY <1>1, <1>4, <1>5, <1>6, <1>7 DEF DataTypes

(* set_timer keeps the others in their order.                              *)
LEMMA SetTimerTypes ==
    ASSUME TypeOK, NEW t \in [left : Int, spot : Spots],
           NEW called \in 0..Len(timers), SetTimer(t, called)
    PROVE  /\ timers' \in Seq([left : Int, spot : Spots])
           /\ fired' \in 0..Len(timers')
  <1>1. timers \in Seq([left : Int, spot : Spots]) /\ Len(timers) \in Nat
    BY DEF TypeOK
  <1>2. PICK p \in 1..(Len(timers) + 1) :
            /\ timers' = InsertAt(timers, p, t)
            /\ fired' = IF p <= called THEN called + 1 ELSE called
    BY DEF SetTimer
  <1>3. timers' \in Seq([left : Int, spot : Spots]) /\ Len(timers') = Len(timers) + 1
    <2> DEFINE T == [left : Int, spot : Spots]
    <2> HIDE DEF T
    <2>1. timers \in Seq(T) /\ t \in T
      BY <1>1 DEF T
    <2>2. timers' \in Seq(T) /\ Len(timers') = Len(timers) + 1
      <3>1. InsertAt(timers, p, t) \in Seq(T) /\ PutInto(InsertAt(timers, p, t), timers, p, t)
        BY <2>1, Inserted
      <3>2. timers' = InsertAt(timers, p, t)
        BY <1>2, Zenon
      <3> QED BY <3>1, <3>2, Zenon DEF PutInto
    <2> QED BY <2>2 DEF T
  <1> QED BY <1>1, <1>2, <1>3

LEMMA KillTypes ==
    ASSUME TypeOK, NEW c \in Entries, NEW called \in 0..Len(timers), KillChar(c, called),
           UNCHANGED <<used, free, kind, serial, at, to, on, block>>
    PROVE  DataTypes' /\ TimerTypes'
  <1>1. DataTypes /\ TimerTypes
    BY TypeParts
  <1>2. /\ dead' = [dead EXCEPT ![c] = TRUE]
        /\ action' = [action EXCEPT ![c] = "die"] /\ left' = [left EXCEPT ![c] = DieTicks]
    BY DEF KillChar
  <1>3. /\ dead' \in [Entries -> BOOLEAN]
        /\ action' \in [Entries -> Actions] /\ left' \in [Entries -> Nat]
    BY <1>1, <1>2, WorldAssumption DEF DataTypes, Actions
  <1>4. DataTypes'
    BY <1>1, <1>3 DEF DataTypes
  <1>5. CASE kind[c] \in Spots
    <2>1. /\ known' = [known EXCEPT ![kind[c]] = NoOne]
          /\ SetTimer(RespawnTimer(kind[c], RespawnTicks), called)
      BY <1>5 DEF KillChar
    <2>2. RespawnTimer(kind[c], RespawnTicks) \in [left : Int, spot : Spots]
      BY <1>5, WorldAssumption DEF RespawnTimer
    <2>3. /\ timers' \in Seq([left : Int, spot : Spots]) /\ fired' \in 0..Len(timers')
      BY <2>1, <2>2, SetTimerTypes
    <2>4. known' \in [Spots -> [cn : Entries \cup {NoChar}, serial : Nat]]
      BY <1>1, <1>5, <2>1 DEF TimerTypes, NoOne
    <2> QED BY <1>4, <2>3, <2>4 DEF TimerTypes
  <1>6. CASE kind[c] \notin Spots
    <2>1. fired' = called /\ known' = known /\ timers' = timers
      BY <1>6 DEF KillChar
    <2> QED BY <1>1, <1>4, <2>1 DEF TimerTypes
  <1> QED BY <1>5, <1>6

(* Whoever is moved is on the map again.                                   *)
LEMMA PutTypes ==
    ASSUME TypeOK, NEW c \in Entries, NEW t \in Tiles, PutChar(c, t)
    PROVE  /\ action' \in [Entries -> Actions] /\ left' \in [Entries -> Nat]
           /\ at' \in [Entries -> Tiles \cup {Nowhere}]
           /\ to' \in [Entries -> Tiles \cup {Nowhere}]
           /\ on' \in [Tiles -> Entries \cup {NoChar}] /\ block' \subseteq Tiles
  <1>1. DataTypes
    BY TypeParts
  <1>2. /\ action' = [action EXCEPT ![c] = "stand"] /\ left' = [left EXCEPT ![c] = 0]
        /\ at' = [at EXCEPT ![c] = t] /\ to' = [to EXCEPT ![c] = Nowhere]
        /\ on' = [on EXCEPT ![at[c]] = NoChar, ![t] = c]
        /\ block' = (block \ {at[c], to[c]}) \cup {t}
    BY DEF PutChar
  <1>3. action' \in [Entries -> Actions] /\ left' \in [Entries -> Nat]
    BY <1>1, <1>2 DEF DataTypes, Actions
  <1>4. /\ at' \in [Entries -> Tiles \cup {Nowhere}]
        /\ to' \in [Entries -> Tiles \cup {Nowhere}]
        /\ on' \in [Tiles -> Entries \cup {NoChar}] /\ block' \subseteq Tiles
    BY <1>1, <1>2 DEF DataTypes
  <1> QED BY <1>3, <1>4

LEMMA ExchangeTypes ==
    ASSUME IInv, NEW c \in Used, NEW d \in Used, Exchange(c, d)
    PROVE  /\ at' \in [Entries -> Tiles \cup {Nowhere}]
           /\ to' \in [Entries -> Tiles \cup {Nowhere}]
           /\ on' \in [Tiles -> Entries \cup {NoChar}] /\ block' \subseteq Tiles
  <1>1. DataTypes /\ c \in Entries /\ d \in Entries
    BY TypeParts, Lists DEF IInv
  <1>2. at[c] \in Tiles /\ at[d] \in Tiles
    BY <1>1 DEF IInv, MapInv, DataTypes
  <1>3. /\ at' = [at EXCEPT ![c] = at[d], ![d] = at[c]]
        /\ to' = [to EXCEPT ![c] = Nowhere, ![d] = Nowhere]
        /\ on' = [on EXCEPT ![at[c]] = d, ![at[d]] = c]
        /\ block' = (block \ {to[c], to[d]}) \cup {at[c], at[d]}
    BY DEF Exchange
  <1> QED BY <1>1, <1>2, <1>3 DEF DataTypes

(* The next of a used entry.                                               *)
LEMMA NextType ==
    ASSUME TypeOK, ListsInv, NEW n \in Used
    PROVE  NextOf(n) \in Entries \cup {NoChar}
  <1>1. Place(n) \in 1..Len(used) /\ Len(used) \in Nat
    BY PlaceOf, Lists
  <1>2. Place(n) < Len(used) => Place(n) + 1 \in 1..Len(used)
    BY <1>1
  <1> QED BY <1>2, Lists DEF NextOf

(* What a turn leaves behind.                                              *)
LEMMA TurnTypes ==
    ASSUME TypeOK, ListsInv, NEW n, TurnOf(n)
    PROVE  n \in Used /\ n \in Entries /\ nxt' \in Entries \cup {NoChar}
  BY NextType, Lists DEF TurnOf

(* The next timer that is due.                                             *)
LEMMA DueTimer ==
    ASSUME TypeOK, Due
    PROVE  /\ fired + 1 \in 1..Len(timers) /\ Len(timers) \in Nat
           /\ Timer \in [left : Int, spot : Spots] /\ Timer.spot \in Spots
           /\ Timer.left <= 0
  <1> DEFINE T == [left : Int, spot : Spots]
  <1>1. /\ timers \in Seq(T) /\ Len(timers) \in Nat /\ fired \in 0..Len(timers)
        /\ fired < Len(timers)
    BY DEF TypeOK, Due
  <1>2. fired + 1 \in 1..Len(timers)
    BY <1>1
  <1>3. timers[fired + 1] \in T
    <2> HIDE DEF T
    <2> QED BY <1>1, <1>2
  <1> QED BY <1>1, <1>2, <1>3 DEF Timer, Due

(* Every step keeps the types and the lists.                               *)
LEMMA TypesKept ==
    ASSUME IInv, [Next]_vars
    PROVE  TypeOK' /\ ListsInv'
  <1>1. /\ TypeOK /\ ListsInv /\ DataTypes /\ TimerTypes /\ LoopTypes
        /\ Used \subseteq Entries /\ fired \in 0..Len(timers) /\ Len(timers) \in Nat
    BY TypeParts, Lists, SMTT(30) DEF IInv, TypeOK
  <1>2. ListsInv /\ UNCHANGED lists => ListsInv'
    BY DEF ListsInv, lists, Used
  <1>3. CASE TickTimer
    <2>1. CASE Respawn
      <3>1. /\ Timer \in [left : Int, spot : Spots]
            /\ fired + 1 \in 0..Len(timers)
        BY <2>1, <1>1, DueTimer DEF Respawn
      <3>2. Timer.spot \in Kinds /\ Home[Timer.spot] \in Tiles
        BY <3>1, WorldAssumption DEF Kinds
      <3>3. ListsInv' /\ DataTypes' /\ Fresh \in Entries
        BY <1>1, <2>1, <3>2, AllocLists, AllocTypes DEF Respawn
      <3>4. NewSerial(Fresh) \in Nat
        BY <1>1, SerialType
      <3>5. TimerTypes'
        BY <1>1, <2>1, <3>1, <3>3, <3>4 DEF Respawn, TimerTypes
      <3>6. LoopTypes'
        BY <1>1, <2>1 DEF Respawn, LoopTypes, loop, turns
      <3> QED BY <3>3, <3>5, <3>6, TypePartsNext
    <2>2. CASE RespawnFails
      <3>1. /\ Timer \in [left : Int, spot : Spots]
            /\ fired + 1 \in 0..Len(timers)
        BY <2>2, <1>1, DueTimer DEF RespawnFails
      <3>2. RespawnTimer(Timer.spot, RetryTicks) \in [left : Int, spot : Spots]
        BY <3>1, WorldAssumption DEF RespawnTimer
      <3>3. /\ timers' \in Seq([left : Int, spot : Spots]) /\ fired' \in 0..Len(timers')
        BY <1>1, <2>2, <3>1, <3>2, SetTimerTypes DEF RespawnFails
      <3>4. TimerTypes'
        BY <1>1, <2>2, <3>3 DEF RespawnFails, TimerTypes
      <3>5. DataTypes' /\ LoopTypes' /\ ListsInv'
        BY <1>1, <1>2, <2>2 DEF RespawnFails, DataTypes, LoopTypes, lists, charData, mapData,
                               loop, turns
      <3> QED BY <3>4, <3>5, TypePartsNext
    <2>3. CASE TimersDone
      <3>1. TimerTypes'
        <4>1. timers' = SubSeq(timers, fired + 1, Len(timers)) /\ fired' = 0 /\ known' = known
          BY <2>3 DEF TimersDone
        <4>2. timers' \in Seq([left : Int, spot : Spots])
          <5> DEFINE T == [left : Int, spot : Spots]
          <5>1. timers \in Seq(T) /\ fired + 1 \in 1..(Len(timers) + 1)
            BY <1>1 DEF TimerTypes
          <5> HIDE DEF T
          <5>2. SubSeq(timers, fired + 1, Len(timers)) \in Seq(T)
            BY <1>1, <5>1
          <5> QED BY <4>1, <5>2 DEF T
        <4>3. Len(timers') \in Nat
          BY <4>2
        <4> QED BY <1>1, <4>1, <4>2, <4>3 DEF TimerTypes
      <3>2. LoopTypes'
        <4>1. used # <<>> => Head(used) \in Entries
          BY <1>1 DEF DataTypes
        <4> QED BY <1>1, <2>3, <4>1 DEF TimersDone, LoopTypes
      <3>3. DataTypes' /\ ListsInv'
        BY <1>1, <1>2, <2>3 DEF TimersDone, DataTypes, lists, charData, mapData
      <3> QED BY <3>1, <3>2, <3>3, TypePartsNext
    <2> QED BY <1>3, <2>1, <2>2, <2>3 DEF TickTimer
  <1>4. CASE Reset
    <2>1. DataTypes'
      BY <1>1, <1>4 DEF Reset, DataTypes, Actions, lists, mapData
    <2>2. TimerTypes' /\ LoopTypes' /\ ListsInv'
      BY <1>1, <1>2, <1>4 DEF Reset, TimerTypes, LoopTypes, timerData, turns, lists
    <2> QED BY <2>1, <2>2, TypePartsNext
  <1>5. CASE TurnBreaks \/ CharsDone
    <2>1. DataTypes' /\ TimerTypes' /\ LoopTypes' /\ ListsInv'
      BY <1>1, <1>2, <1>5 DEF TurnBreaks, CharsDone, DataTypes, TimerTypes, LoopTypes,
                              timerData, turns, lists, charData, mapData
    <2> QED BY <2>1, TypePartsNext
  <1>6. CASE NextTick
    <2>1. timers' \in Seq([left : Int, spot : Spots]) /\ Len(timers') = Len(timers)
      <3>1. timers' = [i \in 1..Len(timers) |-> [timers[i] EXCEPT !.left = @ - 1]]
        BY <1>6 DEF NextTick
      <3>2. ASSUME NEW i \in 1..Len(timers)
            PROVE  [timers[i] EXCEPT !.left = @ - 1] \in [left : Int, spot : Spots]
        <4>1. timers[i] \in [left : Int, spot : Spots]
          <5> DEFINE T == [left : Int, spot : Spots]
          <5>1. timers \in Seq(T)
            BY <1>1 DEF TimerTypes
          <5> HIDE DEF T
          <5>2. timers[i] \in T
            BY <5>1
          <5> QED BY <5>2 DEF T
        <4> QED BY <4>1
      <3> DEFINE T == [left : Int, spot : Spots]
      <3>3. timers' \in [1..Len(timers) -> T]
        BY <3>1, <3>2
      <3> HIDE DEF T
      <3>4. timers' \in Seq(T) /\ Len(timers') = Len(timers)
        BY <1>1, <3>3, SeqDef
      <3> QED BY <3>4 DEF T
    <2>2. TimerTypes'
      BY <1>1, <1>6, <2>1 DEF NextTick, TimerTypes
    <2>3. DataTypes' /\ LoopTypes' /\ ListsInv'
      BY <1>1, <1>2, <1>6 DEF NextTick, DataTypes, LoopTypes, turns, lists, charData, mapData
    <2> QED BY <2>2, <2>3, TypePartsNext
  <1>7. CASE Arrive
    <2>1. ASSUME NEW t \in Tiles, Login(t) \/ CreateChar(t) PROVE TypeOK' /\ ListsInv'
      <3>1. ListsInv' /\ DataTypes'
        BY <1>1, <2>1, AllocLists, AllocTypes DEF Login, CreateChar, Kinds
      <3>2. TimerTypes' /\ LoopTypes'
        BY <1>1, <2>1 DEF Login, CreateChar, TimerTypes, LoopTypes, timerData, loop, turns
      <3> QED BY <3>1, <3>2, TypePartsNext
    <2> QED BY <1>7, <2>1 DEF Arrive
  <1>8. ASSUME NEW n \in Entries, Turn(n) PROVE TypeOK' /\ ListsInv'
    <2>1. CASE Wait(n)
      <3>1. n \in Entries /\ nxt' \in Entries \cup {NoChar}
        BY <1>1, <2>1, TurnTypes DEF Wait
      <3>2. left' \in [Entries -> Nat]
        BY <1>1, <2>1 DEF Wait, DataTypes
      <3>3. DataTypes'
        BY <1>1, <2>1, <3>2 DEF Wait, DataTypes, lists, mapData
      <3>4. TimerTypes' /\ LoopTypes' /\ ListsInv'
        BY <1>1, <1>2, <2>1, <3>1
           DEF Wait, TimerTypes, LoopTypes, timerData, lists, HadTurn, Continue
      <3> QED BY <3>3, <3>4, TypePartsNext
    <2>2. CASE TurnLeave(n)
      <3>1. n \in Used /\ nxt' \in Entries \cup {NoChar}
        BY <1>1, <2>2, TurnTypes DEF TurnLeave
      <3>2. ListsInv' /\ DataTypes' /\ waiting' \subseteq Entries
        BY <1>1, <2>2, <3>1, FreeLists, FreeTypes DEF TurnLeave
      <3>3. TimerTypes' /\ LoopTypes'
        BY <1>1, <2>2, <3>1, <3>2 DEF TurnLeave, TimerTypes, LoopTypes, timerData, Continue
      <3> QED BY <3>2, <3>3, TypePartsNext
    <2>3. CASE ActStand(n)
      <3>1. n \in Entries /\ nxt' \in Entries \cup {NoChar}
        BY <1>1, <2>3, TurnTypes DEF ActStand, Acts
      <3>2. DataTypes' /\ TimerTypes' /\ ListsInv'
        BY <1>1, <1>2, <2>3 DEF ActStand, DataTypes, TimerTypes, lists, charData, mapData, timerData
      <3>3. LoopTypes'
        BY <1>1, <2>3, <3>1 DEF ActStand, LoopTypes, HadTurn, AskDriver
      <3> QED BY <3>2, <3>3, TypePartsNext
    <2>4. CASE ActWalk(n)
      <3>1. n \in Entries /\ nxt' \in Entries \cup {NoChar}
        BY <1>1, <2>4, TurnTypes DEF ActWalk, Acts
      <3>2. /\ at' = [at EXCEPT ![n] = to[n]] /\ to' = [to EXCEPT ![n] = Nowhere]
            /\ on' = [on EXCEPT ![at[n]] = NoChar, ![to[n]] = n]
            /\ block' = block \ {at[n]}
        BY <2>4 DEF ActWalk
      <3>3. /\ at' \in [Entries -> Tiles \cup {Nowhere}]
            /\ to' \in [Entries -> Tiles \cup {Nowhere}]
            /\ on' \in [Tiles -> Entries \cup {NoChar}] /\ block' \subseteq Tiles
        BY <1>1, <3>1, <3>2 DEF DataTypes
      <3>4. DataTypes'
        BY <1>1, <2>4, <3>3 DEF ActWalk, DataTypes, lists, charData
      <3>5. TimerTypes' /\ ListsInv'
        BY <1>1, <1>2, <2>4 DEF ActWalk, TimerTypes, lists, timerData
      <3>6. LoopTypes'
        BY <1>1, <2>4, <3>1 DEF ActWalk, LoopTypes, HadTurn, AskDriver
      <3> QED BY <3>4, <3>5, <3>6, TypePartsNext
    <2>5. CASE ActDie(n)
      <3>1. n \in Used /\ nxt' \in Entries \cup {NoChar}
        BY <1>1, <2>5, TurnTypes DEF ActDie, Acts
      <3>2. ListsInv' /\ DataTypes' /\ waiting' \subseteq Entries
        BY <1>1, <2>5, <3>1, FreeLists, FreeTypes DEF ActDie
      <3>3. TimerTypes' /\ LoopTypes'
        BY <1>1, <2>5, <3>1, <3>2 DEF ActDie, TimerTypes, LoopTypes, timerData, Continue
      <3> QED BY <3>2, <3>3, TypePartsNext
    <2>6. ASSUME NEW t \in Tiles, ActDieRevived(n, t) PROVE TypeOK' /\ ListsInv'
      <3>1. n \in Entries /\ nxt' \in Entries \cup {NoChar}
        BY <1>1, <2>6, TurnTypes DEF ActDieRevived, Acts
      <3>2. NewSerial(n) \in Nat
        BY <1>1, SerialType
      <3>3. /\ dead' = [dead EXCEPT ![n] = FALSE]
            /\ serial' = [serial EXCEPT ![n] = NewSerial(n)]
        BY <2>6 DEF ActDieRevived
      <3>4. dead' \in [Entries -> BOOLEAN] /\ serial' \in [Entries -> Nat]
        BY <1>1, <3>2, <3>3 DEF DataTypes
      <3>5. /\ action' \in [Entries -> Actions] /\ left' \in [Entries -> Nat]
            /\ at' \in [Entries -> Tiles \cup {Nowhere}]
            /\ to' \in [Entries -> Tiles \cup {Nowhere}]
            /\ on' \in [Tiles -> Entries \cup {NoChar}] /\ block' \subseteq Tiles
        BY <1>1, <2>6, <3>1, PutTypes DEF ActDieRevived
      <3>6. DataTypes'
        BY <1>1, <2>6, <3>4, <3>5 DEF ActDieRevived, DataTypes, lists
      <3>7. TimerTypes' /\ ListsInv'
        BY <1>1, <1>2, <2>6 DEF ActDieRevived, TimerTypes, lists, timerData
      <3>8. LoopTypes'
        BY <1>1, <2>6, <3>1 DEF ActDieRevived, LoopTypes, HadTurn, Continue
      <3> QED BY <3>6, <3>7, <3>8, TypePartsNext
    <2> QED BY <1>8, <2>1, <2>2, <2>3, <2>4, <2>5, <2>6 DEF Turn
  <1>9. ASSUME NEW n \in Entries, Driver(n) PROVE TypeOK' /\ ListsInv'
    <2>1. CASE DoStand(n)
      <3>1. action' \in [Entries -> Actions] /\ left' \in [Entries -> Nat]
        BY <1>1, <2>1, WorldAssumption DEF DoStand, DataTypes, Actions
      <3>2. DataTypes' /\ TimerTypes' /\ LoopTypes' /\ ListsInv'
        BY <1>1, <1>2, <2>1, <3>1 DEF DoStand, DataTypes, TimerTypes, LoopTypes, Decided,
                                      lists, mapData, timerData, turns
      <3> QED BY <3>2, TypePartsNext
    <2>2. CASE DoNothing(n)
      <3>1. DataTypes' /\ TimerTypes' /\ LoopTypes' /\ ListsInv'
        BY <1>1, <1>2, <2>2 DEF DoNothing, DataTypes, TimerTypes, LoopTypes, Decided,
                                lists, charData, mapData, timerData, turns
      <3> QED BY <3>1, TypePartsNext
    <2>3. ASSUME NEW t \in Tiles, DoWalk(n, t) PROVE TypeOK' /\ ListsInv'
      <3>1. /\ action' = [action EXCEPT ![n] = "walk"]
            /\ left' = [left EXCEPT ![n] = ActTicks]
            /\ to' = [to EXCEPT ![n] = t] /\ block' = block \cup {t}
        BY <2>3 DEF DoWalk
      <3>2. /\ action' \in [Entries -> Actions] /\ left' \in [Entries -> Nat]
            /\ to' \in [Entries -> Tiles \cup {Nowhere}] /\ block' \subseteq Tiles
        BY <1>1, <3>1, WorldAssumption DEF DataTypes, Actions
      <3>3. DataTypes' /\ TimerTypes' /\ LoopTypes' /\ ListsInv'
        BY <1>1, <1>2, <2>3, <3>2 DEF DoWalk, DataTypes, TimerTypes, LoopTypes, Decided,
                                      lists, timerData, turns
      <3> QED BY <3>3, TypePartsNext
    <2> QED BY <1>9, <2>1, <2>2, <2>3 DEF Driver
  <1>10. ASSUME NEW c \in Entries, Suffer(c) PROVE TypeOK' /\ ListsInv'
    <2>1. CASE Hurt(c)
      <3>1. DataTypes' /\ TimerTypes' /\ ListsInv'
        BY <1>1, <1>2, <2>1, KillTypes DEF Hurt, lists, mapData
      <3>2. LoopTypes'
        BY <1>1, <2>1 DEF Hurt, TurnEnds, Decided, LoopTypes, loop, turns
      <3> QED BY <3>1, <3>2, TypePartsNext
    <2>2. CASE RemoveChar(c)
      <3>1. ListsInv' /\ DataTypes' /\ waiting' \subseteq Entries
        BY <1>1, <2>2, FreeLists, FreeTypes DEF RemoveChar, Reached
      <3>2. upset' \in BOOLEAN
        BY <2>2 DEF RemoveChar, Upset
      <3>3. TimerTypes' /\ LoopTypes'
        BY <1>1, <2>2, <3>1, <3>2
           DEF RemoveChar, TurnEnds, Decided, TimerTypes, LoopTypes, timerData, loop
      <3> QED BY <3>1, <3>3, TypePartsNext
    <2>3. ASSUME NEW t \in Tiles, MoveChar(c, t) PROVE TypeOK' /\ ListsInv'
      <3>1. /\ action' \in [Entries -> Actions] /\ left' \in [Entries -> Nat]
            /\ at' \in [Entries -> Tiles \cup {Nowhere}]
            /\ to' \in [Entries -> Tiles \cup {Nowhere}]
            /\ on' \in [Tiles -> Entries \cup {NoChar}] /\ block' \subseteq Tiles
        BY <1>1, <2>3, PutTypes DEF MoveChar
      <3>2. DataTypes' /\ TimerTypes' /\ ListsInv'
        BY <1>1, <1>2, <2>3, <3>1 DEF MoveChar, DataTypes, TimerTypes, lists, timerData
      <3>3. LoopTypes'
        BY <1>1, <2>3 DEF MoveChar, LoopTypes, Decided, loop, turns
      <3> QED BY <3>2, <3>3, TypePartsNext
    <2>4. ASSUME NEW d \in Entries, SwapChars(c, d) PROVE TypeOK' /\ ListsInv'
      <3>1. c \in Used /\ d \in Used /\ Exchange(c, d)
        BY <2>4 DEF SwapChars
      <3>2. DataTypes' /\ TimerTypes' /\ LoopTypes' /\ ListsInv'
        BY <1>1, <1>2, <2>4, <3>1, ExchangeTypes
           DEF SwapChars, DataTypes, TimerTypes, LoopTypes, lists, charData, timerData,
               loop, turns
      <3> QED BY <3>2, TypePartsNext
    <2>5. ASSUME NEW d \in Entries, DoorSwap(c, d) PROVE TypeOK' /\ ListsInv'
      <3>1. c \in Used /\ d \in Used /\ Exchange(c, d)
        BY <2>5 DEF DoorSwap, IInv, Loop
      <3>2. action' \in [Entries -> Actions] /\ left' \in [Entries -> Nat]
        BY <1>1, <2>5 DEF DoorSwap, DataTypes, Actions
      <3>3. DataTypes' /\ TimerTypes' /\ LoopTypes' /\ ListsInv'
        BY <1>1, <1>2, <2>5, <3>1, <3>2, ExchangeTypes
           DEF DoorSwap, DataTypes, TimerTypes, LoopTypes, lists, timerData, loop, turns
      <3> QED BY <3>3, TypePartsNext
    <2> QED BY <1>10, <2>1, <2>2, <2>3, <2>4, <2>5 DEF Suffer
  <1>11. CASE UNCHANGED vars
    BY <1>1, <1>2, <1>11 DEF vars, lists, charData, mapData, timerData, loop, turns, TypeOK
  <1> QED BY <1>3, <1>4, <1>5, <1>6, <1>7, <1>8, <1>9, <1>10, <1>11 DEF Next

-----------------------------------------------------------------------------
(* The map.                                                                *)

(* MapInv, said of one character and one tile at a time.                   *)
LEMMA MapParts ==
    ASSUME IInv
    PROVE  /\ at \in [Entries -> Tiles \cup {Nowhere}]
           /\ to \in [Entries -> Tiles \cup {Nowhere}]
           /\ on \in [Tiles -> Entries \cup {NoChar}] /\ block \subseteq Tiles
           /\ Used \subseteq Entries /\ Nowhere \notin Tiles /\ NoChar \notin Entries
           /\ \A c \in Used : at[c] \in Tiles /\ on[at[c]] = c /\ at[c] \in block
           /\ \A c \in Used : to[c] # Nowhere => to[c] \in Tiles /\ to[c] \in block
           /\ \A t \in Tiles : on[t] # NoChar => on[t] \in Used /\ at[on[t]] = t
           /\ \A t \in block : \E c \in Used : at[c] = t \/ to[c] = t
           /\ \A c, d \in Used : to[c] # Nowhere => to[c] # at[d]
           /\ \A c, d \in Used : to[c] # Nowhere /\ c # d => to[c] # to[d]
  <1>1. /\ at \in [Entries -> Tiles \cup {Nowhere}]
        /\ to \in [Entries -> Tiles \cup {Nowhere}]
        /\ on \in [Tiles -> Entries \cup {NoChar}] /\ block \subseteq Tiles
    BY DEF IInv, TypeOK
  <1>2. Used \subseteq Entries /\ Nowhere \notin Tiles /\ NoChar \notin Entries
    BY Lists, WorldAssumption DEF IInv
  <1>3. /\ \A c \in Used : at[c] # Nowhere /\ on[at[c]] = c
        /\ \A t \in Tiles : on[t] # NoChar => on[t] \in Used /\ at[on[t]] = t
        /\ block = {at[c] : c \in Used} \cup ({to[c] : c \in Used} \ {Nowhere})
        /\ \A c, d \in Used : to[c] # Nowhere => to[c] # at[d] /\ (c # d => to[c] # to[d])
    BY DEF IInv, MapInv
  <1> QED BY <1>1, <1>2, <1>3

LEMMA MapNext ==
    ASSUME block' \subseteq Tiles, Nowhere \notin Tiles,
           \A c \in Used' : at'[c] \in Tiles /\ on'[at'[c]] = c /\ at'[c] \in block',
           \A c \in Used' : to'[c] # Nowhere => to'[c] \in block',
           \A t \in Tiles : on'[t] # NoChar => on'[t] \in Used' /\ at'[on'[t]] = t,
           \A t \in block' : \E c \in Used' : at'[c] = t \/ to'[c] = t,
           \A c, d \in Used' : to'[c] # Nowhere => to'[c] # at'[d],
           \A c, d \in Used' : to'[c] # Nowhere /\ c # d => to'[c] # to'[d]
    PROVE  MapInv'
  <1>1. block' = {at'[c] : c \in Used'} \cup ({to'[c] : c \in Used'} \ {Nowhere})
    <2>1. ASSUME NEW t \in block'
          PROVE  t \in {at'[c] : c \in Used'} \cup ({to'[c] : c \in Used'} \ {Nowhere})
      OBVIOUS
    <2> QED BY <2>1
  <1> QED BY <1>1 DEF MapInv

(* Somebody new on a tile that was not taken.                              *)
LEMMA MapAlloc ==
    ASSUME IInv, NEW k, NEW t \in Tiles \ block, AllocChar(k, t)
    PROVE  MapInv'
  <1>1. /\ Used' = Used \cup {Fresh} /\ Fresh \in Entries \ Used
    BY AllocLists DEF IInv
  <1>2. /\ at' = [at EXCEPT ![Fresh] = t] /\ to' = [to EXCEPT ![Fresh] = Nowhere]
        /\ on' = [on EXCEPT ![t] = Fresh] /\ block' = block \cup {t}
    BY DEF AllocChar
  <1> DEFINE f == Fresh
  <1> HIDE DEF f
  <1>3. /\ Used' = Used \cup {f} /\ f \in Entries \ Used
        /\ at'[f] = t /\ \A c \in Used : at'[c] = at[c]
        /\ to'[f] = Nowhere /\ \A c \in Used : to'[c] = to[c]
        /\ on'[t] = f /\ \A u \in Tiles : u # t => on'[u] = on[u]
        /\ block' = block \cup {t}
    BY <1>1, <1>2, MapParts DEF f
  <1>4. /\ block' \subseteq Tiles
        /\ \A c \in Used' : at'[c] \in Tiles /\ on'[at'[c]] = c /\ at'[c] \in block'
        /\ \A c \in Used' : to'[c] # Nowhere => to'[c] \in block'
    BY <1>3, MapParts
  <1>5. ASSUME NEW u \in Tiles, on'[u] # NoChar PROVE on'[u] \in Used' /\ at'[on'[u]] = u
    BY <1>3, <1>5, MapParts
  <1>6. ASSUME NEW u \in block' PROVE \E c \in Used' : at'[c] = u \/ to'[c] = u
    BY <1>3, MapParts
  <1>7. ASSUME NEW c \in Used', NEW d \in Used', to'[c] # Nowhere
        PROVE  to'[c] # at'[d] /\ (c # d => to'[c] # to'[d])
    BY <1>3, <1>7, MapParts
  <1>8. Nowhere \notin Tiles
    BY WorldAssumption
  <1> QED BY <1>4, <1>5, <1>6, <1>7, <1>8, MapNext

(* Nobody where somebody was, nor where he was going.                      *)
LEMMA MapFree ==
    ASSUME IInv, NEW f \in Used, FreeChar(f)
    PROVE  MapInv'
  <1>1. Used' = Used \ {f}
    BY FreeLists DEF IInv
  <1>2. /\ at' = [at EXCEPT ![f] = Nowhere] /\ to' = [to EXCEPT ![f] = Nowhere]
        /\ on' = [t \in Tiles |-> IF t = at[f] THEN NoChar ELSE on[t]]
        /\ block' = block \ {at[f], to[f]}
    BY DEF FreeChar
  <1>3. /\ \A c \in Used' : at'[c] = at[c] /\ to'[c] = to[c]
        /\ \A t \in Tiles : on'[t] = IF t = at[f] THEN NoChar ELSE on[t]
    BY <1>1, <1>2, MapParts
  <1>4. /\ block' \subseteq Tiles
        /\ \A c \in Used' : at'[c] \in Tiles /\ on'[at'[c]] = c /\ at'[c] \in block'
        /\ \A c \in Used' : to'[c] # Nowhere => to'[c] \in block'
    <2>1. ASSUME NEW c \in Used' PROVE at[c] # at[f] /\ at[c] # to[f]
      BY <1>1, MapParts
    <2>2. ASSUME NEW c \in Used', to[c] # Nowhere PROVE to[c] # at[f] /\ to[c] # to[f]
      BY <1>1, <2>2, MapParts
    <2> QED BY <1>1, <1>2, <1>3, <2>1, <2>2, MapParts
  <1>5. ASSUME NEW u \in Tiles, on'[u] # NoChar PROVE on'[u] \in Used' /\ at'[on'[u]] = u
    BY <1>1, <1>3, <1>5, MapParts
  <1>6. ASSUME NEW u \in block' PROVE \E c \in Used' : at'[c] = u \/ to'[c] = u
    <2>1. PICK c \in Used : at[c] = u \/ to[c] = u
      BY <1>2, MapParts
    <2>2. c # f
      BY <1>2, <2>1
    <2> QED BY <1>1, <1>3, <2>1, <2>2
  <1>7. ASSUME NEW c \in Used', NEW d \in Used', to'[c] # Nowhere
        PROVE  to'[c] # at'[d] /\ (c # d => to'[c] # to'[d])
    BY <1>1, <1>3, <1>7, MapParts
  <1>8. Nowhere \notin Tiles
    BY WorldAssumption
  <1> QED BY <1>4, <1>5, <1>6, <1>7, <1>8, MapNext

(* Somebody moves: to where he was going, or to a tile that was not taken. *)
LEMMA MapMove ==
    ASSUME IInv, NEW n \in Used, NEW t \in Tiles, t \notin block \/ t \in {at[n], to[n]},
           UNCHANGED lists, at' = [at EXCEPT ![n] = t], to' = [to EXCEPT ![n] = Nowhere],
           on' = [on EXCEPT ![at[n]] = NoChar, ![t] = n],
           block' = (block \ {at[n], to[n]}) \cup {t}
    PROVE  MapInv'
  <1>1. Used' = Used
    BY DEF Used, lists
  <1>2. /\ at'[n] = t /\ to'[n] = Nowhere
        /\ \A c \in Used : c # n => at'[c] = at[c] /\ to'[c] = to[c]
    BY MapParts
  <1>3. /\ on'[t] = n
        /\ \A u \in Tiles : u # t => on'[u] = IF u = at[n] THEN NoChar ELSE on[u]
    BY MapParts
  <1>4. ASSUME NEW c \in Used, c # n
        PROVE  /\ at[c] # t /\ at[c] # at[n] /\ at[c] # to[n]
               /\ to[c] # Nowhere => to[c] # t /\ to[c] # at[n] /\ to[c] # to[n]
    <2>1. at[c] # at[n] /\ at[c] # to[n] /\ at[c] \in block
      BY <1>4, MapParts
    <2>2. to[c] # Nowhere => to[c] # at[n] /\ to[c] # to[n] /\ to[c] \in block
      BY <1>4, MapParts
    <2> QED BY <2>1, <2>2
  <1>5. /\ block' \subseteq Tiles
        /\ \A c \in Used' : at'[c] \in Tiles /\ on'[at'[c]] = c /\ at'[c] \in block'
        /\ \A c \in Used' : to'[c] # Nowhere => to'[c] \in block'
    <2>1. block' \subseteq Tiles
      BY MapParts
    <2>2. ASSUME NEW c \in Used'
          PROVE  /\ at'[c] \in Tiles /\ on'[at'[c]] = c /\ at'[c] \in block'
                 /\ to'[c] # Nowhere => to'[c] \in block'
      <3>1. CASE c = n
        BY <1>2, <1>3, <3>1
      <3>2. CASE c # n
        BY <1>1, <1>2, <1>3, <1>4, <3>2, MapParts
      <3> QED BY <3>1, <3>2
    <2> QED BY <2>1, <2>2
  <1>6. ASSUME NEW u \in Tiles, on'[u] # NoChar PROVE on'[u] \in Used' /\ at'[on'[u]] = u
    <2>1. CASE u = t
      BY <1>1, <1>2, <1>3, <2>1
    <2>2. CASE u # t
      <3>1. u # at[n] /\ on'[u] = on[u]
        BY <1>3, <1>6, <2>2
      <3>2. on[u] \in Used /\ at[on[u]] = u /\ on[u] # n
        BY <1>6, <3>1, MapParts
      <3> QED BY <1>1, <1>2, <3>1, <3>2
    <2> QED BY <2>1, <2>2
  <1>7. ASSUME NEW u \in block' PROVE \E c \in Used' : at'[c] = u \/ to'[c] = u
    <2>1. CASE u = t
      BY <1>1, <1>2, <2>1
    <2>2. CASE u # t
      <3>1. PICK c \in Used : at[c] = u \/ to[c] = u
        BY <2>2, MapParts
      <3>2. c # n
        BY <2>2, <3>1
      <3> QED BY <1>1, <1>2, <3>1, <3>2
    <2> QED BY <2>1, <2>2
  <1>8. ASSUME NEW c \in Used', NEW d \in Used', to'[c] # Nowhere
        PROVE  to'[c] # at'[d] /\ (c # d => to'[c] # to'[d])
    <2>1. c # n /\ to'[c] = to[c] /\ c \in Used /\ d \in Used
      BY <1>1, <1>2, <1>8
    <2>2. CASE d = n
      BY <1>2, <1>4, <1>8, <2>1, <2>2
    <2>3. CASE d # n
      BY <1>2, <1>8, <2>1, <2>3, MapParts
    <2> QED BY <2>2, <2>3
  <1>9. Nowhere \notin Tiles
    BY WorldAssumption
  <1> QED BY <1>5, <1>6, <1>7, <1>8, <1>9, MapNext, ZenonT(30)

(* Two characters get each other's place.                                  *)
LEMMA MapExchange ==
    ASSUME IInv, NEW n \in Used, NEW m \in Used \ {n}, UNCHANGED lists, Exchange(n, m)
    PROVE  MapInv'
  <1>1. Used' = Used
    BY DEF Used, lists
  <1>2. PICK x \in Tiles, y \in Tiles : x = at[n] /\ y = at[m] /\ x # y
    BY MapParts
  <1>3. /\ at' = [at EXCEPT ![n] = y, ![m] = x]
        /\ to' = [to EXCEPT ![n] = Nowhere, ![m] = Nowhere]
        /\ on' = [on EXCEPT ![x] = m, ![y] = n]
        /\ block' = (block \ {to[n], to[m]}) \cup {x, y}
    BY <1>2 DEF Exchange
  <1>4. /\ at'[n] = y /\ to'[n] = Nowhere /\ at'[m] = x /\ to'[m] = Nowhere
        /\ \A c \in Used \ {n, m} : at'[c] = at[c] /\ to'[c] = to[c]
    BY <1>3, MapParts
  <1>5. /\ on'[x] = m /\ on'[y] = n
        /\ \A u \in Tiles \ {x, y} : on'[u] = on[u]
    BY <1>2, <1>3, MapParts
  <1>6. ASSUME NEW c \in Used \ {n, m}
        PROVE  /\ at[c] \notin {x, y, to[n], to[m]}
               /\ to[c] # Nowhere => to[c] \notin {x, y, to[n], to[m]}
    BY <1>2, MapParts
  <1>7. /\ block' \subseteq Tiles
        /\ \A c \in Used' : at'[c] \in Tiles /\ on'[at'[c]] = c /\ at'[c] \in block'
        /\ \A c \in Used' : to'[c] # Nowhere => to'[c] \in block'
    <2>1. block' \subseteq Tiles
      BY <1>3, MapParts
    <2>2. ASSUME NEW c \in Used'
          PROVE  /\ at'[c] \in Tiles /\ on'[at'[c]] = c /\ at'[c] \in block'
                 /\ to'[c] # Nowhere => to'[c] \in block'
      <3>1. CASE c \in {n, m}
        <4>1. x \in block' /\ y \in block'
          BY <1>3
        <4>2. CASE c = n
          BY <1>2, <1>4, <1>5, <4>1, <4>2
        <4>3. CASE c = m
          BY <1>2, <1>4, <1>5, <4>1, <4>3
        <4> QED BY <3>1, <4>2, <4>3
      <3>2. CASE c \notin {n, m}
        <4>1. c \in Used \ {n, m} /\ at'[c] = at[c] /\ to'[c] = to[c]
          BY <1>1, <1>4, <3>2
        <4> QED BY <1>3, <1>5, <1>6, <4>1, MapParts
      <3> QED BY <3>1, <3>2
    <2> QED BY <2>1, <2>2
  <1>8. ASSUME NEW u \in Tiles, on'[u] # NoChar PROVE on'[u] \in Used' /\ at'[on'[u]] = u
    <2>1. CASE u \in {x, y}
      BY <1>1, <1>4, <1>5, <2>1
    <2>2. CASE u \notin {x, y}
      <3>1. on'[u] = on[u] /\ on[u] \in Used /\ at[on[u]] = u
        BY <1>5, <1>8, <2>2, MapParts
      <3>2. on[u] \notin {n, m}
        BY <1>2, <2>2, <3>1
      <3> QED BY <1>1, <1>4, <3>1, <3>2
    <2> QED BY <2>1, <2>2
  <1>9. ASSUME NEW u \in block' PROVE \E c \in Used' : at'[c] = u \/ to'[c] = u
    <2>1. CASE u \in {x, y}
      BY <1>1, <1>4, <2>1
    <2>2. CASE u \notin {x, y}
      <3>1. PICK c \in Used : at[c] = u \/ to[c] = u
        BY <1>3, <2>2, MapParts
      <3>2. c \notin {n, m}
        BY <1>2, <1>3, <2>2, <3>1
      <3> QED BY <1>1, <1>4, <3>1, <3>2
    <2> QED BY <2>1, <2>2
  <1>10. ASSUME NEW c \in Used', NEW d \in Used', to'[c] # Nowhere
         PROVE  to'[c] # at'[d] /\ (c # d => to'[c] # to'[d])
    <2>1. c \in Used \ {n, m} /\ to'[c] = to[c] /\ d \in Used
      BY <1>1, <1>4, <1>10
    <2>2. CASE d \in {n, m}
      BY <1>4, <1>6, <1>10, <2>1, <2>2
    <2>3. CASE d \notin {n, m}
      BY <1>4, <1>10, <2>1, <2>3, MapParts
    <2> QED BY <2>2, <2>3
  <1>11. Nowhere \notin Tiles
    BY WorldAssumption
  <1> QED BY <1>7, <1>8, <1>9, <1>10, <1>11, MapNext, ZenonT(30)

(* Somebody sets out for a tile that was not taken.                        *)
LEMMA MapSetOut ==
    ASSUME IInv, NEW n \in Used, NEW t \in Tiles \ block, to[n] = Nowhere,
           UNCHANGED <<lists, at, on>>,
           to' = [to EXCEPT ![n] = t], block' = block \cup {t}
    PROVE  MapInv'
  <1>1. Used' = Used /\ at' = at /\ on' = on
    BY DEF Used, lists
  <1>2. to'[n] = t /\ \A c \in Used : c # n => to'[c] = to[c]
    BY MapParts
  <1>3. /\ block' \subseteq Tiles
        /\ \A c \in Used' : at'[c] \in Tiles /\ on'[at'[c]] = c /\ at'[c] \in block'
        /\ \A c \in Used' : to'[c] # Nowhere => to'[c] \in block'
    BY <1>1, <1>2, MapParts
  <1>4. \A u \in Tiles : on'[u] # NoChar => on'[u] \in Used' /\ at'[on'[u]] = u
    BY <1>1, MapParts
  <1>5. ASSUME NEW u \in block' PROVE \E c \in Used' : at'[c] = u \/ to'[c] = u
    <2>1. CASE u = t
      BY <1>1, <1>2, <2>1
    <2>2. CASE u # t
      <3>1. PICK c \in Used : at[c] = u \/ to[c] = u
        BY <2>2, MapParts
      <3>2. c = n => at[c] = u
        BY <3>1, MapParts
      <3> QED BY <1>1, <1>2, <3>1, <3>2
    <2> QED BY <2>1, <2>2
  <1>6. ASSUME NEW c \in Used', NEW d \in Used', to'[c] # Nowhere
        PROVE  to'[c] # at'[d] /\ (c # d => to'[c] # to'[d])
    <2>1. c \in Used /\ d \in Used
      BY <1>1
    <2>2. CASE c = n
      <3>1. to'[c] = t /\ (c # d => to'[d] = to[d])
        BY <1>2, <2>1, <2>2
      <3>2. at[d] # t /\ to[d] # t
        BY <2>1, MapParts
      <3> QED BY <1>1, <3>1, <3>2
    <2>3. CASE c # n
      <3>1. to'[c] = to[c] /\ to[c] # t
        BY <1>2, <1>6, <2>1, <2>3, MapParts
      <3>2. to[c] # at[d]
        BY <1>6, <2>1, <3>1, MapParts
      <3>3. c # d => to[c] # to'[d]
        BY <1>2, <1>6, <2>1, <3>1, MapParts
      <3> QED BY <1>1, <3>1, <3>2, <3>3
    <2> QED BY <2>2, <2>3
  <1>7. Nowhere \notin Tiles
    BY WorldAssumption
  <1> QED BY <1>3, <1>4, <1>5, <1>6, <1>7, MapNext

(* Every step keeps the map in order.                                      *)
LEMMA MapKept ==
    ASSUME IInv, [Next]_vars
    PROVE  MapInv'
  <1>1. ASSUME UNCHANGED <<lists, at, to, on, block>> PROVE MapInv'
    BY <1>1 DEF IInv, MapInv, lists, Used
  <1>2. \A c \in Used : c \in Entries /\ at[c] \in Tiles
    BY MapParts
  <1>3. CASE TickTimer
    <2>1. CASE Respawn
      <3>1. Home[Timer.spot] \in Tiles \ block /\ AllocChar(Timer.spot, Home[Timer.spot])
        BY <2>1, DueTimer, WorldAssumption DEF Respawn, IInv
      <3> QED BY <3>1, MapAlloc
    <2> QED BY <1>1, <1>3, <2>1 DEF TickTimer, RespawnFails, TimersDone, mapData
  <1>4. CASE Reset \/ TurnBreaks \/ CharsDone \/ NextTick
    BY <1>1, <1>4 DEF Reset, TurnBreaks, CharsDone, NextTick, mapData
  <1>5. CASE Arrive
    BY <1>5, MapAlloc DEF Arrive, Login, CreateChar
  <1>6. ASSUME NEW n \in Entries, Turn(n) PROVE MapInv'
    <2>1. CASE Wait(n) \/ ActStand(n)
      BY <1>1, <2>1 DEF Wait, ActStand, mapData
    <2>2. CASE TurnLeave(n) \/ ActDie(n)
      BY <2>2, MapFree DEF TurnLeave, ActDie, Acts, TurnOf
    <2>3. CASE ActWalk(n)
      <3>1. /\ n \in Used /\ pc = "char" /\ action[n] = "walk" /\ UNCHANGED lists
            /\ at' = [at EXCEPT ![n] = to[n]] /\ to' = [to EXCEPT ![n] = Nowhere]
            /\ on' = [on EXCEPT ![at[n]] = NoChar, ![to[n]] = n]
            /\ block' = block \ {at[n]}
        BY <2>3 DEF ActWalk, Acts, TurnOf
      <3>2. to[n] # Nowhere
        BY <3>1 DEF IInv, Walking
      <3>3. to[n] \in Tiles /\ to[n] \in block /\ to[n] # at[n]
        BY <3>1, <3>2, MapParts
      <3>4. block' = (block \ {at[n], to[n]}) \cup {to[n]}
        BY <3>1, <3>3
      <3> QED BY <3>1, <3>3, <3>4, MapMove
    <2>4. ASSUME NEW t \in Tiles, ActDieRevived(n, t) PROVE MapInv'
      <3>1. /\ n \in Used /\ UNCHANGED lists /\ (t \notin block \/ t \in {at[n], to[n]})
            /\ at' = [at EXCEPT ![n] = t] /\ to' = [to EXCEPT ![n] = Nowhere]
            /\ on' = [on EXCEPT ![at[n]] = NoChar, ![t] = n]
            /\ block' = (block \ {at[n], to[n]}) \cup {t}
        BY <2>4 DEF ActDieRevived, Acts, TurnOf, PutChar, FreeTiles
      <3> QED BY <3>1, MapMove
    <2> QED BY <1>6, <2>1, <2>2, <2>3, <2>4 DEF Turn
  <1>7. ASSUME NEW n \in Entries, Driver(n) PROVE MapInv'
    <2>1. CASE DoStand(n) \/ DoNothing(n)
      BY <1>1, <2>1 DEF DoStand, DoNothing, mapData
    <2>2. ASSUME NEW t \in Tiles, DoWalk(n, t) PROVE MapInv'
      <3>1. n \in Used /\ to[n] = Nowhere
        BY <2>2 DEF DoWalk, Asked, IInv, Loop
      <3> QED BY <2>2, <3>1, MapSetOut DEF DoWalk
    <2> QED BY <1>7, <2>1, <2>2 DEF Driver
  <1>8. ASSUME NEW c \in Entries, Suffer(c) PROVE MapInv'
    <2>1. CASE Hurt(c)
      BY <1>1, <2>1 DEF Hurt, mapData
    <2>2. CASE RemoveChar(c)
      BY <2>2, MapFree DEF RemoveChar, Reached
    <2>3. ASSUME NEW t \in Tiles, MoveChar(c, t) PROVE MapInv'
      <3>1. /\ c \in Used /\ UNCHANGED lists /\ (t \notin block \/ t \in {at[c], to[c]})
            /\ at' = [at EXCEPT ![c] = t] /\ to' = [to EXCEPT ![c] = Nowhere]
            /\ on' = [on EXCEPT ![at[c]] = NoChar, ![t] = c]
            /\ block' = (block \ {at[c], to[c]}) \cup {t}
        BY <2>3 DEF MoveChar, Reached, PutChar, FreeTiles
      <3> QED BY <3>1, MapMove
    <2>4. ASSUME NEW d \in Entries, SwapChars(c, d) PROVE MapInv'
      BY <2>4, MapExchange DEF SwapChars
    <2>5. ASSUME NEW d \in Entries, DoorSwap(c, d) PROVE MapInv'
      <3>1. c \in Used /\ d \in Used \ {c} /\ Exchange(c, d) /\ UNCHANGED lists
        BY <2>5 DEF DoorSwap, IInv, Loop
      <3> QED BY <3>1, MapExchange
    <2> QED BY <1>8, <2>1, <2>2, <2>3, <2>4, <2>5 DEF Suffer
  <1>9. CASE UNCHANGED vars
    BY <1>1, <1>9 DEF vars, mapData
  <1> QED BY <1>3, <1>4, <1>5, <1>6, <1>7, <1>8, <1>9 DEF Next

-----------------------------------------------------------------------------
(* Who does what.                                                          *)

(* Who stands where the loop says, walks and dies.                         *)
Acting == Walking /\ Loop /\ Dying

LEMMA ActingParts ==
    ASSUME IInv
    PROVE  /\ dead \in [Entries -> BOOLEAN] /\ action \in [Entries -> Actions]
           /\ to \in [Entries -> Tiles \cup {Nowhere}] /\ Used \subseteq Entries
           /\ \A c \in Used : action[c] = "stand" => to[c] = Nowhere
           /\ \A c \in Used : action[c] = "walk" /\ ~(pc = "acted" /\ cur = c)
                              => to[c] # Nowhere
           /\ \A c \in Used : action[c] = "die" => dead[c]
           /\ pc \in {"acted", "driver"} => cur \in Used /\ to[cur] = Nowhere
           /\ pc \in {"timer", "rest"} => nxt = NoChar
           /\ pc # "timer" => fired = 0
  <1>1. /\ dead \in [Entries -> BOOLEAN] /\ action \in [Entries -> Actions]
        /\ to \in [Entries -> Tiles \cup {Nowhere}] /\ Used \subseteq Entries
    BY Lists DEF IInv, TypeOK
  <1> QED BY <1>1 DEF IInv, Walking, Loop, Dying

(* When nobody has been called, nobody is skipped.                         *)
LEMMA KillFired ==
    ASSUME NEW c, KillChar(c, fired), fired = 0
    PROVE  fired' = 0
  <1>1. CASE kind[c] \in Spots
    <2>1. PICK p \in 1..(Len(timers) + 1) : fired' = IF p <= fired THEN fired + 1 ELSE fired
      BY <1>1 DEF KillChar, SetTimer
    <2> QED BY <2>1
  <1>2. CASE kind[c] \notin Spots
    BY <1>2 DEF KillChar
  <1> QED BY <1>1, <1>2

(* Somebody new stands.                                                    *)
LEMMA ActingAlloc ==
    ASSUME IInv, NEW k, NEW t, AllocChar(k, t)
    PROVE  \A c \in Used' : /\ c \in Used \/ c = Fresh
                            /\ c \in Used => /\ dead'[c] = dead[c] /\ action'[c] = action[c]
                                             /\ to'[c] = to[c]
                            /\ c = Fresh => /\ c \notin Used /\ dead'[c] = FALSE
                                            /\ action'[c] = "stand" /\ to'[c] = Nowhere
  <1>1. Used' = Used \cup {Fresh} /\ Fresh \in Entries \ Used
    BY AllocLists DEF IInv
  <1>2. /\ dead' = [dead EXCEPT ![Fresh] = FALSE]
        /\ action' = [action EXCEPT ![Fresh] = "stand"]
        /\ to' = [to EXCEPT ![Fresh] = Nowhere]
    BY DEF AllocChar
  <1> HIDE DEF Fresh
  <1> QED BY <1>1, <1>2, ActingParts

LEMMA ActingFree ==
    ASSUME IInv, NEW f \in Used, FreeChar(f)
    PROVE  /\ Used' = Used \ {f}
           /\ \A c \in Used' : /\ dead'[c] = dead[c] /\ action'[c] = action[c]
                               /\ to'[c] = to[c] /\ c \in Used
  <1>1. Used' = Used \ {f}
    BY FreeLists DEF IInv
  <1>2. /\ dead' = [dead EXCEPT ![f] = FALSE] /\ action' = [action EXCEPT ![f] = "stand"]
        /\ to' = [to EXCEPT ![f] = Nowhere]
    BY DEF FreeChar
  <1> QED BY <1>1, <1>2, ActingParts

LEMMA ActingKill ==
    ASSUME IInv, NEW f \in Used, KillChar(f, fired), UNCHANGED <<lists, mapData>>
    PROVE  /\ Used' = Used /\ to' = to /\ ~dead[f]
           /\ dead'[f] /\ action'[f] = "die"
           /\ \A c \in Used : c # f => dead'[c] = dead[c] /\ action'[c] = action[c]
           /\ fired = 0 => fired' = 0
  <1>1. Used' = Used /\ to' = to
    BY DEF lists, mapData, Used
  <1>2. /\ dead' = [dead EXCEPT ![f] = TRUE] /\ action' = [action EXCEPT ![f] = "die"]
        /\ ~dead[f]
    BY DEF KillChar
  <1> QED BY <1>1, <1>2, KillFired, ActingParts

(* The turn of whoever dies or goes is over, and no other one is.          *)
Ended(f) ==
    \/ pc' = pc /\ cur' = cur /\ nxt' = nxt /\ (pc \in {"acted", "driver"} => f # cur)
    \/ pc \in {"acted", "driver"} /\ f = cur /\ pc' = "char" /\ nxt' = nxt

LEMMA Ends ==
    ASSUME NEW f, TurnEnds(f)
    PROVE  Ended(f)
  BY DEF TurnEnds, Decided, loop, Ended

LEMMA ActingKept ==
    ASSUME IInv, [Next]_vars
    PROVE  Acting'
  <1> USE DEF Acting
  <1>1. ASSUME UNCHANGED <<lists, dead, action, to>> PROVE Used' = Used /\ Dying'
    BY <1>1 DEF IInv, Dying, lists, Used
  <1>2. CASE TickTimer
    <2>1. CASE Respawn
      <3>1. /\ AllocChar(Timer.spot, Home[Timer.spot])
            /\ pc = "timer" /\ pc' = pc /\ nxt' = nxt /\ cur' = cur
        BY <2>1 DEF Respawn, loop, Due
      <3> QED BY <3>1, ActingAlloc, ActingParts DEF Walking, Loop, Dying
    <2>2. CASE RespawnFails
      <3>1. /\ UNCHANGED <<lists, dead, action, to>>
            /\ pc = "timer" /\ pc' = pc /\ nxt' = nxt /\ cur' = cur
        BY <2>2 DEF RespawnFails, loop, Due, charData, mapData
      <3> QED BY <1>1, <3>1, ActingParts DEF Walking, Loop
    <2>3. CASE TimersDone
      <3>1. /\ UNCHANGED <<lists, dead, action, to>>
            /\ pc = "timer" /\ pc' = "char" /\ fired' = 0
        BY <2>3 DEF TimersDone, charData, mapData
      <3> QED BY <1>1, <3>1, ActingParts DEF Walking, Loop
    <2> QED BY <1>2, <2>1, <2>2, <2>3 DEF TickTimer
  <1>3. CASE Reset
    <2>1. /\ UNCHANGED <<lists, dead, to>> /\ cur' = cur /\ fired' = fired
          /\ action' = [action EXCEPT ![cur] = "stand"]
          /\ pc = "acted" /\ pc' = "driver"
      BY <1>3 DEF Reset, mapData, timerData
    <2>2. Used' = Used
      BY <2>1 DEF Used, lists
    <2>3. /\ cur \in Used /\ action'[cur] = "stand"
          /\ \A c \in Used : c # cur => action'[c] = action[c]
      BY <2>1, ActingParts
    <2> QED BY <2>1, <2>2, <2>3, ActingParts DEF Walking, Loop, Dying
  <1>4. CASE TurnBreaks \/ CharsDone
    <2>1. /\ UNCHANGED <<lists, dead, action, to, fired>>
          /\ pc = "char" /\ pc' = "rest" /\ nxt' = NoChar
      BY <1>4 DEF TurnBreaks, CharsDone, charData, mapData, timerData
    <2> QED BY <1>1, <2>1, ActingParts DEF Walking, Loop
  <1>5. CASE NextTick
    <2>1. /\ UNCHANGED <<lists, dead, action, to>> /\ nxt' = nxt
          /\ pc = "rest" /\ pc' = "timer"
      BY <1>5 DEF NextTick, charData, mapData
    <2> QED BY <1>1, <2>1, ActingParts DEF Walking, Loop
  <1>6. CASE Arrive
    <2>1. ASSUME NEW t \in Tiles, NEW k, AllocChar(k, t), UNCHANGED <<loop, fired>>
          PROVE  Acting'
      <3>1. pc' = pc /\ nxt' = nxt /\ cur' = cur /\ fired' = fired
        BY <2>1 DEF loop
      <3>2. Used \subseteq Used'
        BY <2>1, AllocLists DEF IInv
      <3> QED BY <2>1, <3>1, <3>2, ActingAlloc, ActingParts DEF Walking, Loop, Dying
    <2> QED BY <1>6, <2>1 DEF Arrive, Login, CreateChar, timerData
  <1>7. ASSUME NEW n \in Entries, Turn(n) PROVE Acting'
    <2>1. CASE Wait(n)
      <3>1. /\ UNCHANGED <<lists, dead, action, to, fired>>
            /\ pc = "char" /\ pc' = "char" /\ cur' = cur
        BY <2>1 DEF Wait, TurnOf, Continue, mapData, timerData
      <3> QED BY <1>1, <3>1, ActingParts DEF Walking, Loop
    <2>2. CASE TurnLeave(n) \/ ActDie(n)
      <3>1. /\ FreeChar(n) /\ n \in Used /\ fired' = fired
            /\ pc = "char" /\ pc' = "char" /\ cur' = cur
        BY <2>2 DEF TurnLeave, ActDie, Acts, TurnOf, Continue, timerData
      <3> QED BY <3>1, ActingFree, ActingParts DEF Walking, Loop, Dying
    <2>3. CASE ActStand(n)
      <3>1. /\ UNCHANGED <<lists, dead, action, to, fired>> /\ n \in Used
            /\ action[n] = "stand" /\ pc = "char" /\ pc' = "acted" /\ cur' = n
        BY <2>3 DEF ActStand, Acts, TurnOf, AskDriver, charData, mapData, timerData
      <3> QED BY <1>1, <3>1, ActingParts DEF Walking, Loop
    <2>4. CASE ActWalk(n)
      <3>1. /\ UNCHANGED <<lists, dead, action, fired>> /\ n \in Used
            /\ to' = [to EXCEPT ![n] = Nowhere]
            /\ action[n] = "walk" /\ pc = "char" /\ pc' = "acted" /\ cur' = n
        BY <2>4 DEF ActWalk, Acts, TurnOf, AskDriver, charData, timerData
      <3>2. Used' = Used
        BY <3>1 DEF Used, lists
      <3>3. to'[n] = Nowhere /\ \A c \in Used : c # n => to'[c] = to[c]
        BY <3>1, ActingParts
      <3> QED BY <3>1, <3>2, <3>3, ActingParts DEF Walking, Loop, Dying
    <2>5. ASSUME NEW t \in Tiles, ActDieRevived(n, t) PROVE Acting'
      <3>1. /\ n \in Used /\ pc = "char" /\ pc' = "char" /\ cur' = cur
            /\ dead' = [dead EXCEPT ![n] = FALSE]
            /\ action' = [action EXCEPT ![n] = "stand"]
            /\ to' = [to EXCEPT ![n] = Nowhere]
            /\ UNCHANGED <<lists, fired>>
        BY <2>5 DEF ActDieRevived, PutChar, Acts, TurnOf, Continue, timerData
      <3>2. Used' = Used
        BY <3>1 DEF Used, lists
      <3>3. /\ to'[n] = Nowhere /\ dead'[n] = FALSE /\ action'[n] = "stand"
            /\ \A c \in Used : c # n => to'[c] = to[c] /\ dead'[c] = dead[c]
                                        /\ action'[c] = action[c]
        BY <3>1, ActingParts
      <3> QED BY <3>1, <3>2, <3>3, ActingParts DEF Walking, Loop, Dying
    <2> QED BY <1>7, <2>1, <2>2, <2>3, <2>4, <2>5 DEF Turn
  <1>8. ASSUME NEW n \in Entries, Driver(n) PROVE Acting'
    <2>1. /\ pc = "driver" /\ cur = n /\ n \in Used /\ to[n] = Nowhere
          /\ pc' = "char" /\ fired = 0
      <3>1. pc = "driver" /\ cur = n /\ pc' = "char"
        BY <1>8 DEF Driver, DoStand, DoNothing, DoWalk, Asked, Decided
      <3> QED BY <3>1, ActingParts
    <2>2. CASE DoStand(n)
      <3>1. /\ UNCHANGED <<lists, dead, to, fired>>
            /\ action' = [action EXCEPT ![n] = "stand"]
        BY <2>2 DEF DoStand, mapData, timerData
      <3>2. Used' = Used
        BY <3>1 DEF Used, lists
      <3>3. action'[n] = "stand" /\ \A c \in Used : c # n => action'[c] = action[c]
        BY <2>1, <3>1, ActingParts
      <3> QED BY <2>1, <3>1, <3>2, <3>3, ActingParts DEF Walking, Loop, Dying
    <2>3. CASE DoNothing(n)
      <3>1. UNCHANGED <<lists, dead, action, to, fired>>
        BY <2>3 DEF DoNothing, charData, mapData, timerData
      <3>2. action[n] # "walk"
        BY <2>1 DEF IInv, Walking
      <3> QED BY <1>1, <2>1, <3>1, <3>2, ActingParts DEF Walking, Loop
    <2>4. ASSUME NEW t \in Tiles, DoWalk(n, t) PROVE Acting'
      <3>1. /\ UNCHANGED <<lists, dead, fired>>
            /\ action' = [action EXCEPT ![n] = "walk"] /\ to' = [to EXCEPT ![n] = t]
            /\ t # Nowhere
        BY <2>4, WorldAssumption DEF DoWalk, timerData
      <3>2. Used' = Used
        BY <3>1 DEF Used, lists
      <3>3. /\ action'[n] = "walk" /\ to'[n] = t
            /\ \A c \in Used : c # n => action'[c] = action[c] /\ to'[c] = to[c]
        BY <2>1, <3>1, ActingParts
      <3> QED BY <2>1, <3>1, <3>2, <3>3, ActingParts DEF Walking, Loop, Dying
    <2> QED BY <1>8, <2>2, <2>3, <2>4 DEF Driver
  <1>9. ASSUME NEW f \in Entries, Suffer(f) PROVE Acting'
    <2>1. CASE Hurt(f)
      <3>1. /\ f \in Used /\ KillChar(f, fired) /\ UNCHANGED <<lists, mapData>>
            /\ TurnEnds(f)
        BY <2>1 DEF Hurt, Reached
      <3>2. /\ Used' = Used /\ to' = to /\ (fired = 0 => fired' = 0)
            /\ dead'[f] /\ action'[f] = "die"
            /\ \A c \in Used : c # f => dead'[c] = dead[c] /\ action'[c] = action[c]
        BY <3>1, ActingKill
      <3>3. Ended(f)
        BY <3>1, Ends
      <3> QED BY <3>2, <3>3, ActingParts DEF Walking, Loop, Dying, Ended
    <2>2. CASE RemoveChar(f)
      <3>1. /\ FreeChar(f) /\ f \in Used /\ fired' = fired /\ TurnEnds(f)
        BY <2>2 DEF RemoveChar, Reached, timerData
      <3>2. Ended(f)
        BY <3>1, Ends
      <3> QED BY <3>1, <3>2, ActingFree, ActingParts DEF Walking, Loop, Dying, Ended
    <2>3. ASSUME NEW t \in Tiles, MoveChar(f, t) PROVE Acting'
      <3>1. /\ f \in Used /\ UNCHANGED <<lists, dead, fired>>
            /\ action' = [action EXCEPT ![f] = "stand"] /\ to' = [to EXCEPT ![f] = Nowhere]
            /\ \/ pc' = pc /\ cur' = cur /\ nxt' = nxt
               \/ cur = f /\ pc = "acted" /\ pc' = "char"
        BY <2>3 DEF MoveChar, Reached, PutChar, Decided, loop, timerData
      <3>2. Used' = Used
        BY <3>1 DEF Used, lists
      <3>3. /\ action'[f] = "stand" /\ to'[f] = Nowhere
            /\ \A c \in Used : c # f => action'[c] = action[c] /\ to'[c] = to[c]
        BY <3>1, ActingParts
      <3> QED BY <3>1, <3>2, <3>3, ActingParts DEF Walking, Loop, Dying
    <2>4. ASSUME NEW d \in Entries, SwapChars(f, d) PROVE Acting'
      <3>1. /\ f \in Used /\ d \in Used /\ action[f] = "stand" /\ action[d] = "stand"
            /\ UNCHANGED <<lists, dead, action, fired, pc, cur, nxt>>
            /\ to' = [to EXCEPT ![f] = Nowhere, ![d] = Nowhere]
        BY <2>4 DEF SwapChars, Exchange, charData, timerData, loop
      <3>2. Used' = Used
        BY <3>1 DEF Used, lists
      <3>3. /\ to'[f] = Nowhere /\ to'[d] = Nowhere
            /\ \A c \in Used \ {f, d} : to'[c] = to[c]
        BY <3>1, ActingParts
      <3> QED BY <3>1, <3>2, <3>3, ActingParts DEF Walking, Loop, Dying
    <2>5. ASSUME NEW d \in Entries, DoorSwap(f, d) PROVE Acting'
      <3>1. /\ pc = "acted" /\ f = cur /\ f \in Used /\ d \in Used /\ d # f
            /\ UNCHANGED <<lists, dead, fired, pc, cur, nxt>>
            /\ action' = [action EXCEPT ![d] = "stand"]
            /\ to' = [to EXCEPT ![f] = Nowhere, ![d] = Nowhere]
        BY <2>5, ActingParts DEF DoorSwap, Exchange, timerData, loop
      <3>2. Used' = Used
        BY <3>1 DEF Used, lists
      <3>3. /\ to'[f] = Nowhere /\ to'[d] = Nowhere /\ action'[d] = "stand"
            /\ \A c \in Used \ {f, d} : to'[c] = to[c]
            /\ \A c \in Used \ {d} : action'[c] = action[c]
        BY <3>1, ActingParts
      <3> QED BY <3>1, <3>2, <3>3, ActingParts DEF Walking, Loop, Dying
    <2> QED BY <1>9, <2>1, <2>2, <2>3, <2>4, <2>5 DEF Suffer
  <1>10. CASE UNCHANGED vars
    <2>1. UNCHANGED <<lists, dead, action, to, pc, cur, nxt, fired>>
      BY <1>10 DEF vars, charData, mapData, loop, timerData
    <2> QED BY <1>1, <2>1, ActingParts DEF Walking, Loop
  <1> QED BY <1>2, <1>3, <1>4, <1>5, <1>6, <1>7, <1>8, <1>9, <1>10 DEF Next

-----------------------------------------------------------------------------
(* The timers, and what they bring back.                                   *)

Population1 == TimersInv /\ EachSpot

LEMMA TimerParts ==
    ASSUME IInv
    PROVE  /\ Len(timers) \in Nat /\ fired \in 0..Len(timers)
           /\ timers \in Seq([left : Int, spot : Spots])
           /\ \A i \in 1..Len(timers) : timers[i].left \in Int /\ timers[i].spot \in Spots
           /\ \A i, j \in 1..Len(timers) : i <= j => timers[i].left <= timers[j].left
           /\ \A i \in 1..fired : timers[i].left <= 0
  <1> DEFINE T == [left : Int, spot : Spots]
  <1>1. timers \in Seq(T) /\ Len(timers) \in Nat /\ fired \in 0..Len(timers)
    BY DEF IInv, TypeOK
  <1>2. ASSUME NEW i \in 1..Len(timers)
        PROVE  timers[i].left \in Int /\ timers[i].spot \in Spots
    <2>1. timers[i] \in T
      <3> HIDE DEF T
      <3> QED BY <1>1
    <2> QED BY <2>1
  <1> QED BY <1>1, <1>2 DEF IInv, TimersInv

(* t is in place p of the list of timers.                                  *)
Put(t, p) == PutInto(timers', timers, p, t)

(* A timer with a delay is set after those that have been called.          *)
LEMMA SetLater ==
    ASSUME IInv, NEW t \in [left : Int, spot : Spots], t.left > 0,
           NEW called \in 0..Len(timers), \A i \in 1..called : timers[i].left <= 0,
           SetTimer(t, called)
    PROVE  /\ TimersInv' /\ fired' = called
           /\ \E p \in (called + 1)..(Len(timers) + 1) : Put(t, p)
  <1>1. PICK p \in 1..(Len(timers) + 1) :
            /\ \A i \in 1..(p - 1) : timers[i].left < t.left
            /\ p <= Len(timers) => timers[p].left >= t.left
            /\ timers' = InsertAt(timers, p, t)
            /\ fired' = IF p <= called THEN called + 1 ELSE called
    BY DEF SetTimer
  <1>2. Len(timers) \in Nat /\ t.left \in Int /\ p \in Nat /\ called \in Nat
    BY TimerParts
  <1>3. p > called
    <2> SUFFICES ASSUME p <= called PROVE FALSE
      BY <1>2
    <2>1. p \in 1..called /\ p \in 1..Len(timers)
      BY <1>2
    <2>2. timers[p].left <= 0 /\ timers[p].left >= t.left /\ timers[p].left \in Int
      BY <1>1, <2>1, TimerParts
    <2> QED BY <1>2, <2>2
  <1>4. fired' = called /\ p \in (called + 1)..(Len(timers) + 1)
    BY <1>1, <1>2, <1>3
  <1>5. Put(t, p)
    <2> DEFINE T == [left : Int, spot : Spots]
    <2>1. timers \in Seq(T) /\ t \in T
      BY TimerParts
    <2> HIDE DEF T
    <2>2. timers' = InsertAt(timers, p, t)
      BY <1>1
    <2> QED BY <2>1, <2>2, Inserted DEF Put
  <1> DEFINE old(j) == IF j < p THEN j ELSE j - 1
  <1>6. ASSUME NEW j \in 1..Len(timers')
        PROVE  \/ j = p /\ timers'[j] = t
               \/ j # p /\ old(j) \in 1..Len(timers) /\ timers'[j] = timers[old(j)]
    <2>1. Len(timers') = Len(timers) + 1
      BY <1>5 DEF Put, PutInto
    <2>2. CASE j = p
      BY <1>5, <2>2 DEF Put, PutInto
    <2>3. CASE j < p
      <3>1. j \in 1..(p - 1) /\ old(j) = j /\ j \in 1..Len(timers)
        BY <1>2, <2>3
      <3> QED BY <1>5, <2>3, <3>1 DEF Put, PutInto
    <2>4. CASE j > p
      <3>1. j - 1 \in p..Len(timers) /\ j - 1 \in 1..Len(timers) /\ (j - 1) + 1 = j
            /\ old(j) = j - 1
        BY <1>2, <2>1, <2>4
      <3>2. timers'[(j - 1) + 1] = timers[j - 1]
        BY <1>5, <3>1 DEF Put, PutInto
      <3> QED BY <2>4, <3>1, <3>2
    <2> QED BY <1>2, <2>1, <2>2, <2>3, <2>4
  <1>7. ASSUME NEW i \in 1..Len(timers'), NEW j \in 1..Len(timers'), i <= j
        PROVE  timers'[i].left <= timers'[j].left
    <2>1. CASE i = p /\ j = p
      BY <1>2, <1>5, <2>1 DEF Put, PutInto
    <2>2. CASE i = p /\ j # p
      <3>1. j - 1 \in 1..Len(timers) /\ p \in 1..Len(timers) /\ p <= j - 1
            /\ timers'[j] = timers[j - 1] /\ timers'[i] = t
        BY <1>2, <1>6, <1>7, <2>2
      <3>2. timers[p].left <= timers[j - 1].left /\ timers[p].left >= t.left
            /\ timers[p].left \in Int /\ timers[j - 1].left \in Int
        BY <1>1, <3>1, TimerParts, SMTT(30)
      <3> QED BY <1>2, <3>1, <3>2
    <2>3. CASE i # p /\ j = p
      <3>1. i \in 1..(p - 1) /\ i \in 1..Len(timers)
            /\ timers'[i] = timers[i] /\ timers'[j] = t
        BY <1>2, <1>6, <1>7, <2>3
      <3>2. timers[i].left < t.left /\ timers[i].left \in Int
        BY <1>1, <3>1, TimerParts
      <3> QED BY <1>2, <3>1, <3>2
    <2>4. CASE i # p /\ j # p
      <3>1. /\ old(i) \in 1..Len(timers) /\ timers'[i] = timers[old(i)]
            /\ old(j) \in 1..Len(timers) /\ timers'[j] = timers[old(j)]
        BY <1>6, <2>4
      <3>2. old(i) <= old(j)
        BY <1>2, <1>7, <2>4, <1>5 DEF Put, PutInto
      <3> HIDE DEF old
      <3> QED BY <3>1, <3>2, TimerParts
    <2> QED BY <2>1, <2>2, <2>3, <2>4
  <1>8. ASSUME NEW i \in 1..fired' PROVE timers'[i].left <= 0
    <2>1. i \in 1..(p - 1) /\ i \in 1..called
      BY <1>2, <1>3, <1>4
    <2> QED BY <1>5, <2>1 DEF Put, PutInto
  <1>9. TimersInv'
    BY <1>7, <1>8 DEF TimersInv
  <1> QED BY <1>4, <1>5, <1>9

(* A spot for which nothing changes.                                       *)
LEMMA SpotSame ==
    ASSUME IInv, UNCHANGED <<timers, fired>>, \A s \in Spots : Alive(s)' = Alive(s)
    PROVE  Population1'
  <1>1. TimersInv'
    BY DEF IInv, TimersInv
  <1>2. \A s \in Spots : Returns(s)' = Returns(s)
    BY DEF Returns
  <1>3. EachSpot'
    BY <1>2 DEF IInv, EachSpot, OneOf
  <1> QED BY <1>1, <1>3 DEF Population1

(* Somebody new who belongs to another spot, or to none.                   *)
LEMMA SpotAlloc ==
    ASSUME IInv, NEW s \in Spots, NEW k \in Kinds, k # s, NEW t, AllocChar(k, t)
    PROVE  Alive(s)' = Alive(s)
  <1>1. Used' = Used \cup {Fresh} /\ Fresh \in Entries \ Used
    BY AllocLists DEF IInv
  <1>2. kind' = [kind EXCEPT ![Fresh] = k] /\ dead' = [dead EXCEPT ![Fresh] = FALSE]
    BY DEF AllocChar
  <1>3. kind \in [Entries -> Kinds] /\ dead \in [Entries -> BOOLEAN] /\ Used \subseteq Entries
    BY Lists DEF IInv, TypeOK
  <1> HIDE DEF Fresh
  <1>4. /\ kind'[Fresh] = k
        /\ \A c \in Used : kind'[c] = kind[c] /\ dead'[c] = dead[c]
    BY <1>1, <1>2, <1>3
  <1> QED BY <1>1, <1>4 DEF Alive

(* Somebody goes who belongs to no spot, or is dead.                       *)
LEMMA SpotFree ==
    ASSUME IInv, NEW s \in Spots, NEW f \in Used, dead[f] \/ kind[f] \notin Spots, FreeChar(f)
    PROVE  Alive(s)' = Alive(s)
  <1>1. Used' = Used \ {f}
    BY FreeLists DEF IInv
  <1>2. kind' = [kind EXCEPT ![f] = "spawned"] /\ dead' = [dead EXCEPT ![f] = FALSE]
    BY DEF FreeChar
  <1>3. kind \in [Entries -> Kinds] /\ dead \in [Entries -> BOOLEAN] /\ Used \subseteq Entries
    BY Lists DEF IInv, TypeOK
  <1>4. \A c \in Used' : kind'[c] = kind[c] /\ dead'[c] = dead[c]
    BY <1>1, <1>2, <1>3
  <1> QED BY <1>1, <1>4 DEF Alive

(* What a timer set after those called does to those that are awaited.     *)
LEMMA PutReturns ==
    ASSUME IInv, NEW t \in [left : Int, spot : Spots], NEW called \in fired..Len(timers),
           fired' = called, NEW p \in (called + 1)..(Len(timers) + 1), Put(t, p),
           NEW s \in Spots, \A i \in (fired + 1)..called : timers[i].spot # s
    PROVE  /\ s = t.spot /\ Returns(s) = {} => Returns(s)' = {p} /\ p \in Nat
           /\ s # t.spot /\ Returns(s) = {} => Returns(s)' = {}
           /\ s # t.spot => \A i \in Nat : Returns(s) = {i} =>
                  \E j \in Nat : Returns(s)' = {j}
  <1>1. /\ Len(timers) \in Nat /\ called \in Nat /\ p \in Nat /\ fired \in Nat
        /\ fired <= called /\ called < p /\ p <= Len(timers) + 1
    BY TimerParts
  <1>2. /\ Len(timers') = Len(timers) + 1 /\ timers'[p] = t
        /\ \A j \in 1..(p - 1) : timers'[j] = timers[j]
        /\ \A j \in p..Len(timers) : timers'[j + 1] = timers[j]
    BY DEF Put, PutInto
  <1> DEFINE old(j) == IF j < p THEN j ELSE j - 1
             new(i) == IF i < p THEN i ELSE i + 1
  <1>3. ASSUME NEW j \in Returns(s)'
        PROVE  \/ j = p /\ t.spot = s
               \/ old(j) \in Returns(s) /\ j = new(old(j))
    <2>1. j \in (called + 1)..(Len(timers) + 1) /\ timers'[j].spot = s
      BY <1>2 DEF Returns
    <2>2. CASE j = p
      BY <1>2, <2>1, <2>2
    <2>3. CASE j < p
      <3>1. j \in 1..(p - 1) /\ j \in (fired + 1)..Len(timers) /\ old(j) = j /\ new(j) = j
        BY <1>1, <2>1, <2>3
      <3>2. timers[j].spot = s
        BY <1>2, <2>1, <3>1
      <3> QED BY <3>1, <3>2 DEF Returns
    <2>4. CASE j > p
      <3>1. /\ j - 1 \in p..Len(timers) /\ j - 1 \in (fired + 1)..Len(timers)
            /\ (j - 1) + 1 = j /\ old(j) = j - 1 /\ new(j - 1) = j
        BY <1>1, <2>1, <2>4
      <3>2. timers'[(j - 1) + 1] = timers[j - 1]
        BY <1>2, <3>1
      <3>3. timers[j - 1].spot = s
        BY <2>1, <3>1, <3>2
      <3> QED BY <3>1, <3>3 DEF Returns
    <2> QED BY <1>1, <2>1, <2>2, <2>3, <2>4
  <1>4. ASSUME NEW i \in Returns(s) PROVE new(i) \in Returns(s)'
    <2>1. i \in (fired + 1)..Len(timers) /\ timers[i].spot = s
      BY DEF Returns
    <2>2. i > called
      BY <1>1, <2>1
    <2>3. CASE i < p
      <3>1. i \in 1..(p - 1) /\ i \in (called + 1)..(Len(timers) + 1) /\ new(i) = i
        BY <1>1, <2>1, <2>2, <2>3
      <3>2. timers'[i] = timers[i]
        BY <1>2, <3>1
      <3> QED BY <1>2, <2>1, <3>1, <3>2 DEF Returns
    <2>4. CASE i >= p
      <3>1. /\ i \in p..Len(timers) /\ i + 1 \in (called + 1)..(Len(timers) + 1)
            /\ new(i) = i + 1
        BY <1>1, <2>1, <2>2, <2>4
      <3>2. timers'[i + 1] = timers[i]
        BY <1>2, <3>1
      <3> QED BY <1>2, <2>1, <3>1, <3>2 DEF Returns
    <2> QED BY <1>1, <2>1, <2>3, <2>4
  <1>5. s = t.spot => p \in Returns(s)'
    <2>1. p \in (called + 1)..(Len(timers) + 1)
      OBVIOUS
    <2> QED BY <1>2, <2>1 DEF Returns
  <1>6. \A i \in Nat : new(i) \in Nat
    OBVIOUS
  <1> HIDE DEF old, new
  <1>7. s = t.spot /\ Returns(s) = {} => Returns(s)' = {p} /\ p \in Nat
    BY <1>1, <1>3, <1>5
  <1>8. s # t.spot /\ Returns(s) = {} => Returns(s)' = {}
    BY <1>3
  <1>9. ASSUME s # t.spot, NEW i \in Nat, Returns(s) = {i}
        PROVE  \E j \in Nat : Returns(s)' = {j}
    <2>1. new(i) \in Returns(s)'
      BY <1>4, <1>9
    <2>2. \A j \in Returns(s)' : j = new(i)
      BY <1>3, <1>9
    <2>3. Returns(s)' = {new(i)} /\ new(i) \in Nat
      BY <1>6, <2>1, <2>2
    <2> QED BY <2>3
  <1> QED BY <1>7, <1>8, <1>9

(* Whoever is killed does not live any more.                               *)
LEMMA KillAlive ==
    ASSUME IInv, NEW f \in Used, KillChar(f, fired), UNCHANGED <<lists, kind>>
    PROVE  /\ ~dead[f] /\ f \in Entries
           /\ \A s \in Spots : Alive(s)' = Alive(s) \ {f}
           /\ \A s \in Spots : f \in Alive(s) <=> s = kind[f]
  <1>1. Used' = Used /\ kind' = kind
    BY DEF lists, Used
  <1>2. dead' = [dead EXCEPT ![f] = TRUE] /\ ~dead[f]
    BY DEF KillChar
  <1>3. /\ dead'[f] = TRUE /\ f \in Entries
        /\ \A c \in Used : c # f => dead'[c] = dead[c]
    BY <1>2, ActingParts
  <1>4. ASSUME NEW s \in Spots PROVE Alive(s)' = Alive(s) \ {f}
    BY <1>1, <1>3 DEF Alive
  <1>5. ASSUME NEW s \in Spots PROVE f \in Alive(s) <=> s = kind[f]
    BY <1>2 DEF Alive
  <1> QED BY <1>2, <1>3, <1>4, <1>5

(* Somebody killed: the timer takes his place.                             *)
LEMMA SpotKill ==
    ASSUME IInv, NEW f \in Used, KillChar(f, fired), UNCHANGED <<lists, kind>>
    PROVE  Population1'
  <1>1. /\ \A s \in Spots : Alive(s)' = Alive(s) \ {f}
        /\ \A s \in Spots : f \in Alive(s) <=> s = kind[f]
    BY KillAlive
  <1>5. CASE kind[f] \notin Spots
    <2>1. UNCHANGED <<timers, fired>>
      BY <1>5 DEF KillChar
    <2>2. \A s \in Spots : Alive(s)' = Alive(s)
      BY <1>1, <1>5
    <2> QED BY <2>1, <2>2, SpotSame
  <1>6. CASE kind[f] \in Spots
    <2> DEFINE t == RespawnTimer(kind[f], RespawnTicks)
    <2>1. t \in [left : Int, spot : Spots] /\ t.left > 0 /\ t.spot = kind[f]
      BY <1>6, WorldAssumption DEF RespawnTimer
    <2>2. SetTimer(t, fired)
      BY <1>6 DEF KillChar
    <2> HIDE DEF t
    <2>3. fired \in 0..Len(timers) /\ \A i \in 1..fired : timers[i].left <= 0
      BY TimerParts
    <2>4. TimersInv' /\ fired' = fired /\ \E p \in (fired + 1)..(Len(timers) + 1) : Put(t, p)
      BY <2>1, <2>2, <2>3, SetLater
    <2>5. PICK p \in (fired + 1)..(Len(timers) + 1) : Put(t, p)
      BY <2>4
    <2>6. ASSUME NEW s \in Spots PROVE OneOf(s)'
      <3>1. /\ fired \in fired..Len(timers)
            /\ \A i \in (fired + 1)..fired : timers[i].spot # s
        BY <2>3
      <3>2. /\ s = t.spot /\ Returns(s) = {} => Returns(s)' = {p} /\ p \in Nat
            /\ s # t.spot /\ Returns(s) = {} => Returns(s)' = {}
            /\ s # t.spot => \A i \in Nat : Returns(s) = {i} =>
                   \E j \in Nat : Returns(s)' = {j}
        BY <2>1, <2>4, <2>5, <3>1, PutReturns
      <3>3. CASE s = kind[f]
        <4>1. f \in Alive(s)
          BY <1>1, <3>3
        <4>2. Returns(s) = {} /\ \E c \in Entries : Alive(s) = {c}
          BY <4>1 DEF IInv, EachSpot, OneOf
        <4>3. Alive(s)' = {}
          BY <1>1, <4>1, <4>2
        <4> QED BY <2>1, <3>2, <3>3, <4>2, <4>3 DEF OneOf
      <3>4. CASE s # kind[f]
        <4>1. Alive(s)' = Alive(s)
          BY <1>1, <3>4
        <4>2. \/ Returns(s) = {} /\ \E c \in Entries : Alive(s) = {c}
              \/ Alive(s) = {} /\ \E i \in Nat : Returns(s) = {i}
          BY DEF IInv, EachSpot, OneOf
        <4> QED BY <2>1, <3>2, <3>4, <4>1, <4>2 DEF OneOf
      <3> QED BY <3>3, <3>4
    <2> QED BY <2>4, <2>6 DEF Population1, EachSpot
  <1> QED BY <1>5, <1>6

(* The timer of a spot that is due is the only one of it.                  *)
LEMMA DueReturns ==
    ASSUME IInv, Due
    PROVE  Alive(Timer.spot) = {} /\ Returns(Timer.spot) = {fired + 1}
  <1>1. /\ fired + 1 \in 1..Len(timers) /\ Len(timers) \in Nat /\ fired \in Nat
        /\ Timer.spot \in Spots
    BY DueTimer, TimerParts DEF IInv
  <1>2. fired + 1 \in Returns(Timer.spot)
    BY <1>1 DEF Returns, Timer
  <1> QED BY <1>1, <1>2 DEF IInv, EachSpot, OneOf

(* Somebody back at his spot: he takes the place of the timer.             *)
LEMMA SpotRespawn ==
    ASSUME IInv, Respawn
    PROVE  Population1'
  <1>0. PICK r \in Spots : r = Timer.spot
    BY DueTimer DEF Respawn, IInv
  <1>1. /\ Due /\ AllocChar(r, Home[r]) /\ fired' = fired + 1 /\ timers' = timers
        /\ r \in Spots /\ fired + 1 \in 1..Len(timers) /\ Len(timers) \in Nat /\ fired \in Nat
        /\ timers[fired + 1].left <= 0 /\ timers[fired + 1].spot = r
    BY <1>0, DueTimer, TimerParts DEF Respawn, IInv, Timer
  <1>2. Alive(r) = {} /\ Returns(r) = {fired + 1}
    BY <1>0, <1>1, DueReturns
  <1>3. TimersInv'
    <2>1. ASSUME NEW i \in 1..fired' PROVE timers'[i].left <= 0
      <3>1. i \in 1..fired \/ i = fired + 1
        BY <1>1
      <3> QED BY <1>1, <3>1, TimerParts
    <2> QED BY <1>1, <2>1 DEF IInv, TimersInv
  <1>4. /\ Used' = Used \cup {Fresh} /\ Fresh \in Entries \ Used
    BY <1>1, AllocLists DEF IInv
  <1>5. OneOf(r)'
    <2>1. kind' = [kind EXCEPT ![Fresh] = r] /\ dead' = [dead EXCEPT ![Fresh] = FALSE]
      BY <1>1 DEF AllocChar
    <2>2. kind \in [Entries -> Kinds] /\ dead \in [Entries -> BOOLEAN] /\ Used \subseteq Entries
      BY Lists DEF IInv, TypeOK
    <2> HIDE DEF Fresh
    <2>3. /\ kind'[Fresh] = r /\ dead'[Fresh] = FALSE
          /\ \A c \in Used : kind'[c] = kind[c] /\ dead'[c] = dead[c]
      BY <1>4, <2>1, <2>2
    <2>4. Alive(r)' = {Fresh}
      BY <1>2, <1>4, <2>3 DEF Alive
    <2>5. Returns(r)' = {}
      <3>1. ASSUME NEW i \in Returns(r)' PROVE FALSE
        <4>1. i \in Returns(r) /\ i # fired + 1
          BY <1>1, <3>1 DEF Returns
        <4> QED BY <1>2, <4>1
      <3> QED BY <3>1
    <2> QED BY <1>4, <2>4, <2>5 DEF OneOf
  <1>6. ASSUME NEW s \in Spots, s # r PROVE OneOf(s)'
    <2>1. Alive(s)' = Alive(s)
      BY <1>1, <1>6, SpotAlloc DEF Kinds
    <2>2. Returns(s)' = Returns(s)
      <3>1. \A i : i \in Returns(s) => i # fired + 1
        BY <1>1, <1>6 DEF Returns
      <3> QED BY <1>1, <3>1 DEF Returns
    <2> QED BY <2>1, <2>2 DEF IInv, EachSpot, OneOf
  <1> QED BY <1>3, <1>5, <1>6 DEF Population1, EachSpot

(* He could not come: the next timer takes the place of this one.          *)
LEMMA SpotFails ==
    ASSUME IInv, RespawnFails
    PROVE  Population1'
  <1>0. PICK r \in Spots : r = Timer.spot
    BY DueTimer DEF RespawnFails, IInv
  <1> DEFINE t == RespawnTimer(r, RetryTicks)
  <1>1. /\ Due /\ SetTimer(t, fired + 1)
        /\ r \in Spots /\ fired + 1 \in 1..Len(timers) /\ Len(timers) \in Nat /\ fired \in Nat
        /\ timers[fired + 1].left <= 0 /\ timers[fired + 1].spot = r
    BY <1>0, DueTimer, TimerParts DEF RespawnFails, IInv, Timer
  <1>2. Alive(r) = {} /\ Returns(r) = {fired + 1}
    BY <1>0, <1>1, DueReturns
  <1>3. t \in [left : Int, spot : Spots] /\ t.left > 0 /\ t.spot = r
    BY <1>1, WorldAssumption DEF RespawnTimer
  <1> HIDE DEF t
  <1>4. fired + 1 \in 0..Len(timers) /\ \A i \in 1..(fired + 1) : timers[i].left <= 0
    <2>1. ASSUME NEW i \in 1..(fired + 1) PROVE timers[i].left <= 0
      <3>1. i \in 1..fired \/ i = fired + 1
        BY <1>1
      <3> QED BY <1>1, <3>1, TimerParts
    <2> QED BY <1>1, <2>1
  <1>5. /\ TimersInv' /\ fired' = fired + 1
        /\ \E p \in ((fired + 1) + 1)..(Len(timers) + 1) : Put(t, p)
    BY <1>1, <1>3, <1>4, SetLater
  <1>6. PICK p \in ((fired + 1) + 1)..(Len(timers) + 1) : Put(t, p)
    BY <1>5
  <1>7. \A s \in Spots : Alive(s)' = Alive(s)
    BY DEF RespawnFails, lists, charData, Alive, Used
  <1>8. OneOf(r)'
    <2>1. /\ Len(timers') = Len(timers) + 1 /\ timers'[p] = t
          /\ \A j \in 1..(p - 1) : timers'[j] = timers[j]
          /\ \A j \in p..Len(timers) : timers'[j + 1] = timers[j]
      BY <1>6 DEF Put, PutInto
    <2>2. p \in Nat /\ p > fired + 1 /\ p <= Len(timers) + 1
      BY <1>1
    <2>3. p \in Returns(r)'
      BY <1>1, <1>3, <1>5, <2>1, <2>2 DEF Returns
    <2>4. ASSUME NEW j \in Returns(r)', j # p PROVE FALSE
      <3>1. j \in (fired + 2)..(Len(timers) + 1) /\ timers'[j].spot = r
        BY <1>1, <1>5, <2>1 DEF Returns
      <3>2. CASE j < p
        <4>1. j \in 1..(p - 1) /\ j \in (fired + 1)..Len(timers) /\ j # fired + 1
          BY <1>1, <2>2, <3>1, <3>2
        <4>2. timers[j].spot = r
          BY <2>1, <3>1, <4>1
        <4>3. j \in Returns(r)
          BY <4>1, <4>2 DEF Returns
        <4> QED BY <1>2, <4>1, <4>3
      <3>3. CASE j > p
        <4>1. /\ j - 1 \in p..Len(timers) /\ j - 1 \in (fired + 1)..Len(timers)
              /\ (j - 1) + 1 = j /\ j - 1 # fired + 1
          BY <1>1, <2>2, <3>1, <3>3
        <4>2. timers'[(j - 1) + 1] = timers[j - 1]
          BY <2>1, <4>1
        <4>3. timers[j - 1].spot = r
          BY <3>1, <4>1, <4>2
        <4>4. j - 1 \in Returns(r)
          BY <4>1, <4>3 DEF Returns
        <4> QED BY <1>2, <4>1, <4>4
      <3> QED BY <2>2, <2>4, <3>1, <3>2, <3>3
    <2>5. Returns(r)' = {p}
      BY <2>3, <2>4
    <2> QED BY <1>1, <1>2, <1>7, <2>2, <2>5 DEF OneOf
  <1>9. ASSUME NEW s \in Spots, s # r PROVE OneOf(s)'
    <2>1. /\ fired + 1 \in fired..Len(timers)
          /\ \A i \in (fired + 1)..(fired + 1) : timers[i].spot # s
      BY <1>1, <1>9
    <2>2. /\ s # t.spot /\ Returns(s) = {} => Returns(s)' = {}
          /\ s # t.spot => \A i \in Nat : Returns(s) = {i} =>
                 \E j \in Nat : Returns(s)' = {j}
      BY <1>3, <1>5, <1>6, <2>1, PutReturns
    <2>3. \/ Returns(s) = {} /\ \E c \in Entries : Alive(s) = {c}
          \/ Alive(s) = {} /\ \E i \in Nat : Returns(s) = {i}
      BY DEF IInv, EachSpot, OneOf
    <2> QED BY <1>3, <1>7, <1>9, <2>2, <2>3 DEF OneOf
  <1> QED BY <1>5, <1>8, <1>9 DEF Population1, EachSpot

(* The timers that were called are dropped.                                *)
LEMMA SpotDrop ==
    ASSUME IInv, TimersDone
    PROVE  /\ Population1' /\ Len(timers') = Len(timers) - fired
           /\ \A j \in 1..(Len(timers) - fired) : timers'[j] = timers[fired + j]
  <1>1. /\ Len(timers) \in Nat /\ fired \in Nat /\ fired <= Len(timers) /\ fired' = 0
        /\ timers' = SubSeq(timers, fired + 1, Len(timers)) /\ UNCHANGED <<lists, charData>>
    BY TimerParts DEF TimersDone
  <1>2. /\ Len(timers') = Len(timers) - fired
        /\ \A j \in 1..(Len(timers) - fired) : timers'[j] = timers[fired + j]
    <2> DEFINE T == [left : Int, spot : Spots]
    <2>1. timers \in Seq(T)
      BY TimerParts
    <2> HIDE DEF T
    <2>2. /\ Len(SubSeq(timers, fired + 1, Len(timers))) = Len(timers) - fired
          /\ \A j \in 1..(Len(timers) - fired) :
                 SubSeq(timers, fired + 1, Len(timers))[j] = timers[fired + j]
      BY <1>1, <2>1
    <2> QED BY <1>1, <2>2
  <1>3. TimersInv'
    <2>1. ASSUME NEW i \in 1..Len(timers'), NEW j \in 1..Len(timers'), i <= j
          PROVE  timers'[i].left <= timers'[j].left
      <3>1. /\ fired + i \in 1..Len(timers) /\ fired + j \in 1..Len(timers)
            /\ fired + i <= fired + j
            /\ timers'[i] = timers[fired + i] /\ timers'[j] = timers[fired + j]
        BY <1>1, <1>2, <2>1, SMTT(30)
      <3> QED BY <3>1, TimerParts
    <2>2. \A i \in 1..fired' : timers'[i].left <= 0
      BY <1>1
    <2> QED BY <2>1, <2>2 DEF TimersInv
  <1>4. ASSUME NEW s \in Spots PROVE OneOf(s)'
    <2>1. Alive(s)' = Alive(s)
      BY <1>1 DEF lists, charData, Alive, Used
    <2>2. ASSUME NEW i \in Returns(s) PROVE i - fired \in Returns(s)' /\ i - fired \in Nat
      <3>1. /\ i - fired \in 1..(Len(timers) - fired) /\ fired + (i - fired) = i
            /\ timers[i].spot = s
        BY <1>1 DEF Returns
      <3>2. timers'[i - fired] = timers[fired + (i - fired)]
        BY <1>2, <3>1
      <3> QED BY <1>1, <1>2, <3>1, <3>2 DEF Returns
    <2>3. ASSUME NEW j \in Returns(s)' PROVE fired + j \in Returns(s) /\ j \in Nat
      <3>1. /\ j \in 1..(Len(timers) - fired) /\ fired + j \in (fired + 1)..Len(timers)
            /\ timers'[j].spot = s
        BY <1>1, <1>2 DEF Returns
      <3>2. timers[fired + j].spot = s
        BY <1>2, <3>1
      <3> QED BY <3>1, <3>2 DEF Returns
    <2>4. Returns(s) = {} => Returns(s)' = {}
      BY <2>3
    <2>5. ASSUME NEW i \in Nat, Returns(s) = {i} PROVE \E j \in Nat : Returns(s)' = {j}
      <3>1. i - fired \in Returns(s)' /\ i - fired \in Nat
        BY <2>2, <2>5
      <3>2. ASSUME NEW j \in Returns(s)' PROVE j = i - fired
        <4>1. fired + j = i /\ j \in Nat
          BY <2>3, <2>5
        <4> QED BY <1>1, <4>1
      <3> QED BY <3>1, <3>2
    <2>6. \/ Returns(s) = {} /\ \E c \in Entries : Alive(s) = {c}
          \/ Alive(s) = {} /\ \E i \in Nat : Returns(s) = {i}
      BY DEF IInv, EachSpot, OneOf
    <2> QED BY <2>1, <2>4, <2>5, <2>6 DEF OneOf
  <1> QED BY <1>2, <1>3, <1>4 DEF Population1, EachSpot

(* A tick goes by.                                                         *)
LEMMA SpotTick ==
    ASSUME IInv, NextTick
    PROVE  Population1'
  <1>1. /\ timers' = [i \in 1..Len(timers) |-> [timers[i] EXCEPT !.left = @ - 1]]
        /\ pc = "rest" /\ fired' = fired /\ UNCHANGED <<lists, charData>>
    BY DEF NextTick
  <1>2. Len(timers) \in Nat /\ fired = 0
    BY <1>1, TimerParts DEF IInv, Loop
  <1>3. Len(timers') = Len(timers)
    BY <1>1, <1>2
  <1>4. ASSUME NEW i \in 1..Len(timers)
        PROVE  timers'[i].left = timers[i].left - 1 /\ timers'[i].spot = timers[i].spot
    <2> DEFINE T == [left : Int, spot : Spots]
    <2>1. timers[i] \in T
      <3>1. timers \in Seq(T)
        BY TimerParts
      <3> HIDE DEF T
      <3> QED BY <3>1
    <2>2. timers'[i] = [timers[i] EXCEPT !.left = @ - 1]
      BY <1>1
    <2> QED BY <2>1, <2>2
  <1>5. TimersInv'
    <2>1. ASSUME NEW i \in 1..Len(timers'), NEW j \in 1..Len(timers'), i <= j
          PROVE  timers'[i].left <= timers'[j].left
      <3>1. /\ timers[i].left <= timers[j].left
            /\ timers[i].left \in Int /\ timers[j].left \in Int
            /\ timers'[i].left = timers[i].left - 1 /\ timers'[j].left = timers[j].left - 1
        BY <1>3, <1>4, <2>1, TimerParts
      <3> QED BY <3>1
    <2>2. \A i \in 1..fired' : timers'[i].left <= 0
      BY <1>1, <1>2
    <2> QED BY <2>1, <2>2 DEF TimersInv
  <1>6. ASSUME NEW s \in Spots PROVE OneOf(s)'
    <2>1. Alive(s)' = Alive(s)
      BY <1>1 DEF lists, charData, Alive, Used
    <2>2. Returns(s)' = Returns(s)
      BY <1>1, <1>2, <1>3, <1>4 DEF Returns
    <2> QED BY <2>1, <2>2 DEF IInv, EachSpot, OneOf
  <1> QED BY <1>5, <1>6 DEF Population1, EachSpot

LEMMA PopulationKept ==
    ASSUME IInv, [Next]_vars
    PROVE  Population1'
  <1>1. ASSUME UNCHANGED <<lists, kind, dead, timers, fired>> PROVE Population1'
    <2>1. \A s \in Spots : Alive(s)' = Alive(s)
      BY <1>1 DEF Alive, lists, Used
    <2> QED BY <1>1, <2>1, SpotSame
  <1>2. ASSUME NEW t, NEW k \in {"player", "spawned"}, AllocChar(k, t), UNCHANGED timerData
        PROVE  Population1'
    <2>1. ASSUME NEW s \in Spots PROVE Alive(s)' = Alive(s)
      <3>1. k \in Kinds /\ k # s
        BY WorldAssumption DEF Kinds
      <3> QED BY <1>2, <3>1, SpotAlloc
    <2> QED BY <1>2, <2>1, SpotSame DEF timerData
  <1>3. ASSUME NEW f \in Used, FreeChar(f), dead[f] \/ kind[f] \notin Spots,
               UNCHANGED timerData
        PROVE  Population1'
    <2>1. \A s \in Spots : Alive(s)' = Alive(s)
      BY <1>3, SpotFree
    <2> QED BY <1>3, <2>1, SpotSame DEF timerData
  <1>4. "player" \notin Spots /\ "spawned" \notin Spots
    BY WorldAssumption
  <1>5. CASE TickTimer
    BY <1>5, SpotRespawn, SpotFails, SpotDrop DEF TickTimer
  <1>6. CASE Reset \/ TurnBreaks \/ CharsDone
    BY <1>1, <1>6 DEF Reset, TurnBreaks, CharsDone, timerData, charData
  <1>7. CASE NextTick
    BY <1>7, SpotTick
  <1>8. CASE Arrive
    BY <1>2, <1>8 DEF Arrive, Login, CreateChar
  <1>9. ASSUME NEW n \in Entries, Turn(n) PROVE Population1'
    <2>1. CASE Wait(n) \/ ActStand(n) \/ ActWalk(n)
      BY <1>1, <2>1 DEF Wait, ActStand, ActWalk, timerData, charData
    <2>2. CASE TurnLeave(n)
      BY <1>3, <1>4, <2>2 DEF TurnLeave, TurnOf
    <2>3. CASE ActDie(n)
      <3>1. n \in Used /\ dead[n]
        BY <2>3, ActingParts DEF ActDie, Acts, TurnOf
      <3> QED BY <1>3, <2>3, <3>1 DEF ActDie
    <2>4. ASSUME NEW t \in Tiles, ActDieRevived(n, t) PROVE Population1'
      <3>1. /\ kind[n] = "player" /\ dead' = [dead EXCEPT ![n] = FALSE]
            /\ UNCHANGED <<lists, kind, timers, fired>>
        BY <2>4 DEF ActDieRevived, timerData
      <3>2. \A c \in Used : c # n => dead'[c] = dead[c]
        BY <3>1, ActingParts
      <3>3. \A s \in Spots : Alive(s)' = Alive(s)
        BY <1>4, <3>1, <3>2 DEF Alive, lists, Used
      <3> QED BY <3>1, <3>3, SpotSame
    <2> QED BY <1>9, <2>1, <2>2, <2>3, <2>4 DEF Turn
  <1>10. ASSUME NEW n \in Entries, Driver(n) PROVE Population1'
    BY <1>1, <1>10 DEF Driver, DoStand, DoNothing, DoWalk, timerData, charData
  <1>11. ASSUME NEW c \in Entries, Suffer(c) PROVE Population1'
    <2>1. CASE Hurt(c)
      BY <2>1, SpotKill DEF Hurt, Reached
    <2>2. CASE RemoveChar(c)
      BY <1>3, <2>2 DEF RemoveChar, Reached
    <2>3. ASSUME NEW t \in Tiles, MoveChar(c, t) PROVE Population1'
      BY <1>1, <2>3 DEF MoveChar, timerData
    <2>4. ASSUME NEW d \in Entries, SwapChars(c, d) \/ DoorSwap(c, d) PROVE Population1'
      BY <1>1, <2>4 DEF SwapChars, DoorSwap, timerData, charData
    <2> QED BY <1>11, <2>1, <2>2, <2>3, <2>4 DEF Suffer
  <1>12. CASE UNCHANGED vars
    BY <1>1, <1>12 DEF vars, timerData, charData
  <1> QED BY <1>5, <1>6, <1>7, <1>8, <1>9, <1>10, <1>11, <1>12 DEF Next

-----------------------------------------------------------------------------
(* What the respawn checker knows.                                         *)

KnownOk(s) ==
    /\ Alive(s) = {known[s].cn} \ {NoChar}
    /\ known[s].cn # NoChar => serial[known[s].cn] = known[s].serial

(* RespawnCheckOk, spot by spot, and the types it rests on.                *)
LEMMA KnownParts ==
    ASSUME IInv
    PROVE  /\ \A s \in Spots : KnownOk(s) /\ Alive(s) \subseteq Used
           /\ known \in [Spots -> [cn : Entries \cup {NoChar}, serial : Nat]]
           /\ serial \in [Entries -> Nat] /\ Used \subseteq Entries
  BY Lists DEF IInv, TypeOK, RespawnCheckOk, KnownOk, Alive

(* A spot for which nothing changes.                                       *)
LEMMA KnownSame ==
    ASSUME IInv, NEW s \in Spots, known'[s] = known[s], Alive(s)' = Alive(s),
           \A c \in Alive(s) : serial'[c] = serial[c]
    PROVE  KnownOk(s)'
  <1>1. KnownOk(s)
    BY KnownParts
  <1> QED BY <1>1 DEF KnownOk

(* Somebody new gets an entry that nobody used, so nobody known.           *)
LEMMA KnownAlloc ==
    ASSUME IInv, NEW s \in Spots, NEW k \in Kinds, k # s, NEW t, AllocChar(k, t),
           known'[s] = known[s]
    PROVE  KnownOk(s)'
  <1>1. Fresh \in Entries \ Used
    BY AllocLists DEF IInv
  <1>2. serial' = [serial EXCEPT ![Fresh] = NewSerial(Fresh)]
    BY DEF AllocChar
  <1> HIDE DEF Fresh
  <1>3. \A c \in Alive(s) : serial'[c] = serial[c]
    BY <1>1, <1>2, KnownParts
  <1> QED BY <1>3, SpotAlloc, KnownSame

(* Somebody goes who belongs to no spot, or is dead: the known one stays.  *)
LEMMA KnownFree ==
    ASSUME IInv, NEW s \in Spots, NEW f \in Used, dead[f] \/ kind[f] \notin Spots, FreeChar(f),
           known' = known
    PROVE  KnownOk(s)'
  <1>1. serial' = [serial EXCEPT ![f] = 0]
    BY DEF FreeChar
  <1>2. f \notin Alive(s)
    BY DEF Alive
  <1>3. \A c \in Alive(s) : serial'[c] = serial[c]
    BY <1>1, <1>2, KnownParts
  <1> QED BY <1>3, SpotFree, KnownSame

(* kill_char tells the checker that the one of its spot is no more.        *)
LEMMA KnownKill ==
    ASSUME IInv, NEW s \in Spots, NEW f \in Used, KillChar(f, fired),
           UNCHANGED <<lists, kind, serial>>
    PROVE  KnownOk(s)'
  <1>1. Alive(s)' = Alive(s) \ {f} /\ (f \in Alive(s) <=> s = kind[f])
    BY KillAlive
  <1>2. CASE s = kind[f]
    <2>1. known' = [known EXCEPT ![s] = NoOne]
      BY <1>2 DEF KillChar
    <2>2. known'[s].cn = NoChar
      BY <2>1, KnownParts DEF NoOne
    <2>3. Alive(s) = {f}
      BY <1>1, <1>2, KnownParts DEF KnownOk
    <2> QED BY <1>1, <2>2, <2>3 DEF KnownOk
  <1>3. CASE s # kind[f]
    <2>1. known' = known \/ known' = [known EXCEPT ![kind[f]] = NoOne]
      BY DEF KillChar
    <2>2. known'[s] = known[s]
      BY <1>3, <2>1, KnownParts
    <2> QED BY <1>1, <1>3, <2>2, KnownSame
  <1> QED BY <1>2, <1>3

(* The one who is back is the one the checker is told of.                  *)
LEMMA KnownRespawn ==
    ASSUME IInv, NEW s \in Spots, Respawn
    PROVE  KnownOk(s)'
  <1>0. PICK r \in Spots : r = Timer.spot
    BY DueTimer DEF Respawn, IInv
  <1>1. /\ Due /\ AllocChar(r, Home[r])
        /\ known' = [known EXCEPT ![r] = [cn |-> Fresh, serial |-> NewSerial(Fresh)]]
    BY <1>0 DEF Respawn
  <1>2. Used' = Used \cup {Fresh} /\ Fresh \in Entries \ Used /\ NoChar \notin Entries
    BY <1>1, AllocLists, Lists DEF IInv
  <1>3. CASE s # r
    <2>1. known'[s] = known[s]
      BY <1>1, <1>3, KnownParts
    <2> QED BY <1>1, <1>3, <2>1, KnownAlloc DEF Kinds
  <1>4. CASE s = r
    <2>1. Alive(r) = {}
      BY <1>0, <1>1, DueReturns
    <2>2. /\ kind' = [kind EXCEPT ![Fresh] = r] /\ dead' = [dead EXCEPT ![Fresh] = FALSE]
          /\ serial' = [serial EXCEPT ![Fresh] = NewSerial(Fresh)]
      BY <1>1 DEF AllocChar
    <2>3. kind \in [Entries -> Kinds] /\ dead \in [Entries -> BOOLEAN] /\ Used \subseteq Entries
      BY Lists DEF IInv, TypeOK
    <2> HIDE DEF Fresh
    <2>4. /\ kind'[Fresh] = r /\ dead'[Fresh] = FALSE /\ serial'[Fresh] = NewSerial(Fresh)
          /\ \A c \in Used : kind'[c] = kind[c] /\ dead'[c] = dead[c]
      BY <1>2, <2>2, <2>3, KnownParts
    <2>5. Alive(r)' = {Fresh}
      BY <1>2, <2>1, <2>4 DEF Alive
    <2>6. known'[r] = [cn |-> Fresh, serial |-> NewSerial(Fresh)]
      BY <1>1, KnownParts
    <2> QED BY <1>2, <1>4, <2>4, <2>5, <2>6 DEF KnownOk
  <1> QED BY <1>3, <1>4

LEMMA KnownKept ==
    ASSUME IInv, [Next]_vars
    PROVE  RespawnCheckOk'
  <1> SUFFICES ASSUME NEW s \in Spots PROVE KnownOk(s)'
    BY DEF RespawnCheckOk, KnownOk
  <1>1. ASSUME UNCHANGED <<lists, kind, dead, serial, known>> PROVE KnownOk(s)'
    <2>1. Alive(s)' = Alive(s)
      BY <1>1 DEF Alive, lists, Used
    <2> QED BY <1>1, <2>1, KnownSame
  <1>2. /\ "player" \notin Spots /\ "spawned" \notin Spots
        /\ "player" \in Kinds /\ "spawned" \in Kinds
    BY WorldAssumption DEF Kinds
  <1>3. CASE TickTimer
    <2>1. CASE RespawnFails \/ TimersDone
      BY <1>1, <2>1 DEF RespawnFails, TimersDone, charData
    <2> QED BY <1>3, <2>1, KnownRespawn DEF TickTimer
  <1>4. CASE Reset \/ TurnBreaks \/ CharsDone \/ NextTick
    BY <1>1, <1>4 DEF Reset, TurnBreaks, CharsDone, NextTick, charData
  <1>5. CASE Arrive
    BY <1>2, <1>5, KnownAlloc DEF Arrive, Login, CreateChar
  <1>6. ASSUME NEW n \in Entries, Turn(n) PROVE KnownOk(s)'
    <2>1. CASE Wait(n) \/ ActStand(n) \/ ActWalk(n)
      BY <1>1, <2>1 DEF Wait, ActStand, ActWalk, charData
    <2>2. CASE TurnLeave(n)
      BY <1>2, <2>2, KnownFree DEF TurnLeave, TurnOf
    <2>3. CASE ActDie(n)
      <3>1. n \in Used /\ dead[n] /\ FreeChar(n) /\ known' = known
        BY <2>3, ActingParts DEF ActDie, Acts, TurnOf
      <3> QED BY <3>1, KnownFree
    <2>4. ASSUME NEW t \in Tiles, ActDieRevived(n, t) PROVE KnownOk(s)'
      <3>1. /\ kind[n] = "player" /\ dead' = [dead EXCEPT ![n] = FALSE] /\ n \in Used
            /\ serial' = [serial EXCEPT ![n] = NewSerial(n)]
            /\ UNCHANGED <<lists, kind, known>>
        BY <2>4 DEF ActDieRevived, Acts, TurnOf
      <3>2. \A c \in Used : c # n => dead'[c] = dead[c] /\ serial'[c] = serial[c]
        BY <3>1, ActingParts, KnownParts
      <3>3. Alive(s)' = Alive(s) /\ n \notin Alive(s)
        BY <1>2, <3>1, <3>2 DEF Alive, lists, Used
      <3> QED BY <3>1, <3>2, <3>3, KnownParts, KnownSame
    <2> QED BY <1>6, <2>1, <2>2, <2>3, <2>4 DEF Turn
  <1>7. ASSUME NEW n \in Entries, Driver(n) PROVE KnownOk(s)'
    BY <1>1, <1>7 DEF Driver, DoStand, DoNothing, DoWalk, charData
  <1>8. ASSUME NEW c \in Entries, Suffer(c) PROVE KnownOk(s)'
    <2>1. CASE Hurt(c)
      BY <2>1, KnownKill DEF Hurt, Reached
    <2>2. CASE RemoveChar(c)
      BY <2>2, KnownFree DEF RemoveChar, Reached
    <2>3. ASSUME NEW t \in Tiles, MoveChar(c, t) PROVE KnownOk(s)'
      BY <1>1, <2>3 DEF MoveChar
    <2>4. ASSUME NEW d \in Entries, SwapChars(c, d) \/ DoorSwap(c, d) PROVE KnownOk(s)'
      BY <1>1, <2>4 DEF SwapChars, DoorSwap, charData
    <2> QED BY <1>8, <2>1, <2>2, <2>3, <2>4 DEF Suffer
  <1>9. CASE UNCHANGED vars
    BY <1>1, <1>9 DEF vars, charData
  <1> QED BY <1>3, <1>4, <1>5, <1>6, <1>7, <1>8, <1>9 DEF Next

-----------------------------------------------------------------------------
(* Turns.                                                                  *)

(* Everybody used has a place of his own.                                  *)
Places ==
    /\ \A c \in Used : Place(c) \in 1..Len(used) /\ used[Place(c)] = c
    /\ \A i \in 1..Len(used) : used[i] \in Used /\ Place(used[i]) = i

LEMMA PlacesOf == TypeOK /\ ListsInv => Places
  <1> SUFFICES ASSUME TypeOK, ListsInv PROVE Places
    OBVIOUS
  <1>1. used \in Seq(Entries) /\ IsInjective(used)
    BY DEF TypeOK, ListsInv
  <1>2. \A c \in Used : Place(c) \in 1..Len(used) /\ used[Place(c)] = c
    BY <1>1, PlaceOf
  <1>3. \A i \in 1..Len(used) : used[i] \in Used /\ Place(used[i]) = i
    BY <1>1, PlaceIs, Lists
  <1> QED BY <1>2, <1>3 DEF Places

LEMMA PlacesNext == TypeOK' /\ ListsInv' => Places'
  BY PlacesOf, PTL

(* The rest of the list, by places.                                        *)
After == {c \in Used : nxt # NoChar /\ Place(nxt) <= Place(c)}
NextThere == nxt = NoChar \/ nxt \in Used

LEMMA RestOf == TypeOK /\ ListsInv /\ NextThere => RestOfList = After
  <1> SUFFICES ASSUME TypeOK, ListsInv, NextThere PROVE RestOfList = After
    OBVIOUS
  <1>1. CASE nxt = NoChar
    BY <1>1 DEF RestOfList, After
  <1>2. CASE nxt # NoChar
    <2>1. nxt \in Used /\ Places /\ Len(used) \in Nat
      BY <1>2, PlacesOf, Lists DEF NextThere
    <2>2. ASSUME NEW c \in RestOfList PROVE c \in After
      <3>1. PICK i \in Place(nxt)..Len(used) : c = used[i]
        BY <1>2, <2>2 DEF RestOfList
      <3>2. i \in 1..Len(used) /\ Place(nxt) <= i
        BY <2>1, <3>1 DEF Places
      <3>3. c \in Used /\ Place(c) = i
        BY <2>1, <3>1, <3>2 DEF Places
      <3> QED BY <1>2, <3>2, <3>3 DEF After
    <2>3. ASSUME NEW c \in After PROVE c \in RestOfList
      <3>1. /\ c \in Used /\ Place(nxt) <= Place(c)
            /\ Place(c) \in 1..Len(used) /\ Place(nxt) \in 1..Len(used) /\ used[Place(c)] = c
        BY <2>1, <2>3 DEF After, Places
      <3>2. Place(c) \in Place(nxt)..Len(used)
        BY <2>1, <3>1
      <3> QED BY <1>2, <3>1, <3>2 DEF RestOfList
    <2> QED BY <2>2, <2>3
  <1> QED BY <1>1, <1>2

LEMMA RestOfNext == TypeOK' /\ ListsInv' /\ NextThere' => (RestOfList = After)'
  BY RestOf, PTL

(* TurnsInv, by places, before a step and after it.                        *)
LEMMA TurnsParts ==
    ASSUME IInv, pc # "timer", ~upset
    PROVE  NextThere /\ waiting = After
  BY RestOf DEF IInv, TurnsInv, NextThere

LEMMA TurnsNext ==
    ASSUME TypeOK', ListsInv', NextThere', waiting' = After'
    PROVE  TurnsInv'
  BY RestOfNext DEF TurnsInv, NextThere

(* Everybody moves on by one place when somebody new comes first.          *)
LEMMA AllocPlaces ==
    ASSUME IInv, TypeOK', NEW k, NEW t, AllocChar(k, t), NEW f \in Entries, f = Fresh
    PROVE  /\ Used' = Used \cup {f} /\ f \notin Used /\ Place(f)' = 1
           /\ \A c \in Used : Place(c)' = Place(c) + 1
  <1>1. /\ ListsInv' /\ Used' = Used \cup {f} /\ f \notin Used
        /\ Len(used') = Len(used) + 1 /\ used'[1] = f
        /\ \A i \in 1..Len(used) : used'[i + 1] = used[i]
    BY AllocLists DEF IInv
  <1>2. Places /\ Places' /\ Len(used) \in Nat
    BY <1>1, PlacesOf, PlacesNext, Lists DEF IInv
  <1>3. Place(f)' = 1
    <2>1. 1 \in 1..Len(used')
      BY <1>1, <1>2
    <2> QED BY <1>1, <1>2, <2>1 DEF Places
  <1>4. ASSUME NEW c \in Used PROVE Place(c)' = Place(c) + 1
    <2>1. Place(c) \in 1..Len(used) /\ used[Place(c)] = c
      BY <1>2 DEF Places
    <2>2. Place(c) + 1 \in 1..Len(used') /\ used'[Place(c) + 1] = c
      BY <1>1, <1>2, <2>1
    <2> QED BY <1>2, <2>2 DEF Places
  <1> QED BY <1>1, <1>3, <1>4

(* When somebody goes the others stay in their order.                      *)
LEMMA FreePlaces ==
    ASSUME IInv, TypeOK', NEW f \in Used, FreeChar(f)
    PROVE  /\ Used' = Used \ {f}
           /\ \A c, d \in Used \ {f} : Place(c)' <= Place(d)' <=> Place(c) <= Place(d)
  <1>1. /\ ListsInv' /\ Used' = Used \ {f} /\ Len(used') = Len(used) - 1
        /\ \A j \in 1..(Place(f) - 1) : used'[j] = used[j]
        /\ \A j \in Place(f)..(Len(used) - 1) : used'[j] = used[j + 1]
    BY FreeLists DEF IInv
  <1>2. Places /\ Places' /\ Len(used) \in Nat /\ Place(f) \in 1..Len(used)
    BY <1>1, PlacesOf, PlacesNext, Lists DEF IInv, Places
  <1>3. ASSUME NEW c \in Used \ {f}
        PROVE  /\ Place(c) \in 1..Len(used) /\ Place(c) # Place(f)
               /\ Place(c)' = IF Place(c) < Place(f) THEN Place(c) ELSE Place(c) - 1
    <2>1. Place(c) \in 1..Len(used) /\ used[Place(c)] = c /\ used[Place(f)] = f
      BY <1>2 DEF Places
    <2>2. Place(c) # Place(f)
      BY <2>1
    <2>3. CASE Place(c) < Place(f)
      <3>1. Place(c) \in 1..Len(used') /\ used'[Place(c)] = c
        BY <1>1, <1>2, <2>1, <2>3
      <3>2. Place(c)' = Place(c)
        BY <1>2, <3>1 DEF Places
      <3> QED BY <2>1, <2>2, <2>3, <3>2
    <2>4. CASE Place(c) > Place(f)
      <3>1. /\ Place(c) - 1 \in 1..Len(used') /\ Place(c) - 1 \in Place(f)..(Len(used) - 1)
            /\ (Place(c) - 1) + 1 = Place(c)
        BY <1>1, <1>2, <2>1, <2>4
      <3>2. used'[Place(c) - 1] = c
        BY <1>1, <2>1, <3>1
      <3>3. Place(c)' = Place(c) - 1
        BY <1>2, <3>1, <3>2 DEF Places
      <3> QED BY <1>2, <2>1, <2>2, <2>4, <3>3
    <2> QED BY <1>2, <2>1, <2>2, <2>3, <2>4
  <1>4. ASSUME NEW c \in Used \ {f}, NEW d \in Used \ {f}
        PROVE  Place(c)' <= Place(d)' <=> Place(c) <= Place(d)
    <2>1. /\ Place(c) \in Nat /\ Place(d) \in Nat /\ Place(f) \in Nat
          /\ Place(c) # Place(f) /\ Place(d) # Place(f)
          /\ Place(c)' = IF Place(c) < Place(f) THEN Place(c) ELSE Place(c) - 1
          /\ Place(d)' = IF Place(d) < Place(f) THEN Place(d) ELSE Place(d) - 1
      BY <1>2, <1>3
    <2> QED BY <2>1
  <1> QED BY <1>1, <1>4

(* Who is fetched as the next.                                             *)
LEMMA NextPlace ==
    ASSUME IInv, NEW n \in Used
    PROVE  /\ NextOf(n) # n /\ (NextOf(n) = NoChar \/ NextOf(n) \in Used)
           /\ NextOf(n) # NoChar => Place(NextOf(n)) = Place(n) + 1
           /\ NextOf(n) = NoChar => Place(n) = Len(used)
  <1>1. Places /\ Len(used) \in Nat /\ NoChar \notin Used /\ Place(n) \in 1..Len(used)
    BY PlacesOf, Lists DEF IInv, Places
  <1>2. CASE Place(n) < Len(used)
    <2>1. NextOf(n) = used[Place(n) + 1] /\ Place(n) + 1 \in 1..Len(used)
      BY <1>1, <1>2 DEF NextOf
    <2>2. NextOf(n) \in Used /\ Place(NextOf(n)) = Place(n) + 1
      BY <1>1, <2>1 DEF Places
    <2> QED BY <1>1, <2>2
  <1>3. CASE ~(Place(n) < Len(used))
    BY <1>1, <1>3 DEF NextOf
  <1> QED BY <1>2, <1>3

(* Nobody comes or goes: all but n are left after the turn of n.           *)
LEMMA TurnGoesOn ==
    ASSUME IInv, TypeOK', ListsInv', NEW n \in Used, nxt = n, nxt' = NextOf(n),
           UNCHANGED used, pc # "timer", ~upset, waiting' = waiting \ {n}
    PROVE  TurnsInv'
  <1>1. Used' = Used /\ \A c \in Used : Place(c)' = Place(c)
    BY DEF Used, Place
  <1>2. waiting = After /\ n # NoChar
    BY TurnsParts, Lists DEF IInv
  <1>3. NextThere'
    BY <1>1, NextPlace DEF NextThere
  <1>4. Places /\ Len(used) \in Nat
    BY PlacesOf, Lists DEF IInv
  <1>5. ASSUME NEW c PROVE c \in waiting' <=> c \in After'
    <2>1. c \in waiting' <=> c \in Used /\ Place(n) <= Place(c) /\ c # n
      BY <1>2 DEF After
    <2>2. c \in After' <=> c \in Used /\ nxt' # NoChar /\ Place(nxt') <= Place(c)
      BY <1>1, <1>3 DEF After, NextThere, Place
    <2>3. ASSUME c \in Used
          PROVE  /\ Place(c) \in 1..Len(used) /\ Place(n) \in 1..Len(used)
                 /\ c # n <=> Place(c) # Place(n)
      BY <1>4, <2>3 DEF Places
    <2>4. CASE NextOf(n) = NoChar
      BY <1>4, <2>1, <2>2, <2>3, <2>4, NextPlace
    <2>5. CASE NextOf(n) # NoChar
      <3>1. Place(nxt') = Place(n) + 1
        BY <2>5, NextPlace
      <3> QED BY <1>4, <2>1, <2>2, <2>3, <2>5, <3>1
    <2> QED BY <2>4, <2>5
  <1>6. waiting' = After'
    BY <1>5
  <1> QED BY <1>3, <1>6, TurnsNext

(* Nor is anybody else left out when n goes in its turn.                   *)
LEMMA TurnGoes ==
    ASSUME IInv, TypeOK', NEW n \in Used, nxt = n, nxt' = NextOf(n),
           FreeChar(n), pc # "timer", ~upset
    PROVE  TurnsInv'
  <1>1. /\ Used' = Used \ {n}
        /\ \A c, d \in Used \ {n} : Place(c)' <= Place(d)' <=> Place(c) <= Place(d)
    BY FreePlaces
  <1>2. waiting = After /\ n # NoChar /\ waiting' = waiting \ {n} /\ ListsInv'
    BY TurnsParts, Lists, FreeLists DEF IInv, FreeChar
  <1>3. PICK m \in Used \cup {NoChar} : m = NextOf(n) /\ m # n
    BY NextPlace
  <1>4. NextThere'
    BY <1>1, <1>3 DEF NextThere
  <1>5. Places /\ Len(used) \in Nat
    BY PlacesOf, Lists DEF IInv
  <1>6. ASSUME NEW c PROVE c \in waiting' <=> c \in After'
    <2>1. c \in waiting' <=> c \in Used /\ Place(n) <= Place(c) /\ c # n
      BY <1>2 DEF After
    <2>2. c \in After' <=> c \in Used \ {n} /\ m # NoChar /\ Place(m)' <= Place(c)'
      BY <1>1, <1>3 DEF After
    <2>3. ASSUME c \in Used
          PROVE  /\ Place(c) \in 1..Len(used) /\ Place(n) \in 1..Len(used)
                 /\ c # n <=> Place(c) # Place(n)
      BY <1>5, <2>3 DEF Places
    <2>4. CASE m = NoChar
      <3>1. Place(n) = Len(used)
        BY <1>3, <2>4, NextPlace
      <3> QED BY <1>5, <2>1, <2>2, <2>3, <2>4, <3>1
    <2>5. CASE m # NoChar
      <3>1. Place(m) = Place(n) + 1 /\ m \in Used \ {n}
        BY <1>3, <2>5, NextPlace
      <3>2. c \in After' <=> c \in Used \ {n} /\ Place(m) <= Place(c)
        BY <1>1, <2>2, <2>5, <3>1
      <3> QED BY <1>5, <2>1, <2>3, <3>1, <3>2
    <2> QED BY <2>4, <2>5
  <1>7. waiting' = After'
    BY <1>6
  <1> QED BY <1>2, <1>4, <1>7, TurnsNext

(* Somebody goes who is not the next.                                      *)
LEMMA OtherGoes ==
    ASSUME IInv, TypeOK', NEW f \in Used, FreeChar(f), UNCHANGED nxt, f # nxt,
           pc # "timer", ~upset
    PROVE  TurnsInv'
  <1>1. /\ Used' = Used \ {f}
        /\ \A c, d \in Used \ {f} : Place(c)' <= Place(d)' <=> Place(c) <= Place(d)
    BY FreePlaces
  <1>2. NextThere /\ waiting = After /\ waiting' = waiting \ {f} /\ ListsInv'
    BY TurnsParts, FreeLists DEF IInv, FreeChar
  <1>3. PICK m \in Entries \cup {NoChar} : m = nxt
    BY DEF IInv, TypeOK
  <1>4. NextThere'
    BY <1>1, <1>2 DEF NextThere
  <1>5. ASSUME NEW c PROVE c \in waiting' <=> c \in After'
    <2>1. c \in waiting' <=> c \in Used \ {f} /\ m # NoChar /\ Place(m) <= Place(c)
      BY <1>2, <1>3 DEF After
    <2>2. c \in After' <=> c \in Used \ {f} /\ m # NoChar /\ Place(m)' <= Place(c)'
      BY <1>1, <1>3 DEF After
    <2>3. m # NoChar => m \in Used \ {f}
      BY <1>2, <1>3 DEF NextThere
    <2> QED BY <1>1, <2>1, <2>2, <2>3
  <1>6. waiting' = After'
    BY <1>5
  <1> QED BY <1>2, <1>4, <1>6, TurnsNext

(* Somebody new comes before everybody, and so before the next.            *)
LEMMA NewComes ==
    ASSUME IInv, TypeOK', NEW k, NEW t, AllocChar(k, t), UNCHANGED <<nxt, waiting>>,
           pc # "timer", ~upset
    PROVE  TurnsInv'
  <1>1. PICK f \in Entries : f = Fresh
    BY AllocLists DEF IInv
  <1>2. /\ Used' = Used \cup {f} /\ f \notin Used /\ Place(f)' = 1
        /\ \A c \in Used : Place(c)' = Place(c) + 1
    BY <1>1, AllocPlaces
  <1>3. NextThere /\ waiting = After /\ ListsInv'
    BY TurnsParts, AllocLists DEF IInv
  <1>4. PICK m \in Entries \cup {NoChar} : m = nxt
    BY DEF IInv, TypeOK
  <1>5. NextThere'
    BY <1>2, <1>3 DEF NextThere
  <1>6. ASSUME NEW c PROVE c \in waiting' <=> c \in After'
    <2>1. c \in waiting' <=> c \in Used /\ m # NoChar /\ Place(m) <= Place(c)
      BY <1>3, <1>4 DEF After
    <2>2. c \in After' <=> c \in Used \cup {f} /\ m # NoChar /\ Place(m)' <= Place(c)'
      BY <1>2, <1>4 DEF After
    <2>3. m # NoChar => m \in Used
      BY <1>3, <1>4 DEF NextThere
    <2>4. \A d \in Used : Place(d) \in Nat /\ Place(d) >= 1
      BY PlacesOf, Lists DEF IInv, Places
    <2>5. CASE c = f
      <3>1. m # NoChar => Place(m)' > Place(c)'
        <4>1. ASSUME m # NoChar PROVE Place(m)' = Place(m) + 1 /\ Place(m) \in Nat /\ Place(m) >= 1
          BY <1>2, <2>3, <2>4, <4>1
        <4> QED BY <1>2, <2>5, <4>1
      <3>2. m # NoChar => Place(m)' \in Nat /\ Place(c)' \in Nat
        BY <1>2, <2>3, <2>4, <2>5
      <3> QED BY <1>2, <2>1, <2>2, <2>5, <3>1, <3>2
    <2>6. CASE c # f
      <3>1. ASSUME c \in Used, m # NoChar
            PROVE  Place(m)' <= Place(c)' <=> Place(m) <= Place(c)
        <4>1. /\ Place(m)' = Place(m) + 1 /\ Place(c)' = Place(c) + 1
              /\ Place(m) \in Nat /\ Place(c) \in Nat
          BY <1>2, <2>3, <2>4, <3>1
        <4> QED BY <4>1
      <3> QED BY <2>1, <2>2, <2>6, <3>1
    <2> QED BY <2>5, <2>6
  <1>7. waiting' = After'
    BY <1>6
  <1> QED BY <1>3, <1>5, <1>7, TurnsNext

(* tick_char begins with the first of the list.                            *)
LEMMA TurnsBegin ==
    ASSUME IInv, TypeOK', ListsInv', TimersDone
    PROVE  TurnsInv'
  <1>1. /\ used' = used /\ nxt' = IF used = <<>> THEN NoChar ELSE Head(used)
        /\ waiting' = Used
    BY DEF TimersDone, lists
  <1>2. Used' = Used /\ \A c \in Used : Place(c)' = Place(c)
    BY <1>1 DEF Used, Place
  <1>3. /\ Places /\ used \in Seq(Entries) /\ Len(used) \in Nat /\ NoChar \notin Used
    BY PlacesOf, Lists DEF IInv
  <1>4. CASE used = <<>>
    <2>1. Used = {} /\ nxt' = NoChar
      BY <1>1, <1>4 DEF Used, Range
    <2> QED BY <1>1, <1>2, <2>1, TurnsNext DEF NextThere, After
  <1>5. CASE used # <<>>
    <2>1. 1 \in 1..Len(used) /\ nxt' = used[1]
      BY <1>1, <1>3, <1>5
    <2>2. PICK m \in Used : m = used[1] /\ Place(m) = 1
      BY <1>3, <2>1 DEF Places
    <2>3. \A c \in Used : Place(m) <= Place(c)
      BY <1>3, <2>2 DEF Places
    <2>4. NextThere'
      BY <1>2, <2>1, <2>2 DEF NextThere
    <2>5. waiting' = After'
      BY <1>1, <1>2, <1>3, <2>1, <2>2, <2>3 DEF After
    <2> QED BY <2>4, <2>5, TurnsNext
  <1> QED BY <1>4, <1>5

LEMMA TurnsKept ==
    ASSUME IInv, [Next]_vars
    PROVE  TurnsInv' /\ Apart'
  <1>1. TypeOK' /\ ListsInv'
    BY TypesKept
  <1>2. ASSUME pc # "timer", upset' = upset, UNCHANGED <<used, nxt, waiting>> PROVE TurnsInv'
    BY <1>2 DEF IInv, TurnsInv, RestOfList, Used, Place
  <1>3. CASE TickTimer
    <2>1. CASE Respawn \/ RespawnFails
      BY <2>1 DEF Respawn, RespawnFails, Due, loop, TurnsInv, Apart
    <2>2. CASE TimersDone
      BY <1>1, <2>2, TurnsBegin DEF TimersDone, Apart
    <2> QED BY <1>3, <2>1, <2>2 DEF TickTimer
  <1>4. CASE Reset
    BY <1>2, <1>4 DEF Reset, turns, lists, IInv, Apart
  <1>5. CASE TurnBreaks
    <2>1. pc = "char" /\ nxt # NoChar /\ nxt \notin Used /\ pc' = "rest" /\ upset' = upset
      BY <1>5 DEF TurnBreaks, turns
    <2> QED BY <2>1 DEF IInv, TurnsInv, Apart
  <1>6. CASE CharsDone
    BY <1>2, <1>6 DEF CharsDone, turns, lists, Apart
  <1>7. CASE NextTick
    BY <1>7 DEF NextTick, TurnsInv, Apart
  <1>8. CASE Arrive
    <2>1. ASSUME NEW k, NEW t, AllocChar(k, t), UNCHANGED <<loop, turns>>
          PROVE  TurnsInv' /\ Apart'
      <3>1. UNCHANGED <<pc, cur, nxt, waiting, upset>>
        BY <2>1 DEF loop, turns
      <3>2. pc # "timer" /\ ~upset => TurnsInv'
        BY <1>1, <2>1, <3>1, NewComes
      <3> QED BY <3>1, <3>2 DEF IInv, TurnsInv, Apart
    <2> QED BY <1>8, <2>1 DEF Arrive, Login, CreateChar
  <1>9. ASSUME NEW n \in Entries, Turn(n) PROVE TurnsInv' /\ Apart'
    <2>1. pc = "char" /\ nxt = n /\ n \in Used /\ nxt' = NextOf(n) /\ upset' = upset
      BY <1>9 DEF Turn, Wait, TurnLeave, ActStand, ActWalk, ActDie, ActDieRevived,
                  Acts, TurnOf
    <2>2. NextOf(n) # n
      BY <2>1, NextPlace
    <2>3. CASE TurnLeave(n) \/ ActDie(n)
      <3>1. FreeChar(n) /\ pc' = "char"
        BY <2>3 DEF TurnLeave, ActDie, Continue
      <3>2. ~upset => TurnsInv'
        BY <1>1, <2>1, <3>1, TurnGoes
      <3> QED BY <2>1, <3>1, <3>2 DEF TurnsInv, Apart
    <2>4. CASE ~(TurnLeave(n) \/ ActDie(n))
      <3>1. /\ UNCHANGED used /\ waiting' = waiting \ {n}
            /\ pc' = "char" \/ (pc' = "acted" /\ cur' = n)
        BY <1>9, <2>4 DEF Turn, Wait, ActStand, ActWalk, ActDieRevived, lists,
                          HadTurn, Continue, AskDriver
      <3>2. ~upset => TurnsInv'
        BY <1>1, <2>1, <3>1, TurnGoesOn
      <3> QED BY <2>1, <2>2, <3>1, <3>2 DEF TurnsInv, Apart
    <2> QED BY <2>3, <2>4
  <1>10. ASSUME NEW n \in Entries, Driver(n) PROVE TurnsInv' /\ Apart'
    <2>1. pc = "driver" /\ pc' = "char" /\ UNCHANGED <<used, nxt, waiting, upset>>
      BY <1>10 DEF Driver, DoStand, DoNothing, DoWalk, Asked, Decided, lists, turns
    <2> QED BY <1>2, <2>1 DEF Apart
  <1>11. ASSUME NEW c \in Entries, Suffer(c) PROVE TurnsInv' /\ Apart'
    <2>1. ASSUME \/ UNCHANGED <<pc, cur, nxt>>
                 \/ pc \in {"acted", "driver"} /\ pc' = "char" /\ nxt' = nxt,
                 UNCHANGED <<used, waiting, upset>>
          PROVE  TurnsInv' /\ Apart'
      <3>1. CASE pc = "timer"
        BY <2>1, <3>1 DEF TurnsInv, Apart
      <3>2. CASE pc # "timer"
        BY <1>2, <2>1, <3>2 DEF IInv, Apart
      <3> QED BY <3>1, <3>2
    <2>2. CASE Hurt(c)
      <3>1. Ended(c) /\ UNCHANGED <<used, waiting, upset>>
        BY <2>2, Ends DEF Hurt, lists, turns
      <3> QED BY <2>1, <3>1 DEF Ended
    <2>3. ASSUME NEW t \in Tiles, MoveChar(c, t) PROVE TurnsInv' /\ Apart'
      BY <2>1, <2>3 DEF MoveChar, Decided, loop, lists, turns
    <2>4. ASSUME NEW d \in Entries, SwapChars(c, d) \/ DoorSwap(c, d)
          PROVE  TurnsInv' /\ Apart'
      BY <2>1, <2>4 DEF SwapChars, DoorSwap, loop, lists, turns
    <2>5. CASE RemoveChar(c)
      <3>1. /\ FreeChar(c) /\ c \in Used /\ upset' = (upset \/ c = nxt) /\ TurnEnds(c)
        BY <2>5 DEF RemoveChar, Reached, Upset
      <3>2. Ended(c)
        BY <3>1, Ends
      <3>3. Apart'
        BY <3>2 DEF IInv, Apart, Ended
      <3>4. CASE pc = "timer"
        BY <3>2, <3>3, <3>4 DEF Ended, TurnsInv
      <3>5. CASE pc # "timer" /\ (upset \/ c = nxt)
        BY <3>1, <3>3, <3>5 DEF TurnsInv
      <3>6. CASE pc # "timer" /\ ~upset /\ c # nxt
        BY <1>1, <3>1, <3>2, <3>3, <3>6, OtherGoes DEF Ended
      <3> QED BY <3>4, <3>5, <3>6
    <2> QED BY <1>11, <2>2, <2>3, <2>4, <2>5 DEF Suffer
  <1>12. CASE UNCHANGED vars
    <2>1. UNCHANGED <<lists, loop, turns>>
      BY <1>12 DEF vars
    <2>2. CASE pc = "timer"
      BY <2>1, <2>2 DEF TurnsInv, Apart, loop
    <2>3. CASE pc # "timer"
      BY <1>2, <2>1, <2>3 DEF IInv, Apart, loop, lists, turns
    <2> QED BY <2>2, <2>3
  <1> QED BY <1>3, <1>4, <1>5, <1>6, <1>7, <1>8, <1>9, <1>10, <1>11, <1>12 DEF Next

(* All of the invariant.                                                   *)
LEMMA Kept == IInv /\ [Next]_vars => IInv'
  <1> SUFFICES ASSUME IInv, [Next]_vars PROVE IInv'
    OBVIOUS
  <1>1. TypeOK' /\ ListsInv' /\ MapInv'
    BY TypesKept, MapKept
  <1>2. Walking' /\ Loop' /\ Dying'
    BY ActingKept DEF Acting
  <1>3. TimersInv' /\ EachSpot'
    BY PopulationKept DEF Population1
  <1>4. RespawnCheckOk'
    BY KnownKept
  <1>5. TurnsInv' /\ Apart'
    BY TurnsKept
  <1> QED BY <1>1, <1>2, <1>3, <1>4, <1>5 DEF IInv

-----------------------------------------------------------------------------
(* The beginning.                                                          *)

(* Every spot has its own entry.                                           *)
LEMMA SpotSeqIs ==
    /\ Len(SpotSeq) \in Nat /\ Len(SpotSeq) <= MaxChars /\ Residents = 1..Len(SpotSeq)
    /\ \A c \in Residents : SpotSeq[c] \in Spots /\ c \in Entries
    /\ \A c, d \in Residents : SpotSeq[c] = SpotSeq[d] => c = d
    /\ \A s \in Spots : \E c \in Residents : SpotSeq[c] = s
  <1> DEFINE n == Cardinality(Spots)
  <1>1. n \in Nat /\ ExistsBijection(1..n, Spots) /\ n <= MaxChars
    BY WorldAssumption, FS_CardinalityType
  <1>2. \E f \in [1..n -> Spots] : IsInjective(f)
    BY <1>1 DEF ExistsBijection, Bijection, Injection
  <1>3. SpotSeq \in [1..n -> Spots] /\ IsInjective(SpotSeq)
    BY <1>2 DEF SpotSeq, SetToSeq
  <1>4. SpotSeq \in Injection(1..n, Spots)
    BY <1>3 DEF Injection
  <1>5. Cardinality(1..n) = n
    <2> HIDE DEF n
    <2>1. 1 \in Int /\ n \in Int /\ n - 1 + 1 = n /\ (1 > n => n = 0)
      BY <1>1
    <2> QED BY <2>1, FS_Interval
  <1>6. SpotSeq \in Surjection(1..n, Spots)
    <2>1. IsFiniteSet(Spots) /\ Cardinality(1..n) = Cardinality(Spots)
      BY <1>5, WorldAssumption
    <2> HIDE DEF n
    <2> QED BY <1>4, <2>1, FS_Injection
  <1>7. \A s \in Spots : \E c \in 1..n : SpotSeq[c] = s
    BY <1>6 DEF Surjection
  <1> HIDE DEF n
  <1>8. Len(SpotSeq) = n
    BY <1>1, <1>3
  <1>9. Residents = 1..n /\ \A c \in 1..n : c \in Entries
    BY <1>1, <1>8, WorldAssumption DEF Residents, Entries
  <1> QED BY <1>1, <1>3, <1>7, <1>8, <1>9 DEF IsInjective

LEMMA InitLists ==
    ASSUME Init
    PROVE  /\ used \in Seq(Entries) /\ free \in Seq(Entries)
           /\ ListsInv /\ Used = Residents
  <1> DEFINE n == Len(SpotSeq)
  <1>1. /\ n \in Nat /\ n <= MaxChars /\ Residents = 1..n /\ MaxChars \in Nat
        /\ Entries = 1..MaxChars
    BY SpotSeqIs, WorldAssumption DEF Entries
  <1>2. /\ used = [i \in 1..n |-> n + 1 - i]
        /\ free = [i \in 1..(MaxChars - n) |-> n + i]
    BY <1>1 DEF Init
  <1> HIDE DEF n
  <1>3. used \in [1..n -> Entries] /\ free \in [1..(MaxChars - n) -> Entries]
    BY <1>1, <1>2
  <1>4. used \in Seq(Entries) /\ free \in Seq(Entries)
    BY <1>1, <1>3, SeqDef
  <1>5. Used = 1..n
    <2>1. ASSUME NEW c \in 1..n PROVE c \in Used
      <3>1. n + 1 - c \in 1..n /\ n + 1 - (n + 1 - c) = c
        BY <1>1
      <3> QED BY <1>2, <3>1 DEF Used, Range
    <2>2. ASSUME NEW c \in Used PROVE c \in 1..n
      <3>1. PICK i \in 1..n : c = n + 1 - i
        BY <1>2 DEF Used, Range
      <3> QED BY <1>1, <3>1
    <2> QED BY <2>1, <2>2
  <1>6. Range(free) = (n + 1)..MaxChars
    <2>1. ASSUME NEW c \in (n + 1)..MaxChars PROVE c \in Range(free)
      <3>1. c - n \in 1..(MaxChars - n) /\ n + (c - n) = c
        BY <1>1
      <3> QED BY <1>2, <3>1 DEF Range
    <2>2. ASSUME NEW c \in Range(free) PROVE c \in (n + 1)..MaxChars
      <3>1. PICK i \in 1..(MaxChars - n) : c = n + i
        BY <1>2 DEF Range
      <3> QED BY <1>1, <3>1
    <2> QED BY <2>1, <2>2
  <1>7. IsInjective(used) /\ IsInjective(free)
    BY <1>1, <1>2 DEF IsInjective
  <1>8. Used \cap Range(free) = {} /\ Used \cup Range(free) = Entries
    BY <1>1, <1>5, <1>6
  <1> QED BY <1>1, <1>4, <1>5, <1>7, <1>8 DEF ListsInv

LEMMA InitTypes ==
    ASSUME Init
    PROVE  TypeOK
  <1>1. used \in Seq(Entries) /\ free \in Seq(Entries)
    BY InitLists
  <1>2. kind \in [Entries -> Kinds]
    <2>1. ASSUME NEW c \in Entries
          PROVE  (IF c \in Residents THEN SpotSeq[c] ELSE "spawned") \in Kinds
      BY SpotSeqIs DEF Kinds
    <2>2. kind = [c \in Entries |-> IF c \in Residents THEN SpotSeq[c] ELSE "spawned"]
      BY DEF Init
    <2> QED BY <2>1, <2>2
  <1>3. dead \in [Entries -> BOOLEAN] /\ serial \in [Entries -> Nat]
    <2>1. /\ dead = [c \in Entries |-> FALSE]
          /\ serial = [c \in Entries |-> IF c \in Residents THEN 1 ELSE 0]
      BY DEF Init
    <2> QED BY <2>1
  <1>4. action \in [Entries -> Actions] /\ left \in [Entries -> Nat]
    BY DEF Init, Actions
  <1>5. at \in [Entries -> Tiles \cup {Nowhere}]
    <2>1. ASSUME NEW c \in Entries
          PROVE  (IF c \in Residents THEN Home[SpotSeq[c]] ELSE Nowhere) \in Tiles \cup {Nowhere}
      BY SpotSeqIs, WorldAssumption
    <2>2. at = [c \in Entries |-> IF c \in Residents THEN Home[SpotSeq[c]] ELSE Nowhere]
      BY DEF Init
    <2> QED BY <2>1, <2>2
  <1>6. to \in [Entries -> Tiles \cup {Nowhere}]
    BY DEF Init
  <1>7. on \in [Tiles -> Entries \cup {NoChar}]
    <2> DEFINE who(t) == CHOOSE c \in Residents : Home[SpotSeq[c]] = t
    <2>1. on = [t \in Tiles |-> IF \E c \in Residents : Home[SpotSeq[c]] = t
                                THEN who(t) ELSE NoChar]
      BY DEF Init
    <2>2. ASSUME NEW t \in Tiles, \E c \in Residents : Home[SpotSeq[c]] = t
          PROVE  who(t) \in Entries
      <3>1. who(t) \in Residents
        BY <2>2
      <3> QED BY <3>1, SpotSeqIs
    <2> HIDE DEF who
    <2> QED BY <2>1, <2>2
  <1>8. block \subseteq Tiles
    <2>1. block = {Home[s] : s \in Spots}
      BY DEF Init
    <2> QED BY <2>1, WorldAssumption
  <1>9. timers \in Seq([left : Int, spot : Spots]) /\ fired \in 0..Len(timers)
    <2>1. timers = <<>> /\ fired = 0
      BY DEF Init
    <2> QED BY <2>1
  <1>10. known \in [Spots -> [cn : Entries \cup {NoChar}, serial : Nat]]
    <2> DEFINE who(s) == CHOOSE c \in Residents : SpotSeq[c] = s
    <2>1. known = [s \in Spots |-> [cn |-> who(s), serial |-> 1]]
      BY DEF Init
    <2>2. ASSUME NEW s \in Spots PROVE who(s) \in Entries
      <3>1. who(s) \in Residents
        BY SpotSeqIs
      <3> QED BY <3>1, SpotSeqIs
    <2> HIDE DEF who
    <2>3. ASSUME NEW s \in Spots
          PROVE  [cn |-> who(s), serial |-> 1] \in [cn : Entries \cup {NoChar}, serial : Nat]
      BY <2>2
    <2> QED BY <2>1, <2>3
  <1>11. /\ pc \in {"timer", "char", "acted", "driver", "rest"}
         /\ cur \in Entries \cup {NoChar} /\ nxt \in Entries \cup {NoChar}
         /\ waiting \subseteq Entries /\ upset \in BOOLEAN
    BY DEF Init
  <1> QED BY <1>1, <1>2, <1>3, <1>4, <1>5, <1>6, <1>7, <1>8, <1>9, <1>10, <1>11
          DEF TypeOK

LEMMA InitMap ==
    ASSUME Init
    PROVE  MapInv
  <1>1. /\ Used = Residents /\ \A c \in Residents : SpotSeq[c] \in Spots /\ c \in Entries
        /\ \A c, d \in Residents : SpotSeq[c] = SpotSeq[d] => c = d
        /\ \A s \in Spots : \E c \in Residents : SpotSeq[c] = s
        /\ NoChar \notin Residents
    BY InitLists, SpotSeqIs DEF Entries, NoChar
  <1>2. /\ \A s \in Spots : Home[s] \in Tiles
        /\ \A s, r \in Spots : Home[s] = Home[r] => s = r
        /\ Nowhere \notin Tiles
    BY WorldAssumption
  <1>3. /\ \A c \in Residents : at[c] = Home[SpotSeq[c]] /\ to[c] = Nowhere
        /\ block = {Home[s] : s \in Spots}
    BY <1>1 DEF Init
  <1>4. \A c, d \in Residents : Home[SpotSeq[c]] = Home[SpotSeq[d]] => c = d
    BY <1>1, <1>2
  <1>5. ASSUME NEW t \in Tiles
        PROVE  \/ on[t] = NoChar /\ ~\E c \in Residents : Home[SpotSeq[c]] = t
               \/ on[t] \in Residents /\ Home[SpotSeq[on[t]]] = t
    <2>1. on[t] = IF \E c \in Residents : Home[SpotSeq[c]] = t
                  THEN CHOOSE c \in Residents : Home[SpotSeq[c]] = t ELSE NoChar
      BY DEF Init
    <2> QED BY <2>1
  <1>6. ASSUME NEW c \in Used PROVE at[c] # Nowhere /\ on[at[c]] = c
    <2>1. c \in Residents /\ at[c] = Home[SpotSeq[c]] /\ at[c] \in Tiles
      BY <1>1, <1>2, <1>3
    <2> QED BY <1>2, <1>4, <1>5, <2>1
  <1>7. \A t \in Tiles : on[t] # NoChar => on[t] \in Used /\ at[on[t]] = t
    BY <1>1, <1>3, <1>5
  <1>8. block = {at[c] : c \in Used} \cup ({to[c] : c \in Used} \ {Nowhere})
    <2>1. {to[c] : c \in Used} \ {Nowhere} = {}
      BY <1>1, <1>3
    <2>2. ASSUME NEW t \in block PROVE t \in {at[c] : c \in Used}
      BY <1>1, <1>3
    <2>3. ASSUME NEW t \in {at[c] : c \in Used} PROVE t \in block
      BY <1>1, <1>3
    <2> QED BY <2>1, <2>2, <2>3
  <1>9. \A c, d \in Used : to[c] # Nowhere => to[c] # at[d] /\ (c # d => to[c] # to[d])
    BY <1>1, <1>3
  <1> QED BY <1>6, <1>7, <1>8, <1>9 DEF MapInv

LEMMA InitInv == Init => IInv
  <1> SUFFICES ASSUME Init PROVE IInv
    OBVIOUS
  <1>1. TypeOK /\ ListsInv /\ MapInv
    BY InitTypes, InitLists, InitMap
  <1>2. Used = Residents /\ \A c \in Residents : c \in Entries
    BY InitLists, SpotSeqIs
  <1>3. /\ pc = "timer" /\ timers = <<>> /\ fired = 0 /\ nxt = NoChar
        /\ \A c \in Entries : action[c] = "stand" /\ to[c] = Nowhere /\ dead[c] = FALSE
        /\ \A c \in Residents : kind[c] = SpotSeq[c]
    BY <1>2 DEF Init
  <1>4. Walking /\ Loop /\ Dying
    BY <1>2, <1>3 DEF Walking, Loop, Dying
  <1>5. TimersInv
    BY <1>3 DEF TimersInv
  <1>6. ASSUME NEW s \in Spots PROVE OneOf(s)
    <2>1. PICK c \in Residents : SpotSeq[c] = s
      BY SpotSeqIs
    <2>2. \A d \in Residents : SpotSeq[d] = s => d = c
      BY <2>1, SpotSeqIs
    <2>3. Alive(s) = {c}
      BY <1>2, <1>3, <2>1, <2>2 DEF Alive
    <2>4. Returns(s) = {}
      BY <1>3 DEF Returns
    <2> QED BY <1>2, <2>3, <2>4 DEF OneOf
  <1>7. RespawnCheckOk
    <2> SUFFICES ASSUME NEW s \in Spots PROVE KnownOk(s)
      BY DEF RespawnCheckOk, KnownOk
    <2> DEFINE who(r) == CHOOSE c \in Residents : SpotSeq[c] = r
    <2>1. known = [r \in Spots |-> [cn |-> who(r), serial |-> 1]]
      BY DEF Init
    <2>2. who(s) \in Residents /\ SpotSeq[who(s)] = s
      BY SpotSeqIs
    <2> HIDE DEF who
    <2>3. known[s] = [cn |-> who(s), serial |-> 1]
      BY <2>1
    <2>4. \A d \in Residents : SpotSeq[d] = s => d = who(s)
      BY <2>2, SpotSeqIs
    <2>5. Alive(s) = {who(s)}
      BY <1>2, <1>3, <2>2, <2>4 DEF Alive
    <2>6. serial[who(s)] = 1 /\ who(s) # NoChar
      BY <1>2, <2>2 DEF Init, Entries, NoChar
    <2> QED BY <2>3, <2>5, <2>6 DEF KnownOk
  <1>8. TurnsInv /\ Apart
    BY <1>3 DEF TurnsInv, Apart
  <1> QED BY <1>1, <1>4, <1>5, <1>6, <1>7, <1>8 DEF IInv, EachSpot

-----------------------------------------------------------------------------
(* The theorems.                                                           *)

LEMMA Always == Spec => []IInv
  <1>1. Init => IInv
    BY InitInv
  <1>2. IInv /\ [Next]_vars => IInv'
    BY Kept
  <1> QED BY <1>1, <1>2, PTL DEF Spec

(* WorldInv: every entry of ch[] is in exactly one of its two lists, and   *)
(* map and characters agree on who stands and goes where, so that no tile  *)
(* stays blocked and no two characters get the same one.                   *)
THEOREM WorldInOrder == Spec => []WorldInv
  <1>1. IInv => WorldInv
    BY DEF IInv, WorldInv
  <1> QED BY <1>1, Always, PTL

(* Population: every spot has its character, or the one timer that brings  *)
(* it back (respawn_callback).                                             *)
THEOREM SpotsPopulated == Spec => []Population
  <1>1. IInv => Population
    <2> SUFFICES ASSUME IInv, NEW s \in Spots
                 PROVE  Cardinality(Alive(s)) + Cardinality(Returns(s)) = 1
      BY DEF Population
    <2>1. OneOf(s)
      BY DEF IInv, EachSpot
    <2>2. Cardinality({}) = 0 /\ \A x : Cardinality({x}) = 1
      BY FS_EmptySet, FS_Singleton
    <2>3. CASE Returns(s) = {} /\ \E c \in Entries : Alive(s) = {c}
      <3>1. Cardinality(Alive(s)) = 1 /\ Cardinality(Returns(s)) = 0
        BY <2>2, <2>3
      <3> QED BY <3>1
    <2>4. CASE Alive(s) = {} /\ \E i \in Nat : Returns(s) = {i}
      <3>1. Cardinality(Alive(s)) = 0 /\ Cardinality(Returns(s)) = 1
        BY <2>2, <2>4
      <3> QED BY <3>1
    <2> QED BY <2>1, <2>3, <2>4 DEF OneOf
  <1> QED BY <1>1, Always, PTL

(* RespawnCheckOk: respawn_check never finds anything to complain of, as   *)
(* kill_char and respawn_callback keep respawn[] right whatever happens to *)
(* entries, map and timers in between.                                     *)
THEOREM SpotsKnown == Spec => []RespawnCheckOk
  <1>1. IInv => RespawnCheckOk
    BY DEF IInv
  <1> QED BY <1>1, Always, PTL

(* TurnsInv: unless a turn frees the one fetched as the next, nobody is    *)
(* left out and nobody has two turns in a tick (tick_char).                *)
THEOREM TurnsTaken == Spec => []TurnsInv
  <1>1. IInv => TurnsInv
    BY DEF IInv
  <1> QED BY <1>1, Always, PTL

(* OnTime: tick_timer leaves no timer behind that is due.                  *)
THEOREM TimersOnTime == Spec => OnTime
  <1>1. IInv /\ [Next]_vars =>
            [TimersDone => \A i \in 1..Len(timers') : timers'[i].left > 0]_vars
    <2> SUFFICES ASSUME IInv, TimersDone, NEW i \in 1..Len(timers')
                 PROVE  timers'[i].left > 0
      OBVIOUS
    <2>1. /\ Len(timers) \in Nat /\ fired \in Nat /\ fired <= Len(timers)
          /\ Len(timers') = Len(timers) - fired
          /\ timers'[i] = timers[fired + i]
      BY TimerParts, SpotDrop
    <2>2. /\ fired < Len(timers) /\ fired + 1 <= fired + i
          /\ fired + 1 \in 1..Len(timers) /\ fired + i \in 1..Len(timers)
      BY <2>1
    <2>3. timers[fired + 1].left <= timers[fired + i].left
          /\ timers[fired + 1].left \in Int /\ timers[fired + i].left \in Int
      BY <2>2, TimerParts
    <2>4. ~(timers[fired + 1].left <= 0)
      BY <2>2 DEF TimersDone, Due
    <2> QED BY <2>1, <2>3, <2>4
  <1> QED BY <1>1, Always, PTL DEF Spec, OnTime
=============================================================================

------------------------------ MODULE MCWorld ------------------------------
(* World on a small instance.                                              *)
EXTENDS World

CONSTANTS t1, t2, t3, s1, s2

Homes == [s \in {s1, s2} |-> IF s = s1 THEN t1 ELSE t2]

(* The view of the run.  Nothing depends on which number an entry has: an  *)
(* entry is seen as its place in the two lists, which hold all of them.    *)
Entry(i) == (used \o free)[i]
PlaceOf(c) == IF c = NoChar THEN 0 ELSE CHOOSE i \in 1..MaxChars : Entry(i) = c
Seen ==
    <<pc, Len(used),
      [i \in 1..MaxChars |-> LET c == Entry(i) IN
         <<kind[c], dead[c], serial[c], action[c], left[c], at[c], to[c],
           c \in waiting>>],
      [t \in Tiles |-> PlaceOf(on[t])], block, timers, fired,
      PlaceOf(cur), PlaceOf(nxt),
      [s \in Spots |-> <<PlaceOf(known[s].cn), known[s].serial>>], upset>>
=============================================================================

--------------------------- MODULE MCCharSession ---------------------------
(* Instances of CharSession for TLC: two servers, of the areas 1 and 3,    *)
(* the areas a rescue may go to.                                           *)
EXTENDS CharSession, TLC

TwoAreas   == [s \in Servers |-> IF s = "A" THEN 1 ELSE 3]
OneMirror  == [s \in Servers |-> 1]

SameAccount == [c \in Chars |-> 7]
OwnAccounts == CHOOSE f \in [Chars -> 7..(6 + Cardinality(Chars))] :
                   \A c, d \in Chars : f[c] = f[d] => c = d

(* Two characters of one account are interchangeable.                      *)
CharSymmetry == Permutations(Chars)

(* With one character nothing is promised once it has been robbed.         *)
Unrobbed == robbed = {}
=============================================================================

----------------------- MODULE ClanRelations_proofs ------------------------
(***************************************************************************)
(* Proofs about ClanRelations, for any number of clans and any times of    *)
(* notice: both clans of a pair have the same relation, and none ends      *)
(* without notice.                                                         *)
(***************************************************************************)
EXTENDS ClanRelations, TLAPS

USE ClansAssumption, TimeAssumption, BorderAssumption

-----------------------------------------------------------------------------
(* The step of one visit.                                                  *)

(* One visit leads from relations to relations.                            *)
LEMMA StepType ==
    ASSUME NEW c \in Relations, NEW w1 \in Relations, NEW w2 \in Relations,
           NEW a1 \in Nat, NEW a2 \in Nat
    PROVE  Step(c, w1, a1, w2, a2) \in Relations
  <1>1. CASE w1 = w2
    BY <1>1 DEF Step
  <1>2. CASE w1 # w2 /\ c \in {Alliance, Treaty}
    BY <1>2 DEF Step, Relations, Alliance, Treaty, Neutral, War, Feud
  <1>3. CASE w1 # w2 /\ c = Neutral
    BY <1>3 DEF Step, Relations, Alliance, Treaty, Neutral, War, Feud
  <1>4. CASE w1 # w2 /\ c = War
    BY <1>4 DEF Step, Relations, Alliance, Treaty, Neutral, War, Feud
  <1>5. CASE w1 # w2 /\ c = Feud
    BY <1>5 DEF Step, Relations, Alliance, Treaty, Neutral, War, Feud
  <1> QED
    BY <1>1, <1>2, <1>3, <1>4, <1>5
    DEF Relations, Alliance, Treaty, Neutral, War, Feud

(* A clan that may insist: it has wanted worse than Border for long.       *)
May(w, a) == w > Border /\ a > NoticeOf(Border)

(* One visit crosses the border only if both want it or one may insist.    *)
LEMMA StepCrosses ==
    ASSUME NEW c \in Relations, NEW w1 \in Relations, NEW w2 \in Relations,
           NEW a1 \in Nat, NEW a2 \in Nat,
           c <= Border, Step(c, w1, a1, w2, a2) > Border
    PROVE  \/ w1 > Border /\ w2 > Border
           \/ May(w1, a1)
           \/ May(w2, a2)
  <1>1. CASE w1 = w2
    BY <1>1 DEF Step, Relations, Alliance, Neutral, Feud
  <1>2. CASE w1 # w2 /\ c \in {Alliance, Treaty}
    <2>1. c = Border /\ (Gives(c, w1, a1) \/ Gives(c, w2, a2))
      BY <1>2 DEF Step, Relations, Alliance, Treaty, Neutral, War, Feud
    <2> QED BY <2>1 DEF Gives, May
  <1>3. CASE w1 # w2 /\ c = Neutral
    <2>1. c = Border
      BY <1>3 DEF Relations, Alliance, Treaty, Neutral, War, Feud
    <2>2. \/ w1 > c /\ w2 > c
          \/ Gives(c, w1, a1)
          \/ Gives(c, w2, a2)
      BY <1>3, <2>1 DEF Step, Relations, Alliance, Treaty, Neutral, War, Feud
    <2> QED BY <2>1, <2>2 DEF Gives, May
  <1> QED
    BY <1>1, <1>2, <1>3 DEF Relations, Alliance, Treaty, Neutral, War, Feud

(* One visit makes a relation as good as a border better than neutral only *)
(* when both want it.                                                      *)
LEMMA StepBetters ==
    ASSUME NEW c \in Relations, NEW w1 \in Relations, NEW w2 \in Relations,
           NEW a1 \in Nat, NEW a2 \in Nat,
           Border # Neutral, c > Border, Step(c, w1, a1, w2, a2) <= Border
    PROVE  w1 <= Border /\ w2 <= Border
  <1>1. CASE w1 = w2
    BY <1>1 DEF Step, Relations, Alliance, Neutral, Feud
  <1>2. CASE w1 # w2 /\ c = Treaty
    BY <1>2 DEF Step, Relations, Alliance, Treaty, Neutral, War, Feud
  <1>3. CASE w1 # w2 /\ c = Neutral
    BY <1>3 DEF Step, Relations, Alliance, Treaty, Neutral, War, Feud
  <1>4. CASE w1 # w2 /\ c = War
    BY <1>4 DEF Step, Relations, Alliance, Treaty, Neutral, War, Feud
  <1>5. CASE w1 # w2 /\ c = Feud
    BY <1>5 DEF Step, Relations, Alliance, Treaty, Neutral, War, Feud
  <1> QED
    BY <1>1, <1>2, <1>3, <1>4, <1>5
    DEF Relations, Alliance, Treaty, Neutral, War, Feud

-----------------------------------------------------------------------------
(* A pass.                                                                 *)

(* What a pair starts a pass with is no worse than what it had.            *)
LEMMA CalmType ==
    ASSUME TypeOK, NEW n \in Clans, NEW m \in Clans
    PROVE  /\ Wish(n, m) \in Relations /\ Start(n, m) \in Relations
           /\ Wish(n, m) <= want[n][m] /\ Start(n, m) <= cur[n][m]
           /\ Wish(n, m) = want[n][m] \/ Wish(n, m) = Neutral
           /\ Start(n, m) = cur[n][m] \/ Start(n, m) = Neutral
  <1>1. want[n][m] \in Relations /\ cur[n][m] \in Relations
    BY DEF TypeOK, Pairs
  <1> QED
    BY <1>1 DEF Wish, Start, Least, Relations, Alliance, Neutral, Feud

(* What is kept of a pair.                                                 *)
LEMMA AgeType ==
    ASSUME TypeOK, NEW n \in Clans, NEW m \in Clans
    PROVE  /\ age[n][m] \in Nat /\ since[n][m] \in Nat
           /\ age[n][m] <= Day + 1 /\ since[n][m] <= Day + 1
           /\ want[n][m] \in Relations /\ cur[n][m] \in Relations
  BY DEF TypeOK, Pairs, Ages

(* A pass leads from relations to relations.                               *)
LEMMA OutcomeType ==
    ASSUME TypeOK, NEW n \in Clans, NEW m \in Clans
    PROVE  Outcome(n, m) \in Relations
  <1> DEFINE first == Step(Start(n, m),
                           Wish(n, m), age[n][m], want[m][n], age[m][n])
  <1>1. /\ Wish(n, m) \in Relations /\ Start(n, m) \in Relations
        /\ want[m][n] \in Relations /\ age[n][m] \in Nat /\ age[m][n] \in Nat
    BY CalmType, AgeType
  <1>2. first \in Relations
    BY <1>1, StepType
  <1>3. Step(first, want[m][n], age[m][n], Wish(n, m), age[n][m]) \in Relations
    BY <1>1, <1>2, StepType
  <1> QED BY <1>3 DEF Outcome

(* A pass crosses the border only if both want it or one may insist.       *)
LEMMA OutcomeCrosses ==
    ASSUME TypeOK, NEW n \in Clans, NEW m \in Clans,
           cur[n][m] <= Border, Outcome(n, m) > Border
    PROVE  \/ want[n][m] > Border /\ want[m][n] > Border
           \/ May(want[n][m], age[n][m])
           \/ May(want[m][n], age[m][n])
  <1> DEFINE first == Step(Start(n, m),
                           Wish(n, m), age[n][m], want[m][n], age[m][n])
  <1>1. /\ Wish(n, m) \in Relations /\ Start(n, m) \in Relations
        /\ want[n][m] \in Relations /\ cur[n][m] \in Relations
        /\ want[m][n] \in Relations /\ age[n][m] \in Nat /\ age[m][n] \in Nat
    BY CalmType, AgeType
  <1>2. first \in Relations
    BY <1>1, StepType
  <1>3. Start(n, m) <= Border
    BY <1>1, CalmType DEF Relations, Alliance, Neutral, Feud
  <1>4. Step(first, want[m][n], age[m][n], Wish(n, m), age[n][m]) > Border
    BY DEF Outcome
  <1>5. \/ Wish(n, m) > Border /\ want[m][n] > Border
        \/ May(Wish(n, m), age[n][m])
        \/ May(want[m][n], age[m][n])
    <2>1. CASE first > Border
      BY <1>1, <1>3, <2>1, StepCrosses
    <2>2. CASE first <= Border
      BY <1>1, <1>2, <1>4, <2>2, StepCrosses
    <2> QED BY <1>2, <2>1, <2>2 DEF Relations, Alliance, Neutral, Feud
  <1>6. Wish(n, m) > Border => want[n][m] > Border
    BY <1>1, CalmType DEF Relations, Alliance, Neutral, Feud
  <1> QED BY <1>5, <1>6 DEF May

(* A pass makes a relation better than the border allows only when both    *)
(* want it so.                                                             *)
LEMMA OutcomeBetters ==
    ASSUME TypeOK, NEW n \in Clans, NEW m \in Clans,
           Border # Neutral, cur[n][m] > Border, Outcome(n, m) <= Border
    PROVE  want[n][m] <= Border /\ want[m][n] <= Border
  <1> DEFINE first == Step(Start(n, m),
                           Wish(n, m), age[n][m], want[m][n], age[m][n])
  <1>1. /\ Wish(n, m) \in Relations /\ Start(n, m) \in Relations
        /\ want[n][m] \in Relations /\ cur[n][m] \in Relations
        /\ want[m][n] \in Relations /\ age[n][m] \in Nat /\ age[m][n] \in Nat
    BY CalmType, AgeType
  <1>2. first \in Relations
    BY <1>1, StepType
  <1>3. Start(n, m) > Border
    BY <1>1, CalmType DEF Relations, Alliance, Neutral, Feud
  <1>4. Step(first, want[m][n], age[m][n], Wish(n, m), age[n][m]) <= Border
    BY DEF Outcome
  <1>5. Wish(n, m) <= Border /\ want[m][n] <= Border
    <2>1. CASE first > Border
      BY <1>1, <1>2, <1>4, <2>1, StepBetters
    <2>2. CASE first <= Border
      BY <1>1, <1>3, <2>2, StepBetters
    <2> QED BY <1>2, <2>1, <2>2 DEF Relations, Alliance, Neutral, Feud
  <1>6. Wish(n, m) <= Border => want[n][m] <= Border
    BY <1>1, CalmType DEF Relations, Alliance, Neutral, Feud
  <1> QED BY <1>5, <1>6

(* What a pass does to two clans.                                          *)
LEMMA PassAt ==
    ASSUME TypeOK, UpdateRelations, NEW n \in Clans, NEW m \in Clans, n # m
    PROVE  /\ {n, m} \subseteq named /\ n < m =>
              /\ cur'[n][m] = Outcome(n, m) /\ cur'[m][n] = Outcome(n, m)
           /\ ~({n, m} \subseteq named) =>
              /\ cur'[n][m] = cur[n][m] /\ want'[n][m] = want[n][m]
           /\ {n, m} \subseteq named => want'[n][m] = Wish(n, m)
           /\ age'[n][m] = age[n][m] /\ since'[n][m] = since[n][m]
  <1>1. /\ age' = age /\ since' = since
        /\ want' = [a \in Clans |-> [b \in Clans |->
               IF a # b /\ {a, b} \subseteq named THEN Wish(a, b) ELSE want[a][b]]]
        /\ cur' = [a \in Clans |-> [b \in Clans |->
               IF ~(a # b /\ {a, b} \subseteq named) THEN cur[a][b]
               ELSE IF a < b THEN Outcome(a, b) ELSE Outcome(b, a)]]
    BY DEF UpdateRelations, Both
  <1>2. /\ want'[n][m] = IF n # m /\ {n, m} \subseteq named
                         THEN Wish(n, m) ELSE want[n][m]
        /\ cur'[n][m] = IF ~(n # m /\ {n, m} \subseteq named) THEN cur[n][m]
                        ELSE IF n < m THEN Outcome(n, m) ELSE Outcome(m, n)
        /\ cur'[m][n] = IF ~(m # n /\ {m, n} \subseteq named) THEN cur[m][n]
                        ELSE IF m < n THEN Outcome(m, n) ELSE Outcome(n, m)
    BY <1>1
  <1>3. n < m => ~(m < n)
    BY DEF Clans
  <1>4. {n, m} \subseteq named <=> {m, n} \subseteq named
    OBVIOUS
  <1> QED BY <1>1, <1>2, <1>3, <1>4

-----------------------------------------------------------------------------
(* Types.                                                                  *)

(* Every reachable state is of the declared types, for any clans and times *)
(* (clan_standards, found_clan and update_relations write no others).      *)
THEOREM TypeCorrect == Spec => []TypeOK
  <1> USE DEF Relations, Alliance, Neutral, Feud, Ages
  <1>1. Init => TypeOK
    BY DEF Init, TypeOK, Both, Pairs
  <1>2. TypeOK /\ [Next]_vars => TypeOK'
    <2> SUFFICES ASSUME TypeOK, [Next]_vars PROVE TypeOK'
      OBVIOUS
    <2>1. ASSUME NEW n \in Clans, Found(n) PROVE TypeOK'
      <3>1. named' \subseteq Clans /\ raid' \subseteq Clans
        BY <2>1 DEF Found, TypeOK
      <3>2. /\ cur' \in Pairs(Relations) /\ want' \in Pairs(Relations)
            /\ age' \in Pairs(Ages) /\ since' \in Pairs(Ages)
        BY <2>1 DEF Found, TypeOK, Both, Pairs
      <3> QED BY <3>1, <3>2 DEF TypeOK
    <2>2. ASSUME NEW n \in Clans, Broke(n) PROVE TypeOK'
      BY <2>2 DEF Broke, TypeOK
    <2>3. ASSUME NEW n \in Clans, SetRaid(n) PROVE TypeOK'
      BY <2>3 DEF SetRaid, TypeOK
    <2>4. ASSUME NEW n \in Clans, NEW m \in Clans, NEW r \in Relations,
                 SetRelation(n, m, r)
          PROVE  TypeOK'
      <3>1. want' \in Pairs(Relations)
        BY <2>4 DEF SetRelation, TypeOK, Pairs
      <3>2. age' \in Pairs(Ages)
        BY <2>4 DEF SetRelation, TypeOK, Pairs
      <3>3. since' \in Pairs(Ages)
        BY <2>4 DEF SetRelation, TypeOK, Pairs
      <3> QED BY <2>4, <3>1, <3>2, <3>3 DEF SetRelation, TypeOK
    <2>5. ASSUME Clock PROVE TypeOK'
      <3>1. age' \in Pairs(Ages) /\ since' \in Pairs(Ages)
        BY <2>5 DEF Clock, TypeOK, Both, Pairs, Least
      <3> QED BY <2>5, <3>1 DEF Clock, TypeOK
    <2>6. ASSUME UpdateRelations PROVE TypeOK'
      <3>1. \A n, m \in Clans : Wish(n, m) \in Relations /\ Outcome(n, m) \in Relations
        BY CalmType, OutcomeType
      <3>2. cur' \in Pairs(Relations)
        BY <2>6, <3>1 DEF UpdateRelations, Both, Pairs, TypeOK
      <3>3. want' \in Pairs(Relations)
        BY <2>6, <3>1 DEF UpdateRelations, Both, Pairs, TypeOK
      <3> QED BY <2>6, <3>2, <3>3 DEF UpdateRelations, TypeOK
    <2>7. CASE UNCHANGED vars
      BY <2>7 DEF vars, TypeOK
    <2> QED BY <2>1, <2>2, <2>3, <2>4, <2>5, <2>6, <2>7 DEF Next
  <1> QED BY <1>1, <1>2, PTL DEF Spec

-----------------------------------------------------------------------------
(* Both entries of a pair.                                                 *)

(* What is in force is the same in the entries of both clans (ClanInv):    *)
(* zero_relation and the last line of update_relations see to it.          *)
THEOREM Agreement == Spec => []ClanInv
  <1>1. Init => Mutual
    BY DEF Init, Mutual, Both
  <1>2. TypeOK /\ Mutual /\ [Next]_vars => Mutual'
    <2> SUFFICES ASSUME TypeOK, Mutual, [Next]_vars,
                        NEW n \in Clans, NEW m \in Clans, n # m
                 PROVE  cur'[n][m] = cur'[m][n]
      BY DEF Mutual
    <2>0. cur[n][m] = cur[m][n]
      BY DEF Mutual
    <2>1. ASSUME NEW k \in Clans, Found(k) PROVE cur'[n][m] = cur'[m][n]
      BY <2>0, <2>1 DEF Found, Both
    <2>2. ASSUME UpdateRelations PROVE cur'[n][m] = cur'[m][n]
      <3>1. n < m \/ m < n
        BY DEF Clans
      <3>2. {n, m} \subseteq named <=> {m, n} \subseteq named
        OBVIOUS
      <3> QED BY <2>0, <2>2, <3>1, <3>2, PassAt
    <2>3. CASE UNCHANGED cur
      BY <2>0, <2>3
    <2> QED
      BY <2>1, <2>2, <2>3 DEF Next, Broke, SetRaid, SetRelation, Clock, vars
  <1> QED BY <1>1, <1>2, TypeCorrect, PTL DEF Spec, ClanInv

-----------------------------------------------------------------------------
(* Notice.                                                                 *)

(* The age of a wish that is worse than the border, where the border is    *)
(* kept or is the neutral one, does not go back before the clan began to   *)
(* want so.  It may for a clan of a new number that was never better than  *)
(* neutral, which is why the relation is part of it.                       *)
Timely ==
    \A n, m \in Clans :
        n # m /\ (cur[n][m] <= Border \/ Border = Neutral) /\ want[n][m] > Border
        => age[n][m] <= since[n][m]

(* Every step keeps it: a wish gets worse together with a new date.        *)
LEMMA TimelyStep == TypeOK /\ Mutual /\ Timely /\ [Next]_vars => Timely'
  <1> SUFFICES ASSUME TypeOK, Mutual, Timely, [Next]_vars,
                      NEW n \in Clans, NEW m \in Clans, n # m,
                      cur'[n][m] <= Border \/ Border = Neutral, want'[n][m] > Border
               PROVE  age'[n][m] <= since'[n][m]
    BY DEF Timely
  <1>0. /\ age[n][m] \in Nat /\ since[n][m] \in Nat
        /\ age[n][m] <= Day + 1 /\ since[n][m] <= Day + 1
        /\ want[n][m] \in Relations /\ cur[n][m] \in Relations
    BY AgeType
  <1>1. (cur[n][m] <= Border \/ Border = Neutral) /\ want[n][m] > Border
        => age[n][m] <= since[n][m]
    BY DEF Timely
  <1>2. ASSUME NEW k \in Clans, Found(k) PROVE age'[n][m] <= since'[n][m]
    <2>1. CASE k \in {n, m}
      <3>1. cur'[n][m] = Neutral /\ want'[n][m] = Neutral
        BY <1>2, <2>1 DEF Found, Both
      <3> QED BY <3>1 DEF Relations, Alliance, Neutral, Feud
    <2>2. CASE k \notin {n, m}
      <3>1. /\ cur'[n][m] = cur[n][m] /\ want'[n][m] = want[n][m]
            /\ age'[n][m] = age[n][m] /\ since'[n][m] = since[n][m]
        BY <1>2, <2>2 DEF Found, Both
      <3> QED BY <1>1, <3>1
    <2> QED BY <2>1, <2>2
  <1>3. ASSUME NEW a \in Clans, NEW b \in Clans, NEW r \in Relations,
               SetRelation(a, b, r)
        PROVE  age'[n][m] <= since'[n][m]
    <2>0. cur' = cur
      BY <1>3 DEF SetRelation
    <2>1. CASE a = n /\ b = m
      <3>1. /\ want'[n][m] = r
            /\ since'[n][m] = IF want[n][m] <= Border THEN 0 ELSE since[n][m]
            /\ age'[n][m] = IF want[n][m] = r THEN age[n][m] ELSE 0
        BY <1>3, <2>1 DEF SetRelation, TypeOK, Pairs
      <3>2. CASE want[n][m] = r
        BY <1>0, <1>1, <2>0, <3>1, <3>2 DEF Relations, Alliance, Neutral, Feud
      <3>3. CASE want[n][m] # r
        BY <1>0, <3>1, <3>3
      <3> QED BY <3>2, <3>3
    <2>2. CASE ~(a = n /\ b = m)
      <3>1. /\ want'[n][m] = want[n][m] /\ since'[n][m] = since[n][m]
            /\ age'[n][m] = age[n][m]
        BY <1>3, <2>2 DEF SetRelation, TypeOK, Pairs
      <3> QED BY <1>1, <2>0, <3>1
    <2> QED BY <2>1, <2>2
  <1>4. ASSUME Clock PROVE age'[n][m] <= since'[n][m]
    <2>1. /\ cur' = cur /\ want' = want
          /\ age'[n][m] = Least(age[n][m] + 1, Day + 1)
          /\ since'[n][m] = IF want[n][m] <= Border THEN 0
                            ELSE Least(since[n][m] + 1, Day + 1)
      BY <1>4 DEF Clock, Both
    <2>2. want[n][m] > Border /\ ~(want[n][m] <= Border)
      BY <1>0, <2>1 DEF Relations, Alliance, Neutral, Feud
    <2> QED BY <1>0, <1>1, <2>1, <2>2 DEF Least
  <1>5. ASSUME UpdateRelations PROVE age'[n][m] <= since'[n][m]
    <2>1. CASE ~({n, m} \subseteq named)
      BY <1>1, <1>5, <2>1, PassAt
    <2>2. CASE {n, m} \subseteq named
      <3>1. /\ want'[n][m] = Wish(n, m)
            /\ age'[n][m] = age[n][m] /\ since'[n][m] = since[n][m]
        BY <1>5, <2>2, PassAt
      <3>2. want[n][m] > Border
        BY <1>0, <3>1, CalmType DEF Relations, Alliance, Neutral, Feud
      <3>3. CASE Border = Neutral
        BY <1>1, <3>1, <3>2, <3>3
      <3>4. CASE Border # Neutral /\ n < m
        <4>1. cur'[n][m] = Outcome(n, m)
          BY <1>5, <2>2, <3>4, PassAt
        <4>2. ~(cur[n][m] > Border)
          BY <1>0, <3>2, <3>4, <4>1, OutcomeBetters
             DEF Relations, Alliance, Neutral, Feud
        <4> QED BY <1>0, <1>1, <3>1, <3>2, <4>2
                DEF Relations, Alliance, Neutral, Feud
      <3>5. CASE Border # Neutral /\ m < n
        <4>1. cur'[n][m] = Outcome(m, n)
          BY <1>5, <2>2, <3>5, PassAt
        <4>2. cur[m][n] = cur[n][m]
          BY DEF Mutual
        <4>3. ~(cur[n][m] > Border)
          BY <1>0, <3>2, <3>5, <4>1, <4>2, OutcomeBetters
             DEF Relations, Alliance, Neutral, Feud
        <4> QED BY <1>0, <1>1, <3>1, <3>2, <4>3
                DEF Relations, Alliance, Neutral, Feud
      <3> QED BY <3>3, <3>4, <3>5 DEF Clans
    <2> QED BY <2>1, <2>2
  <1>6. CASE UNCHANGED <<cur, want, age, since>>
    BY <1>1, <1>6
  <1> QED BY <1>2, <1>3, <1>4, <1>5, <1>6 DEF Next, Broke, SetRaid, vars

(* A pass that crosses the border has notice.                              *)
LEMMA PassHasNotice ==
    ASSUME TypeOK, Mutual, Timely, UpdateRelations,
           NEW n \in Clans, NEW m \in Clans, n < m, {n, m} \subseteq named,
           cur[n][m] <= Border, cur'[n][m] > Border
    PROVE  \/ want[n][m] > Border /\ want[m][n] > Border
           \/ Insists(n, m) \/ Insists(m, n)
  <1>1. cur'[n][m] = Outcome(n, m)
    BY PassAt DEF Clans
  <1>2. \/ want[n][m] > Border /\ want[m][n] > Border
        \/ May(want[n][m], age[n][m])
        \/ May(want[m][n], age[m][n])
    BY <1>1, OutcomeCrosses
  <1>3. n # m /\ cur[m][n] = cur[n][m]
    BY DEF Mutual, Clans
  <1>4. /\ want[n][m] > Border => age[n][m] <= since[n][m]
        /\ want[m][n] > Border => age[m][n] <= since[m][n]
    BY <1>3 DEF Timely
  <1>5. /\ age[n][m] \in Nat /\ since[n][m] \in Nat
        /\ age[m][n] \in Nat /\ since[m][n] \in Nat
    BY AgeType
  <1>6. NoticeOf(Border) \in Nat
    BY DEF NoticeOf
  <1> QED BY <1>2, <1>4, <1>5, <1>6 DEF May, Insists

(* A relation between two clans that stand does not get worse than the     *)
(* border without notice (Notice), whatever the border and the times are.  *)
THEOREM NoticeGiven == Spec => Notice
  <1> DEFINE NoticeStep ==
        \A n, m \in Clans :
          n # m /\ {n, m} \subseteq named
          /\ cur[n][m] <= Border /\ cur'[n][m] > Border
          => \/ want[n][m] > Border /\ want[m][n] > Border
             \/ Insists(n, m) \/ Insists(m, n)
  <1>1. Init => Timely
    BY DEF Init, Timely, Both, Alliance, Neutral
  <1>2. TypeOK /\ Mutual /\ Timely /\ [Next]_vars => NoticeStep
    <2> SUFFICES ASSUME TypeOK, Mutual, Timely, [Next]_vars,
                        NEW n \in Clans, NEW m \in Clans,
                        n # m, {n, m} \subseteq named,
                        cur[n][m] <= Border, cur'[n][m] > Border
                 PROVE  \/ want[n][m] > Border /\ want[m][n] > Border
                        \/ Insists(n, m) \/ Insists(m, n)
      OBVIOUS
    <2>0. cur[n][m] \in Relations /\ ~(cur[n][m] > Border)
      BY AgeType DEF Relations, Alliance, Neutral, Feud
    <2>1. ASSUME NEW k \in Clans, Found(k) PROVE FALSE
      <3>1. k \notin {n, m}
        BY <2>1 DEF Found
      <3>2. cur'[n][m] = cur[n][m]
        BY <2>1, <3>1 DEF Found, Both
      <3> QED BY <2>0, <3>2
    <2>2. CASE UNCHANGED cur
      BY <2>0, <2>2
    <2>3. ASSUME UpdateRelations
          PROVE  \/ want[n][m] > Border /\ want[m][n] > Border
                 \/ Insists(n, m) \/ Insists(m, n)
      <3>1. CASE n < m
        BY <2>3, <3>1, PassHasNotice
      <3>2. CASE m < n
        <4>1. cur[m][n] = cur[n][m]
          BY DEF Mutual
        <4>2. cur'[m][n] = cur'[n][m]
          BY <2>3, <3>2, PassAt
        <4> QED BY <2>3, <3>2, <4>1, <4>2, PassHasNotice
      <3> QED BY <3>1, <3>2 DEF Clans
    <2> QED BY <2>1, <2>2, <2>3 DEF Next, Broke, SetRaid, SetRelation, Clock, vars
  <1> QED
    BY <1>1, <1>2, TimelyStep, Agreement, PTL DEF Spec, Notice, ClanInv
=============================================================================

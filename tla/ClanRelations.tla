--------------------------- MODULE ClanRelations ---------------------------
(* The relations between clans (clan.c, clanmaster.c): alliance, peace     *)
(* treaty, neutral, war, feud.  A clan only says what it wants; what is in *)
(* force between two clans, kept once in the entry of each, changes in the *)
(* passes of update_relations on the server of area 3, step by step, and   *)
(* against the will of one of them only after a time of notice, because    *)
(* war and feud allow the members to attack each other.                    *)
(*                                                                         *)
(* Dates are kept as ages.  Whether a clan can pay, and so stays, is a     *)
(* choice here.                                                            *)
EXTENDS Naturals, FiniteSets

CONSTANTS
    Max,        \* MAXCLAN - 1
    Hour, Day,  \* the times of notice
    Border      \* the relation whose end Notice is about

ASSUME ClansAssumption == Max \in Nat

ASSUME TimeAssumption == Hour \in Nat /\ Day \in Nat /\ Hour <= Day

Alliance == 1
Treaty   == 2
Neutral  == 3
War      == 4
Feud     == 5

Relations == Alliance..Feud

(* What one clan alone may leave for the worse, and after which time.      *)
NoticeOf(r) == IF r = Neutral THEN Hour ELSE Day

ASSUME BorderAssumption == Border \in Alliance..Neutral

Clans == 1..Max
Ages  == 0..(Day + 1)

VARIABLES
    named,   \* the clans that have a name
    raid,    \* the clans with dungeon.doraid
    cur,     \* status.current_relation
    want,    \* status.want_relation
    age,     \* realtime - status.want_date, up to more than a day
    since    \* history: how long a clan has wanted worse than Border, or 0

vars == <<named, raid, cur, want, age, since>>

Pairs(S) == [Clans -> [Clans -> S]]
Both(f(_, _)) == [n \in Clans |-> [m \in Clans |-> f(n, m)]]

TypeOK ==
    /\ named \subseteq Clans
    /\ raid \subseteq Clans
    /\ cur \in Pairs(Relations)
    /\ want \in Pairs(Relations)
    /\ age \in Pairs(Ages)
    /\ since \in Pairs(Ages)

(* A table in which no clan has been founded yet; the first ones have been *)
(* neutral for long.                                                       *)
Init ==
    /\ named \in SUBSET Clans
    /\ raid = {}
    /\ cur = Both(LAMBDA n, m : Neutral)
    /\ want = Both(LAMBDA n, m : Neutral)
    /\ age = Both(LAMBDA n, m : Day + 1)
    /\ since = Both(LAMBDA n, m : 0)
-----------------------------------------------------------------------------
Least(a, b) == IF a <= b THEN a ELSE b

(* Mutant: the others keep what they had with the clan of that number.     *)
FoundOneSided(n) ==
    /\ n \notin named
    /\ \A m \in Clans : m < n => m \in named
    /\ named' = named \cup {n}
    /\ raid' = raid \ {n}
    /\ cur' = Both(LAMBDA a, b : IF a = n THEN Neutral ELSE cur[a][b])
    /\ want' = Both(LAMBDA a, b : IF n \in {a, b} THEN Neutral ELSE want[a][b])
    /\ age' = Both(LAMBDA a, b : IF b = n THEN Day + 1
                                 ELSE IF a = n THEN 0 ELSE age[a][b])
    /\ since' = Both(LAMBDA a, b : IF n \in {a, b} THEN 0 ELSE since[a][b])

(* found_clan: the first free number; clan_standards clears the entry, and *)
(* zero_relation what the others thought of the last clan of that number,  *)
(* with a date long ago.                                                   *)
Found(n) ==
    /\ n \notin named
    /\ \A m \in Clans : m < n => m \in named
    /\ named' = named \cup {n}
    /\ raid' = raid \ {n}
    /\ cur' = Both(LAMBDA a, b : IF n \in {a, b} THEN Neutral ELSE cur[a][b])
    /\ want' = Both(LAMBDA a, b : IF n \in {a, b} THEN Neutral ELSE want[a][b])
    /\ age' = Both(LAMBDA a, b : IF b = n THEN Day + 1
                                 ELSE IF a = n THEN 0 ELSE age[a][b])
    /\ since' = Both(LAMBDA a, b : IF n \in {a, b} THEN 0 ELSE since[a][b])

(* update_treasure: a clan went broke, or a god killed it.  Only the name  *)
(* goes.                                                                   *)
Broke(n) ==
    /\ n \in named
    /\ named' = named \ {n}
    /\ UNCHANGED <<raid, cur, want, age, since>>

(* set_clan_raid_god: raiding is switched on or off.                       *)
SetRaid(n) ==
    /\ n \in named
    /\ raid' = IF n \in raid THEN raid \ {n} ELSE raid \cup {n}
    /\ UNCHANGED <<named, cur, want, age, since>>

(* Mutant: the date stays when the wish changes.                           *)
SetRelationUndated(n, m, r) ==
    /\ n \in named /\ n # m
    /\ r > Neutral => n \in raid /\ m \in raid
    /\ want' = [want EXCEPT ![n][m] = r]
    /\ since' = [since EXCEPT ![n][m] = IF want[n][m] <= Border THEN 0 ELSE @]
    /\ UNCHANGED <<named, raid, cur, age>>

(* The clerk of a clan is told what to want of another: both must have     *)
(* raiding on for a war, and the date is renewed when the wish changes     *)
(* (set_clan_relation).  What a clan wants of itself nobody reads.         *)
SetRelation(n, m, r) ==
    /\ n \in named /\ n # m
    /\ r > Neutral => n \in raid /\ m \in raid
    /\ want' = [want EXCEPT ![n][m] = r]
    /\ age' = IF want[n][m] = r THEN age ELSE [age EXCEPT ![n][m] = 0]
    /\ since' = [since EXCEPT ![n][m] = IF want[n][m] <= Border THEN 0 ELSE @]
    /\ UNCHANGED <<named, raid, cur>>

(* Time passes.                                                            *)
Clock ==
    /\ age' = Both(LAMBDA n, m : Least(age[n][m] + 1, Day + 1))
    /\ since' = Both(LAMBDA n, m : IF want[n][m] <= Border THEN 0
                                   ELSE Least(since[n][m] + 1, Day + 1))
    /\ UNCHANGED <<named, raid, cur, want>>
-----------------------------------------------------------------------------
(* update_relations.                                                       *)

(* A clan wants worse than r, and has done so for the time of notice.      *)
Gives(r, w, a) == w > r /\ a > NoticeOf(r)

(* Mutant: at neutral both must want a war.                                *)
StepTogether(c, w1, a1, w2, a2) ==
    CASE w1 = w2 -> w1
      [] w1 # w2 /\ c \in {Alliance, Treaty} ->
             IF Gives(c, w1, a1) \/ Gives(c, w2, a2) THEN c + 1 ELSE c
      [] w1 # w2 /\ c = Neutral ->
             IF w1 > c /\ w2 > c THEN c + 1
             ELSE IF w1 < c /\ w2 < c THEN c - 1 ELSE c
      [] w1 # w2 /\ c = War -> IF w1 < c /\ w2 < c THEN c - 1 ELSE c
      [] w1 # w2 /\ c = Feud ->
             IF \/ w1 < c /\ w2 < c
                \/ w1 < c /\ a1 > Day
                \/ w2 < c /\ a2 > Day
             THEN c - 1 ELSE c

(* What becomes of the relation c of two clans that want w1 and w2, since  *)
(* a1 and a2: what both want, or one step where one of them may insist.    *)
Step(c, w1, a1, w2, a2) ==
    CASE w1 = w2 -> w1
      [] w1 # w2 /\ c \in {Alliance, Treaty} ->
             IF Gives(c, w1, a1) \/ Gives(c, w2, a2) THEN c + 1 ELSE c
      [] w1 # w2 /\ c = Neutral ->
             IF \/ w1 > c /\ w2 > c
                \/ Gives(c, w1, a1)
                \/ Gives(c, w2, a2)
             THEN c + 1
             ELSE IF w1 < c /\ w2 < c THEN c - 1 ELSE c
      [] w1 # w2 /\ c = War -> IF w1 < c /\ w2 < c THEN c - 1 ELSE c
      [] w1 # w2 /\ c = Feud ->
             IF \/ w1 < c /\ w2 < c
                \/ w1 < c /\ a1 > Day
                \/ w2 < c /\ a2 > Day
             THEN c - 1 ELSE c

(* The loops visit n before m.  Raiding is switched on for n first, but    *)
(* when m still has it off, n may neither want nor have more than neutral. *)
Calms(n, m) == n < m /\ m \notin raid

Wish(n, m) == IF Calms(n, m) THEN Least(Neutral, want[n][m]) ELSE want[n][m]

Start(n, m) == IF Calms(n, m) THEN Least(Neutral, cur[n][m]) ELSE cur[n][m]

(* Each pair is visited twice, as (n, m) and as (m, n), and what is in     *)
(* force is written into both entries each time.                           *)
Outcome(n, m) ==
    LET first == Step(Start(n, m),
                      Wish(n, m), age[n][m], want[m][n], age[m][n])
    IN  Step(first, want[m][n], age[m][n], Wish(n, m), age[n][m])

UpdateRelations ==
    LET Visited(n, m) == n # m /\ {n, m} \subseteq named IN
    /\ raid' = raid \cup named
    /\ cur' = Both(LAMBDA n, m :
                 IF ~Visited(n, m) THEN cur[n][m]
                 ELSE IF n < m THEN Outcome(n, m) ELSE Outcome(m, n))
    /\ want' = Both(LAMBDA n, m :
                  IF Visited(n, m) THEN Wish(n, m) ELSE want[n][m])
    /\ UNCHANGED <<named, age, since>>
-----------------------------------------------------------------------------
Next ==
    \/ \E n \in Clans : Found(n) \/ Broke(n) \/ SetRaid(n)
    \/ \E n, m \in Clans, r \in Relations : SetRelation(n, m, r)
    \/ Clock
    \/ UpdateRelations

Spec == Init /\ [][Next]_vars

(* tick_clan comes back to update_relations after each save, and time goes *)
(* by.                                                                     *)
LiveSpec == Spec /\ WF_vars(UpdateRelations) /\ WF_vars(Clock)
-----------------------------------------------------------------------------
(* What is in force between two clans is the same in both their entries:   *)
(* nobody can be attacked by somebody he cannot attack (cur is read on     *)
(* either side by clan_can_attack_inside, clan_alliance, may_enter_clan).  *)
Mutual == \A n, m \in Clans : n # m => cur[n][m] = cur[m][n]

ClanInv == TypeOK /\ Mutual

Insists(n, m) == want[n][m] > Border /\ since[n][m] > NoticeOf(Border)

(* Between two clans that stand a relation as good as Border does not give *)
(* way to a worse one unless both want it or one of them has insisted for  *)
(* the time of notice: no changes of mind, of raiding, or of who bears the *)
(* number of a clan, shorten it (clan.h, the comments on the relations).   *)
Notice ==
    [][\A n, m \in Clans :
          n # m /\ {n, m} \subseteq named
          /\ cur[n][m] <= Border /\ cur'[n][m] > Border
          => \/ want[n][m] > Border /\ want[m][n] > Border
             \/ Insists(n, m) \/ Insists(m, n)]_vars

(* Two clans get what both go on to want, and one that goes on to want war *)
(* gets it.                                                                *)
WishGranted ==
    \A n, m \in Clans : n # m =>
        /\ \A r \in Relations :
               <>[]({n, m} \subseteq named /\ want[n][m] = r /\ want[m][n] = r)
               => <>[](cur[n][m] = r)
        /\ <>[]({n, m} \subseteq named /\ want[n][m] = War)
           => <>[](cur[n][m] = War)
=============================================================================

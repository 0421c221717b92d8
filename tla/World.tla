------------------------------- MODULE World -------------------------------
(***************************************************************************)
(* The characters of an area server and the loop that moves them: the      *)
(* table ch[] with its lists of used and free entries, the tick of every   *)
(* character (tick_char), the timers (tick_timer), where characters stand  *)
(* and walk on the map, and how they die and respawn.                      *)
(*                                                                         *)
(* All of it runs in one thread.  What makes it hard is that the loops     *)
(* over timers and characters call code that changes the lists they run    *)
(* through.  So a timer that fires, a character's turn and its driver are  *)
(* a step each, and in between the model stops where the loop stands:      *)
(* there the code that runs may hurt, move, create or remove characters.   *)
(*                                                                         *)
(* What drivers decide is left open, except that they keep to what the     *)
(* library lets them do.  Of the timers only those of respawns are here.   *)
(* Ticks are counted backwards: left is the number of ticks until          *)
(* something is due.                                                       *)
(***************************************************************************)
EXTENDS Integers, Sequences, FiniteSets, SequencesExt

CONSTANTS
    MaxChars,     \* entries of ch[], without ch[0]
    Tiles,        \* of the map
    Spots,        \* the "ch" lines of the zone files with CF_RESPAWN
    Home,         \* the tile of a spot: tmpx, tmpy
    ActTicks,     \* duration of an action
    DieTicks,     \* 12
    RespawnTicks, \* ch.respawn
    RetryTicks,   \* TICKS * 10
    Nowhere       \* x = 0

Entries == 1..MaxChars
NoChar == 0

ASSUME WorldAssumption ==
    /\ MaxChars \in Nat /\ Home \in [Spots -> Tiles] /\ Nowhere \notin Tiles
    /\ IsFiniteSet(Spots) /\ Cardinality(Spots) <= MaxChars
    /\ Spots \cap {"player", "spawned"} = {}
    /\ \A s, t \in Spots : Home[s] = Home[t] => s = t
    /\ ActTicks \in Nat \ {0} /\ DieTicks \in Nat \ {0}
    /\ RespawnTicks \in Nat \ {0} /\ RetryTicks \in Nat \ {0}

VARIABLES
    pc,       \* "timer", "char", "acted", "driver", "rest": where the loop is
    used,     \* list of used entries, uchar first
    free,     \* list of free entries, fchar first
    kind,     \* a spot, "player" or "spawned"
    dead,     \* CF_DEAD
    serial,
    action,   \* "stand", "walk", "die"
    left,     \* duration - step
    at,       \* tile of x, y
    to,       \* tile of tox, toy
    on,       \* map.ch
    block,    \* tiles with MF_TMOVEBLOCK
    timers,   \* next_t
    fired,    \* how many of them this tick_timer has called
    cur,      \* the character whose driver runs
    nxt,      \* next of tick_char
    known,    \* respawn[] of the respawn checker
    waiting,  \* history: entries that have not had their turn yet
    upset     \* history: a turn has freed the entry nxt

lists == <<used, free>>
charData == <<kind, dead, serial, action, left>>
mapData == <<at, to, on, block>>
timerData == <<timers, fired>>
loop == <<pc, cur, nxt>>
turns == <<waiting, upset>>
vars == <<lists, charData, mapData, timerData, loop, known, turns>>

Kinds == Spots \cup {"player", "spawned"}
Actions == {"stand", "walk", "die"}
NoOne == [cn |-> NoChar, serial |-> 0]

RespawnTimer(s, n) == [left |-> n, spot |-> s]

TypeOK ==
    /\ pc \in {"timer", "char", "acted", "driver", "rest"}
    /\ used \in Seq(Entries) /\ free \in Seq(Entries)
    /\ kind \in [Entries -> Kinds] /\ dead \in [Entries -> BOOLEAN]
    /\ serial \in [Entries -> Nat]
    /\ action \in [Entries -> Actions] /\ left \in [Entries -> Nat]
    /\ at \in [Entries -> Tiles \cup {Nowhere}]
    /\ to \in [Entries -> Tiles \cup {Nowhere}]
    /\ on \in [Tiles -> Entries \cup {NoChar}] /\ block \subseteq Tiles
    /\ timers \in Seq([left : Int, spot : Spots])
    /\ fired \in 0..Len(timers)
    /\ cur \in Entries \cup {NoChar} /\ nxt \in Entries \cup {NoChar}
    /\ known \in [Spots -> [cn : Entries \cup {NoChar}, serial : Nat]]
    /\ waiting \subseteq Entries /\ upset \in BOOLEAN

(* The zone has been loaded: one character on every spot.  Which entries   *)
(* they got is immaterial.                                                 *)
SpotSeq == SetToSeq(Spots)
Residents == 1..Len(SpotSeq)

Init ==
    /\ pc = "timer"
    /\ used = [i \in Residents |-> Len(SpotSeq) + 1 - i]
    /\ free = [i \in 1..(MaxChars - Len(SpotSeq)) |-> Len(SpotSeq) + i]
    /\ kind = [c \in Entries |-> IF c \in Residents THEN SpotSeq[c] ELSE "spawned"]
    /\ dead = [c \in Entries |-> FALSE]
    /\ serial = [c \in Entries |-> IF c \in Residents THEN 1 ELSE 0]
    /\ action = [c \in Entries |-> "stand"] /\ left = [c \in Entries |-> 0]
    /\ at = [c \in Entries |-> IF c \in Residents THEN Home[SpotSeq[c]] ELSE Nowhere]
    /\ to = [c \in Entries |-> Nowhere]
    /\ on = [t \in Tiles |->
               IF \E c \in Residents : Home[SpotSeq[c]] = t
               THEN CHOOSE c \in Residents : Home[SpotSeq[c]] = t ELSE NoChar]
    /\ block = {Home[s] : s \in Spots}
    /\ timers = <<>> /\ fired = 0
    /\ cur = NoChar /\ nxt = NoChar
    /\ known = [s \in Spots |-> LET c == CHOOSE c \in Residents : SpotSeq[c] = s
                                IN [cn |-> c, serial |-> 1]]
    /\ waiting = {} /\ upset = FALSE
-----------------------------------------------------------------------------
(* Entries of ch[] and serial numbers.                                     *)

(* sercn only grows.  A serial number is only ever compared together with  *)
(* the number of an entry; here it comes back when nobody holds the pair.  *)
Held(c) == {known[s].serial : s \in {s \in Spots : known[s].cn = c}}
NewSerial(c) == CHOOSE n \in 1..(Cardinality(Held(c)) + 1) : n \notin Held(c)

Fresh == Head(free)

Used == Range(used)

(* Where an entry is in the list of used ones, and the list without it.    *)
Place(c) == CHOOSE i \in 1..Len(used) : used[i] = c
Without(c) == RemoveAt(used, Place(c))

(* Mutant: a new character comes last.                                     *)
AllocCharLast(k, t) ==
    /\ free # <<>>
    /\ used' = used \o <<Fresh>> /\ free' = Tail(free)
    /\ kind' = [kind EXCEPT ![Fresh] = k]
    /\ dead' = [dead EXCEPT ![Fresh] = FALSE]
    /\ serial' = [serial EXCEPT ![Fresh] = NewSerial(Fresh)]
    /\ action' = [action EXCEPT ![Fresh] = "stand"]
    /\ left' = [left EXCEPT ![Fresh] = 0]
    /\ at' = [at EXCEPT ![Fresh] = t] /\ to' = [to EXCEPT ![Fresh] = Nowhere]
    /\ on' = [on EXCEPT ![t] = Fresh] /\ block' = block \cup {t}

(* alloc_char takes the entry freed last and puts it in front.             *)
AllocChar(k, t) ==
    /\ free # <<>>
    /\ used' = <<Fresh>> \o used /\ free' = Tail(free)
    /\ kind' = [kind EXCEPT ![Fresh] = k]
    /\ dead' = [dead EXCEPT ![Fresh] = FALSE]
    /\ serial' = [serial EXCEPT ![Fresh] = NewSerial(Fresh)]
    /\ action' = [action EXCEPT ![Fresh] = "stand"]
    /\ left' = [left EXCEPT ![Fresh] = 0]
    /\ at' = [at EXCEPT ![Fresh] = t] /\ to' = [to EXCEPT ![Fresh] = Nowhere]
    /\ on' = [on EXCEPT ![t] = Fresh] /\ block' = block \cup {t}

(* Mutant: the tile a walking character heads for is not given back.       *)
FreeCharKeepTo(c) ==
    /\ used' = Without(c) /\ free' = <<c>> \o free
    /\ kind' = [kind EXCEPT ![c] = "spawned"] /\ dead' = [dead EXCEPT ![c] = FALSE]
    /\ serial' = [serial EXCEPT ![c] = 0]
    /\ action' = [action EXCEPT ![c] = "stand"] /\ left' = [left EXCEPT ![c] = 0]
    /\ at' = [at EXCEPT ![c] = Nowhere] /\ to' = [to EXCEPT ![c] = Nowhere]
    /\ on' = [t \in Tiles |-> IF t = at[c] THEN NoChar ELSE on[t]]
    /\ block' = block \ {at[c]}
    /\ waiting' = waiting \ {c}

(* remove_char and free_char, in this order wherever a character goes.     *)
(* Nobody looks at what a free entry still holds: here it is cleared.      *)
FreeChar(c) ==
    /\ used' = Without(c) /\ free' = <<c>> \o free
    /\ kind' = [kind EXCEPT ![c] = "spawned"] /\ dead' = [dead EXCEPT ![c] = FALSE]
    /\ serial' = [serial EXCEPT ![c] = 0]
    /\ action' = [action EXCEPT ![c] = "stand"] /\ left' = [left EXCEPT ![c] = 0]
    /\ at' = [at EXCEPT ![c] = Nowhere] /\ to' = [to EXCEPT ![c] = Nowhere]
    /\ on' = [t \in Tiles |-> IF t = at[c] THEN NoChar ELSE on[t]]
    /\ block' = block \ {at[c], to[c]}
    /\ waiting' = waiting \ {c}

FreeTiles == Tiles \ block

(* remove_char gives back both tiles of c, drop_char or set_char puts it   *)
(* on t, and action, step and duration are 0: nobody looks at CF_DEAD.     *)
PutChar(c, t) ==
    /\ t \in (FreeTiles \cup {at[c], to[c]}) \ {Nowhere}
    /\ action' = [action EXCEPT ![c] = "stand"] /\ left' = [left EXCEPT ![c] = 0]
    /\ at' = [at EXCEPT ![c] = t] /\ to' = [to EXCEPT ![c] = Nowhere]
    /\ on' = [on EXCEPT ![at[c]] = NoChar, ![t] = c]
    /\ block' = (block \ {at[c], to[c]}) \cup {t}

(* remove_char of both, and each is set where the other one stood.         *)
Exchange(c, d) ==
    /\ at' = [at EXCEPT ![c] = at[d], ![d] = at[c]]
    /\ to' = [to EXCEPT ![c] = Nowhere, ![d] = Nowhere]
    /\ on' = [on EXCEPT ![at[c]] = d, ![at[d]] = c]
    /\ block' = (block \ {to[c], to[d]}) \cup {at[c], at[d]}

(* getnext_char *)
NextOf(c) == IF Place(c) < Len(used) THEN used[Place(c) + 1] ELSE NoChar
-----------------------------------------------------------------------------
(* Timers.                                                                 *)

(* Mutant: the list is in no order.                                        *)
SetTimerLast(t, called) ==
    /\ timers' = Append(timers, t)
    /\ fired' = called

(* set_timer goes to the first timer that is not due earlier.  tick_timer  *)
(* has called so many of the list; one put among them is never called.     *)
SetTimer(t, called) == \E p \in 1..(Len(timers) + 1) :
    /\ \A i \in 1..(p - 1) : timers[i].left < t.left
    /\ p <= Len(timers) => timers[p].left >= t.left
    /\ timers' = InsertAt(timers, p, t)
    /\ fired' = IF p <= called THEN called + 1 ELSE called

(* Mutant: a character may be killed again while it dies.                  *)
KillCharTwice(c, called) ==
    /\ dead' = [dead EXCEPT ![c] = TRUE]
    /\ action' = [action EXCEPT ![c] = "die"] /\ left' = [left EXCEPT ![c] = DieTicks]
    /\ IF kind[c] \in Spots
       THEN /\ known' = [known EXCEPT ![kind[c]] = NoOne]
            /\ SetTimer(RespawnTimer(kind[c], RespawnTicks), called)
       ELSE fired' = called /\ UNCHANGED <<known, timers>>

(* Mutant: the respawn checker is not told.                                *)
KillCharUnnoticed(c, called) ==
    /\ ~dead[c]
    /\ dead' = [dead EXCEPT ![c] = TRUE]
    /\ action' = [action EXCEPT ![c] = "die"] /\ left' = [left EXCEPT ![c] = DieTicks]
    /\ known' = known
    /\ IF kind[c] \in Spots
       THEN SetTimer(RespawnTimer(kind[c], RespawnTicks), called)
       ELSE fired' = called /\ UNCHANGED timers

(* kill_char: the character starts to die.  hurt and the drivers call it   *)
(* for the living only.                                                    *)
KillChar(c, called) ==
    /\ ~dead[c]
    /\ dead' = [dead EXCEPT ![c] = TRUE]
    /\ action' = [action EXCEPT ![c] = "die"] /\ left' = [left EXCEPT ![c] = DieTicks]
    /\ IF kind[c] \in Spots
       THEN /\ known' = [known EXCEPT ![kind[c]] = NoOne]
            /\ SetTimer(RespawnTimer(kind[c], RespawnTicks), called)
       ELSE fired' = called /\ UNCHANGED <<known, timers>>

(* The next timer of tick_timer is due.                                    *)
Due == pc = "timer" /\ fired < Len(timers) /\ timers[fired + 1].left <= 0

Timer == timers[fired + 1]

(* respawn_callback *)
Respawn ==
    /\ Due
    /\ Home[Timer.spot] \notin block
    /\ AllocChar(Timer.spot, Home[Timer.spot])
    /\ known' = [known EXCEPT ![Timer.spot] = [cn |-> Fresh, serial |-> NewSerial(Fresh)]]
    /\ fired' = fired + 1
    /\ UNCHANGED <<timers, loop, turns>>

(* No entry is free, the tile is occupied, or the driver does not want to: *)
(* what was allocated is destroyed and the next try comes later.           *)
RespawnFails ==
    /\ Due
    /\ SetTimer(RespawnTimer(Timer.spot, RetryTicks), fired + 1)
    /\ UNCHANGED <<lists, charData, mapData, loop, known, turns>>

(* tick_timer ends, what was called is dropped, and tick_char starts.      *)
TimersDone ==
    /\ pc = "timer" /\ ~Due
    /\ timers' = SubSeq(timers, fired + 1, Len(timers)) /\ fired' = 0
    /\ pc' = "char"
    /\ nxt' = IF used = <<>> THEN NoChar ELSE Head(used)
    /\ waiting' = Used
    /\ UNCHANGED <<lists, charData, mapData, cur, known, upset>>
-----------------------------------------------------------------------------
(* tick_char.  A step of the loop is the turn of n = nxt: it counts the    *)
(* step, performs the action when its duration is over, and then asks the  *)
(* driver for the next one.                                                *)

TurnOf(n) ==
    /\ pc = "char" /\ nxt = n /\ n \in Used
    /\ nxt' = NextOf(n)

Acts(n, a) == TurnOf(n) /\ left[n] <= 1 /\ action[n] = a

(* Whoever is freed in the turn of another: is it the one fetched before?  *)
Upset(c, next) == upset' = (upset \/ c = next)

HadTurn(n) == waiting' = waiting \ {n}

Continue == pc' = "char" /\ UNCHANGED cur
AskDriver(n) == pc' = "acted" /\ cur' = n

(* The step is counted; the action goes on.                                *)
Wait(n) ==
    /\ TurnOf(n) /\ left[n] > 1
    /\ left' = [left EXCEPT ![n] = @ - 1]
    /\ HadTurn(n) /\ Continue
    /\ UNCHANGED <<lists, kind, dead, serial, action, mapData, timerData,
                   known, upset>>

(* payment_check, or a special tile, takes a player out of the game.       *)
TurnLeave(n) ==
    /\ TurnOf(n) /\ kind[n] = "player"
    /\ FreeChar(n) /\ Continue
    /\ UNCHANGED <<timerData, known, upset>>

(* A character stands while it waits, fights, casts a spell or uses an     *)
(* item, which is the same here.                                           *)
ActStand(n) ==
    /\ Acts(n, "stand")
    /\ HadTurn(n) /\ AskDriver(n)
    /\ UNCHANGED <<lists, charData, mapData, timerData, known, upset>>

(* act_walk *)
ActWalk(n) ==
    /\ Acts(n, "walk")
    /\ at' = [at EXCEPT ![n] = to[n]] /\ to' = [to EXCEPT ![n] = Nowhere]
    /\ on' = [on EXCEPT ![at[n]] = NoChar, ![to[n]] = n]
    /\ block' = block \ {at[n]}
    /\ HadTurn(n) /\ AskDriver(n)
    /\ UNCHANGED <<lists, charData, timerData, known, upset>>

(* die_char of an NPC, and of a player for whom there is no place at its   *)
(* rest area, or which has no connection any more.                         *)
ActDie(n) ==
    /\ Acts(n, "die")
    /\ FreeChar(n) /\ Continue
    /\ UNCHANGED <<timerData, known, upset>>

(* die_char of a player, who is back at his rest area at once, as somebody *)
(* for whom what was set on the old serial is not meant.                   *)
ActDieRevived(n, t) ==
    /\ Acts(n, "die") /\ kind[n] = "player"
    /\ PutChar(n, t)
    /\ dead' = [dead EXCEPT ![n] = FALSE]
    /\ serial' = [serial EXCEPT ![n] = NewSerial(n)]
    /\ HadTurn(n) /\ Continue
    /\ UNCHANGED <<lists, kind, timerData, known, upset>>

(* The entry fetched before has been freed meanwhile, and breaks the loop. *)
TurnBreaks ==
    /\ pc = "char" /\ nxt # NoChar /\ nxt \notin Used
    /\ pc' = "rest" /\ nxt' = NoChar
    /\ UNCHANGED <<lists, charData, mapData, timerData, cur, known, turns>>

CharsDone ==
    /\ pc = "char" /\ nxt = NoChar
    /\ pc' = "rest"
    /\ UNCHANGED <<lists, charData, mapData, timerData, cur, nxt, known, turns>>
-----------------------------------------------------------------------------
(* The driver of character n decides, after the action has been reset.     *)
(* When act has set the step to 0, the driver is not asked.                *)

Reset ==
    /\ pc = "acted" /\ pc' = "driver"
    /\ action' = [action EXCEPT ![cur] = "stand"] /\ left' = [left EXCEPT ![cur] = 0]
    /\ UNCHANGED <<lists, kind, dead, serial, mapData, timerData, cur, nxt,
                   known, turns>>

Asked(n) == pc = "driver" /\ cur = n

Decided == pc' = "char" /\ cur' = NoChar /\ UNCHANGED nxt

DoStand(n) ==
    /\ Asked(n)
    /\ action' = [action EXCEPT ![n] = "stand"] /\ left' = [left EXCEPT ![n] = ActTicks]
    /\ Decided
    /\ UNCHANGED <<lists, kind, dead, serial, mapData, timerData, known, turns>>

(* The driver returns without an action, and is asked again next tick.     *)
DoNothing(n) ==
    /\ Asked(n)
    /\ Decided
    /\ UNCHANGED <<lists, charData, mapData, timerData, known, turns>>

(* do_walk, not for the dead: the character stands where it is, and the    *)
(* tile it goes to is blocked as well.                                     *)
DoWalk(n, t) ==
    /\ Asked(n) /\ ~dead[n] /\ t \notin block
    /\ action' = [action EXCEPT ![n] = "walk"] /\ left' = [left EXCEPT ![n] = ActTicks]
    /\ to' = [to EXCEPT ![n] = t] /\ block' = block \cup {t}
    /\ Decided
    /\ UNCHANGED <<lists, kind, dead, serial, at, on, timerData, known, turns>>

(* What the code that runs does to any character: the callbacks of other   *)
(* timers and the effects of spells, what an action ends with, a driver,   *)
(* or a player's command.  Of tick_char itself only tile_special_check     *)
(* does such a thing, to the player n at the start of his turn.            *)

Reached(c) ==
    /\ c \in Used
    /\ pc = "char" => c = nxt /\ kind[c] = "player" /\ ~dead[c]

(* Whoever dies or goes in its own turn is not asked any more.             *)
TurnEnds(c) ==
    IF c = cur /\ pc \in {"acted", "driver"} THEN Decided ELSE UNCHANGED loop

(* hurt without a save, and kill_char of a driver's own character.         *)
Hurt(c) ==
    /\ Reached(c)
    /\ KillChar(c, fired) /\ TurnEnds(c)
    /\ UNCHANGED <<lists, kind, serial, mapData, turns>>

(* teleport_char_driver, and what hurt does instead of kill_char to those  *)
(* who are saved.  Drivers, items, timers and commands move others as well *)
(* as their own character, dying ones included.  Some leave the step of    *)
(* the character that acts as it is, and its driver is asked.              *)
MoveChar(c, t) ==
    /\ Reached(c)
    /\ PutChar(c, t)
    /\ \/ UNCHANGED loop
       \/ c = cur /\ pc = "acted" /\ Decided
    /\ UNCHANGED <<lists, kind, dead, serial, timerData, known, turns>>

(* char_swap, by a player's command or by the driver.                      *)
SwapChars(c, d) ==
    /\ c \in Used /\ d \in Used \ {c}
    /\ \/ pc = "rest" /\ kind[c] = "player"
       \/ Asked(c)
    /\ action[c] = "stand" /\ action[d] = "stand"
    /\ Exchange(c, d)
    /\ UNCHANGED <<lists, charData, timerData, loop, known, turns>>

(* The door of a clan spawner, used by the character that acts: the player *)
(* who stands behind it, dying or not, gets the place in front of it.      *)
DoorSwap(c, d) ==
    /\ pc = "acted" /\ c = cur /\ d \in Used \ {c} /\ kind[d] = "player"
    /\ Exchange(c, d)
    /\ action' = [action EXCEPT ![d] = "stand"] /\ left' = [left EXCEPT ![d] = 0]
    /\ UNCHANGED <<lists, kind, dead, serial, timerData, loop, known, turns>>

(* exit_char and kick_char of a player, by a save of hurt with no place to *)
(* go to as well, and remove_destroy_char of an NPC that is not to         *)
(* respawn, in its own turn or in that of another.                         *)
RemoveChar(c) ==
    /\ Reached(c) /\ pc # "char" /\ kind[c] \notin Spots
    /\ FreeChar(c) /\ Upset(c, nxt) /\ TurnEnds(c)
    /\ UNCHANGED <<timerData, known>>

(* create_char and drop_char, as the drivers of spawners do.               *)
CreateChar(t) ==
    /\ pc # "char" /\ t \notin block
    /\ AllocChar("spawned", t)
    /\ UNCHANGED <<timerData, loop, known, turns>>
-----------------------------------------------------------------------------
(* The rest of a tick.                                                     *)

(* tick_login *)
Login(t) ==
    /\ pc = "rest" /\ t \notin block
    /\ AllocChar("player", t)
    /\ UNCHANGED <<timerData, loop, known, turns>>

NextTick ==
    /\ pc = "rest" /\ pc' = "timer"
    /\ timers' = [i \in 1..Len(timers) |-> [timers[i] EXCEPT !.left = @ - 1]]
    /\ waiting' = {} /\ upset' = FALSE
    /\ UNCHANGED <<lists, charData, mapData, fired, cur, nxt, known>>
-----------------------------------------------------------------------------
TickTimer == Respawn \/ RespawnFails \/ TimersDone

Turn(n) ==
    \/ Wait(n) \/ TurnLeave(n) \/ ActStand(n) \/ ActWalk(n) \/ ActDie(n)
    \/ \E t \in Tiles : ActDieRevived(n, t)

Driver(n) == DoStand(n) \/ DoNothing(n) \/ \E t \in Tiles : DoWalk(n, t)

Suffer(c) ==
    \/ Hurt(c) \/ RemoveChar(c)
    \/ \E t \in Tiles : MoveChar(c, t)
    \/ \E d \in Entries : SwapChars(c, d) \/ DoorSwap(c, d)

Arrive == \E t \in Tiles : CreateChar(t) \/ Login(t)

Next ==
    \/ TickTimer \/ Reset \/ TurnBreaks \/ CharsDone \/ NextTick \/ Arrive
    \/ \E n \in Entries : Turn(n) \/ Driver(n) \/ Suffer(n)

Spec == Init /\ [][Next]_vars

-----------------------------------------------------------------------------
(* Correctness.                                                            *)

(* Every entry is in one of the two lists, once, although entries are      *)
(* freed and used again while tick_char goes through the list.             *)
ListsInv ==
    /\ Used \cap Range(free) = {} /\ Used \cup Range(free) = Entries
    /\ IsInjective(used) /\ IsInjective(free)

(* The map and the characters agree on who is where, and the flag that a   *)
(* tile is taken stands exactly where somebody is or is about to go: no    *)
(* tile is left blocked for ever by somebody who died, was moved or was    *)
(* destroyed on the way, and no two characters get the same tile.          *)
MapInv ==
    /\ \A c \in Used : at[c] # Nowhere /\ on[at[c]] = c
    /\ \A t \in Tiles : on[t] # NoChar => on[t] \in Used /\ at[on[t]] = t
    /\ block = {at[c] : c \in Used} \cup ({to[c] : c \in Used} \ {Nowhere})
    /\ \A c, d \in Used : to[c] # Nowhere => to[c] # at[d] /\ (c # d => to[c] # to[d])

(* Lists and map, which every step of the game relies on.                  *)
WorldInv == TypeOK /\ ListsInv /\ MapInv

(* Every spot of the zone has its character, or the one timer that brings  *)
(* it back, however characters die, tiles are occupied and ch[] is full.   *)
Alive(s) == {c \in Used : kind[c] = s /\ ~dead[c]}
Returns(s) == {i \in (fired + 1)..Len(timers) : timers[i].spot = s}
Population == \A s \in Spots : Cardinality(Alive(s)) + Cardinality(Returns(s)) = 1

(* What respawn_check looks for is never there: the checker knows the one  *)
(* character of a spot that lives, under its own serial number, and knows  *)
(* none while it is dead, whoever else gets the entry, moves the dying one *)
(* or makes the next try fail.                                             *)
RespawnCheckOk == \A s \in Spots :
    /\ Alive(s) = {known[s].cn} \ {NoChar}
    /\ known[s].cn # NoChar => serial[known[s].cn] = known[s].serial

(* A tick_timer that stops at the first timer that is not due leaves none  *)
(* behind that is, although timers are set with all sorts of delays.       *)
OnTime == [][TimersDone => \A i \in 1..Len(timers') : timers'[i].left > 0]_vars

(* Unless a turn frees the very character that was fetched as the next,    *)
(* those who have not had their turn in this tick are the rest of the list *)
(* from there on, and in the end there are none: whoever else comes, dies  *)
(* or is destroyed meanwhile, nobody is left out and nobody has two turns. *)
RestOfList ==
    IF nxt = NoChar THEN {}
    ELSE {used[i] : i \in Place(nxt)..Len(used)}
TurnsInv == pc # "timer" /\ ~upset =>
    /\ nxt # NoChar => nxt \in Used
    /\ waiting = RestOfList

=============================================================================

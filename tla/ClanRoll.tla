------------------------------ MODULE ClanRoll ------------------------------
(* Who belongs to a clan (clan.c, clanmaster.c).  A character carries the  *)
(* number of its clan and the serial number that clan had; a clan that is  *)
(* deleted counts its serial number up, and the number is used again.      *)
(* Every server compares with its own copy of the clan table: the keeper,  *)
(* the server of area 3, founds and deletes clans and writes the table,    *)
(* the others read it now and then.  Any of them may crash, the answer of  *)
(* a write may be lost, and a character may then be what its row says.     *)
(*                                                                         *)
(* How the table is stored is the subject of Storage; here a read or a     *)
(* write is one step.                                                      *)
EXTENDS Naturals, FiniteSets

CONSTANTS
    Max,        \* MAXCLAN - 1
    Chars,      \* the characters watched
    NoChar,     \* somebody else
    Servers,
    Keeper,     \* the server of area 3
    MaxEras,    \* bound: so many clans are ever founded
    MaxSerial   \* bound: so often a number is given up

ASSUME RollAssumption ==
    /\ Max \in Nat /\ MaxEras \in Nat /\ MaxSerial \in Nat
    /\ Keeper \in Servers /\ NoChar \notin Chars

Clans == 1..Max
Eras  == 1..MaxEras

VARIABLES
    table,   \* clan[] of each server
    saved,   \* the table in the database
    ready,   \* the servers with update_done
    known,   \* those that have read the table (version # 0)
    state,   \* update_state of the keeper
    changed, \* clan_changed of the keeper
    member,  \* ch[].clan and ch[].clan_serial of each character
    fnd,     \* the characters whose DRD_CLANFOUND holds the name of a clan
    row,     \* both in its row of the database
    place,   \* the server a character is on
    invite,  \* accept, accept_clan of the clan master
    eras,    \* history: how many clans have been founded
    kept     \* history: those whose founding has been saved

tables  == <<table, saved, ready, known, state, changed>>
people  == <<member, row, fnd, place, invite>>
history == <<eras, kept>>
vars    == <<tables, people, history>>

(* A clan and, for the property, the founding it goes back to.             *)
Entries == [named : BOOLEAN, serial : 0..MaxSerial, era : {0} \cup Eras]
Tables  == [Clans -> Entries]
Empty   == [n \in Clans |-> [named |-> FALSE, serial |-> 0, era |-> 0]]

Members  == [clan : {0} \cup Clans, serial : 0..MaxSerial, era : {0} \cup Eras]
NoMember == [clan |-> 0, serial |-> 0, era |-> 0]

NoInvite == [clan |-> 0, to |-> NoChar]

TypeOK ==
    /\ table \in [Servers -> Tables] /\ saved \in Tables
    /\ known \subseteq ready /\ ready \subseteq Servers
    /\ state \in {"read", "work", "answer"} /\ changed \in BOOLEAN
    /\ member \in [Chars -> Members]
    /\ row \in [Chars -> [member : Members, fnd : BOOLEAN]]
    /\ fnd \subseteq Chars /\ place \in [Chars -> Servers]
    /\ invite \in [clan : Clans, to : Chars] \cup {NoInvite}
    /\ eras \in 0..MaxEras /\ kept \subseteq Eras

Init ==
    /\ table = [s \in Servers |-> Empty] /\ saved = Empty
    /\ ready = {} /\ known = {} /\ state = "read" /\ changed = FALSE
    /\ member = [c \in Chars |-> NoMember]
    /\ row = [c \in Chars |-> [member |-> NoMember, fnd |-> FALSE]]
    /\ fnd = {} /\ place = [c \in Chars |-> Keeper]
    /\ invite = NoInvite
    /\ eras = 0 /\ kept = {}
-----------------------------------------------------------------------------
(* Characters.                                                             *)

InTable(s, m) ==
    /\ table[s][m.clan].serial = m.serial
    /\ table[s][m.clan].named

(* get_char_clan: a member is looked up in the table of its server, unless *)
(* that has not been read yet, and cleared when it is not found.           *)
CharClan(s, m) ==
    IF m.clan # 0 /\ s \in ready /\ ~InTable(s, m) THEN NoMember ELSE m

(* What was seen last of a character; get_char_clan is called all the      *)
(* time, for everybody in sight (player.c).                                *)
Look(c) ==
    /\ member' = [member EXCEPT ![c] = CharClan(place[c], @)]
    /\ UNCHANGED <<tables, row, fnd, place, invite, history>>

AtMaster(c) == c \in Chars /\ place[c] = Keeper

(* "name:" tells the clan master how the clan shall be called ...          *)
NameClan(c) ==
    /\ AtMaster(c)
    /\ member' = [member EXCEPT ![c] = CharClan(Keeper, @)]
    /\ fnd' = IF member'[c] = NoMember THEN fnd \cup {c} ELSE fnd
    /\ UNCHANGED <<tables, row, place, invite, history>>

(* Mutant: bzero clears the serial number too.                             *)
FoundClanAnew(n, c) ==
    LET entry == [named |-> TRUE, serial |-> 0, era |-> eras + 1] IN
    /\ eras < MaxEras /\ ~table[Keeper][n].named
    /\ \A m \in Clans : m < n => table[Keeper][m].named
    /\ c = NoChar \/ (AtMaster(c) /\ c \in fnd)
    /\ table' = [table EXCEPT ![Keeper][n] = entry]
    /\ changed' = TRUE /\ eras' = eras + 1
    /\ fnd' = fnd \ {c}
    /\ member' = [d \in Chars |->
           IF d = c THEN [clan |-> n, serial |-> 0, era |-> eras + 1]
           ELSE member[d]]
    /\ UNCHANGED <<saved, ready, known, state, row, place, invite, kept>>

(* ... and the jewel founds it (found_clan, add_member), whatever the      *)
(* founder has joined in the meantime: the first free number, whose serial *)
(* number stays.                                                           *)
FoundClan(n, c) ==
    LET old == table[Keeper][n].serial
        entry == [named |-> TRUE, serial |-> old, era |-> eras + 1]
    IN
    /\ eras < MaxEras /\ ~table[Keeper][n].named
    /\ \A m \in Clans : m < n => table[Keeper][m].named
    /\ c = NoChar \/ (AtMaster(c) /\ c \in fnd)
    /\ table' = [table EXCEPT ![Keeper][n] = entry]
    /\ changed' = TRUE /\ eras' = eras + 1
    /\ fnd' = fnd \ {c}
    /\ member' = [d \in Chars |->
           IF d = c THEN [clan |-> n, serial |-> old, era |-> eras + 1]
           ELSE member[d]]
    /\ UNCHANGED <<saved, ready, known, state, row, place, invite, kept>>

(* "accept:", a leader of clan n invites c.  The clan master keeps the     *)
(* number only.                                                            *)
Accept(n, c) ==
    /\ table[Keeper][n].named \/ Keeper \notin ready
    /\ invite' = [clan |-> n, to |-> c]
    /\ UNCHANGED <<tables, member, row, fnd, place, history>>

(* "join:" (add_member).  What was joined is no founding at all when the   *)
(* clan has been deleted since.                                            *)
Join(c) ==
    LET t == table[Keeper][invite.clan] IN
    /\ AtMaster(c) /\ invite.to = c
    /\ \/ /\ CharClan(Keeper, member[c]) = NoMember
          /\ member' = [member EXCEPT ![c] =
                 [clan |-> invite.clan, serial |-> t.serial,
                  era |-> IF t.named THEN t.era ELSE 0]]
          /\ invite' = NoInvite
       \/ /\ CharClan(Keeper, member[c]) # NoMember
          /\ UNCHANGED <<member, invite>>
    /\ UNCHANGED <<tables, row, fnd, place, history>>

(* "leave!", "fire:" (remove_member).                                      *)
Remove(c) ==
    /\ AtMaster(c)
    /\ member' = [member EXCEPT ![c] = NoMember]
    /\ UNCHANGED <<tables, row, fnd, place, invite, history>>

(* save_char writes the membership with the rest, at a backup or when the  *)
(* character goes to another server.                                       *)
SaveChar(c, s) ==
    /\ row' = [row EXCEPT ![c] = [member |-> member[c], fnd |-> c \in fnd]]
    /\ place' = [place EXCEPT ![c] = s]
    /\ UNCHANGED <<tables, member, fnd, invite, history>>
-----------------------------------------------------------------------------
(* The table.                                                              *)

(* Mutant: the serial number is not counted up.                            *)
DeleteClanSameSerial(n) ==
    /\ state = "work" /\ table[Keeper][n].named
    /\ table' = [table EXCEPT ![Keeper][n] =
           [named |-> FALSE, serial |-> table[Keeper][n].serial,
            era |-> table[Keeper][n].era]]
    /\ changed' = TRUE
    /\ UNCHANGED <<saved, ready, known, state, people, history>>

(* update_treasure: a clan is broke.                                       *)
DeleteClan(n) ==
    /\ state = "work" /\ table[Keeper][n].named
    /\ table[Keeper][n].serial < MaxSerial
    /\ table' = [table EXCEPT ![Keeper][n] =
           [named |-> FALSE, serial |-> table[Keeper][n].serial + 1,
            era |-> table[Keeper][n].era]]
    /\ changed' = TRUE
    /\ UNCHANGED <<saved, ready, known, state, people, history>>

(* tick_clan reads the table, the keeper only at its start and when it did *)
(* not learn of its write; what was changed since then is gone.            *)
ReadTable(s) ==
    /\ s = Keeper => state = "read"
    /\ table' = [table EXCEPT ![s] = saved]
    /\ ready' = ready \cup {s} /\ known' = known \cup {s}
    /\ state' = IF s = Keeper THEN "work" ELSE state
    /\ UNCHANGED <<saved, changed, people, history>>

(* When the read fails it goes on with what it has, be it nothing.         *)
ReadFails(s) ==
    /\ s = Keeper => state = "read"
    /\ ready' = ready \cup {s}
    /\ state' = IF s = Keeper THEN "work" ELSE state
    /\ UNCHANGED <<table, saved, known, changed, people, history>>

WriteTable ==
    /\ state = "work" /\ changed /\ Keeper \in known
    /\ saved' = table[Keeper]
    /\ kept' = (kept \cup {table[Keeper][n].era : n \in Clans}) \ {0}
    /\ state' = "answer"
    /\ UNCHANGED <<table, ready, known, changed, people, eras>>

(* The answer also covers what has changed since the write.                *)
Written ==
    /\ state = "answer"
    /\ changed' = FALSE /\ state' = "work"
    /\ UNCHANGED <<table, saved, ready, known, people, history>>

(* Without its version nothing is written.                                 *)
WriteRefused ==
    /\ state = "work" /\ changed /\ Keeper \notin known
    /\ state' = "read"
    /\ UNCHANGED <<table, saved, ready, known, changed, people, history>>

(* A write that failed is tried again, from the same version.  One that was *)
(* done and is reported as failed makes the keeper read it back.           *)
AnswerLost ==
    /\ state = "answer"
    /\ state' = "read"
    /\ UNCHANGED <<table, saved, ready, known, changed, people, history>>

(* A server stops and starts again; its characters are what their rows     *)
(* say.                                                                    *)
Crash(s) ==
    /\ table' = [table EXCEPT ![s] = Empty]
    /\ ready' = ready \ {s} /\ known' = known \ {s}
    /\ member' = [c \in Chars |->
                     IF place[c] = s THEN row[c].member ELSE member[c]]
    /\ fnd' = {c \in Chars : IF place[c] = s THEN row[c].fnd ELSE c \in fnd}
    /\ \/ /\ s = Keeper
          /\ state' = "read" /\ changed' = FALSE /\ invite' = NoInvite
       \/ s # Keeper /\ UNCHANGED <<state, changed, invite>>
    /\ UNCHANGED <<saved, row, place, history>>
-----------------------------------------------------------------------------
Next ==
    \/ \E c \in Chars : Look(c) \/ NameClan(c) \/ Join(c) \/ Remove(c)
    \/ \E n \in Clans, c \in Chars \cup {NoChar} : FoundClan(n, c)
    \/ \E n \in Clans, c \in Chars : Accept(n, c)
    \/ \E c \in Chars, s \in Servers : SaveChar(c, s)
    \/ \E n \in Clans : DeleteClan(n)
    \/ \E s \in Servers : ReadTable(s) \/ ReadFails(s) \/ Crash(s)
    \/ WriteTable \/ WriteRefused \/ Written \/ AnswerLost

Spec == Init /\ [][Next]_vars
-----------------------------------------------------------------------------
IsMember(c, s) == s \in known /\ member[c].clan # 0 /\ InTable(s, member[c])

(* Nobody who joined an earlier clan of a number counts as a member of a   *)
(* later one, on any server that has read the table, whatever has crashed, *)
(* failed or not been seen in between: get_char_clan's test of the serial  *)
(* number is enough.  It is not enough for those whose clan was founded    *)
(* and lost again before it was saved, and for those who joined, by an old *)
(* invitation, a clan that was gone.                                       *)
OldMembers ==
    \A c \in Chars, s \in Servers :
        IsMember(c, s) /\ member[c].era \in kept
        => member[c].era = table[s][member[c].clan].era

(* Why this is so.  A character or a table claims that clan e, the one of  *)
(* founding e, had number n and serial number k.                           *)
Bears(m, n, k, e) == m.clan = n /\ m.serial = k /\ m.era = e

Stands(t, n, k, e) == t[n].named /\ t[n].serial = k /\ t[n].era = e

Claim(n, k, e) ==
    \/ \E c \in Chars : Bears(member[c], n, k, e) \/ Bears(row[c].member, n, k, e)
    \/ \E s \in known : Stands(table[s], n, k, e)
    \/ Stands(saved, n, k, e)

(* Clans that are saved or still may be.                                   *)
InKeeper(e) == Keeper \in known /\ \E n \in Clans : table[Keeper][n].era = e

Live(e) == e \in kept \/ InKeeper(e)

Serials == 0..MaxSerial

(* Two of them never had the same numbers, ...                             *)
Unique ==
    \A d, e \in Eras :
        Live(d) /\ Live(e) /\ d # e
        => \A n \in Clans, k \in Serials : ~(Claim(n, k, d) /\ Claim(n, k, e))

(* ... a table that has clan e, or had it last under a number, knows of    *)
(* all its claims, ...                                                     *)
Fits(t) ==
    \A x \in Clans :
        t[x].era # 0 => \A n \in Clans, k \in Serials :
            Claim(n, k, t[x].era)
            => n = x /\ IF t[x].named THEN k = t[x].serial ELSE k < t[x].serial

(* ... a clan once saved is in the database or its number has been given   *)
(* up there, ...                                                           *)
Grounded ==
    \A e \in kept, n \in Clans, k \in Serials :
        Claim(n, k, e) => k < saved[n].serial \/ Stands(saved, n, k, e)

(* ... which the keeper is never behind, ...                               *)
Ahead ==
    Keeper \in known => \A n \in Clans :
        LET t == table[Keeper][n] IN
        \/ t.serial > saved[n].serial
        \/ /\ t.serial = saved[n].serial
           /\ saved[n].named => t.named /\ t.era = saved[n].era

(* ... and what a keeper founds that has not read the table is not saved.  *)
Sources ==
    /\ \A n \in Clans : saved[n].era # 0 => saved[n].era \in kept
    /\ \A s \in Servers \ {Keeper}, n \in Clans :
          table[s][n].named => table[s][n].era \in kept
    /\ Keeper \notin known => \A n \in Clans : table[Keeper][n].era \notin kept

(* Foundings are counted.                                                  *)
CountedIn(t) ==
    \A n \in Clans : t[n].era <= eras /\ (t[n].named => t[n].era # 0)

Counted ==
    /\ CountedIn(saved) /\ \A s \in Servers : CountedIn(table[s])
    /\ \A c \in Chars : member[c].era <= eras /\ row[c].member.era <= eras
    /\ \A e \in kept : e <= eras

RollInv ==
    /\ TypeOK /\ OldMembers
    /\ Unique /\ Fits(saved) /\ (Keeper \in known => Fits(table[Keeper]))
    /\ Grounded /\ Ahead /\ Sources /\ Counted
=============================================================================

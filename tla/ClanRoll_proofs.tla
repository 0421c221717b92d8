-------------------------- MODULE ClanRoll_proofs --------------------------
(***************************************************************************)
(* Proofs about ClanRoll, for any number of clans, characters, servers and *)
(* foundings: nobody who belonged to an earlier clan of a number is taken  *)
(* for a member of a later one.                                            *)
(***************************************************************************)
EXTENDS ClanRoll, TLAPS

USE RollAssumption

-----------------------------------------------------------------------------
(* Types.                                                                  *)

(* What is kept of a character and of a clan.                              *)
LEMMA Fields ==
    ASSUME TypeOK
    PROVE  /\ \A c \in Chars :
                 /\ member[c] \in Members /\ row[c].member \in Members
                 /\ row[c] \in [member : Members, fnd : BOOLEAN]
                 /\ place[c] \in Servers
           /\ \A s \in Servers, n \in Clans :
                 /\ table[s] \in Tables /\ table[s][n] \in Entries
                 /\ saved[n] \in Entries
  BY DEF TypeOK, Tables

(* A table with one new entry of the keeper.                               *)
LEMMA EntryAt ==
    ASSUME TypeOK, NEW n \in Clans, NEW v \in Entries,
           table' = [table EXCEPT ![Keeper][n] = v]
    PROVE  /\ table' \in [Servers -> Tables]
           /\ table'[Keeper][n] = v
           /\ \A s \in Servers, x \in Clans :
                 s # Keeper \/ x # n => table'[s][x] = table[s][x]
           /\ \A s \in Servers : s # Keeper => table'[s] = table[s]
  <1>1. table \in [Servers -> [Clans -> Entries]]
    BY DEF TypeOK, Tables
  <1>2. table' = [table EXCEPT ![Keeper] = [table[Keeper] EXCEPT ![n] = v]]
    OBVIOUS
  <1>3. [table[Keeper] EXCEPT ![n] = v] \in [Clans -> Entries]
    BY <1>1
  <1> QED BY <1>1, <1>2, <1>3 DEF Tables

(* The entry founded and the entry deleted.                                *)
LEMMA EntryType ==
    ASSUME NEW b \in BOOLEAN, NEW k \in 0..MaxSerial, NEW e \in {0} \cup Eras
    PROVE  [named |-> b, serial |-> k, era |-> e] \in Entries
  BY DEF Entries

(* A membership.                                                           *)
LEMMA MemberType ==
    ASSUME NEW n \in {0} \cup Clans, NEW k \in 0..MaxSerial, NEW e \in {0} \cup Eras
    PROVE  [clan |-> n, serial |-> k, era |-> e] \in Members
  BY DEF Members

(* No membership and an empty table.                                       *)
LEMMA NoMemberType ==
    /\ NoMember \in Members /\ NoMember.clan = 0 /\ NoMember.era = 0
    /\ Empty \in Tables
    /\ \A n \in Clans : /\ Empty[n].era = 0 /\ Empty[n].named = FALSE
                        /\ Empty[n].serial = 0
  BY DEF NoMember, Members, Empty, Tables, Entries

(* get_char_clan leaves a membership alone or clears it.                   *)
LEMMA CharClanIs ==
    ASSUME NEW s, NEW m
    PROVE  CharClan(s, m) = m \/ CharClan(s, m) = NoMember
  BY DEF CharClan

(* Every step keeps the types.                                             *)
LEMMA TypeStep == TypeOK /\ [Next]_vars => TypeOK'
  <1> SUFFICES ASSUME TypeOK, [Next]_vars PROVE TypeOK'
    OBVIOUS
  <1> USE NoMemberType
  <1>1. ASSUME NEW c \in Chars, Look(c) PROVE TypeOK'
    <2>1. member' = [member EXCEPT ![c] = CharClan(place[c], member[c])]
      BY <1>1 DEF Look
    <2>2. CharClan(place[c], member[c]) \in Members
      BY Fields, CharClanIs
    <2>3. member' \in [Chars -> Members]
      BY <2>1, <2>2 DEF TypeOK
    <2> QED BY <1>1, <2>3 DEF Look, TypeOK, tables, history
  <1>2. ASSUME NEW c \in Chars, NameClan(c) PROVE TypeOK'
    <2>1. member' = [member EXCEPT ![c] = CharClan(Keeper, member[c])]
      BY <1>2 DEF NameClan
    <2>2. CharClan(Keeper, member[c]) \in Members
      BY Fields, CharClanIs
    <2>3. member' \in [Chars -> Members]
      BY <2>1, <2>2 DEF TypeOK
    <2>4. fnd' \subseteq Chars
      BY <1>2 DEF NameClan, TypeOK
    <2> QED BY <1>2, <2>3, <2>4 DEF NameClan, TypeOK, tables, history
  <1>3. ASSUME NEW c \in Chars, Join(c) PROVE TypeOK'
    <2>1. invite \in [clan : Clans, to : Chars]
      BY <1>3 DEF Join, TypeOK, NoInvite, AtMaster
    <2>2. table[Keeper][invite.clan] \in Entries
      BY <2>1, Fields
    <2>3. \/ member' = member /\ invite' = invite
          \/ /\ member' = [member EXCEPT ![c] =
                  [clan |-> invite.clan, serial |-> table[Keeper][invite.clan].serial,
                   era |-> IF table[Keeper][invite.clan].named
                           THEN table[Keeper][invite.clan].era ELSE 0]]
             /\ invite' = NoInvite
      BY <1>3 DEF Join
    <2>4. [clan |-> invite.clan, serial |-> table[Keeper][invite.clan].serial,
           era |-> IF table[Keeper][invite.clan].named
                   THEN table[Keeper][invite.clan].era ELSE 0] \in Members
      BY <2>1, <2>2, MemberType DEF Entries
    <2>5. member' \in [Chars -> Members]
      BY <2>3, <2>4 DEF TypeOK
    <2>6. invite' \in [clan : Clans, to : Chars] \cup {NoInvite}
      BY <2>1, <2>3
    <2> QED BY <1>3, <2>5, <2>6 DEF Join, TypeOK, tables, history
  <1>4. ASSUME NEW c \in Chars, Remove(c) PROVE TypeOK'
    <2>1. member' \in [Chars -> Members]
      BY <1>4 DEF Remove, TypeOK
    <2> QED BY <1>4, <2>1 DEF Remove, TypeOK, tables, history
  <1>5. ASSUME NEW n \in Clans, NEW c \in Chars \cup {NoChar}, FoundClan(n, c)
        PROVE  TypeOK'
    <2> DEFINE old == table[Keeper][n].serial
               entry == [named |-> TRUE, serial |-> old, era |-> eras + 1]
    <2>1. eras + 1 \in Eras /\ eras' = eras + 1 /\ eras' \in 0..MaxEras
      BY <1>5 DEF FoundClan, TypeOK, Eras
    <2>2. old \in 0..MaxSerial
      BY Fields DEF Entries
    <2>3. entry \in Entries
      BY <2>1, <2>2, EntryType
    <2>4. table' = [table EXCEPT ![Keeper][n] = entry]
      BY <1>5 DEF FoundClan
    <2>5. table' \in [Servers -> Tables]
      BY <2>3, <2>4, EntryAt
    <2>6. [clan |-> n, serial |-> old, era |-> eras + 1] \in Members
      BY <2>1, <2>2, MemberType
    <2>7. member' \in [Chars -> Members]
      BY <1>5, <2>6 DEF FoundClan, TypeOK
    <2>8. fnd' \subseteq Chars /\ kept' \subseteq Eras
      BY <1>5, <2>1 DEF FoundClan, TypeOK
    <2> QED BY <1>5, <2>1, <2>5, <2>7, <2>8 DEF FoundClan, TypeOK
  <1>6. ASSUME NEW n \in Clans, NEW c \in Chars, Accept(n, c) PROVE TypeOK'
    BY <1>6 DEF Accept, TypeOK, tables, history
  <1>7. ASSUME NEW c \in Chars, NEW s \in Servers, SaveChar(c, s) PROVE TypeOK'
    <2>1. [member |-> member[c], fnd |-> c \in fnd] \in [member : Members, fnd : BOOLEAN]
      BY Fields
    <2>2. row' \in [Chars -> [member : Members, fnd : BOOLEAN]]
      BY <1>7, <2>1 DEF SaveChar, TypeOK
    <2>3. place' \in [Chars -> Servers]
      BY <1>7 DEF SaveChar, TypeOK
    <2> QED BY <1>7, <2>2, <2>3 DEF SaveChar, TypeOK, tables, history
  <1>8. ASSUME NEW n \in Clans, DeleteClan(n) PROVE TypeOK'
    <2> DEFINE entry == [named |-> FALSE, serial |-> table[Keeper][n].serial + 1,
                         era |-> table[Keeper][n].era]
    <2>1. entry \in Entries
      <3>1. table[Keeper][n] \in Entries
        BY Fields
      <3>2. table[Keeper][n].serial + 1 \in 0..MaxSerial
        BY <1>8, <3>1 DEF DeleteClan, Entries
      <3> QED BY <3>1, <3>2, EntryType DEF Entries
    <2>2. table' = [table EXCEPT ![Keeper][n] = entry]
      BY <1>8 DEF DeleteClan
    <2>3. table' \in [Servers -> Tables]
      BY <2>1, <2>2, EntryAt
    <2> QED BY <1>8, <2>3 DEF DeleteClan, TypeOK, people, history
  <1>9. ASSUME NEW s \in Servers, ReadTable(s) PROVE TypeOK'
    BY <1>9 DEF ReadTable, TypeOK, people, history
  <1>10. ASSUME NEW s \in Servers, ReadFails(s) PROVE TypeOK'
    BY <1>10 DEF ReadFails, TypeOK, people, history
  <1>11. ASSUME NEW s \in Servers, Crash(s) PROVE TypeOK'
    <2>1. table' \in [Servers -> Tables]
      BY <1>11 DEF Crash, TypeOK
    <2>2. member' \in [Chars -> Members]
      BY <1>11, Fields DEF Crash, TypeOK
    <2>3. fnd' \subseteq Chars
      BY <1>11 DEF Crash
    <2>4. known' \subseteq ready' /\ ready' \subseteq Servers
      BY <1>11 DEF Crash, TypeOK
    <2>5. /\ state' \in {"read", "work", "answer"} /\ changed' \in BOOLEAN
          /\ invite' \in [clan : Clans, to : Chars] \cup {NoInvite}
      BY <1>11 DEF Crash, TypeOK
    <2> QED BY <1>11, <2>1, <2>2, <2>3, <2>4, <2>5 DEF Crash, TypeOK, history
  <1>12. ASSUME WriteTable PROVE TypeOK'
    <2>1. \A n \in Clans : table[Keeper][n].era \in {0} \cup Eras
      BY Fields DEF Entries
    <2>2. kept' \subseteq Eras
      BY <1>12, <2>1 DEF WriteTable, TypeOK
    <2>3. saved' \in Tables
      BY <1>12 DEF WriteTable, TypeOK
    <2> QED BY <1>12, <2>2, <2>3 DEF WriteTable, TypeOK, people
  <1>13. CASE WriteRefused \/ Written \/ AnswerLost
    BY <1>13 DEF WriteRefused, Written, AnswerLost, TypeOK, people, history
  <1>14. CASE UNCHANGED vars
    BY <1>14 DEF vars, tables, people, history, TypeOK
  <1> QED
    BY <1>1, <1>2, <1>3, <1>4, <1>5, <1>6, <1>7, <1>8, <1>9, <1>10, <1>11,
       <1>12, <1>13, <1>14 DEF Next

-----------------------------------------------------------------------------
(* What the actions do, entry by entry.                                    *)

(* A founding.                                                             *)
Founded(n) ==
    /\ eras + 1 \in Eras /\ eras' = eras + 1
    /\ table[Keeper][n].named = FALSE
    /\ table'[Keeper][n].named = TRUE
    /\ table'[Keeper][n].serial = table[Keeper][n].serial
    /\ table'[Keeper][n].era = eras + 1
    /\ \A s \in Servers, x \in Clans :
          s # Keeper \/ x # n => table'[s][x] = table[s][x]
    /\ \A d \in Chars :
          \/ member'[d] = member[d]
          \/ /\ member'[d].clan = n /\ member'[d].era = eras + 1
             /\ member'[d].serial = table[Keeper][n].serial

(* A founding does just that.                                              *)
LEMMA FoundAt ==
    ASSUME TypeOK, NEW n \in Clans, NEW c \in Chars \cup {NoChar}, FoundClan(n, c)
    PROVE  Founded(n)
  <1> DEFINE old == table[Keeper][n].serial
             entry == [named |-> TRUE, serial |-> old, era |-> eras + 1]
  <1>1. eras + 1 \in Eras /\ eras' = eras + 1
    BY DEF FoundClan, TypeOK, Eras
  <1>2. old \in 0..MaxSerial /\ table[Keeper][n].named \in BOOLEAN
    BY Fields DEF Entries
  <1>3. entry \in Entries
    BY <1>1, <1>2, EntryType
  <1>4. table' = [table EXCEPT ![Keeper][n] = entry]
    BY DEF FoundClan
  <1>5. /\ table'[Keeper][n] = entry
        /\ \A s \in Servers, x \in Clans :
              s # Keeper \/ x # n => table'[s][x] = table[s][x]
    BY <1>3, <1>4, EntryAt
  <1>6. \A d \in Chars :
           member'[d] = IF d = c THEN [clan |-> n, serial |-> old, era |-> eras + 1]
                        ELSE member[d]
    BY DEF FoundClan
  <1> QED BY <1>1, <1>2, <1>5, <1>6 DEF FoundClan, Founded

(* A deletion.                                                             *)
Deleted(n) ==
    /\ table[Keeper][n].named
    /\ table'[Keeper][n].named = FALSE
    /\ table'[Keeper][n].serial = table[Keeper][n].serial + 1
    /\ table'[Keeper][n].era = table[Keeper][n].era
    /\ \A s \in Servers, x \in Clans :
          s # Keeper \/ x # n => table'[s][x] = table[s][x]

(* So does a deletion.                                                     *)
LEMMA DeleteAt ==
    ASSUME TypeOK, NEW n \in Clans, DeleteClan(n)
    PROVE  Deleted(n)
  <1> DEFINE entry == [named |-> FALSE, serial |-> table[Keeper][n].serial + 1,
                       era |-> table[Keeper][n].era]
  <1>1. table[Keeper][n] \in Entries
    BY Fields
  <1>2. table[Keeper][n].serial + 1 \in 0..MaxSerial
    BY <1>1 DEF DeleteClan, Entries
  <1>3. entry \in Entries
    BY <1>1, <1>2, EntryType DEF Entries
  <1>4. table' = [table EXCEPT ![Keeper][n] = entry]
    BY DEF DeleteClan
  <1>5. /\ table'[Keeper][n] = entry
        /\ \A s \in Servers, x \in Clans :
              s # Keeper \/ x # n => table'[s][x] = table[s][x]
    BY <1>3, <1>4, EntryAt
  <1> QED BY <1>5 DEF DeleteClan, Deleted

(* The membership of somebody who joins.                                   *)
Joined ==
    \A d \in Chars :
        \/ member'[d] = member[d]
        \/ /\ invite.clan \in Clans
           /\ member'[d].clan = invite.clan
           /\ member'[d].serial = table[Keeper][invite.clan].serial
           /\ member'[d].era = IF table[Keeper][invite.clan].named
                               THEN table[Keeper][invite.clan].era ELSE 0

(* Who joins gets the number of the invitation.                            *)
LEMMA JoinAt ==
    ASSUME TypeOK, NEW c \in Chars, Join(c)
    PROVE  Joined
  <1>1. invite \in [clan : Clans, to : Chars]
    BY DEF Join, TypeOK, NoInvite, AtMaster
  <1>2. \/ member' = member
        \/ member' = [member EXCEPT ![c] =
               [clan |-> invite.clan, serial |-> table[Keeper][invite.clan].serial,
                era |-> IF table[Keeper][invite.clan].named
                        THEN table[Keeper][invite.clan].era ELSE 0]]
    BY DEF Join
  <1> QED BY <1>1, <1>2 DEF TypeOK, Joined

(* What becomes of memberships in all other steps.                         *)
Others == \/ \E c \in Chars : Look(c) \/ NameClan(c) \/ Remove(c)
          \/ \E n \in Clans, c \in Chars : Accept(n, c)
          \/ \E c \in Chars, s \in Servers : SaveChar(c, s)
          \/ \E s \in Servers : ReadFails(s)
          \/ WriteRefused \/ Written \/ AnswerLost
          \/ UNCHANGED vars

Kept(c) ==
    /\ \/ member'[c] = member[c]
       \/ member'[c] = NoMember
       \/ member'[c] = row[c].member
    /\ row'[c].member = row[c].member \/ row'[c].member = member[c]

Quiet ==
    /\ UNCHANGED <<table, saved, known, eras, kept>>
    /\ \A c \in Chars : Kept(c)

(* All other steps are quiet.                                              *)
LEMMA OthersAt ==
    ASSUME TypeOK, Others
    PROVE  Quiet
  <1>1. ASSUME NEW d \in Chars, Look(d) \/ NameClan(d) \/ Remove(d)
        PROVE  Quiet
    <2>1. UNCHANGED <<table, saved, known, eras, kept, row>>
      BY <1>1 DEF Look, NameClan, Remove, tables, history
    <2>2. \E m : (m = member[d] \/ m = NoMember) /\ member' = [member EXCEPT ![d] = m]
      BY <1>1, CharClanIs DEF Look, NameClan, Remove
    <2>3. \A c \in Chars : member'[c] = member[c] \/ member'[c] = NoMember
      BY <2>2 DEF TypeOK
    <2> QED BY <2>1, <2>3 DEF Kept, Quiet
  <1>2. ASSUME NEW n \in Clans, NEW d \in Chars, Accept(n, d)
        PROVE  Quiet
    BY <1>2 DEF Accept, tables, history, Kept, Quiet
  <1>3. ASSUME NEW d \in Chars, NEW s \in Servers, SaveChar(d, s)
        PROVE  Quiet
    <2>1. UNCHANGED <<table, saved, known, eras, kept, member>>
      BY <1>3 DEF SaveChar, tables, history
    <2>2. row' = [row EXCEPT ![d] = [member |-> member[d], fnd |-> d \in fnd]]
      BY <1>3 DEF SaveChar
    <2>3. \A c \in Chars : row'[c].member = row[c].member \/ row'[c].member = member[c]
      BY <2>2 DEF TypeOK
    <2> QED BY <2>1, <2>3 DEF Kept, Quiet
  <1>4. CASE (\E s \in Servers : ReadFails(s)) \/ WriteRefused \/ Written \/ AnswerLost
    BY <1>4 DEF ReadFails, WriteRefused, Written, AnswerLost, people, history, Kept, Quiet
  <1>5. CASE UNCHANGED vars
    BY <1>5 DEF vars, tables, people, history, Kept, Quiet
  <1> QED BY <1>1, <1>2, <1>3, <1>4, <1>5 DEF Others

(* Next, for the proofs below.                                             *)
LEMMA Actions ==
    ASSUME [Next]_vars
    PROVE  \/ Others
           \/ \E c \in Chars : Join(c)
           \/ \E n \in Clans, c \in Chars \cup {NoChar} : FoundClan(n, c)
           \/ \E n \in Clans : DeleteClan(n)
           \/ \E s \in Servers : ReadTable(s)
           \/ \E s \in Servers : Crash(s)
           \/ WriteTable
  BY DEF Next, Others

(* A read and a crash.                                                     *)
ReadBy(s) ==
    /\ UNCHANGED <<saved, member, row, eras, kept>>
    /\ known' = known \cup {s}
    /\ \A n \in Clans : table'[s][n] = saved[n]
    /\ \A r \in Servers : r # s => table'[r] = table[r]

(* A read replaces the table of one server.                                *)
LEMMA ReadAt ==
    ASSUME TypeOK, NEW s \in Servers, ReadTable(s)
    PROVE  ReadBy(s)
  BY DEF ReadTable, TypeOK, people, history, ReadBy

Crashed(s) ==
    /\ UNCHANGED <<saved, eras, kept>>
    /\ known' = known \ {s}
    /\ table'[s] = Empty
    /\ \A r \in Servers : r # s => table'[r] = table[r]
    /\ \A c \in Chars : Kept(c)

(* A crash clears it and brings the rows of the server's characters back.  *)
LEMMA CrashAt ==
    ASSUME TypeOK, NEW s \in Servers, Crash(s)
    PROVE  Crashed(s)
  <1>1. \A c \in Chars : member'[c] = member[c] \/ member'[c] = row[c].member
    BY DEF Crash
  <1> QED BY <1>1 DEF Crash, TypeOK, history, Kept, Crashed

-----------------------------------------------------------------------------
(* The simpler conjuncts.                                                  *)

(* What is counted, one by one.                                            *)
LEMMA CountedAt ==
    ASSUME TypeOK, Counted
    PROVE  /\ eras \in Nat
           /\ \A n \in Clans :
                 /\ saved[n].era \in Nat /\ saved[n].era <= eras
                 /\ saved[n].named => saved[n].era # 0
           /\ \A s \in Servers, n \in Clans :
                 /\ table[s][n].era \in Nat /\ table[s][n].era <= eras
                 /\ table[s][n].named => table[s][n].era # 0
           /\ \A c \in Chars :
                 /\ member[c].era \in Nat /\ member[c].era <= eras
                 /\ row[c].member.era \in Nat /\ row[c].member.era <= eras
           /\ \A e \in kept : e \in Nat /\ e <= eras
  <1>1. eras \in Nat /\ \A e \in kept : e \in Nat /\ e <= eras
    BY DEF TypeOK, Eras, Counted
  <1>2. \A n \in Clans : /\ saved[n].era \in Nat /\ saved[n].era <= eras
                         /\ saved[n].named => saved[n].era # 0
    <2>1. \A n \in Clans : saved[n].era \in Nat
      BY Fields DEF Entries, Eras
    <2> QED BY <2>1 DEF Counted, CountedIn
  <1>3. ASSUME NEW s \in Servers, NEW n \in Clans
        PROVE  /\ table[s][n].era \in Nat /\ table[s][n].era <= eras
               /\ table[s][n].named => table[s][n].era # 0
    <2>1. table[s][n].era \in Nat
      BY Fields DEF Entries, Eras
    <2>2. CountedIn(table[s])
      BY DEF Counted
    <2> QED BY <2>1, <2>2 DEF CountedIn
  <1>4. \A c \in Chars :
           /\ member[c].era \in Nat /\ member[c].era <= eras
           /\ row[c].member.era \in Nat /\ row[c].member.era <= eras
    <2>1. \A c \in Chars : member[c].era \in Nat /\ row[c].member.era \in Nat
      BY Fields DEF Members, Eras
    <2> QED BY <2>1 DEF Counted
  <1> QED BY <1>1, <1>2, <1>3, <1>4

(* Foundings are counted.                                                  *)
LEMMA CountedStep == TypeOK /\ Counted /\ [Next]_vars => Counted'
  <1> SUFFICES ASSUME TypeOK, Counted, [Next]_vars PROVE Counted'
    OBVIOUS
  <1> USE NoMemberType
  <1>0. eras \in Nat
    BY DEF TypeOK
  <1>1. CASE Others
    <2>1. Quiet
      BY <1>1, OthersAt
    <2>2. \A c \in Chars : member'[c].era <= eras /\ row'[c].member.era <= eras
      BY <2>1, CountedAt DEF Quiet, Kept
    <2> QED BY <2>1, <2>2 DEF Quiet, Counted, CountedIn
  <1>2. ASSUME NEW c \in Chars, Join(c) PROVE Counted'
    <2>1. UNCHANGED <<table, saved, eras, kept, row>>
      BY <1>2 DEF Join, tables, history
    <2>2. ASSUME NEW d \in Chars PROVE member'[d].era <= eras
      <3>1. Joined
        BY <1>2, JoinAt
      <3>2. CASE member'[d] = member[d]
        BY <3>2, CountedAt
      <3>3. CASE member'[d] # member[d]
        <4>1. /\ invite.clan \in Clans
              /\ \/ member'[d].era = 0
                 \/ member'[d].era = table[Keeper][invite.clan].era
          BY <3>1, <3>3 DEF Joined
        <4>2. /\ table[Keeper][invite.clan].era \in Nat
              /\ table[Keeper][invite.clan].era <= eras
          BY <4>1, CountedAt
        <4> QED BY <1>0, <4>1, <4>2
      <3> QED BY <3>2, <3>3
    <2> QED BY <2>1, <2>2 DEF Counted, CountedIn
  <1>3. ASSUME NEW n \in Clans, NEW c \in Chars \cup {NoChar}, FoundClan(n, c)
        PROVE  Counted'
    <2>1. UNCHANGED <<saved, kept, row>>
      BY <1>3 DEF FoundClan
    <2>2. Founded(n)
      BY <1>3, FoundAt
    <2>3. eras' = eras + 1
      BY <2>2 DEF Founded
    <2>4. \A d \in Chars : member'[d].era <= eras'
      BY <2>2, <2>3, CountedAt DEF Founded
    <2>5. ASSUME NEW x \in Clans, NEW s \in Servers
          PROVE  /\ table'[s][x].era <= eras'
                 /\ table'[s][x].named => table'[s][x].era # 0
      <3>1. CASE s = Keeper /\ x = n
        <4>1. table'[s][x].era = eras + 1
          BY <2>2, <3>1 DEF Founded
        <4> QED BY <1>0, <2>3, <4>1
      <3>2. CASE s # Keeper \/ x # n
        <4>1. table'[s][x] = table[s][x]
          BY <2>2, <3>2 DEF Founded
        <4> QED BY <2>3, <4>1, CountedAt
      <3> QED BY <3>1, <3>2
    <2>6. \A x \in Clans : /\ saved[x].era <= eras'
                           /\ saved[x].named => saved[x].era # 0
      BY <2>3, CountedAt
    <2>7. \A e \in kept : e <= eras'
      BY <2>3, CountedAt
    <2>8. \A d \in Chars : row[d].member.era <= eras'
      BY <2>3, CountedAt
    <2>9. CountedIn(saved)'
      BY <2>1, <2>6 DEF CountedIn
    <2>10. \A s \in Servers : CountedIn(table[s])'
      BY <2>5 DEF CountedIn
    <2> QED BY <2>1, <2>4, <2>7, <2>8, <2>9, <2>10 DEF Counted
  <1>4. ASSUME NEW n \in Clans, DeleteClan(n) PROVE Counted'
    <2>1. UNCHANGED <<saved, eras, kept, row, member>>
      BY <1>4 DEF DeleteClan, people, history
    <2>2. Deleted(n)
      BY <1>4, DeleteAt
    <2>3. ASSUME NEW x \in Clans, NEW s \in Servers
          PROVE  /\ table'[s][x].era <= eras
                 /\ table'[s][x].named => table'[s][x].era # 0
      <3>1. CASE s = Keeper /\ x = n
        <4>1. table'[s][x].era = table[s][x].era /\ ~table'[s][x].named
          BY <2>2, <3>1 DEF Deleted
        <4> QED BY <4>1, CountedAt
      <3>2. CASE s # Keeper \/ x # n
        <4>1. table'[s][x] = table[s][x]
          BY <2>2, <3>2 DEF Deleted
        <4> QED BY <4>1, CountedAt
      <3> QED BY <3>1, <3>2
    <2> QED BY <2>1, <2>3 DEF Counted, CountedIn
  <1>5. ASSUME NEW s \in Servers, ReadTable(s) PROVE Counted'
    <2>1. ReadBy(s)
      BY <1>5, ReadAt
    <2>2. ASSUME NEW x \in Clans, NEW r \in Servers
          PROVE  /\ table'[r][x].era <= eras
                 /\ table'[r][x].named => table'[r][x].era # 0
      <3>1. table'[r][x] = table[r][x] \/ table'[r][x] = saved[x]
        BY <2>1 DEF ReadBy
      <3> QED BY <3>1, CountedAt
    <2> QED BY <2>1, <2>2 DEF ReadBy, Counted, CountedIn
  <1>6. ASSUME NEW s \in Servers, Crash(s) PROVE Counted'
    <2>1. Crashed(s)
      BY <1>6, CrashAt
    <2>2. ASSUME NEW x \in Clans, NEW r \in Servers
          PROVE  /\ table'[r][x].era <= eras
                 /\ table'[r][x].named => table'[r][x].era # 0
      <3>1. table'[r][x] = table[r][x] \/ table'[r][x] = Empty[x]
        BY <2>1 DEF Crashed
      <3> QED BY <1>0, <3>1, CountedAt
    <2>3. \A c \in Chars : member'[c].era <= eras /\ row'[c].member.era <= eras
      BY <2>1, CountedAt DEF Crashed, Kept
    <2> QED BY <2>1, <2>2, <2>3 DEF Crashed, Counted, CountedIn
  <1>7. ASSUME WriteTable PROVE Counted'
    <2>1. UNCHANGED <<table, member, row, eras>> /\ saved' = table[Keeper]
      BY <1>7 DEF WriteTable, people
    <2>2. kept' \subseteq kept \cup {table[Keeper][n].era : n \in Clans}
      BY <1>7 DEF WriteTable
    <2>3. \A e \in kept' : e <= eras
      BY <2>2, CountedAt
    <2> QED BY <2>1, <2>3 DEF Counted, CountedIn
  <1> QED BY <1>1, <1>2, <1>3, <1>4, <1>5, <1>6, <1>7, Actions

(* Nothing unsaved is taken for saved.                                     *)
LEMMA SourcesStep == TypeOK /\ Counted /\ Sources /\ [Next]_vars => Sources'
  <1> SUFFICES ASSUME TypeOK, Counted, Sources, [Next]_vars PROVE Sources'
    OBVIOUS
  <1> USE NoMemberType
  <1>0. 0 \notin kept /\ eras \in Nat /\ eras + 1 \notin kept
    BY DEF TypeOK, Eras, Counted
  <1>1. CASE Others
    BY <1>1, OthersAt DEF Quiet, Sources
  <1>2. ASSUME NEW c \in Chars, Join(c) PROVE Sources'
    BY <1>2 DEF Join, tables, history, Sources
  <1>3. ASSUME NEW n \in Clans, NEW c \in Chars \cup {NoChar}, FoundClan(n, c)
        PROVE  Sources'
    <2>1. UNCHANGED <<saved, kept, known>>
      BY <1>3 DEF FoundClan
    <2>2. Founded(n)
      BY <1>3, FoundAt
    <2>3. \A s \in Servers \ {Keeper}, x \in Clans : table'[s][x] = table[s][x]
      BY <2>2 DEF Founded
    <2>4. ASSUME Keeper \notin known, NEW x \in Clans
          PROVE  table'[Keeper][x].era \notin kept
      <3>1. CASE x = n
        BY <1>0, <2>2, <3>1 DEF Founded
      <3>2. CASE x # n
        BY <2>2, <2>4, <3>2 DEF Founded, Sources
      <3> QED BY <3>1, <3>2
    <2> QED BY <2>1, <2>3, <2>4 DEF Sources
  <1>4. ASSUME NEW n \in Clans, DeleteClan(n) PROVE Sources'
    <2>1. UNCHANGED <<saved, kept, known>>
      BY <1>4 DEF DeleteClan, history
    <2>2. Deleted(n)
      BY <1>4, DeleteAt
    <2>3. \A s \in Servers \ {Keeper}, x \in Clans : table'[s][x] = table[s][x]
      BY <2>2 DEF Deleted
    <2>4. \A x \in Clans : table'[Keeper][x].era = table[Keeper][x].era
      BY <2>2 DEF Deleted
    <2> QED BY <2>1, <2>3, <2>4 DEF Sources
  <1>5. ASSUME NEW s \in Servers, ReadTable(s) PROVE Sources'
    <2>1. ReadBy(s)
      BY <1>5, ReadAt
    <2>2. \A r \in Servers \ {Keeper}, x \in Clans :
             table'[r][x].named => table'[r][x].era \in kept
      BY <2>1, CountedAt DEF ReadBy, Sources
    <2>3. Keeper \notin known' => s # Keeper /\ Keeper \notin known
      BY <2>1 DEF ReadBy
    <2>4. s # Keeper => table'[Keeper] = table[Keeper]
      BY <2>1 DEF ReadBy
    <2> QED BY <2>1, <2>2, <2>3, <2>4 DEF ReadBy, Sources
  <1>6. ASSUME NEW s \in Servers, Crash(s) PROVE Sources'
    <2>1. Crashed(s)
      BY <1>6, CrashAt
    <2>2. \A r \in Servers \ {Keeper}, x \in Clans :
             table'[r][x].named => table'[r][x].era \in kept
      BY <2>1 DEF Crashed, Sources
    <2>3. CASE s = Keeper
      BY <1>0, <2>1, <2>2, <2>3 DEF Crashed, Sources
    <2>4. CASE s # Keeper
      BY <2>1, <2>2, <2>4 DEF Crashed, Sources
    <2> QED BY <2>3, <2>4
  <1>7. ASSUME WriteTable PROVE Sources'
    <2>1. UNCHANGED <<table, known>> /\ saved' = table[Keeper] /\ Keeper \in known
      BY <1>7 DEF WriteTable
    <2>2. kept' = (kept \cup {table[Keeper][n].era : n \in Clans}) \ {0}
      BY <1>7 DEF WriteTable
    <2>3. kept \subseteq kept'
      BY <1>0, <2>2
    <2> QED BY <2>1, <2>2, <2>3 DEF Sources
  <1> QED BY <1>1, <1>2, <1>3, <1>4, <1>5, <1>6, <1>7, Actions

(* The keeper does not fall behind the database.                           *)
LEMMA AheadStep == TypeOK /\ Ahead /\ [Next]_vars => Ahead'
  <1> SUFFICES ASSUME TypeOK, Ahead, [Next]_vars PROVE Ahead'
    OBVIOUS
  <1>0. \A n \in Clans : /\ saved[n].serial \in Nat
                         /\ table[Keeper][n].serial \in Nat
    BY Fields DEF Entries
  <1>1. CASE Others
    BY <1>1, OthersAt DEF Quiet, Ahead
  <1>2. ASSUME NEW c \in Chars, Join(c) PROVE Ahead'
    BY <1>2 DEF Join, tables, Ahead
  <1>3. ASSUME NEW n \in Clans, NEW c \in Chars \cup {NoChar}, FoundClan(n, c)
        PROVE  Ahead'
    <2>1. UNCHANGED <<saved, known>>
      BY <1>3 DEF FoundClan
    <2>2. Founded(n)
      BY <1>3, FoundAt
    <2>3. \A x \in Clans : x # n => table'[Keeper][x] = table[Keeper][x]
      BY <2>2 DEF Founded
    <2>4. /\ table'[Keeper][n].serial = table[Keeper][n].serial
          /\ table[Keeper][n].named = FALSE
      BY <2>2 DEF Founded
    <2> QED BY <2>1, <2>3, <2>4 DEF Ahead
  <1>4. ASSUME NEW n \in Clans, DeleteClan(n) PROVE Ahead'
    <2>1. UNCHANGED <<saved, known>>
      BY <1>4 DEF DeleteClan
    <2>2. Deleted(n)
      BY <1>4, DeleteAt
    <2>3. \A x \in Clans : x # n => table'[Keeper][x] = table[Keeper][x]
      BY <2>2 DEF Deleted
    <2>4. Keeper \in known => table'[Keeper][n].serial > saved[n].serial
      BY <1>0, <2>2 DEF Deleted, Ahead
    <2> QED BY <2>1, <2>3, <2>4 DEF Ahead
  <1>5. ASSUME NEW s \in Servers, ReadTable(s) PROVE Ahead'
    <2>1. ReadBy(s)
      BY <1>5, ReadAt
    <2>2. CASE s = Keeper
      BY <2>1, <2>2 DEF ReadBy, Ahead
    <2>3. CASE s # Keeper
      BY <2>1, <2>3 DEF ReadBy, Ahead
    <2> QED BY <2>2, <2>3
  <1>6. ASSUME NEW s \in Servers, Crash(s) PROVE Ahead'
    <2>1. Crashed(s)
      BY <1>6, CrashAt
    <2>2. CASE s = Keeper
      BY <2>1, <2>2 DEF Crashed, Ahead
    <2>3. CASE s # Keeper
      BY <2>1, <2>3 DEF Crashed, Ahead
    <2> QED BY <2>2, <2>3
  <1>7. ASSUME WriteTable PROVE Ahead'
    BY <1>7 DEF WriteTable, Ahead
  <1> QED BY <1>1, <1>2, <1>3, <1>4, <1>5, <1>6, <1>7, Actions

-----------------------------------------------------------------------------
(* Claims.                                                                 *)

Core ==
    /\ Unique /\ Fits(saved) /\ (Keeper \in known => Fits(table[Keeper]))
    /\ Grounded

(* A claim is about a clan that has been founded.                          *)
LEMMA ClaimCounted ==
    ASSUME TypeOK, Counted, NEW n, n \in Clans, NEW k, NEW e, Claim(n, k, e)
    PROVE  e <= eras
  <1>1. CASE \E c \in Chars : Bears(member[c], n, k, e) \/ Bears(row[c].member, n, k, e)
    BY <1>1, CountedAt DEF Bears
  <1>2. CASE \E s \in known : Stands(table[s], n, k, e)
    BY <1>2, CountedAt DEF Stands, TypeOK
  <1>3. CASE Stands(saved, n, k, e)
    BY <1>3, CountedAt DEF Stands
  <1> QED BY <1>1, <1>2, <1>3 DEF Claim

(* A character that keeps, loses or gets back what its row says claims     *)
(* nothing new.                                                            *)
LEMMA KeptClaims ==
    ASSUME NEW c \in Chars, Kept(c), NEW n \in Clans, NEW k, NEW e,
           Bears(member'[c], n, k, e) \/ Bears(row'[c].member, n, k, e)
    PROVE  Bears(member[c], n, k, e) \/ Bears(row[c].member, n, k, e)
  <1>1. n # 0
    BY DEF Clans
  <1> QED BY <1>1, NoMemberType DEF Kept, Bears

(* None of these steps makes a claim.                                      *)
LEMMA QuietClaims ==
    ASSUME Quiet, NEW n \in Clans, NEW k, NEW e, Claim(n, k, e)'
    PROVE  Claim(n, k, e)
  <1>1. CASE \E c \in Chars : Bears(member'[c], n, k, e) \/ Bears(row'[c].member, n, k, e)
    BY <1>1, KeptClaims DEF Quiet, Claim
  <1>2. CASE \E s \in known' : Stands(table'[s], n, k, e)
    BY <1>2 DEF Quiet, Claim
  <1>3. CASE Stands(saved', n, k, e)
    BY <1>3 DEF Quiet, Claim
  <1> QED BY <1>1, <1>2, <1>3 DEF Claim, Bears, Stands

(* Nor does a crash.                                                       *)
LEMMA CrashClaims ==
    ASSUME TypeOK, NEW r \in Servers, Crashed(r),
           NEW n \in Clans, NEW k, NEW e, Claim(n, k, e)'
    PROVE  Claim(n, k, e)
  <1>1. CASE \E c \in Chars : Bears(member'[c], n, k, e) \/ Bears(row'[c].member, n, k, e)
    BY <1>1, KeptClaims DEF Crashed, Claim
  <1>2. CASE \E s \in known' : Stands(table'[s], n, k, e)
    <2>1. PICK s \in known' : Stands(table'[s], n, k, e)
      BY <1>2
    <2>2. s \in known /\ table'[s] = table[s]
      BY DEF Crashed, TypeOK
    <2> QED BY <2>1, <2>2 DEF Claim
  <1>3. CASE Stands(saved', n, k, e)
    BY <1>3 DEF Crashed, Claim
  <1> QED BY <1>1, <1>2, <1>3 DEF Claim, Bears, Stands

(* A read repeats claims of the database.                                  *)
LEMMA ReadClaims ==
    ASSUME TypeOK, NEW r \in Servers, ReadBy(r),
           NEW n \in Clans, NEW k, NEW e, Claim(n, k, e)'
    PROVE  Claim(n, k, e)
  <1>1. CASE \E c \in Chars : Bears(member'[c], n, k, e) \/ Bears(row'[c].member, n, k, e)
    BY <1>1 DEF ReadBy, Claim
  <1>2. CASE \E s \in known' : Stands(table'[s], n, k, e)
    <2>1. PICK s \in known' : Stands(table'[s], n, k, e)
      BY <1>2
    <2>2. CASE s = r
      <3>1. table'[s][n] = saved[n]
        BY <2>2 DEF ReadBy
      <3> QED BY <2>1, <3>1 DEF Stands, Claim
    <2>3. CASE s # r
      <3>1. s \in known /\ table'[s] = table[s]
        BY <2>3 DEF ReadBy, TypeOK
      <3> QED BY <2>1, <3>1 DEF Claim
    <2> QED BY <2>2, <2>3
  <1>3. CASE Stands(saved', n, k, e)
    BY <1>3 DEF ReadBy, Claim
  <1> QED BY <1>1, <1>2, <1>3 DEF Claim, Bears, Stands

(* Who joins says what the clan master knows, which is no news when he has *)
(* read the table.                                                         *)
LEMMA JoinClaims ==
    ASSUME TypeOK, Sources, NEW c \in Chars, Join(c),
           NEW n \in Clans, NEW k, NEW e \in Eras, Claim(n, k, e)', Live(e)
    PROVE  Claim(n, k, e)
  <1>0. UNCHANGED <<table, saved, known, row>> /\ Joined
    BY JoinAt DEF Join, tables, history
  <1>1. CASE \E d \in Chars : Bears(member'[d], n, k, e) \/ Bears(row'[d].member, n, k, e)
    <2>1. PICK d \in Chars : Bears(member'[d], n, k, e) \/ Bears(row'[d].member, n, k, e)
      BY <1>1
    <2>2. CASE Bears(row[d].member, n, k, e) \/ member'[d] = member[d]
      BY <1>0, <2>1, <2>2 DEF Claim
    <2>3. CASE ~Bears(row[d].member, n, k, e) /\ member'[d] # member[d]
      <3>1. Bears(member'[d], n, k, e)
        BY <1>0, <2>1, <2>3
      <3>2. e # 0
        BY DEF Eras
      <3>3. /\ n = invite.clan /\ k = table[Keeper][n].serial
            /\ table[Keeper][n].named /\ e = table[Keeper][n].era
        BY <1>0, <2>3, <3>1, <3>2 DEF Joined, Bears
      <3>4. Keeper \in known
        BY <3>3 DEF Sources, Live, InKeeper
      <3> QED BY <3>3, <3>4 DEF Claim, Stands
    <2> QED BY <2>2, <2>3
  <1>2. CASE \E s \in known' : Stands(table'[s], n, k, e)
    BY <1>0, <1>2 DEF Claim
  <1>3. CASE Stands(saved', n, k, e)
    BY <1>0, <1>3 DEF Claim
  <1> QED BY <1>1, <1>2, <1>3 DEF Claim, Bears, Stands

(* A deletion takes the claim of the table back.                           *)
LEMMA DeleteClaims ==
    ASSUME TypeOK, NEW x \in Clans, DeleteClan(x),
           NEW n \in Clans, NEW k, NEW e, Claim(n, k, e)'
    PROVE  Claim(n, k, e)
  <1>0. UNCHANGED <<saved, known, row, member>> /\ Deleted(x)
    BY DeleteAt DEF DeleteClan, people, history
  <1>1. CASE \E c \in Chars : Bears(member'[c], n, k, e) \/ Bears(row'[c].member, n, k, e)
    BY <1>0, <1>1 DEF Claim
  <1>2. CASE \E s \in known' : Stands(table'[s], n, k, e)
    <2>1. PICK s \in known : Stands(table'[s], n, k, e)
      BY <1>0, <1>2
    <2>2. s \in Servers
      BY DEF TypeOK
    <2>3. CASE s = Keeper /\ n = x
      BY <1>0, <2>1, <2>3 DEF Deleted, Stands
    <2>4. CASE s # Keeper \/ n # x
      <3>1. table'[s][n] = table[s][n]
        BY <1>0, <2>2, <2>4 DEF Deleted
      <3> QED BY <2>1, <3>1 DEF Stands, Claim
    <2> QED BY <2>3, <2>4
  <1>3. CASE Stands(saved', n, k, e)
    BY <1>0, <1>3 DEF Claim
  <1> QED BY <1>1, <1>2, <1>3 DEF Claim, Bears, Stands

(* A founding makes one.                                                   *)
LEMMA FoundClaims ==
    ASSUME TypeOK, NEW x \in Clans, NEW c \in Chars \cup {NoChar}, FoundClan(x, c),
           NEW n \in Clans, NEW k, NEW e, Claim(n, k, e)'
    PROVE  \/ Claim(n, k, e)
           \/ n = x /\ k = table[Keeper][x].serial /\ e = eras + 1
  <1>0. UNCHANGED <<saved, known, row>> /\ Founded(x)
    BY FoundAt DEF FoundClan
  <1>1. CASE \E d \in Chars : Bears(member'[d], n, k, e) \/ Bears(row'[d].member, n, k, e)
    BY <1>0, <1>1 DEF Founded, Bears, Claim
  <1>2. CASE \E s \in known' : Stands(table'[s], n, k, e)
    <2>1. PICK s \in known : Stands(table'[s], n, k, e)
      BY <1>0, <1>2
    <2>2. s \in Servers
      BY DEF TypeOK
    <2>3. CASE s = Keeper /\ n = x
      BY <1>0, <2>1, <2>3 DEF Founded, Stands
    <2>4. CASE s # Keeper \/ n # x
      <3>1. table'[s][n] = table[s][n]
        BY <1>0, <2>2, <2>4 DEF Founded
      <3> QED BY <2>1, <3>1 DEF Stands, Claim
    <2> QED BY <2>3, <2>4
  <1>3. CASE Stands(saved', n, k, e)
    BY <1>0, <1>3 DEF Claim
  <1> QED BY <1>1, <1>2, <1>3 DEF Claim, Bears, Stands

(* A write repeats those of the keeper.                                    *)
LEMMA WriteClaims ==
    ASSUME WriteTable, NEW n \in Clans, NEW k, NEW e, Claim(n, k, e)'
    PROVE  Claim(n, k, e)
  <1>0. /\ UNCHANGED <<table, known, row, member>>
        /\ saved' = table[Keeper] /\ Keeper \in known
    BY DEF WriteTable, people
  <1> QED BY <1>0 DEF Claim, Bears, Stands

-----------------------------------------------------------------------------
(* The core of the invariant.                                              *)

(* It stays when no claim about a saved clan is new and the keeper knows   *)
(* what it knew or what is saved.                                          *)
LEMMA CoreKept ==
    ASSUME TypeOK, Sources, Core, UNCHANGED <<saved, kept>>,
           Keeper \in known' =>
              \/ Keeper \in known /\ table'[Keeper] = table[Keeper]
              \/ \A n \in Clans : table'[Keeper][n] = saved[n],
           \A n \in Clans, k \in Serials, e \in Eras :
              Claim(n, k, e)' /\ Live(e) => Claim(n, k, e)
    PROVE  Core'
  <1>0. kept \subseteq Eras /\ \A n \in Clans : saved[n].era \in {0} \cup Eras
    BY Fields DEF TypeOK, Entries
  <1>1. ASSUME NEW e \in Eras, Live(e)' PROVE Live(e)
    <2>1. e # 0
      BY DEF Eras
    <2>2. CASE e \in kept'
      BY <2>2 DEF Live
    <2>3. CASE InKeeper(e)'
      <3>1. PICK n \in Clans : table'[Keeper][n].era = e
        BY <2>3 DEF InKeeper
      <3>2. CASE Keeper \in known /\ table'[Keeper] = table[Keeper]
        BY <3>1, <3>2 DEF Live, InKeeper
      <3>3. CASE table'[Keeper][n] = saved[n]
        BY <2>1, <3>1, <3>3 DEF Live, Sources
      <3> QED BY <2>3, <3>2, <3>3 DEF InKeeper
    <2> QED BY <1>1, <2>2, <2>3 DEF Live
  <1>2. Unique'
    <2> SUFFICES ASSUME NEW d \in Eras, NEW e \in Eras, Live(d)', Live(e)', d # e,
                        NEW n \in Clans, NEW k \in Serials,
                        Claim(n, k, d)', Claim(n, k, e)'
                 PROVE  FALSE
      BY DEF Unique
    <2>1. Live(d) /\ Live(e)
      BY <1>1
    <2>2. Claim(n, k, d) /\ Claim(n, k, e)
      BY <2>1
    <2> QED BY <2>1, <2>2 DEF Core, Unique
  <1>3. \A n \in Clans, k \in Serials, x \in Clans :
           saved[x].era # 0 /\ Claim(n, k, saved[x].era)' => Claim(n, k, saved[x].era)
    BY <1>0 DEF Sources, Live
  <1>4. Fits(saved)'
    BY <1>3 DEF Core, Fits
  <1>5. ASSUME Keeper \in known' PROVE Fits(table[Keeper])'
    <2>1. CASE Keeper \in known /\ table'[Keeper] = table[Keeper]
      <3>1. \A x \in Clans : table[Keeper][x].era \in {0} \cup Eras
        BY Fields DEF Entries
      <3>2. \A x \in Clans : table[Keeper][x].era # 0 => Live(table[Keeper][x].era)
        BY <2>1 DEF Live, InKeeper
      <3> SUFFICES ASSUME NEW x \in Clans, table'[Keeper][x].era # 0,
                          NEW n \in Clans, NEW k \in Serials,
                          Claim(n, k, table[Keeper][x].era)'
                   PROVE  n = x /\ IF table'[Keeper][x].named
                                   THEN k = table'[Keeper][x].serial
                                   ELSE k < table'[Keeper][x].serial
        BY DEF Fits
      <3>3. PICK e \in Eras : e = table'[Keeper][x].era
        BY <2>1, <3>1
      <3>4. Claim(n, k, e)' /\ Live(e)
        BY <2>1, <3>2, <3>3
      <3>5. Claim(n, k, table[Keeper][x].era)
        BY <2>1, <3>3, <3>4
      <3> QED BY <2>1, <3>5 DEF Core, Fits
    <2>2. CASE \A n \in Clans : table'[Keeper][n] = saved[n]
      BY <1>4, <2>2 DEF Fits
    <2> QED BY <1>5, <2>1, <2>2
  <1>6. Grounded'
    <2>1. \A e \in kept, n \in Clans, k \in Serials : Claim(n, k, e)' => Claim(n, k, e)
      BY <1>0 DEF Live
    <2> QED BY <2>1 DEF Core, Grounded, Stands
  <1> QED BY <1>2, <1>4, <1>5, <1>6 DEF Core

(* A deletion keeps it: the serial number passes all claims.               *)
LEMMA DeleteCore ==
    ASSUME TypeOK, Core, NEW x \in Clans, DeleteClan(x)
    PROVE  Core'
  <1>0. UNCHANGED <<saved, known, kept>> /\ Deleted(x)
    BY DeleteAt DEF DeleteClan, history
  <1>1. ASSUME NEW n \in Clans, NEW k, NEW e, Claim(n, k, e)' PROVE Claim(n, k, e)
    BY <1>1, DeleteClaims
  <1>2. \A n \in Clans : table'[Keeper][n].era = table[Keeper][n].era
    BY <1>0 DEF Deleted
  <1>3. \A e : Live(e)' => Live(e)
    BY <1>0, <1>2 DEF Live, InKeeper
  <1>4. Unique'
    BY <1>1, <1>3 DEF Core, Unique
  <1>5. Fits(saved)'
    BY <1>0, <1>1 DEF Core, Fits
  <1>6. Grounded'
    BY <1>0, <1>1 DEF Core, Grounded, Stands
  <1>7. ASSUME Keeper \in known PROVE Fits(table[Keeper])'
    <2> SUFFICES ASSUME NEW y \in Clans, table'[Keeper][y].era # 0,
                        NEW n \in Clans, NEW k \in Serials,
                        Claim(n, k, table[Keeper][y].era)'
                 PROVE  n = y /\ IF table'[Keeper][y].named
                                 THEN k = table'[Keeper][y].serial
                                 ELSE k < table'[Keeper][y].serial
      BY DEF Fits
    <2>1. Claim(n, k, table[Keeper][y].era) /\ table[Keeper][y].era # 0
      BY <1>1, <1>2
    <2>2. n = y /\ IF table[Keeper][y].named THEN k = table[Keeper][y].serial
                   ELSE k < table[Keeper][y].serial
      BY <1>7, <2>1 DEF Core, Fits
    <2>3. table[Keeper][y].serial \in Nat /\ k \in Nat
      BY Fields DEF Entries, Serials
    <2>4. CASE y = x
      BY <1>0, <2>2, <2>3, <2>4 DEF Deleted
    <2>5. CASE y # x
      BY <1>0, <2>2, <2>5 DEF Deleted
    <2> QED BY <2>4, <2>5
  <1> QED BY <1>0, <1>4, <1>5, <1>6, <1>7 DEF Core

(* A founding keeps it: no clan that counts had the new numbers.           *)
LEMMA FoundCore ==
    ASSUME TypeOK, Counted, Ahead, Core,
           NEW x \in Clans, NEW c \in Chars \cup {NoChar}, FoundClan(x, c)
    PROVE  Core'
  <1> DEFINE new == eras + 1
             old == table[Keeper][x].serial
  <1>0. UNCHANGED <<saved, known, kept>> /\ Founded(x)
    BY FoundAt DEF FoundClan
  <1>1. /\ eras \in Nat /\ new \in Eras
        /\ \A e \in kept : e <= eras
        /\ \A n \in Clans : /\ saved[n].era <= eras
                            /\ table[Keeper][n].era <= eras
                            /\ saved[n].serial \in Nat
        /\ old \in Nat
    BY <1>0, CountedAt, Fields DEF Founded, Entries
  <1>2. ASSUME NEW n \in Clans, NEW k, NEW e, Claim(n, k, e)'
        PROVE  (e <= eras /\ Claim(n, k, e)) \/ (n = x /\ k = old /\ e = new)
    <2>1. Claim(n, k, e) \/ (n = x /\ k = old /\ e = new)
      BY <1>2, FoundClaims
    <2>2. CASE Claim(n, k, e)
      BY <2>2, ClaimCounted
    <2> QED BY <2>1, <2>2
  <1>3. ASSUME NEW n \in Clans, NEW k, NEW e, Claim(n, k, e)', e <= eras
        PROVE  Claim(n, k, e)
    BY <1>1, <1>2, <1>3
  <1>4. ASSUME NEW e \in Eras, e # new, Live(e)', Claim(x, old, e), old \in Serials,
               Keeper \in known
        PROVE  FALSE
    <2>1. CASE e \in kept
      <3>1. old < saved[x].serial \/ Stands(saved, x, old, e)
        BY <1>4, <2>1 DEF Core, Grounded
      <3>2. ~table[Keeper][x].named
        BY <1>0 DEF Founded
      <3> QED BY <1>1, <1>4, <3>1, <3>2 DEF Ahead, Stands
    <2>2. CASE InKeeper(e)'
      <3>1. PICK y \in Clans : table'[Keeper][y].era = e
        BY <2>2 DEF InKeeper
      <3>2. y # x
        BY <1>0, <1>4, <3>1 DEF Founded
      <3>3. table[Keeper][y].era = e /\ e # 0
        BY <1>0, <3>1, <3>2 DEF Founded, Eras
      <3> QED BY <1>4, <3>2, <3>3 DEF Core, Fits
    <2> QED BY <1>0, <1>4, <2>1, <2>2 DEF Live
  <1>5. ASSUME NEW e \in Eras, Live(e)'
        PROVE  Live(e) \/ (e = new /\ Keeper \in known)
    <2>1. CASE e \in kept
      BY <2>1 DEF Live
    <2>2. CASE InKeeper(e)'
      <3>1. PICK y \in Clans : table'[Keeper][y].era = e
        BY <2>2 DEF InKeeper
      <3>2. Keeper \in known
        BY <1>0, <2>2 DEF InKeeper
      <3>3. table'[Keeper][y].era = table[Keeper][y].era \/ y = x
        BY <1>0 DEF Founded
      <3> QED BY <1>0, <3>1, <3>2, <3>3 DEF Founded, Live, InKeeper
    <2> QED BY <1>0, <1>5, <2>1, <2>2 DEF Live
  <1>6. Unique'
    <2> SUFFICES ASSUME NEW d \in Eras, NEW e \in Eras, Live(d)', Live(e)', d # e,
                        NEW n \in Clans, NEW k \in Serials,
                        Claim(n, k, d)', Claim(n, k, e)'
                 PROVE  FALSE
      BY DEF Unique
    <2>0. new \notin kept
      BY <1>1
    <2>1. CASE d = new
      <3>1. n = x /\ k = old
        BY <1>1, <1>2, <2>1
      <3>2. Claim(n, k, e)
        BY <1>2, <2>1
      <3>3. Keeper \in known
        BY <1>0, <2>0, <2>1 DEF Live, InKeeper
      <3> QED BY <1>4, <2>1, <3>1, <3>2, <3>3
    <2>2. CASE e = new
      <3>1. n = x /\ k = old
        BY <1>1, <1>2, <2>2
      <3>2. Claim(n, k, d)
        BY <1>2, <2>2
      <3>3. Keeper \in known
        BY <1>0, <2>0, <2>2 DEF Live, InKeeper
      <3> QED BY <1>4, <2>2, <3>1, <3>2, <3>3
    <2>3. CASE d # new /\ e # new
      <3>1. Claim(n, k, d) /\ Claim(n, k, e)
        BY <1>2, <2>3
      <3>2. Live(d) /\ Live(e)
        BY <1>5, <2>3
      <3> QED BY <3>1, <3>2 DEF Core, Unique
    <2> QED BY <2>1, <2>2, <2>3
  <1>7. Fits(saved)'
    <2> SUFFICES ASSUME NEW y \in Clans, saved'[y].era # 0,
                        NEW n \in Clans, NEW k \in Serials,
                        Claim(n, k, saved[y].era)'
                 PROVE  n = y /\ IF saved'[y].named THEN k = saved'[y].serial
                                 ELSE k < saved'[y].serial
      BY DEF Fits
    <2>1. saved[y].era \in Eras /\ saved[y].era <= eras
      BY <1>0, <1>1, Fields DEF Entries
    <2>2. Claim(n, k, saved[y].era)
      BY <1>0, <1>3, <2>1
    <2> QED BY <1>0, <2>2 DEF Core, Fits
  <1>8. ASSUME Keeper \in known PROVE Fits(table[Keeper])'
    <2> SUFFICES ASSUME NEW y \in Clans, table'[Keeper][y].era # 0,
                        NEW n \in Clans, NEW k \in Serials,
                        Claim(n, k, table[Keeper][y].era)'
                 PROVE  n = y /\ IF table'[Keeper][y].named
                                 THEN k = table'[Keeper][y].serial
                                 ELSE k < table'[Keeper][y].serial
      BY DEF Fits
    <2>1. CASE y = x
      <3>1. table'[Keeper][y].era = new
        BY <1>0, <2>1 DEF Founded
      <3>2. n = x /\ k = old
        BY <1>1, <1>2, <3>1
      <3> QED BY <1>0, <2>1, <3>2 DEF Founded
    <2>2. CASE y # x
      <3>1. table'[Keeper][y] = table[Keeper][y]
        BY <1>0, <2>2 DEF Founded
      <3>2. Claim(n, k, table[Keeper][y].era)
        BY <1>1, <1>3, <3>1
      <3> QED BY <1>8, <3>1, <3>2 DEF Core, Fits
    <2> QED BY <2>1, <2>2
  <1>9. Grounded'
    <2>1. \A e \in kept, n \in Clans, k \in Serials : Claim(n, k, e)' => Claim(n, k, e)
      BY <1>1, <1>3
    <2> QED BY <1>0, <2>1 DEF Core, Grounded, Stands
  <1> QED BY <1>0, <1>6, <1>7, <1>8, <1>9 DEF Core

(* A write keeps it: what the keeper knows is what is saved.               *)
LEMMA WriteCore ==
    ASSUME TypeOK, Ahead, Core, WriteTable
    PROVE  Core'
  <1>0. /\ UNCHANGED <<table, known>>
        /\ saved' = table[Keeper] /\ Keeper \in known
        /\ kept' = (kept \cup {table[Keeper][n].era : n \in Clans}) \ {0}
    BY DEF WriteTable
  <1>1. ASSUME NEW n \in Clans, NEW k, NEW e, Claim(n, k, e)' PROVE Claim(n, k, e)
    BY <1>1, WriteClaims
  <1>2. \A e : Live(e)' => Live(e)
    BY <1>0 DEF Live, InKeeper
  <1>3. Unique'
    BY <1>1, <1>2 DEF Core, Unique
  <1>4. Fits(table[Keeper])'
    BY <1>0, <1>1 DEF Core, Fits
  <1>5. Fits(saved)'
    BY <1>0, <1>4 DEF Fits
  <1>6. Grounded'
    <2> SUFFICES ASSUME NEW e \in kept', NEW n \in Clans, NEW k \in Serials,
                        Claim(n, k, e)'
                 PROVE  k < table[Keeper][n].serial \/ Stands(table[Keeper], n, k, e)
      BY <1>0 DEF Grounded, Stands
    <2>0. /\ k \in Nat /\ table[Keeper][n].serial \in Nat /\ saved[n].serial \in Nat
          /\ Claim(n, k, e)
      BY <1>1, Fields DEF Entries, Serials
    <2>1. CASE e \in kept
      <3>1. k < saved[n].serial \/ Stands(saved, n, k, e)
        BY <2>0, <2>1 DEF Core, Grounded
      <3> QED BY <1>0, <2>0, <3>1 DEF Ahead, Stands
    <2>2. CASE e \notin kept
      <3>1. PICK y \in Clans : table[Keeper][y].era = e
        BY <1>0, <2>2
      <3>2. e # 0
        BY <1>0
      <3>3. n = y /\ IF table[Keeper][y].named THEN k = table[Keeper][y].serial
                     ELSE k < table[Keeper][y].serial
        BY <1>0, <2>0, <3>1, <3>2 DEF Core, Fits
      <3> QED BY <3>1, <3>3 DEF Stands
    <2> QED BY <2>1, <2>2
  <1> QED BY <1>0, <1>3, <1>4, <1>5, <1>6 DEF Core

(* Every step keeps it.                                                    *)
LEMMA CoreStep ==
    TypeOK /\ Counted /\ Sources /\ Ahead /\ Core /\ [Next]_vars => Core'
  <1> SUFFICES ASSUME TypeOK, Counted, Sources, Ahead, Core, [Next]_vars PROVE Core'
    OBVIOUS
  <1>1. CASE Others
    <2>1. Quiet
      BY <1>1, OthersAt
    <2>2. \A n \in Clans, k \in Serials, e \in Eras : Claim(n, k, e)' => Claim(n, k, e)
      BY <2>1, QuietClaims
    <2> QED BY <2>1, <2>2, CoreKept DEF Quiet
  <1>2. ASSUME NEW c \in Chars, Join(c) PROVE Core'
    <2>1. UNCHANGED <<table, saved, known, kept>>
      BY <1>2 DEF Join, tables, history
    <2>2. \A n \in Clans, k \in Serials, e \in Eras :
             Claim(n, k, e)' /\ Live(e) => Claim(n, k, e)
      BY <1>2, JoinClaims
    <2> QED BY <2>1, <2>2, CoreKept
  <1>3. ASSUME NEW n \in Clans, NEW c \in Chars \cup {NoChar}, FoundClan(n, c)
        PROVE  Core'
    BY <1>3, FoundCore
  <1>4. ASSUME NEW n \in Clans, DeleteClan(n) PROVE Core'
    BY <1>4, DeleteCore
  <1>5. ASSUME NEW s \in Servers, ReadTable(s) PROVE Core'
    <2>1. ReadBy(s)
      BY <1>5, ReadAt
    <2>2. \A n \in Clans, k \in Serials, e \in Eras : Claim(n, k, e)' => Claim(n, k, e)
      BY <2>1, ReadClaims
    <2>3. Keeper \in known' =>
             \/ Keeper \in known /\ table'[Keeper] = table[Keeper]
             \/ \A n \in Clans : table'[Keeper][n] = saved[n]
      BY <2>1 DEF ReadBy
    <2>4. UNCHANGED <<saved, kept>>
      BY <2>1 DEF ReadBy
    <2> QED BY <2>2, <2>3, <2>4, CoreKept
  <1>6. ASSUME NEW s \in Servers, Crash(s) PROVE Core'
    <2>1. Crashed(s)
      BY <1>6, CrashAt
    <2>2. \A n \in Clans, k \in Serials, e \in Eras : Claim(n, k, e)' => Claim(n, k, e)
      BY <2>1, CrashClaims
    <2>3. Keeper \in known' => Keeper \in known /\ table'[Keeper] = table[Keeper]
      BY <2>1 DEF Crashed
    <2>4. UNCHANGED <<saved, kept>>
      BY <2>1 DEF Crashed
    <2> QED BY <2>2, <2>3, <2>4, CoreKept
  <1>7. ASSUME WriteTable PROVE Core'
    BY <1>7, WriteCore
  <1> QED BY <1>1, <1>2, <1>3, <1>4, <1>5, <1>6, <1>7, Actions

-----------------------------------------------------------------------------
(* The claims of a member and of a table that has it are of one clan.      *)
LEMMA CoreSuffices ==
    ASSUME TypeOK, Counted, Sources, Core
    PROVE  OldMembers
  <1> SUFFICES ASSUME NEW c \in Chars, NEW s \in Servers,
                      IsMember(c, s), member[c].era \in kept
               PROVE  member[c].era = table[s][member[c].clan].era
    BY DEF OldMembers
  <1> DEFINE n == member[c].clan
             k == member[c].serial
             d == member[c].era
             e == table[s][n].era
  <1>1. n \in Clans /\ k \in Serials /\ d \in Eras
    BY Fields DEF IsMember, Members, Serials, TypeOK
  <1>2. s \in known /\ table[s][n].named /\ table[s][n].serial = k
    BY DEF IsMember, InTable
  <1>3. e \in Eras
    BY <1>1, <1>2, CountedAt, Fields DEF Entries
  <1>4. Claim(n, k, d) /\ Claim(n, k, e)
    BY <1>2 DEF Claim, Bears, Stands
  <1>5. Live(d)
    BY DEF Live
  <1>6. Live(e)
    BY <1>1, <1>2 DEF Live, InKeeper, Sources
  <1> QED BY <1>1, <1>3, <1>4, <1>5, <1>6 DEF Core, Unique

(* Nobody who joined an earlier clan of a number counts as a member of a   *)
(* later one on a server that has read the table, with any number of       *)
(* clans, servers, characters and foundings (RollInv, get_char_clan).      *)
THEOREM Membership == Spec => []RollInv
  <1> DEFINE Line == TypeOK /\ Counted /\ Sources /\ Ahead /\ Core
  <1>1. Init => Line
    <2> SUFFICES ASSUME Init PROVE Line
      OBVIOUS
    <2> USE NoMemberType
    <2>1. Empty \in Tables
      BY DEF Empty, Tables, Entries
    <2>5. TypeOK
      <3>1. NoMember \in Members
        BY NoMemberType
      <3>2. /\ table \in [Servers -> Tables] /\ saved \in Tables
            /\ member \in [Chars -> Members] /\ place \in [Chars -> Servers]
        BY <2>1, <3>1 DEF Init
      <3>3. row \in [Chars -> [member : Members, fnd : BOOLEAN]]
        BY <3>1 DEF Init
      <3>4. /\ invite \in [clan : Clans, to : Chars] \cup {NoInvite}
            /\ eras \in 0..MaxEras
        BY DEF Init
      <3> QED BY <3>2, <3>3, <3>4 DEF Init, TypeOK
    <2>2. /\ saved = Empty /\ kept = {} /\ known = {} /\ eras = 0
          /\ \A s \in Servers : table[s] = Empty
          /\ \A c \in Chars : member[c] = NoMember /\ row[c].member = NoMember
      BY DEF Init
    <2>3. Counted /\ Sources /\ Ahead
      BY <2>2 DEF Counted, CountedIn, Sources, Ahead
    <2>4. Core
      BY <2>2 DEF Core, Unique, Fits, Grounded, Live, InKeeper
    <2> QED BY <2>3, <2>4, <2>5
  <1>2. Line /\ [Next]_vars => Line'
    BY TypeStep, CountedStep, SourcesStep, AheadStep, CoreStep
  <1>3. Line => RollInv
    BY CoreSuffices DEF RollInv, Core
  <1> QED BY <1>1, <1>2, <1>3, PTL DEF Spec
=============================================================================

--------------------------- MODULE ProgramsProofs ---------------------------
(***************************************************************************)
(* Nobody may do what no command ever gave to that name, and commands one  *)
(* after the other leave each user what it was given, for any users,       *)
(* rights and sessions and any number of commands (module Accounts).       *)
(*                                                                         *)
(* The rights a session has read may be old by the time it writes them     *)
(* back, and undo what another gave or took: what keeps that harmless is   *)
(* that they too are within what was ever given.                           *)
(***************************************************************************)
EXTENDS Accounts, BangInstall, TLAPS

States == {"idle", "remove_read", "remove_write", "may_read", "may_write",
           "as_read", "as_ask", "as_begin"}
RemoveCommand == [name : Names]
MayCommand == [name : Names, giving : BOOLEAN, named : SUBSET Rights]
AsCommand == [name : Names, caller : Names, mine : BOOLEAN]

(* A command that is at work is of its kind.                               *)
Given ==
  /\ cmd \in [Procs -> {<< >>} \cup RemoveCommand \cup MayCommand \cup AsCommand]
  /\ \A p \in Procs :
       /\ pc[p] \in {"remove_read", "remove_write"} => cmd[p] \in RemoveCommand
       /\ pc[p] \in {"may_read", "may_write"} => cmd[p] \in MayCommand
       /\ pc[p] \in {"as_read", "as_ask", "as_begin"} => cmd[p] \in AsCommand

(* The file and every copy of it that was read are within what was given.  *)
Within(file) == \A n \in Names : file[n] # NoLine => file[n] \subseteq ever[n]
NeverMore ==
  /\ Rights \subseteq ever[Root]
  /\ Within(rights)
  /\ \A p \in Procs : seen[p] # Unread => Within(seen[p])

(* TypeOK by parts: what a session has in hand, and the rest.              *)
Hands ==
  /\ pc \in [Procs -> States]
  /\ seen \in [Procs -> Files \cup {Unread}]
  /\ own \in [Procs -> BOOLEAN]
  /\ typed \in [Procs -> Names \cup {Nothing}]
Shelf ==
  /\ passwd \subseteq Names /\ Root \in passwd
  /\ rights \in Files
  /\ should \in [Names -> SUBSET Rights] /\ ever \in [Names -> SUBSET Rights]
Counted == commands \in 0..MaxCommands /\ clean \in BOOLEAN

AccountsInv == Hands /\ Shelf /\ Counted /\ Given /\ NeverMore

(* What was not read or asked for yet is not in anybody's hand.            *)
EmptyHanded(p) ==
  /\ pc[p] = "idle" => cmd[p] = <<>>
  /\ pc[p] \in {"idle", "remove_read", "may_read", "as_read"} => seen[p] = Unread
  /\ pc[p] \notin {"as_ask", "as_begin"} => own[p] = FALSE
  /\ pc[p] # "as_begin" => typed[p] = Nothing
NotAskedYet == \A p \in Procs : EmptyHanded(p)

-----------------------------------------------------------------------------
(* A command that ends has nothing in hand, and no other is touched.       *)
LEMMA Ends ==
  ASSUME Hands, Given, NEW p \in Procs, NEW how, End(p, how)
  PROVE  Hands' /\ Given' /\ \A q \in Procs : seen'[q] = seen[q] \/ seen'[q] = Unread
<1>1. Hands'
  BY DEF Hands, End, States
<1>2. /\ pc'[p] = "idle" /\ seen'[p] = Unread
      /\ \A q \in Procs : q # p =>
           pc'[q] = pc[q] /\ cmd'[q] = cmd[q] /\ seen'[q] = seen[q]
  BY DEF Hands, Given, End
<1>3. cmd' \in [Procs -> {<< >>} \cup RemoveCommand \cup MayCommand \cup AsCommand]
  BY DEF Given, End
<1>4. Given'
  BY <1>2, <1>3 DEF Given
<1>5. QED
  BY <1>1, <1>2, <1>4

(* A command that begins or goes on to its next call: of the one that took *)
(* the step, what it is must be what its place says.                       *)
LEMMA GoesOn ==
  ASSUME Hands, Given, NEW p \in Procs, NEW s \in States, pc' = [pc EXCEPT ![p] = s],
         NEW c, cmd' = [cmd EXCEPT ![p] = c],
         c \in {<< >>} \cup RemoveCommand \cup MayCommand \cup AsCommand,
         s \in {"remove_read", "remove_write"} => c \in RemoveCommand,
         s \in {"may_read", "may_write"} => c \in MayCommand,
         s \in {"as_read", "as_ask", "as_begin"} => c \in AsCommand
  PROVE  Given' /\ pc' \in [Procs -> States]
<1>1. pc' \in [Procs -> States]
  BY DEF Hands
<1>2. /\ pc'[p] = s /\ cmd'[p] = c
      /\ \A q \in Procs : q # p => pc'[q] = pc[q] /\ cmd'[q] = cmd[q]
  BY DEF Hands, Given
<1>3. cmd' \in [Procs -> {<< >>} \cup RemoveCommand \cup MayCommand \cup AsCommand]
  BY DEF Given
<1>4. \A q \in Procs :
        /\ pc'[q] \in {"remove_read", "remove_write"} => cmd'[q] \in RemoveCommand
        /\ pc'[q] \in {"may_read", "may_write"} => cmd'[q] \in MayCommand
        /\ pc'[q] \in {"as_read", "as_ask", "as_begin"} => cmd'[q] \in AsCommand
  BY <1>2 DEF Given
<1>5. QED
  BY <1>1, <1>3, <1>4 DEF Given

(* A command whose call changes nothing of what it was given keeps it.     *)
LEMMA SameCommand ==
  ASSUME Given, NEW p \in Procs, cmd' = cmd
  PROVE  cmd' = [cmd EXCEPT ![p] = cmd[p]]
         /\ cmd[p] \in {<< >>} \cup RemoveCommand \cup MayCommand \cup AsCommand
BY DEF Given

(* What a file with an entry changed is, and what was given stays given.   *)
LEMMA Written ==
  ASSUME NEW file \in Files \cup {Unread}, NEW n \in Names,
         NEW entry \in (SUBSET Rights) \cup {NoLine}
  PROVE  /\ WithRecord(file, n, entry) \in Files
         /\ WithRecord(file, n, entry)[n] = entry
         /\ \A m \in Names : m # n =>
              WithRecord(file, n, entry)[m] = NoLine
                \/ (file # Unread /\ WithRecord(file, n, entry)[m] = file[m])
<1>1. CASE file = Unread
  BY <1>1 DEF WithRecord, Empty, Files
<1>2. CASE file # Unread
  BY <1>2 DEF WithRecord, Files
<1>3. QED
  BY <1>1, <1>2

(* What a user may do, by a file within what was given, is within it too.  *)
LEMMA RightsWithin ==
  ASSUME NEW file \in Files \cup {Unread}, file # Unread => Within(file), Shelf, NeverMore,
         NEW n \in Names
  PROVE  RightsOf(file, n) \subseteq ever[n] /\ RightsOf(file, n) \subseteq Rights
<1>1. CASE file # Unread /\ file[n] # NoLine
  BY <1>1 DEF RightsOf, Within, Files
<1>2. CASE ~(file # Unread /\ file[n] # NoLine)
  BY <1>2 DEF RightsOf, NeverMore
<1>3. QED
  BY <1>1, <1>2

-----------------------------------------------------------------------------
(* No more commands are given than may be.                                 *)
LEMMA CountedStep ==
  ASSUME Counted, Next
  PROVE  Counted'
<1>1. commands' = commands \/ (commands < MaxCommands /\ commands' = commands + 1)
  BY ZenonT(30) DEF Next, Add, Remove, May, As, Begin, RemoveRead, RemoveForgets, RemoveWrite, MayRead,
         MayWrite, AsRead, AsAsk, AsBegin, Fail, Kill
<1>2. commands' \in 0..MaxCommands
  BY <1>1, AccountsAssumption DEF Counted
<1>3. clean' \in BOOLEAN
  <2>1. \A p \in Procs : Begin(p) => clean' \in BOOLEAN
    BY DEF Begin
  <2>2. clean' = clean \/ clean' = FALSE \/ \E p \in Procs : Begin(p)
    BY ZenonT(30) DEF Next, Add, Remove, May, As, RemoveRead, RemoveForgets, RemoveWrite, MayRead,
           MayWrite, AsRead, AsAsk, AsBegin, Fail, Kill
  <2>3. QED
    BY <2>1, <2>2 DEF Counted
<1>4. QED
  BY <1>2, <1>3 DEF Counted

(* Each step leaves the accounts and what was read of them within what was *)
(* ever given.                                                             *)
LEMMA AccountsInvNext ==
  ASSUME AccountsInv, Next
  PROVE  AccountsInv'
<1>1. Hands /\ Shelf /\ Counted /\ Given /\ NeverMore
  BY DEF AccountsInv
<1>2. Counted'
  BY <1>1, CountedStep
<1>3. SUFFICES Hands' /\ Shelf' /\ Given' /\ NeverMore'
  BY <1>2 DEF AccountsInv
<1>4. PICK p \in Procs :
        \/ \E n \in Names :
             \/ Add(p, n) \/ Remove(p, n)
             \/ \E giving \in BOOLEAN, named \in {{r} : r \in Rights \ Unnamed} \cup {Rights} :
                  May(p, n, giving, named)
             \/ \E caller \in Names : As(p, caller, n)
        \/ RemoveRead(p) \/ RemoveForgets(p) \/ RemoveWrite(p)
        \/ MayRead(p) \/ MayWrite(p)
        \/ AsRead(p) \/ AsAsk(p) \/ AsBegin(p)
        \/ Fail(p) \/ Kill(p)
  BY DEF Next
<1>5. ASSUME NEW how, End(p, how), UNCHANGED accounts
      PROVE  Hands' /\ Shelf' /\ Given' /\ NeverMore'
  <2>1. Hands' /\ Given' /\ \A q \in Procs : seen'[q] = seen[q] \/ seen'[q] = Unread
    BY <1>1, <1>5, Ends
  <2>2. UNCHANGED <<passwd, rights, should, ever>>
    BY <1>5 DEF accounts
  <2>3. Shelf' /\ NeverMore'
    BY <1>1, <2>1, <2>2 DEF Shelf, NeverMore, Within
  <2>4. QED
    BY <2>1, <2>3
<1>6. ASSUME NEW s \in States, pc' = [pc EXCEPT ![p] = s],
             UNCHANGED <<rights, seen, own, typed, ever>>,
             NEW c, cmd' = [cmd EXCEPT ![p] = c],
             c \in {<< >>} \cup RemoveCommand \cup MayCommand \cup AsCommand,
             s \in {"remove_read", "remove_write"} => c \in RemoveCommand,
             s \in {"may_read", "may_write"} => c \in MayCommand,
             s \in {"as_read", "as_ask", "as_begin"} => c \in AsCommand
      PROVE  Hands' /\ Given' /\ NeverMore'
  <2>1. Given' /\ pc' \in [Procs -> States]
    BY <1>1, <1>6, GoesOn
  <2>2. Hands' /\ NeverMore'
    BY <1>1, <1>6, <2>1 DEF Hands, NeverMore, Within
  <2>3. QED
    BY <2>1, <2>2
<1>7. ASSUME NEW n \in Names, Add(p, n)
      PROVE  Hands' /\ Shelf' /\ Given' /\ NeverMore'
  <2>1. CASE n \in passwd
    BY <1>5, <1>7, <2>1 DEF Add, Refuse
  <2>2. CASE n \notin passwd
    <3>1. /\ passwd' = passwd \cup {n} /\ should' = [should EXCEPT ![n] = Default(n)]
          /\ End(p, "done") /\ UNCHANGED <<rights, ever>>
      BY <1>7, <2>2 DEF Add
    <3>2. Hands' /\ Given' /\ \A q \in Procs : seen'[q] = seen[q] \/ seen'[q] = Unread
      BY <1>1, <3>1, Ends
    <3>3. Shelf'
      BY <1>1, <3>1 DEF Shelf, Default
    <3>4. NeverMore'
      BY <1>1, <3>1, <3>2 DEF NeverMore, Within
    <3>5. QED
      BY <3>2, <3>3, <3>4
  <2>3. QED
    BY <2>1, <2>2
<1>8. ASSUME NEW n \in Names, Remove(p, n)
      PROVE  Hands' /\ Shelf' /\ Given' /\ NeverMore'
  <2>1. CASE n = Root \/ n \notin passwd
    BY <1>5, <1>8, <2>1 DEF Remove, Refuse
  <2>2. CASE ~(n = Root \/ n \notin passwd)
    <3>1. /\ passwd' = passwd \ {n} /\ should' = [should EXCEPT ![n] = {}]
          /\ pc' = [pc EXCEPT ![p] = "remove_read"] /\ cmd' = [cmd EXCEPT ![p] = [name |-> n]]
          /\ UNCHANGED <<rights, seen, own, typed, ever>>
      BY <1>8, <2>2 DEF Remove
    <3>2. [name |-> n] \in RemoveCommand
      BY DEF RemoveCommand
    <3>3. Hands' /\ Given' /\ NeverMore'
      BY <1>6, <3>1, <3>2 DEF States
    <3>4. Shelf'
      BY <1>1, <2>2, <3>1 DEF Shelf
    <3>5. QED
      BY <3>3, <3>4
  <2>3. QED
    BY <2>1, <2>2
<1>9. ASSUME NEW n \in Names, NEW giving \in BOOLEAN,
             NEW named \in {{r} : r \in Rights \ Unnamed} \cup {Rights}, May(p, n, giving, named)
      PROVE  Hands' /\ Shelf' /\ Given' /\ NeverMore'
  <2>1. CASE n \notin passwd
    BY <1>5, <1>9, <2>1 DEF May, Refuse
  <2>2. CASE n \in passwd
    <3> DEFINE c == [name |-> n, giving |-> giving, named |-> named]
    <3>1. /\ pc' = [pc EXCEPT ![p] = "may_read"] /\ cmd' = [cmd EXCEPT ![p] = c]
          /\ UNCHANGED <<accounts, seen, own, typed>>
      BY <1>9, <2>2 DEF May
    <3>2. c \in MayCommand
      BY DEF MayCommand
    <3> HIDE DEF c
    <3>3. Hands' /\ Given' /\ NeverMore'
      BY <1>6, <3>1, <3>2 DEF States, accounts
    <3>4. Shelf'
      BY <1>1, <3>1 DEF Shelf, accounts
    <3>5. QED
      BY <3>3, <3>4
  <2>3. QED
    BY <2>1, <2>2
<1>10. ASSUME NEW n \in Names, NEW caller \in Names, As(p, caller, n)
       PROVE  Hands' /\ Shelf' /\ Given' /\ NeverMore'
  <2>1. CASE n \notin passwd
    BY <1>5, <1>10, <2>1 DEF As, Refuse
  <2>2. CASE n \in passwd
    <3> DEFINE c == [name |-> n, caller |-> caller, mine |-> caller \in passwd]
    <3>1. /\ pc' = [pc EXCEPT ![p] = "as_read"] /\ cmd' = [cmd EXCEPT ![p] = c]
          /\ UNCHANGED <<accounts, seen, own, typed>>
      BY <1>10, <2>2 DEF As
    <3>2. c \in AsCommand
      <4>1. (caller \in passwd) \in BOOLEAN
        OBVIOUS
      <4>2. QED
        BY <4>1 DEF AsCommand
    <3> HIDE DEF c
    <3>3. Hands' /\ Given' /\ NeverMore'
      BY <1>6, <3>1, <3>2 DEF States, accounts
    <3>4. Shelf'
      BY <1>1, <3>1 DEF Shelf, accounts
    <3>5. QED
      BY <3>3, <3>4
  <2>3. QED
    BY <2>1, <2>2
<1>11. ASSUME NEW s \in States, pc' = [pc EXCEPT ![p] = s],
              NEW v \in {rights, Unread}, seen' = [seen EXCEPT ![p] = v],
              own' \in [Procs -> BOOLEAN], UNCHANGED <<accounts, cmd, typed>>,
              \/ pc[p] = "remove_read" /\ s = "remove_write"
              \/ pc[p] = "may_read" /\ s = "may_write"
              \/ pc[p] = "as_read" /\ s \in {"as_ask", "as_begin"}
       PROVE  Hands' /\ Shelf' /\ Given' /\ NeverMore'
  <2>1. UNCHANGED <<passwd, rights, should, ever>>
    BY <1>11 DEF accounts
  <2>2. Shelf'
    BY <1>1, <2>1 DEF Shelf
  <2>3. /\ s \in {"remove_read", "remove_write"} => cmd[p] \in RemoveCommand
        /\ s \in {"may_read", "may_write"} => cmd[p] \in MayCommand
        /\ s \in {"as_read", "as_ask", "as_begin"} => cmd[p] \in AsCommand
    BY <1>1, <1>11 DEF Given
  <2>4. Given' /\ pc' \in [Procs -> States]
    BY <1>1, <1>11, <2>3, GoesOn, SameCommand
  <2>5. Hands'
    BY <1>1, <1>11, <2>4 DEF Hands, Shelf
  <2>6. \A q \in Procs : seen'[q] \in {seen[q], rights, Unread}
    BY <1>1, <1>11 DEF Hands
  <2>7. NeverMore'
    BY <1>1, <2>1, <2>6 DEF NeverMore, Within
  <2>8. QED
    BY <2>2, <2>4, <2>5, <2>7
<1>12. CASE RemoveRead(p)
  BY <1>1, <1>11, <1>12 DEF RemoveRead, States, Hands
<1>13. CASE MayRead(p)
  BY <1>1, <1>11, <1>13 DEF MayRead, States, Hands
<1>14. CASE AsRead(p)
  BY <1>1, <1>11, <1>14 DEF AsRead, States, Hands
<1>15. CASE AsAsk(p)
  <2>1. /\ pc[p] = "as_ask" /\ pc' = [pc EXCEPT ![p] = "as_begin"]
        /\ UNCHANGED <<accounts, cmd, seen, own>> /\ typed' \in [Procs -> Names \cup {Nothing}]
    BY <1>1, <1>15 DEF AsAsk, Hands
  <2>2. Given' /\ pc' \in [Procs -> States]
    <3>1. cmd[p] \in AsCommand /\ "as_begin" \in States
      BY <1>1, <2>1 DEF Given, States
    <3>2. cmd' = [cmd EXCEPT ![p] = cmd[p]]
      BY <1>1, <2>1, SameCommand
    <3>3. \A s, c : s = "as_begin" /\ c = cmd[p] =>
            /\ s \in States /\ pc' = [pc EXCEPT ![p] = s] /\ cmd' = [cmd EXCEPT ![p] = c]
            /\ c \in {<< >>} \cup RemoveCommand \cup MayCommand \cup AsCommand
            /\ s \notin {"remove_read", "remove_write", "may_read", "may_write"}
            /\ c \in AsCommand
      BY <2>1, <3>1, <3>2
    <3>4. PICK s, c : s = "as_begin" /\ c = cmd[p]
      OBVIOUS
    <3>5. QED
      BY <1>1, <3>3, <3>4, GoesOn
  <2>3. Hands' /\ Shelf' /\ NeverMore'
    BY <1>1, <2>1, <2>2 DEF Hands, Shelf, NeverMore, Within, accounts
  <2>4. QED
    BY <2>2, <2>3
<1>16. CASE RemoveForgets(p) \/ AsBegin(p) \/ Fail(p) \/ Kill(p)
  BY <1>5, <1>16 DEF RemoveForgets, AsBegin, Fail, Kill
<1>17. CASE RemoveWrite(p) \/ MayWrite(p)
  <2>1. cmd[p].name \in Names /\ seen[p] \in Files \cup {Unread}
    BY <1>1, <1>17 DEF RemoveWrite, MayWrite, Given, RemoveCommand, MayCommand, Hands
  <2>2. PICK entry : /\ entry \in (SUBSET Rights) \cup {NoLine}
                     /\ rights' = WithRecord(seen[p], cmd[p].name, entry)
                     /\ entry # NoLine => entry \subseteq ever'[cmd[p].name]
                     /\ End(p, "done") /\ passwd' = passwd
                     /\ should' \in [Names -> SUBSET Rights] /\ ever' \in [Names -> SUBSET Rights]
                     /\ \A m \in Names : ever[m] \subseteq ever'[m]
    <3>1. CASE RemoveWrite(p)
      <4>1. /\ rights' = WithRecord(seen[p], cmd[p].name, NoLine)
            /\ End(p, "done") /\ UNCHANGED <<passwd, should, ever>>
        BY <3>1 DEF RemoveWrite
      <4>2. should \in [Names -> SUBSET Rights] /\ ever \in [Names -> SUBSET Rights]
        BY <1>1 DEF Shelf
      <4>3. QED
        BY <4>1, <4>2
    <3>2. CASE MayWrite(p)
      <4> DEFINE n == cmd[p].name
                 given == IF cmd[p].giving THEN cmd[p].named ELSE {}
                 entry == Words(Now(p))
      <4>1. /\ rights' = WithRecord(seen[p], n, entry) /\ End(p, "done") /\ passwd' = passwd
            /\ should' = [should EXCEPT ![n] = IF cmd[p].giving THEN @ \cup given
                                               ELSE @ \ cmd[p].named]
            /\ ever' = [ever EXCEPT ![n] = @ \cup given]
        BY <3>2 DEF MayWrite
      <4>2. cmd[p].named \in SUBSET Rights /\ given \in SUBSET Rights
        BY <1>1, <3>2 DEF MayWrite, Given, MayCommand
      <4>3. seen[p] # Unread => Within(seen[p])
        BY <1>1 DEF NeverMore
      <4>4. RightsOf(seen[p], n) \subseteq ever[n] /\ RightsOf(seen[p], n) \subseteq Rights
        BY <1>1, <2>1, <4>3, RightsWithin
      <4>5. Now(p) \subseteq ever[n] \cup given /\ Now(p) \subseteq Rights
        BY <4>2, <4>4 DEF Now
      <4>6. entry \subseteq ever[n] \cup given /\ entry \subseteq Rights
        BY <4>5 DEF Words
      <4>7. should \in [Names -> SUBSET Rights] /\ ever \in [Names -> SUBSET Rights]
        BY <1>1 DEF Shelf
      <4>8. should' \in [Names -> SUBSET Rights] /\ ever' \in [Names -> SUBSET Rights]
        BY <2>1, <4>1, <4>2, <4>7
      <4>9. ever'[n] = ever[n] \cup given /\ \A m \in Names : ever[m] \subseteq ever'[m]
        BY <2>1, <4>1, <4>7
      <4> HIDE DEF entry
      <4>10. entry \in SUBSET Rights /\ entry \subseteq ever'[n]
        BY <4>6, <4>9
      <4>11. QED
        BY <4>1, <4>8, <4>9, <4>10
    <3>3. QED
      BY <1>17, <3>1, <3>2
  <2>3. Hands' /\ Given' /\ \A q \in Procs : seen'[q] = seen[q] \/ seen'[q] = Unread
    BY <1>1, <2>2, Ends
  <2> DEFINE n == cmd[p].name
  <2>4. /\ rights' \in Files /\ rights'[n] = entry
        /\ \A m \in Names : m # n =>
             rights'[m] = NoLine \/ (seen[p] # Unread /\ rights'[m] = seen[p][m])
    BY <2>1, <2>2, Written
  <2> HIDE DEF n
  <2>5. Shelf'
    BY <1>1, <2>2, <2>4 DEF Shelf
  <2>6. \A m \in Names : rights'[m] # NoLine => rights'[m] \subseteq ever'[m]
    <3>1. rights'[n] # NoLine => rights'[n] \subseteq ever'[n]
      BY <2>2, <2>4 DEF n
    <3>2. \A m \in Names : m # n /\ rights'[m] # NoLine => rights'[m] \subseteq ever[m]
      BY <1>1, <2>4 DEF NeverMore, Within
    <3>3. QED
      BY <2>2, <3>1, <3>2
  <2>7. \A q \in Procs, m \in Names :
          seen'[q] # Unread /\ seen'[q][m] # NoLine => seen'[q][m] \subseteq ever'[m]
    BY <1>1, <2>2, <2>3 DEF NeverMore, Within
  <2>8. Rights \subseteq ever'[Root]
    BY <1>1, <2>2, AccountsAssumption DEF NeverMore
  <2>9. NeverMore'
    BY <2>6, <2>7, <2>8 DEF NeverMore, Within
  <2>10. QED
    BY <2>3, <2>5, <2>9
<1>18. QED
  BY <1>4, <1>7, <1>8, <1>9, <1>10, <1>12, <1>13, <1>14, <1>15, <1>16, <1>17

(* At the start every name has what it has without an entry.               *)
LEMMA AccountsInvInit ==
  ASSUME Init
  PROVE  AccountsInv
<1>1. Shelf
  BY AccountsAssumption DEF Init, Shelf, Files, Empty, Default
<1>2. Hands
  BY DEF Init, Hands, States
<1>3. Counted
  <2>1. commands \in 0..MaxCommands
    <3>1. MaxCommands \in Nat
      BY AccountsAssumption, Zenon
    <3>2. commands = 0
      BY Zenon DEF Init
    <3>3. QED
      BY <3>1, <3>2
  <2>2. clean = TRUE
    BY DEF Init
  <2>3. QED
    BY <2>1, <2>2 DEF Counted
<1>4. Given
  BY DEF Init, Given
<1>5. NeverMore
  <2>1. ever[Root] = Rights
    BY AccountsAssumption DEF Init, Default
  <2>2. Within(rights)
    BY DEF Init, Within, Empty
  <2>3. \A p \in Procs : seen[p] = Unread
    BY DEF Init
  <2>4. QED
    BY <2>1, <2>2, <2>3 DEF NeverMore
<1>6. QED
  BY <1>1, <1>2, <1>3, <1>4, <1>5 DEF AccountsInv

(* The same through a step in which nothing happens.                       *)
LEMMA AccountsInvStep ==
  ASSUME AccountsInv, [Next]_vars
  PROVE  AccountsInv'
<1>1. CASE Next
  BY <1>1, AccountsInvNext
<1>2. CASE UNCHANGED vars
  <2>1. UNCHANGED <<passwd, rights, pc, cmd, seen, own, typed, commands, should, ever, clean>>
    BY <1>2 DEF vars
  <2>2. QED
    BY <2>1 DEF AccountsInv, Hands, Shelf, Counted, Given, NeverMore, Within
<1>3. QED
  BY <1>1, <1>2

(* A command that begins has asked nobody anything, and one that ends       *)
(* forgets what it was told.                                                *)
LEMMA NotAskedYetStep ==
  ASSUME Hands, Given, NotAskedYet, [Next]_vars
  PROVE  NotAskedYet'
<1>1. /\ pc \in [Procs -> States] /\ seen \in [Procs -> Files \cup {Unread}]
      /\ own \in [Procs -> BOOLEAN] /\ typed \in [Procs -> Names \cup {Nothing}]
      /\ cmd \in [Procs -> {<< >>} \cup RemoveCommand \cup MayCommand \cup AsCommand]
  BY DEF Hands, Given
<1>2. CASE UNCHANGED vars
  BY <1>2 DEF vars, NotAskedYet, EmptyHanded
<1>3. CASE Next
  <2>1. PICK p \in Procs :
          \/ \E n \in Names :
               \/ Add(p, n) \/ Remove(p, n)
               \/ \E giving \in BOOLEAN, named \in {{r} : r \in Rights \ Unnamed} \cup {Rights} :
                    May(p, n, giving, named)
               \/ \E caller \in Names : As(p, caller, n)
          \/ RemoveRead(p) \/ RemoveForgets(p) \/ RemoveWrite(p)
          \/ MayRead(p) \/ MayWrite(p)
          \/ AsRead(p) \/ AsAsk(p) \/ AsBegin(p)
          \/ Fail(p) \/ Kill(p)
    BY <1>3 DEF Next
  <2>2. EmptyHanded(p) /\ \A q \in Procs : EmptyHanded(q)
    BY DEF NotAskedYet
  <2>3. ASSUME NEW how, End(p, how)
        PROVE  NotAskedYet'
    <3>1. /\ pc'[p] = "idle" /\ cmd'[p] = <<>> /\ seen'[p] = Unread /\ own'[p] = FALSE
          /\ typed'[p] = Nothing
          /\ \A q \in Procs : q # p =>
               /\ pc'[q] = pc[q] /\ cmd'[q] = cmd[q] /\ seen'[q] = seen[q]
               /\ own'[q] = own[q] /\ typed'[q] = typed[q]
      BY <1>1, <2>3 DEF End
    <3>2. QED
      BY <2>2, <3>1 DEF NotAskedYet, EmptyHanded
  <2>4. ASSUME NEW s \in {"remove_read", "may_read", "as_read"}, pc[p] = "idle",
               pc' = [pc EXCEPT ![p] = s], NEW c, cmd' = [cmd EXCEPT ![p] = c],
               UNCHANGED <<seen, own, typed>>
        PROVE  NotAskedYet'
    <3>1. pc'[p] = s /\ \A q \in Procs : q # p => pc'[q] = pc[q] /\ cmd'[q] = cmd[q]
      BY <1>1, <2>4
    <3>2. QED
      BY <2>2, <2>4, <3>1 DEF NotAskedYet, EmptyHanded
  <2>5. ASSUME NEW s \in {"remove_write", "may_write", "as_ask", "as_begin"},
               pc' = [pc EXCEPT ![p] = s], UNCHANGED cmd,
               \A q \in Procs : q # p =>
                 seen'[q] = seen[q] /\ own'[q] = own[q] /\ typed'[q] = typed[q],
               s \in {"remove_write", "may_write"} => own'[p] = own[p] /\ own[p] = FALSE,
               s # "as_begin" => typed'[p] = typed[p] /\ typed[p] = Nothing
        PROVE  NotAskedYet'
    <3>1. pc'[p] = s /\ \A q \in Procs : q # p => pc'[q] = pc[q] /\ cmd'[q] = cmd[q]
      BY <1>1, <2>5
    <3>2. QED
      BY <2>2, <2>5, <3>1 DEF NotAskedYet, EmptyHanded
  <2>6. ASSUME NEW n \in Names, Add(p, n) \/ Remove(p, n)
        PROVE  NotAskedYet'
    BY <2>3, <2>4, <2>6 DEF Add, Remove, Begin, Refuse
  <2>7. ASSUME NEW n \in Names, NEW giving, NEW named, May(p, n, giving, named)
        PROVE  NotAskedYet'
    BY <2>3, <2>4, <2>7 DEF May, Begin, Refuse
  <2>8. ASSUME NEW n \in Names, NEW caller \in Names, As(p, caller, n)
        PROVE  NotAskedYet'
    BY <2>3, <2>4, <2>8 DEF As, Begin, Refuse
  <2>9. CASE RemoveForgets(p) \/ RemoveWrite(p) \/ MayWrite(p) \/ AsBegin(p) \/ Fail(p) \/ Kill(p)
    BY <2>3, <2>9 DEF RemoveForgets, RemoveWrite, MayWrite, AsBegin, Fail, Kill
  <2>10. CASE RemoveRead(p)
    <3>1. /\ pc[p] = "remove_read" /\ pc' = [pc EXCEPT ![p] = "remove_write"]
          /\ seen' = [seen EXCEPT ![p] = rights] /\ UNCHANGED <<cmd, own, typed>>
      BY <2>10 DEF RemoveRead
    <3>2. \A q \in Procs : q # p => seen'[q] = seen[q]
      BY <1>1, <3>1
    <3>3. QED
      BY <2>2, <2>5, <3>1, <3>2 DEF EmptyHanded
  <2>11. CASE MayRead(p)
    <3>1. /\ pc[p] = "may_read" /\ pc' = [pc EXCEPT ![p] = "may_write"]
          /\ \E v : seen' = [seen EXCEPT ![p] = v]
          /\ UNCHANGED <<cmd, own, typed>>
      BY <2>11 DEF MayRead
    <3>2. \A q \in Procs : q # p => seen'[q] = seen[q]
      BY <1>1, <3>1
    <3>3. QED
      BY <2>2, <2>5, <3>1, <3>2 DEF EmptyHanded
  <2>12. CASE AsRead(p)
    <3>1. /\ pc[p] = "as_read"
          /\ \E s \in {"as_ask", "as_begin"} : pc' = [pc EXCEPT ![p] = s]
          /\ \E v : seen' = [seen EXCEPT ![p] = v]
          /\ \E v : own' = [own EXCEPT ![p] = v]
          /\ UNCHANGED <<cmd, typed>>
      BY <2>12 DEF AsRead
    <3>2. \A q \in Procs : q # p => seen'[q] = seen[q] /\ own'[q] = own[q]
      BY <1>1, <3>1
    <3>3. QED
      BY <2>2, <2>5, <3>1, <3>2 DEF EmptyHanded
  <2>13. CASE AsAsk(p)
    <3>1. /\ pc' = [pc EXCEPT ![p] = "as_begin"] /\ \E v : typed' = [typed EXCEPT ![p] = v]
          /\ UNCHANGED <<cmd, seen, own>>
      BY <2>13 DEF AsAsk
    <3>2. \A q \in Procs : q # p => typed'[q] = typed[q]
      BY <1>1, <3>1
    <3>3. QED
      BY <2>5, <3>1, <3>2
  <2>14. QED
    BY <2>1, <2>6, <2>7, <2>8, <2>9, <2>10, <2>11, <2>12, <2>13
<1>4. QED
  BY <1>2, <1>3

(* The accounts and what each session has in hand stay of their type, root *)
(* stays a user, and only `as` has asked anybody anything                  *)
(* (user/src/main.rs:107-195, as/src/main.rs:101-168).                     *)
THEOREM TypeCorrect == Spec => []TypeOK
<1>1. Init => AccountsInv /\ NotAskedYet
  BY AccountsInvInit DEF Init, NotAskedYet, EmptyHanded
<1>2. AccountsInv /\ NotAskedYet /\ [Next]_vars => AccountsInv' /\ NotAskedYet'
  BY AccountsInvStep, NotAskedYetStep DEF AccountsInv
<1>3. AccountsInv /\ NotAskedYet => TypeOK
  <2>1. Given /\ NotAskedYet => \A p \in Procs : OfItsCommand(p)
    BY DEF Given, NotAskedYet, EmptyHanded, OfItsCommand, RemoveCommand, MayCommand, AsCommand
  <2>2. QED
    BY <2>1 DEF AccountsInv, Hands, Shelf, Counted, TypeOK, States
<1>4. QED
  BY <1>1, <1>2, <1>3, PTL DEF Spec

(* Whatever fails, is ended halfway or is at work at once, nobody may do   *)
(* what no command ever gave to that name (user/src/main.rs:147-195).      *)
THEOREM EverGivenHolds == Spec => []EverGiven
<1>1. Init => AccountsInv
  BY AccountsInvInit
<1>2. AccountsInv /\ [Next]_vars => AccountsInv'
  BY AccountsInvStep
<1>3. AccountsInv => EverGiven
  BY DEF AccountsInv, NeverMore, Within, EverGiven
<1>4. QED
  BY <1>1, <1>2, <1>3, PTL DEF Spec

-----------------------------------------------------------------------------
(* As long as nothing failed and nobody was at work beside another: every  *)
(* user has what it was given, nobody else has a line but who is just      *)
(* being removed, and what was read to be written back is what is there.   *)
Removing(p) == pc[p] \in {"remove_read", "remove_write"}
Alone == \A p, q \in Procs : pc[p] # "idle" /\ pc[q] # "idle" => p = q
Lines == \A n \in passwd : RightsOf(rights, n) \ Unnamed = should[n] \ Unnamed
NoOthers ==
  \A n \in Names \ passwd :
    rights[n] = NoLine \/ \E p \in Procs : Removing(p) /\ cmd[p].name = n
Fresh ==
  \A p \in Procs :
    /\ Removing(p) => cmd[p].name \notin passwd
    /\ pc[p] \in {"may_read", "may_write"} => cmd[p].name \in passwd
    /\ pc[p] \in {"remove_write", "may_write"} => seen[p] = rights
InOrder == clean => Alone /\ Lines /\ NoOthers /\ Fresh

(* One session takes a step; the others are where they were.               *)
LEMMA OthersStay ==
  ASSUME Hands, Given, NEW p \in Procs, NEW s, pc' = [pc EXCEPT ![p] = s],
         NEW c, cmd' = [cmd EXCEPT ![p] = c], NEW v, seen' = [seen EXCEPT ![p] = v]
  PROVE  /\ pc'[p] = s /\ cmd'[p] = c /\ seen'[p] = v
         /\ \A q \in Procs : q # p => pc'[q] = pc[q] /\ cmd'[q] = cmd[q] /\ seen'[q] = seen[q]
  BY DEF Hands, Given

(* An entry written to a file that was read changes no other.              *)
LEMMA OneLine ==
  ASSUME NEW file \in Files, NEW n \in Names, NEW entry
  PROVE  /\ WithRecord(file, n, entry)[n] = entry
         /\ \A m \in Names : m # n => WithRecord(file, n, entry)[m] = file[m]
<1>1. file # Unread
  BY DistinctAssumption
<1>2. WithRecord(file, n, entry) = [file EXCEPT ![n] = entry]
  BY <1>1 DEF WithRecord
<1>3. QED
  BY <1>2 DEF Files

LEMMA OrderStep ==
  ASSUME AccountsInv, InOrder, Next
  PROVE  InOrder'
<1>1. Hands /\ Shelf /\ Counted /\ Given
  BY DEF AccountsInv
<1>2. Shelf'
  BY AccountsInvNext DEF AccountsInv
<1>3. /\ rights \in Files /\ rights # Unread /\ rights' \in Files /\ rights' # Unread
      /\ passwd \subseteq Names /\ should \in [Names -> SUBSET Rights]
  BY <1>1, <1>2, DistinctAssumption DEF Shelf
<1>4. SUFFICES ASSUME clean'
               PROVE  Alone' /\ Lines' /\ NoOthers' /\ Fresh'
  BY DEF InOrder
<1>5. PICK p \in Procs :
        \/ \E n \in Names :
             \/ Add(p, n) \/ Remove(p, n)
             \/ \E giving \in BOOLEAN, named \in {{r} : r \in Rights \ Unnamed} \cup {Rights} :
                  May(p, n, giving, named)
             \/ \E caller \in Names : As(p, caller, n)
        \/ RemoveRead(p) \/ RemoveForgets(p) \/ RemoveWrite(p)
        \/ MayRead(p) \/ MayWrite(p)
        \/ AsRead(p) \/ AsAsk(p) \/ AsBegin(p)
        \/ Fail(p) \/ Kill(p)
  BY DEF Next
<1>6. ASSUME NEW how, End(p, how)
      PROVE  /\ pc'[p] = "idle"
             /\ \A q \in Procs : q # p =>
                  pc'[q] = pc[q] /\ cmd'[q] = cmd[q] /\ seen'[q] = seen[q]
  BY <1>1, <1>6, OthersStay DEF End
<1>7. ASSUME Begin(p)
      PROVE  clean /\ pc[p] = "idle" /\ \A q \in Procs : pc[q] = "idle"
  <2>1. clean' = (clean /\ \A q \in Procs : pc[q] = "idle")
    BY <1>7 DEF Begin
  <2>2. QED
    BY <1>4, <2>1
<1>8. ASSUME clean
      PROVE  Alone /\ Lines /\ NoOthers /\ Fresh
  BY <1>8 DEF InOrder
<1>9. ASSUME NEW how, End(p, how), UNCHANGED accounts, clean, ~Removing(p)
      PROVE  Alone' /\ Lines' /\ NoOthers' /\ Fresh'
  <2>1. UNCHANGED <<passwd, rights, should>>
    BY <1>9 DEF accounts
  <2>2. Alone' /\ Fresh'
    BY <1>6, <1>8, <1>9, <2>1 DEF Alone, Fresh, Removing
  <2>3. Lines' /\ NoOthers'
    BY <1>6, <1>8, <1>9, <2>1 DEF Lines, NoOthers, Removing
  <2>4. QED
    BY <2>2, <2>3
<1>10. ASSUME NEW s \in States, pc' = [pc EXCEPT ![p] = s],
              NEW c, cmd' = [cmd EXCEPT ![p] = c],
              NEW v, seen' = [seen EXCEPT ![p] = v],
              UNCHANGED <<passwd, rights, should>>, clean,
              pc[p] # "idle" \/ \A q \in Procs : pc[q] = "idle",
              Removing(p) => s \in {"remove_read", "remove_write"} /\ c.name = cmd[p].name,
              s \in {"remove_read", "remove_write"} => c.name \notin passwd,
              s \in {"may_read", "may_write"} => c.name \in passwd,
              s \in {"remove_write", "may_write"} => v = rights
       PROVE  Alone' /\ Lines' /\ NoOthers' /\ Fresh'
  <2>1. /\ pc'[p] = s /\ cmd'[p] = c /\ seen'[p] = v
        /\ \A q \in Procs : q # p => pc'[q] = pc[q] /\ cmd'[q] = cmd[q] /\ seen'[q] = seen[q]
    BY <1>1, <1>10, OthersStay
  <2>2. Alone'
    BY <1>8, <1>10, <2>1 DEF Alone
  <2>3. Fresh'
    BY <1>8, <1>10, <2>1 DEF Fresh, Removing
  <2>4. Lines'
    BY <1>8, <1>10 DEF Lines
  <2>5. NoOthers'
    <3> SUFFICES ASSUME NEW n \in Names \ passwd, rights[n] # NoLine
                 PROVE  \E q \in Procs : Removing(q)' /\ cmd'[q].name = n
      BY <1>10 DEF NoOthers
    <3>1. PICK q \in Procs : Removing(q) /\ cmd[q].name = n
      BY <1>8, <1>10 DEF NoOthers
    <3>2. Removing(q)' /\ cmd'[q].name = n
      BY <1>10, <2>1, <3>1 DEF Removing
    <3>3. QED
      BY <3>2
  <2>6. QED
    BY <2>2, <2>3, <2>4, <2>5
<1>11. ASSUME NEW n \in Names, Add(p, n)
       PROVE  Alone' /\ Lines' /\ NoOthers' /\ Fresh'
  <2>1. clean /\ ~Removing(p) /\ \A q \in Procs : pc[q] = "idle"
    BY <1>7, <1>11 DEF Add, Removing
  <2>2. CASE n \in passwd
    BY <1>9, <1>11, <2>1, <2>2 DEF Add, Refuse
  <2>3. CASE n \notin passwd
    <3>1. /\ passwd' = passwd \cup {n} /\ should' = [should EXCEPT ![n] = Default(n)]
          /\ End(p, "done") /\ rights' = rights
      BY <1>11, <2>3 DEF Add
    <3>2. \A q \in Procs : pc'[q] = "idle"
      BY <1>6, <2>1, <3>1
    <3>3. Alone' /\ Fresh'
      BY <3>2 DEF Alone, Fresh, Removing
    <3>4. \A m \in Names \ passwd : rights[m] = NoLine
      BY <1>8, <2>1 DEF NoOthers, Removing
    <3>5. RightsOf(rights, n) = should'[n] /\ \A m \in passwd : should'[m] = should[m]
      BY <1>3, <2>3, <3>1, <3>4 DEF RightsOf, Default
    <3>6. Lines'
      BY <1>8, <2>1, <3>1, <3>5 DEF Lines
    <3>7. NoOthers'
      BY <3>1, <3>4 DEF NoOthers
    <3>8. QED
      BY <3>3, <3>6, <3>7
  <2>4. QED
    BY <2>2, <2>3
<1>12. ASSUME NEW n \in Names, Remove(p, n)
       PROVE  Alone' /\ Lines' /\ NoOthers' /\ Fresh'
  <2>1. clean /\ ~Removing(p) /\ \A q \in Procs : pc[q] = "idle"
    BY <1>7, <1>12 DEF Remove, Removing
  <2>2. CASE n = Root \/ n \notin passwd
    BY <1>9, <1>12, <2>1, <2>2 DEF Remove, Refuse
  <2>3. CASE ~(n = Root \/ n \notin passwd)
    <3>1. /\ passwd' = passwd \ {n} /\ should' = [should EXCEPT ![n] = {}]
          /\ pc' = [pc EXCEPT ![p] = "remove_read"] /\ cmd' = [cmd EXCEPT ![p] = [name |-> n]]
          /\ UNCHANGED <<rights, seen>>
      BY <1>12, <2>3 DEF Remove
    <3>2. /\ pc'[p] = "remove_read" /\ cmd'[p].name = n
          /\ \A q \in Procs : q # p => pc'[q] = "idle"
      BY <1>1, <2>1, <3>1 DEF Hands, Given
    <3>3. Alone' /\ Fresh'
      BY <3>1, <3>2 DEF Alone, Fresh, Removing
    <3>4. Lines'
      BY <1>3, <1>8, <2>1, <3>1 DEF Lines
    <3>5. Removing(p)'
      BY <3>2 DEF Removing
    <3>6. NoOthers'
      BY <1>8, <2>1, <3>1, <3>2, <3>5 DEF NoOthers, Removing
    <3>7. QED
      BY <3>3, <3>4, <3>6
  <2>4. QED
    BY <2>2, <2>3
<1>13. ASSUME NEW n \in Names, NEW giving \in BOOLEAN,
              NEW named \in {{r} : r \in Rights \ Unnamed} \cup {Rights}, May(p, n, giving, named)
       PROVE  Alone' /\ Lines' /\ NoOthers' /\ Fresh'
  <2>1. clean /\ ~Removing(p) /\ \A q \in Procs : pc[q] = "idle"
    BY <1>7, <1>13 DEF May, Removing
  <2>2. CASE n \notin passwd
    BY <1>9, <1>13, <2>1, <2>2 DEF May, Refuse
  <2>3. CASE n \in passwd
    <3> DEFINE c == [name |-> n, giving |-> giving, named |-> named]
    <3>1. /\ pc' = [pc EXCEPT ![p] = "may_read"] /\ cmd' = [cmd EXCEPT ![p] = c]
          /\ seen' = [seen EXCEPT ![p] = seen[p]] /\ UNCHANGED <<passwd, rights, should>>
          /\ c.name = n
      BY <1>1, <1>13, <2>3 DEF May, accounts, Hands
    <3> HIDE DEF c
    <3>2. "may_read" \in States
      BY DEF States
    <3>3. QED
      BY <1>10, <2>1, <2>3, <3>1, <3>2
  <2>4. QED
    BY <2>2, <2>3
<1>14. ASSUME NEW n \in Names, NEW caller \in Names, As(p, caller, n)
       PROVE  Alone' /\ Lines' /\ NoOthers' /\ Fresh'
  <2>1. clean /\ ~Removing(p) /\ \A q \in Procs : pc[q] = "idle"
    BY <1>7, <1>14 DEF As, Removing
  <2>2. CASE n \notin passwd
    BY <1>9, <1>14, <2>1, <2>2 DEF As, Refuse
  <2>3. CASE n \in passwd
    <3> DEFINE c == [name |-> n, caller |-> caller, mine |-> caller \in passwd]
    <3>1. /\ pc' = [pc EXCEPT ![p] = "as_read"] /\ cmd' = [cmd EXCEPT ![p] = c]
          /\ seen' = [seen EXCEPT ![p] = seen[p]] /\ UNCHANGED <<passwd, rights, should>>
      BY <1>1, <1>14, <2>3 DEF As, accounts, Hands
    <3> HIDE DEF c
    <3>2. "as_read" \in States
      BY DEF States
    <3>3. QED
      BY <1>10, <2>1, <3>1, <3>2
  <2>4. QED
    BY <2>2, <2>3
<1>15. CASE RemoveRead(p)
  <2>1. /\ pc[p] = "remove_read" /\ pc' = [pc EXCEPT ![p] = "remove_write"]
        /\ seen' = [seen EXCEPT ![p] = rights] /\ cmd' = [cmd EXCEPT ![p] = cmd[p]]
        /\ UNCHANGED <<passwd, rights, should>> /\ clean
    BY <1>1, <1>4, <1>15, SameCommand DEF RemoveRead, accounts
  <2>2. Removing(p) /\ cmd[p].name \notin passwd
    BY <1>8, <2>1 DEF Fresh, Removing
  <2>3. "remove_write" \in States
    BY DEF States
  <2>4. QED
    BY <1>10, <2>1, <2>2, <2>3
<1>16. CASE MayRead(p)
  <2>1. /\ pc[p] = "may_read" /\ pc' = [pc EXCEPT ![p] = "may_write"]
        /\ cmd' = [cmd EXCEPT ![p] = cmd[p]] /\ UNCHANGED <<passwd, rights, should>>
    BY <1>1, <1>16, SameCommand DEF MayRead, accounts
  <2>2. seen' = [seen EXCEPT ![p] = rights] /\ clean
    BY <1>4, <1>16 DEF MayRead
  <2>3. ~Removing(p) /\ cmd[p].name \in passwd
    BY <1>8, <2>1, <2>2 DEF Fresh, Removing
  <2>4. "may_write" \in States
    BY DEF States
  <2>5. QED
    BY <1>10, <2>1, <2>2, <2>3, <2>4
<1>17. CASE AsRead(p) \/ AsAsk(p)
  <2>1. /\ pc[p] \in {"as_read", "as_ask"} /\ cmd' = [cmd EXCEPT ![p] = cmd[p]]
        /\ UNCHANGED <<passwd, rights, should>> /\ clean
    BY <1>1, <1>4, <1>17, SameCommand DEF AsRead, AsAsk, accounts
  <2>2. PICK s \in {"as_ask", "as_begin"} : pc' = [pc EXCEPT ![p] = s]
    BY <1>17 DEF AsRead, AsAsk
  <2>3. PICK v : seen' = [seen EXCEPT ![p] = v]
    <3>1. CASE AsRead(p)
      BY <3>1 DEF AsRead
    <3>2. CASE AsAsk(p)
      <4>1. seen' = [seen EXCEPT ![p] = seen[p]]
        BY <1>1, <3>2 DEF AsAsk, Hands
      <4>2. QED
        BY <4>1
    <3>3. QED
      BY <1>17, <3>1, <3>2
  <2>4. s \in States /\ ~Removing(p)
    BY <2>1 DEF States, Removing
  <2>5. QED
    BY <1>10, <2>1, <2>2, <2>3, <2>4
<1>18. CASE AsBegin(p)
  BY <1>4, <1>9, <1>18 DEF AsBegin, Removing
<1>19. CASE RemoveForgets(p) \/ Fail(p) \/ Kill(p)
  BY <1>4, <1>19 DEF RemoveForgets, Fail, Kill
<1>20. CASE RemoveWrite(p) \/ MayWrite(p)
  <2> DEFINE n == cmd[p].name
  <2>1. /\ pc[p] \in {"remove_write", "may_write"} /\ clean /\ End(p, "done") /\ passwd' = passwd
        /\ n \in Names
    BY <1>1, <1>4, <1>20 DEF RemoveWrite, MayWrite, Given, RemoveCommand, MayCommand
  <2>2. seen[p] = rights /\ \A q \in Procs : q # p => pc[q] = "idle"
    BY <1>8, <2>1 DEF Fresh, Alone
  <2>3. \A q \in Procs : pc'[q] = "idle"
    BY <1>6, <2>1, <2>2
  <2>4. Alone' /\ Fresh'
    BY <2>3 DEF Alone, Fresh, Removing
  <2>5. \A m \in Names : m # n /\ m \notin passwd => rights[m] = NoLine
    BY <1>8, <2>1, <2>2 DEF NoOthers, Removing
  <2>6. PICK entry : rights' = WithRecord(rights, n, entry)
    BY <1>20, <2>2 DEF RemoveWrite, MayWrite
  <2>7. rights'[n] = entry /\ \A m \in Names : m # n => rights'[m] = rights[m]
    BY <1>3, <2>1, <2>6, OneLine
  <2>8. \A m \in Names : m # n => RightsOf(rights', m) = RightsOf(rights, m)
    BY <1>3, <2>7 DEF RightsOf
  <2>9. CASE RemoveWrite(p)
    <3>1. rights' = WithRecord(rights, n, NoLine) /\ should' = should /\ n \notin passwd
      BY <1>8, <2>1, <2>2, <2>9 DEF RemoveWrite, Fresh, Removing
    <3>2. rights'[n] = NoLine
      BY <1>3, <2>1, <3>1, OneLine
    <3>3. Lines'
      BY <1>3, <1>8, <2>1, <2>8, <3>1 DEF Lines
    <3>4. NoOthers'
      BY <2>1, <2>5, <2>7, <3>2 DEF NoOthers
    <3>5. QED
      BY <2>4, <3>3, <3>4
  <2>10. CASE MayWrite(p)
    <3> DEFINE named == cmd[p].named
               giving == cmd[p].giving
               before == RightsOf(rights, n)
    <3>1. /\ rights' = WithRecord(rights, n, Words(Now(p)))
          /\ should' = [should EXCEPT ![n] = IF giving THEN @ \cup (IF giving THEN named ELSE {})
                                             ELSE @ \ named]
      BY <2>2, <2>10 DEF MayWrite
    <3>2. /\ n \in passwd /\ named \in SUBSET Rights
          /\ Now(p) = IF giving THEN before \cup named ELSE before \ named
      BY <1>1, <1>8, <2>1, <2>2, <2>10 DEF MayWrite, Fresh, Now, Given, MayCommand
    <3>3. before \in SUBSET Rights
      BY <1>3, <2>1 DEF RightsOf, Files
    <3> HIDE DEF n, named, giving, before
    <3>4. Now(p) \in SUBSET Rights
      BY <3>2, <3>3
    <3>5. Words(Now(p)) \in SUBSET Rights /\ Words(Now(p)) \ Unnamed = Now(p) \ Unnamed
      BY <3>4 DEF Words
    <3>6. rights'[n] = Words(Now(p)) /\ rights'[n] # NoLine
      BY <1>3, <2>1, <3>1, <3>5, OneLine, DistinctAssumption DEF n
    <3>7. RightsOf(rights', n) \ Unnamed = Now(p) \ Unnamed
      BY <1>3, <3>5, <3>6 DEF RightsOf
    <3>8. /\ should'[n] = IF giving THEN should[n] \cup named ELSE should[n] \ named
          /\ \A m \in Names : m # n => should'[m] = should[m]
      BY <1>3, <2>1, <3>1 DEF n
    <3>9. before \ Unnamed = should[n] \ Unnamed
      BY <1>8, <2>1, <3>2 DEF Lines, before
    <3>10. Now(p) \ Unnamed = should'[n] \ Unnamed
      <4>1. CASE giving
        BY <3>2, <3>8, <3>9, <4>1
      <4>2. CASE ~giving
        BY <3>2, <3>8, <3>9, <4>2
      <4>3. QED
        BY <4>1, <4>2
    <3>11. Lines'
      <4> SUFFICES ASSUME NEW m \in passwd
                   PROVE  RightsOf(rights', m) \ Unnamed = should'[m] \ Unnamed
        BY <2>1 DEF Lines
      <4>1. CASE m = n
        BY <3>7, <3>10, <4>1
      <4>2. CASE m # n
        <5>1. RightsOf(rights', m) = RightsOf(rights, m) /\ should'[m] = should[m]
          BY <1>3, <2>8, <3>8, <4>2 DEF n
        <5>2. QED
          BY <1>8, <2>1, <5>1 DEF Lines
      <4>3. QED
        BY <4>1, <4>2
    <3>12. NoOthers'
      BY <2>1, <2>5, <2>7, <3>2 DEF NoOthers, n
    <3>13. QED
      BY <2>4, <3>11, <3>12
  <2>11. QED
    BY <1>20, <2>9, <2>10
<1>21. QED
  BY <1>5, <1>11, <1>12, <1>13, <1>14, <1>15, <1>16, <1>17, <1>18, <1>19, <1>20

(* Commands given one after the other, none of which fails, leave each     *)
(* user what it was given and not taken back, and a user of a name that    *)
(* was had before begins with nothing (user/src/main.rs:120-195).          *)
THEOREM AsGivenHolds == Spec => []AsGiven
<1>1. Init => AccountsInv /\ InOrder
  <2> SUFFICES ASSUME Init
               PROVE  InOrder
    BY AccountsInvInit
  <2>1. /\ \A p \in Procs : pc[p] = "idle"
        /\ \A n \in Names : rights[n] = NoLine /\ should[n] = Default(n)
        /\ passwd \subseteq Names
    BY AccountsAssumption DEF Init, Empty
  <2>2. Alone /\ NoOthers /\ Fresh
    BY <2>1 DEF Alone, NoOthers, Fresh, Removing
  <2>3. Lines
    BY <2>1 DEF Lines, RightsOf, Default
  <2>4. QED
    BY <2>2, <2>3 DEF InOrder
<1>2. AccountsInv /\ InOrder /\ [Next]_vars => (AccountsInv /\ InOrder)'
  <2> SUFFICES ASSUME AccountsInv, InOrder, [Next]_vars
               PROVE  InOrder'
    BY AccountsInvStep
  <2>1. CASE Next
    BY <2>1, OrderStep
  <2>2. CASE UNCHANGED vars
    <3>1. UNCHANGED <<passwd, rights, pc, cmd, seen, should, clean>>
      BY <2>2 DEF vars
    <3>2. QED
      BY <3>1 DEF InOrder, Alone, Lines, NoOthers, Fresh, Removing
  <2>3. QED
    BY <2>1, <2>2
<1>3. InOrder => AsGiven
  BY DEF InOrder, Lines, AsGiven
<1>4. QED
  BY <1>1, <1>2, <1>3, PTL DEF Spec

-----------------------------------------------------------------------------
(* The server says "wrong" of a password only if it asked about the one    *)
(* that `as` asked for.                                                    *)
LEMMA WrongIsWrong ==
  ASSUME NEW p \in Procs, Answer(p) = "wrong"
  PROVE  typed[p] # Whose(p)
<1>1. /\ cmd[p].name \in passwd /\ cmd[p].caller # Root
      /\ OwnFlag(p) => typed[p] # cmd[p].caller
      /\ ~OwnFlag(p) => typed[p] # cmd[p].name
  BY DEF Answer
<1>2. QED
  BY <1>1 DEF OwnFlag, Whose

(* How a session's last command ended is told of each session there is.    *)
EndsTold == ended = [p \in Procs |-> ended[p]]

LEMMA EndsToldStep ==
  ASSUME EndsTold, [Next]_vars
  PROVE  EndsTold'
<1>1. \A p \in Procs : \A how : ended' = [ended EXCEPT ![p] = how] => EndsTold'
  BY DEF EndsTold
<1>2. ended' = ended => EndsTold'
  BY DEF EndsTold
<1>3. \A p \in Procs : \A how : End(p, how) => EndsTold'
  BY <1>1 DEF End
<1>4. CASE Next
  BY <1>2, <1>3, <1>4, ZenonT(30) DEF Next, Add, Remove, May, As, Refuse, RemoveRead, RemoveForgets,
     RemoveWrite, MayRead, MayWrite, AsRead, AsAsk, AsBegin, Fail, Kill
<1>5. QED
  BY <1>2, <1>4 DEF vars

(* Whoever typed the password that was asked for is never told that it is  *)
(* not the password, whatever was given or taken back while they typed     *)
(* (as/src/main.rs:101-168).                                               *)
THEOREM SaysWhyHolds == Spec => SaysWhy
<1>1. Init => AccountsInv /\ EndsTold
  BY AccountsInvInit DEF Init, EndsTold
<1>2. AccountsInv /\ EndsTold /\ [Next]_vars => (AccountsInv /\ EndsTold)'
  BY AccountsInvStep, EndsToldStep
<1>3. AccountsInv /\ EndsTold /\ [Next]_vars =>
        [\A p \in Procs :
           pc[p] = "as_begin" /\ pc'[p] = "idle" /\ ended'[p] = "wrong"
             => typed[p] # Whose(p)]_vars
  <2> SUFFICES ASSUME AccountsInv, EndsTold, Next, NEW p \in Procs,
                      pc[p] = "as_begin", pc'[p] = "idle", ended'[p] = "wrong"
               PROVE  typed[p] # Whose(p)
    BY DEF vars
  <2>1. pc \in [Procs -> States]
    BY DEF AccountsInv, Hands
  <2>2. PICK q \in Procs :
          \/ \E n \in Names :
               \/ Add(q, n) \/ Remove(q, n)
               \/ \E giving \in BOOLEAN, named \in {{r} : r \in Rights \ Unnamed} \cup {Rights} :
                    May(q, n, giving, named)
               \/ \E caller \in Names : As(q, caller, n)
          \/ RemoveRead(q) \/ RemoveForgets(q) \/ RemoveWrite(q)
          \/ MayRead(q) \/ MayWrite(q)
          \/ AsRead(q) \/ AsAsk(q) \/ AsBegin(q)
          \/ Fail(q) \/ Kill(q)
    BY DEF Next
  <2>3. \A s : pc' = [pc EXCEPT ![q] = s] => q = p
    BY <2>1
  <2>4. \E s : pc' = [pc EXCEPT ![q] = s]
    BY <2>2 DEF Add, Remove, May, As, Refuse, End, RemoveRead, RemoveForgets, RemoveWrite, MayRead,
       MayWrite, AsRead, AsAsk, AsBegin, Fail, Kill
  <2>5. q = p
    BY <2>3, <2>4
  <2>6. AsBegin(p) \/ Fail(p) \/ Kill(p) \/ AsAsk(p) \/ AsRead(p)
    BY <2>2, <2>5 DEF Add, Remove, May, As, Begin, RemoveRead, RemoveForgets, RemoveWrite, MayRead,
       MayWrite
  <2>7. \A how : End(p, how) => ended'[p] = how
    BY DEF End, EndsTold
  <2>8. AsBegin(p)
    BY <2>6, <2>7 DEF AsAsk, AsRead, Fail, Kill
  <2>9. QED
    BY <2>7, <2>8, WrongIsWrong DEF AsBegin
<1>4. QED
  BY <1>1, <1>2, <1>3, PTL DEF Spec, SaysWhy
-----------------------------------------------------------------------------
(***************************************************************************)
(* Of BangInstall, for every value of its constants: its type invariant,   *)
(* and the two things that `bang-install` has said when it says it is      *)
(* done.                                                                   *)
(***************************************************************************)
(* What is not copied yet: what is in hand, and what is not read yet of the *)
(* drivers directory.                                                       *)
Ahead == Range(todo) \cup {Modules[i] : i \in next + 1 .. Len(Modules)}
Behind == place \in {"copy", "write"} => Copied \ Ahead \subseteq esp
AllThere == place \in {"find", "cfg", "cfg_open", "sync"} => esp = Copied

(* Between its calls, a command that began on a root that qpkg was done     *)
(* with, and that read all of the directory, is behind with nothing.        *)
Copies ==
  place # "idle" /\ began /\ "dir" \notin passed =>
    /\ \A f \in Copied : src[f] = "new"
    /\ Behind /\ AllThere

SaidAtEnd == said => place = "idle"
SaidRecorded == said /\ "sync" \notin passed => touched = {}

StartsInv == /\ BangTypeOK /\ Copies /\ SaidAtEnd /\ SaidRecorded /\ SaidStarts
             /\ strapped => \A f \in Copied : src[f] = "new"

-----------------------------------------------------------------------------
(* What the tail of a sequence is of, and what of it is lost with its head. *)
LEMMA TailRange ==
  ASSUME NEW S, NEW s \in Seq(S), s # <<>>
  PROVE  /\ Head(s) \in S /\ Tail(s) \in Seq(S)
         /\ Range(s) \subseteq Range(Tail(s)) \cup {Head(s)}
         /\ Head(s) \in Range(s)
<1>1. Len(s) \in Nat \ {0} /\ Head(s) = s[1] /\ DOMAIN s = 1..Len(s)
  OBVIOUS
<1>2. Tail(s) \in Seq(S) /\ Len(Tail(s)) = Len(s) - 1 /\ DOMAIN Tail(s) = 1..Len(s) - 1
  OBVIOUS
<1>3. \A i \in 1..Len(s) - 1 : Tail(s)[i] = s[i + 1]
  OBVIOUS
<1>4. ASSUME NEW i \in 1..Len(s), i # 1
      PROVE  s[i] \in Range(Tail(s))
  <2>1. i - 1 \in DOMAIN Tail(s) /\ Tail(s)[i - 1] = s[i]
    BY <1>1, <1>2, <1>3, <1>4
  <2> QED BY <2>1 DEF Range
<1> QED BY <1>1, <1>2, <1>4 DEF Range

(* Some of the modules, from one to another, as a sequence.                 *)
LEMMA PageRange ==
  ASSUME NEW n \in 0..Len(Modules), NEW m \in 0..Len(Modules)
  PROVE  /\ SubSeq(Modules, n + 1, m) \in Seq(Copied)
         /\ \A i \in n + 1 .. m : Modules[i] \in Range(SubSeq(Modules, n + 1, m))
<1> DEFINE p == SubSeq(Modules, n + 1, m)
<1>1. Modules \in Seq(STRING) /\ DOMAIN Modules = 1..Len(Modules) /\ Len(Modules) \in Nat
  BY BangAssumption
<1>2. \A i \in 1..Len(Modules) : Modules[i] \in Copied
  BY <1>1 DEF Copied, Range
<1>3. p = [i \in 1..(IF n + 1 <= m THEN m - n ELSE 0) |-> Modules[n + i]]
  BY <1>1
<1>4. p \in Seq(Copied)
  BY <1>1, <1>2, <1>3
<1>5. ASSUME NEW i \in n + 1 .. m
      PROVE  Modules[i] \in Range(p)
  <2>1. i - n \in DOMAIN p /\ p[i - n] = Modules[i]
    BY <1>1, <1>3
  <2> QED BY <2>1 DEF Range
<1> QED BY <1>4, <1>5

LEMMA FixedRange ==
  /\ Fixed \in Seq(Copied) /\ Fixed # <<>>
  /\ \A i \in 1..Len(Modules) : Modules[i] \in Range(Modules)
  /\ Range(Fixed) \subseteq Copied /\ Range(Modules) \subseteq Copied
  /\ Range(Modules) = {Modules[i] : i \in 1..Len(Modules)}
<1>1. Fixed \in Seq(STRING) /\ Fixed # <<>> /\ Modules \in Seq(STRING)
  BY BangAssumption
<1>2. DOMAIN Modules = 1..Len(Modules) /\ DOMAIN Fixed = 1..Len(Fixed)
  BY <1>1
<1>3. \A i \in 1..Len(Fixed) : Fixed[i] \in Copied
  BY <1>2 DEF Copied, Range
<1> QED BY <1>1, <1>2, <1>3 DEF Copied, Range

-----------------------------------------------------------------------------
USE DEF root, boot

LEMMA WhereIsCfg == BangTypeOK => Where \in Cfgs /\ ByVolume(name[Target]) \in Cfgs /\ name[Target] \in Drivers
<1> SUFFICES ASSUME BangTypeOK PROVE Where \in Cfgs /\ ByVolume(name[Target]) \in Cfgs /\ name[Target] \in Drivers
  OBVIOUS
<1>1. Target \in Disks /\ id \in Tables /\ name[Target] \in Drivers
  BY BangAssumption DEF BangTypeOK, DriverNames
<1> QED BY <1>1 DEF Where, Cfgs

LEMMA EndTypes ==
  BangTypeOK /\ EndInstall /\ Forget => /\ began' \in BOOLEAN /\ passed' \subseteq Faults
                            /\ next' \in 0..Len(Modules)
<1>1. Len(Modules) \in Nat
  BY BangAssumption
<1>2. ASSUME BangTypeOK, Forget
      PROVE  began' \in BOOLEAN /\ passed' \subseteq Faults
  <2>1. CASE said
    BY <1>2, <2>1 DEF BangTypeOK, Forget
  <2>2. CASE ~said
    BY <1>2, <2>2 DEF BangTypeOK, Forget
  <2> QED BY <2>1, <2>2
<1> QED BY <1>1, <1>2 DEF EndInstall

LEMMA InitTypes == BangInit => BangTypeOK
<1> SUFFICES ASSUME BangInit PROVE BangTypeOK
  OBVIOUS
<1>1. Nowhere \in Cfgs /\ Len(Modules) \in Nat
  BY BangAssumption DEF Cfgs
<1>2. name \in DriverNames /\ was \in Drivers
  BY BangAssumption DEF BangInit, DriverNames
<1>3. src \in [Copied -> {"none", "part", "new"}]
  BY DEF BangInit
<1>4. recorded \in [esp : SUBSET Copied, cfg : Cfgs]
  BY <1>1 DEF BangInit
<1>5. recorded.esp = esp /\ recorded.cfg = cfg
  BY DEF BangInit
<1>6. runs \in 0..MaxRuns /\ straps \in 0..MaxStraps
  BY BangAssumption DEF BangInit
<1>7. /\ place = "idle" /\ todo = <<>> /\ next = 0 /\ line = Nowhere /\ cfg = Nowhere
      /\ esp = {} /\ touched = {} /\ id \in Tables /\ passed = {}
      /\ strapped \in BOOLEAN /\ said \in BOOLEAN /\ began \in BOOLEAN
  BY DEF BangInit
<1>8. todo \in Seq(Copied) /\ next \in 0..Len(Modules)
  BY <1>1, <1>7
<1> QED BY <1>1, <1>2, <1>3, <1>4, <1>5, <1>6, <1>7, <1>8 DEF BangTypeOK

LEMMA StepTypes == BangTypeOK /\ [BangNext]_bangVars => BangTypeOK'
<1> SUFFICES ASSUME BangTypeOK, [BangNext]_bangVars PROVE BangTypeOK'
  OBVIOUS
<1> USE DEF BangTypeOK
<1>1. CASE Strap
  <2>1. strapped' \in BOOLEAN
    BY <1>1 DEF Strap
  <2>3. src' \in [Copied -> {"none", "part", "new"}]
    <3>1. CASE src' = [f \in Copied |-> "new"]
      BY <3>1
    <3>2. ASSUME NEW done \in SUBSET Copied, NEW f \in Copied,
                 src' = [g \in Copied |-> IF g = f THEN "part"
                                          ELSE IF g \in done THEN "new" ELSE src[g]]
          PROVE  src' \in [Copied -> {"none", "part", "new"}]
      BY <3>2
    <3> QED BY <1>1, <3>1, <3>2 DEF Strap
  <2>2. straps' \in 0..MaxStraps
    BY <1>1, BangAssumption DEF Strap
  <2> QED BY <1>1, <2>1, <2>2, <2>3 DEF Strap
<1>2. CASE BeginInstall
  <2>1. runs' \in 0..MaxRuns
    BY <1>2, BangAssumption DEF BeginInstall
  <2>2. began' \in BOOLEAN /\ said' \in BOOLEAN /\ passed' \subseteq Faults
    BY <1>2 DEF BeginInstall
  <2>3. next' \in 0..Len(Modules)
    BY <1>2, BangAssumption DEF BeginInstall
  <2> QED BY <1>2, <2>1, <2>2, <2>3, FixedRange, WhereIsCfg DEF BeginInstall
<1>3. CASE OpenFile
  BY <1>3, TailRange DEF OpenFile
<1>4. CASE Write
  BY <1>4, TailRange DEF Write
<1>5. CASE NotListed
  BY <1>5, TailRange DEF NotListed
<1>6. CASE ReadDir
  <2>1. CASE next = Len(Modules)
    BY <1>6, <2>1 DEF ReadDir
  <2>2. CASE next # Len(Modules)
    <3>1. Len(Modules) \in Nat /\ Page \in Nat \ {0} /\ next \in 0..Len(Modules)
      BY BangAssumption
    <3>2. next' \in 0..Len(Modules)
      BY <1>6, <2>2, <3>1 DEF ReadDir, Least
    <3>3. todo' \in Seq(Copied)
      <4>1. todo' = SubSeq(Modules, next + 1, next')
        BY <1>6, <2>2 DEF ReadDir
      <4> QED BY <3>1, <3>2, <4>1, PageRange
    <3> QED BY <1>6, <2>2, <3>2, <3>3 DEF ReadDir
  <2> QED BY <2>1, <2>2
<1>7. CASE DirUnread
  BY <1>7 DEF DirUnread
<1>8. CASE FindRoot
  BY <1>8, WhereIsCfg DEF FindRoot
<1>9. CASE OpenCfg
  BY <1>9 DEF OpenCfg, Cfgs
<1>10. CASE WriteCfg
  BY <1>10 DEF WriteCfg
<1>11. CASE SyncAndSay
  BY <1>11, BangAssumption DEF SyncAndSay, EndInstall, Cfgs
<1>12. CASE Refused
  <2>1. began' \in BOOLEAN /\ passed' \subseteq Faults /\ next' \in 0..Len(Modules)
    BY <1>12, EndTypes DEF Refused
  <2> QED BY <1>12, <2>1 DEF Refused, EndInstall, Cfgs
<1>13. CASE Crash
  <2>1. cfg' \in Cfgs
    BY <1>13 DEF Crash, Cfgs
  <2>2. began' \in BOOLEAN /\ passed' \subseteq Faults /\ next' \in 0..Len(Modules)
    BY <1>13, EndTypes DEF Crash
  <2>3. esp' \subseteq Copied /\ recorded' \in [esp : SUBSET Copied, cfg : Cfgs]
    BY <1>13, <2>1 DEF Crash
  <2>4. recorded'.esp = esp' /\ recorded'.cfg = cfg' /\ touched' = {}
    BY <1>13 DEF Crash
  <2> QED BY <1>13, <2>1, <2>2, <2>3, <2>4 DEF Crash, EndInstall, Cfgs
<1>14. CASE UNCHANGED bangVars
  BY <1>14 DEF bangVars
<1> QED
  BY <1>1, <1>2, <1>3, <1>4, <1>5, <1>6, <1>7, <1>8, <1>9, <1>10, <1>11, <1>12, <1>13, <1>14 DEF BangNext

(* Every variable stays in its range, what is recorded is what is there but *)
(* for what was touched, and a command that is over has nothing to copy.    *)
THEOREM BangTypeCorrect == BangSpec => []BangTypeOK
BY InitTypes, StepTypes, PTL DEF BangSpec

-----------------------------------------------------------------------------
(* Between two calls of a copy, nothing is behind: what it has in hand is   *)
(* of Copied, and what it lets go of has been written.                      *)
LEMMA CopiesStep ==
  StartsInv /\ BangTypeOK' /\ [BangNext]_bangVars => Copies'
<1> SUFFICES ASSUME StartsInv, BangTypeOK', [BangNext]_bangVars,
                    place' # "idle", began', "dir" \notin passed'
             PROVE  (\A f \in Copied : src[f] = "new")' /\ Behind' /\ AllThere'
  BY DEF Copies
<1> USE DEF StartsInv
<1>1. CASE Strap
  BY <1>1 DEF Strap
<1>2. CASE BeginInstall
  <2>1. (\A f \in Copied : src[f] = "new")' /\ place' = "copy"
    BY <1>2 DEF BeginInstall
  <2>2. Ahead' = Range(Fixed) \cup {Modules[i] : i \in 0 + 1 .. Len(Modules)}
    BY <1>2 DEF BeginInstall, Ahead
  <2>3. Ahead' = Copied
    BY <2>2, FixedRange DEF Copied
  <2> QED BY <2>1, <2>3 DEF Behind, AllThere
<1>3. ASSUME place # "idle", began, "dir" \notin passed
      PROVE  (\A f \in Copied : src[f] = "new") /\ Behind /\ AllThere
  BY <1>3 DEF Copies
<1>4. CASE OpenFile
  <2>1. (\A f \in Copied : src[f] = "new")' /\ Behind /\ place = "copy" /\ todo # <<>> /\ place' = "write"
    BY <1>3, <1>4 DEF OpenFile
  <2>2. Head(todo) \in Ahead /\ Ahead' = Ahead /\ esp' = esp \ {Head(todo)}
    BY <1>4, TailRange DEF OpenFile, Ahead, BangTypeOK
  <2> QED BY <2>1, <2>2 DEF Behind, AllThere
<1>5. CASE Write
  <2>1. (\A f \in Copied : src[f] = "new") /\ src' = src /\ Behind /\ place = "write" /\ place' = "copy"
    BY <1>3, <1>5 DEF Write
  <2>2. todo \in Seq(Copied) /\ todo # <<>> /\ Head(todo) \in Copied
    BY <1>5, <2>1, TailRange DEF BangTypeOK
  <2>3. esp' = esp \cup {Head(todo)} /\ todo' = Tail(todo) /\ next' = next
    BY <1>5, <2>1, <2>2 DEF Write
  <2>4. Ahead \subseteq Ahead' \cup {Head(todo)}
    BY <2>2, <2>3, TailRange DEF Ahead
  <2> QED BY <2>1, <2>3, <2>4 DEF Behind, AllThere
<1>6. CASE NotListed
  <2>1. todo \in Seq(Copied) /\ todo # <<>> /\ src[Head(todo)] = "none" /\ place = "copy"
    BY <1>6 DEF NotListed, BangTypeOK, Listed
  <2>2. \A f \in Copied : src[f] = "new"
    BY <1>3, <1>6, <2>1 DEF NotListed
  <2> QED BY <2>1, <2>2, TailRange
<1>7. CASE ReadDir
  <2>1. (\A f \in Copied : src[f] = "new")' /\ Behind /\ place = "copy" /\ todo = <<>> /\ esp' = esp
    BY <1>3, <1>7 DEF ReadDir
  <2>2. Len(Modules) \in Nat /\ next \in 0..Len(Modules) /\ Page \in Nat \ {0}
    BY BangAssumption DEF BangTypeOK
  <2>3. Range(todo) = {}
    BY <2>1 DEF Range
  <2>4. CASE next = Len(Modules)
    <3>1. place' = "find" /\ next' = next
      BY <1>7, <2>4 DEF ReadDir
    <3>2. Ahead = {}
      BY <2>2, <2>3, <2>4 DEF Ahead
    <3>3. esp' = Copied
      BY <2>1, <3>2, ZenonT(30) DEF Behind, BangTypeOK
    <3> QED BY <2>1, <3>1, <3>3 DEF Behind, AllThere
  <2>5. CASE next # Len(Modules)
    <3>1. todo' = SubSeq(Modules, next + 1, next') /\ next' \in 0..Len(Modules) /\ place' = "copy"
      BY <1>7, <2>1, <2>2, <2>5 DEF ReadDir, Least
    <3>2. \A i \in next + 1 .. next' : Modules[i] \in Range(todo')
      BY <2>2, <3>1, PageRange
    <3>3. ASSUME NEW i \in next + 1 .. Len(Modules)
          PROVE  Modules[i] \in Ahead'
      <4>1. next' \in Nat /\ next \in Nat /\ Len(Modules) \in Nat
        BY <2>2, <3>1
      <4> DEFINE n == next
                 m == next'
                 k == Len(Modules)
      <4>0. m \in Nat /\ n \in Nat /\ k \in Nat /\ i \in n + 1 .. k
        BY <4>1
      <4> HIDE DEF n, m, k
      <4>a. i \in n + 1 .. m \/ i \in m + 1 .. k
        BY <4>0
      <4>2. i \in next + 1 .. next' \/ i \in next' + 1 .. Len(Modules)
        BY <4>a DEF n, m, k
      <4>3. CASE i \in next + 1 .. next'
        BY <3>2, <4>3 DEF Ahead
      <4>4. CASE i \in next' + 1 .. Len(Modules)
        BY <4>4 DEF Ahead
      <4> QED BY <4>2, <4>3, <4>4
    <3>4. Ahead \subseteq Ahead'
      BY <2>3, <3>3 DEF Ahead
    <3> QED BY <2>1, <3>1, <3>4 DEF Behind, AllThere
  <2> QED BY <2>4, <2>5
<1>8. CASE DirUnread
  BY <1>8 DEF DirUnread
<1>9. CASE FindRoot
  BY <1>3, <1>9 DEF FindRoot, Behind, AllThere
<1>10. CASE OpenCfg
  BY <1>3, <1>10 DEF OpenCfg, Behind, AllThere
<1>11. CASE WriteCfg
  BY <1>3, <1>11 DEF WriteCfg, Behind, AllThere
<1>12. CASE SyncAndSay
  BY <1>12 DEF SyncAndSay, EndInstall
<1>13. CASE Refused
  BY <1>13 DEF Refused, EndInstall
<1>14. CASE Crash
  BY <1>14 DEF Crash, EndInstall
<1>15. CASE UNCHANGED bangVars
  BY <1>3, <1>15 DEF bangVars, Behind, AllThere, Ahead
<1> QED
  BY <1>1, <1>2, <1>4, <1>5, <1>6, <1>7, <1>8, <1>9, <1>10, <1>11, <1>12, <1>13, <1>14, <1>15 DEF BangNext

(* What is said stays so: only its own run changes the partition, and what  *)
(* is on the disk survives a crash.                                         *)
LEMMA SaidStep ==
  StartsInv /\ [BangNext]_bangVars =>
    /\ SaidAtEnd' /\ SaidRecorded' /\ SaidStarts'
    /\ strapped' => (\A f \in Copied : src[f] = "new")'
<1> SUFFICES ASSUME StartsInv, [BangNext]_bangVars
             PROVE  /\ SaidAtEnd' /\ SaidRecorded' /\ SaidStarts'
                    /\ strapped' => (\A f \in Copied : src[f] = "new")'
  OBVIOUS
<1> USE DEF StartsInv, SaidAtEnd, SaidRecorded, SaidStarts
<1>1. CASE Strap
  <2>1. strapped' => (\A f \in Copied : src[f] = "new")'
    BY <1>1 DEF Strap
  <2> QED BY <1>1, <2>1 DEF Strap
<1>2. CASE BeginInstall
  BY <1>2 DEF BeginInstall
<1>3. CASE OpenFile \/ Write \/ NotListed \/ ReadDir \/ DirUnread \/ FindRoot \/ OpenCfg \/ WriteCfg
  <2>1. ~said' /\ src' = src /\ strapped' = strapped
    BY <1>3 DEF OpenFile, Write, NotListed, ReadDir, DirUnread, FindRoot, OpenCfg, WriteCfg
  <2> QED BY <2>1
<1>4. CASE SyncAndSay
  <2>1. began /\ "dir" \notin passed => esp = Copied
    BY <1>4 DEF SyncAndSay, Copies, AllThere
  <2> QED BY <1>4, <2>1 DEF SyncAndSay, EndInstall
<1>5. CASE Refused
  BY <1>5 DEF Refused, EndInstall, Forget
<1>6. CASE Crash
  <2>1. CASE said
    <3>1. passed' = passed /\ began' = began /\ said' = said
      BY <1>6, <2>1 DEF Crash, Forget
    <3>2. "sync" \notin passed => esp' = esp /\ touched' = {}
      BY <1>6, <2>1 DEF Crash
    <3> QED BY <1>6, <2>1, <3>1, <3>2 DEF Crash, EndInstall
  <2>2. CASE ~said
    BY <1>6, <2>2 DEF Crash, EndInstall
  <2> QED BY <2>1, <2>2
<1>7. CASE UNCHANGED bangVars
  BY <1>7 DEF bangVars
<1> QED
  BY <1>1, <1>2, <1>3, <1>4, <1>5, <1>6, <1>7 DEF BangNext

(* When it has said that the loader, the kernel and the modules are on the  *)
(* partition they are, through any crash and any refusal after and whatever *)
(* was there before; for every page of the directory and any fault but the  *)
(* two that it passes over.                                                 *)
THEOREM SaidStartsHolds == BangSpec => []SaidStarts
<1>1. BangInit => StartsInv
  <2> SUFFICES ASSUME BangInit PROVE StartsInv
    OBVIOUS
  <2>1. BangTypeOK
    BY InitTypes
  <2>2. place = "idle" /\ said = FALSE /\ strapped = FALSE
    BY DEF BangInit
  <2> QED BY <2>1, <2>2 DEF StartsInv, Copies, SaidAtEnd, SaidRecorded, SaidStarts
<1>2. StartsInv /\ [BangNext]_bangVars => StartsInv'
  <2> SUFFICES ASSUME StartsInv, [BangNext]_bangVars PROVE StartsInv'
    OBVIOUS
  <2>1. BangTypeOK'
    BY StepTypes DEF StartsInv
  <2>2. Copies'
    BY <2>1, CopiesStep
  <2> QED BY <2>1, <2>2, SaidStep DEF StartsInv
<1>3. StartsInv => SaidStarts
  BY DEF StartsInv
<1> QED BY <1>1, <1>2, <1>3, PTL DEF BangSpec

-----------------------------------------------------------------------------
(* What root.cfg is to say of a disk whose driver had a name as it was      *)
(* installed to; a run knows the name until it ends, and the line until it  *)
(* has written it.                                                          *)
Told == IF id[Target] # Zero THEN ById(id[Target]) ELSE ByVolume(was)
NameKnown == place # "idle" => was = name[Target]
LineIsTold == place \in {"cfg", "cfg_open"} /\ "id" \notin passed => line = Told
CfgIsTold == place = "sync" /\ "id" \notin passed => cfg = Told
SaidIsTold == said /\ passed \cap {"id", "sync"} = {} => cfg = Told

FindInv == /\ BangTypeOK /\ SaidAtEnd /\ SaidRecorded
           /\ NameKnown /\ LineIsTold /\ CfgIsTold /\ SaidIsTold

(* A line of root.cfg has one disk that it may be taken for.                *)
LEMMA ToldIsTarget ==
  BangTypeOK /\ cfg = Told /\ (id[Target] # Zero \/ name[Target] = was) => Found = {Target}
<1> SUFFICES ASSUME BangTypeOK, cfg = Told, id[Target] # Zero \/ name[Target] = was
             PROVE  Found = {Target}
  OBVIOUS
<1>1. Target \in Disks /\ id \in Tables /\ name \in DriverNames
  BY BangAssumption DEF BangTypeOK
<1>2. CASE id[Target] # Zero
  <2>1. cfg.by = "id" /\ cfg.id = id[Target]
    BY <1>2 DEF Told, ById
  <2>2. Found = {d \in Disks : id[d] = id[Target]}
    BY <2>1 DEF Found
  <2>3. \A d \in Disks : id[d] = id[Target] => d = Target
    BY <1>1, <1>2, BangAssumption
  <2> QED BY <1>1, <2>2, <2>3
<1>3. CASE id[Target] = Zero /\ name[Target] = was
  <2>1. cfg.by = "volume" /\ cfg.driver = name[Target]
    BY <1>3 DEF Told, ByVolume
  <2>2. Found = {d \in Disks : name[d] = name[Target]}
    BY <2>1 DEF Found
  <2>3. \A d \in Disks : name[d] = name[Target] => d = Target
    BY <1>1 DEF DriverNames
  <2> QED BY <1>1, <2>2, <2>3
<1> QED BY <1>2, <1>3

LEMMA FindStep ==
  FindInv /\ [BangNext]_bangVars =>
    SaidAtEnd' /\ SaidRecorded' /\ NameKnown' /\ LineIsTold' /\ CfgIsTold' /\ SaidIsTold'
<1> SUFFICES ASSUME FindInv, [BangNext]_bangVars
             PROVE  SaidAtEnd' /\ SaidRecorded' /\ NameKnown' /\ LineIsTold' /\ CfgIsTold' /\ SaidIsTold'
  OBVIOUS
<1> USE DEF FindInv, SaidAtEnd, SaidRecorded, NameKnown, LineIsTold, CfgIsTold, SaidIsTold
<1>1. CASE Strap
  BY <1>1 DEF Strap, Told
<1>2. CASE BeginInstall
  BY <1>2 DEF BeginInstall
<1>3. CASE OpenFile \/ Write \/ NotListed \/ ReadDir \/ DirUnread
  <2>1. ~said' /\ place' \in {"copy", "write", "find"} /\ was' = name'[Target]
    BY <1>3 DEF OpenFile, Write, NotListed, ReadDir, DirUnread
  <2> QED BY <2>1
<1>4. CASE FindRoot
  <2>1. "id" \notin passed' => line' = Told'
    BY <1>4 DEF FindRoot, Where, Told
  <2> QED BY <1>4, <2>1 DEF FindRoot
<1>5. CASE OpenCfg
  BY <1>5 DEF OpenCfg, Told
<1>6. CASE WriteCfg
  BY <1>6 DEF WriteCfg, Told
<1>7. CASE SyncAndSay
  BY <1>7 DEF SyncAndSay, EndInstall, Told
<1>8. CASE Refused
  BY <1>8 DEF Refused, EndInstall, Forget
<1>9. CASE Crash
  <2>1. CASE said
    <3>1. passed' = passed /\ said' = said /\ Told' = Told /\ place' = "idle" /\ touched' = {}
      BY <1>9, <2>1 DEF Crash, Forget, EndInstall, Told
    <3>2. "sync" \notin passed => cfg' = cfg
      BY <1>9, <2>1 DEF Crash
    <3> QED BY <2>1, <3>1, <3>2
  <2>2. CASE ~said
    BY <1>9, <2>2 DEF Crash, EndInstall
  <2> QED BY <2>1, <2>2
<1>10. CASE UNCHANGED bangVars
  BY <1>10 DEF bangVars, Told
<1> QED
  BY <1>1, <1>2, <1>3, <1>4, <1>5, <1>6, <1>7, <1>8, <1>9, <1>10 DEF BangNext

(* And the system that it says will start finds its root and no other, in   *)
(* whatever order the drivers take their names from then on, where the      *)
(* partition has an id; where it has none, while its driver has that name.  *)
THEOREM FindsRootHolds == BangSpec => []FindsRoot
<1>1. BangInit => FindInv
  <2> SUFFICES ASSUME BangInit PROVE FindInv
    OBVIOUS
  <2>1. place = "idle" /\ said = FALSE
    BY DEF BangInit
  <2> QED BY <2>1, InitTypes
          DEF FindInv, SaidAtEnd, SaidRecorded, NameKnown, LineIsTold, CfgIsTold, SaidIsTold
<1>2. FindInv /\ [BangNext]_bangVars => FindInv'
  BY StepTypes, FindStep DEF FindInv
<1>3. FindInv => FindsRoot
  BY ToldIsTarget DEF FindInv, SaidIsTold, FindsRoot
<1> QED BY <1>1, <1>2, <1>3, PTL DEF BangSpec
=============================================================================

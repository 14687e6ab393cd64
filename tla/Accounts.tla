------------------------------ MODULE Accounts ------------------------------
(* `user` and `as` over a system's accounts: who its users are, a file, and *)
(* what each may do, another.  The commands of several sessions run at      *)
(* once; each is a few calls, to the library that reads and writes those    *)
(* files and to the server that says who somebody is, and nothing is held   *)
(* from one call to the next.  A call may fail and a command may be ended.  *)
(*                                                                          *)
(* A user is a name, and what it types as a password is whose it is.        *)
(* Numbers, homes, and the command `as` runs are left out.                  *)
EXTENDS Naturals, FiniteSets

CONSTANTS
  Names,       \* what users are called
  Root,        \* the one a system cannot be without
  Rights,      \* every right there is, which is what `all` names
  Unnamed,     \* those that have no other name
  Become,      \* the right to run a command as another
  Open,        \* users without a password, whom anybody may be
  Procs,       \* the sessions
  MayFail,     \* whether calls fail
  MayEnd,      \* whether commands are ended by who gave them
  MaxCommands, \* how many commands are given
  NoLine, Unread, Nothing

ASSUME AccountsAssumption ==
  /\ Root \in Names /\ Become \in Rights /\ Open \subseteq Names
  /\ Unnamed \subseteq Rights \ {Become}
  /\ {MayFail, MayEnd} \subseteq BOOLEAN /\ MaxCommands \in Nat

Files == [Names -> (SUBSET Rights) \cup {NoLine}]
ASSUME DistinctAssumption ==
  (\A r \in SUBSET Rights : r # NoLine) /\ (\A file \in Files : file # Unread)
Empty == [n \in Names |-> NoLine]

VARIABLES
  passwd,    \* the users there are
  rights,    \* /etc/rights: of each name, what its line says
  pc,        \* where each session's command is
  cmd,       \* what it was given
  seen,      \* the rights it read
  own,       \* whether `as` asks for the caller's own password
  typed,     \* whose password was typed
  ended,     \* how the last command of a session ended
  commands,
  should,    \* what each user was given and not taken back, as a user sees it
  ever,      \* what was ever given to each name
  clean      \* no call failed and no two commands were at work at once
vars == <<passwd, rights, pc, cmd, seen, own, typed, ended, commands,
          should, ever, clean>>
accounts == <<passwd, rights, should, ever>>

(* What a user may do, by a file that was read or that could not be.        *)
RightsOf(file, n) ==
  IF file # Unread /\ file[n] # NoLine THEN file[n]
  ELSE IF n = Root THEN Rights ELSE {}

(* What a line can say of some rights: their names, or `all`.               *)
Words(r) == IF r = Rights THEN Rights ELSE r \ Unnamed

(* The file with a line of its own for a name, or with none.                *)
WithRecord(file, n, line) ==
  [IF file = Unread THEN Empty ELSE file EXCEPT ![n] = line]

Default(n) == IF n = Root THEN Rights ELSE {}

Init ==
  /\ passwd \in {{Root}, Names}
  /\ rights = Empty
  /\ pc = [p \in Procs |-> "idle"]
  /\ cmd = [p \in Procs |-> <<>>]
  /\ seen = [p \in Procs |-> Unread]
  /\ own = [p \in Procs |-> FALSE]
  /\ typed = [p \in Procs |-> Nothing]
  /\ ended = [p \in Procs |-> "not begun"]
  /\ commands = 0
  /\ should = [n \in Names |-> Default(n)]
  /\ ever = should
  /\ clean = TRUE

Begin(p) ==
  /\ pc[p] = "idle" /\ commands < MaxCommands
  /\ commands' = commands + 1
  /\ clean' = (clean /\ \A q \in Procs : pc[q] = "idle")

End(p, how) ==
  /\ pc' = [pc EXCEPT ![p] = "idle"]
  /\ ended' = [ended EXCEPT ![p] = how]
  /\ cmd' = [cmd EXCEPT ![p] = <<>>]
  /\ seen' = [seen EXCEPT ![p] = Unread]
  /\ own' = [own EXCEPT ![p] = FALSE]
  /\ typed' = [typed EXCEPT ![p] = Nothing]

Refuse(p, how) ==
  /\ End(p, how)
  /\ UNCHANGED accounts

-----------------------------------------------------------------------------
(* user add NAME: the library's own, all of it.                             *)
Add(p, n) ==
  /\ Begin(p)
  /\ IF n \in passwd THEN Refuse(p, "taken")
     ELSE /\ passwd' = passwd \cup {n}
          /\ should' = [should EXCEPT ![n] = Default(n)]
          /\ End(p, "done")
          /\ UNCHANGED <<rights, ever>>

(* A mutant: any user can be removed.                                       *)
RemoveAnybody(p, n) ==
  /\ Begin(p)
  /\ IF n \notin passwd THEN Refuse(p, "refused")
     ELSE /\ passwd' = passwd \ {n}
          /\ should' = [should EXCEPT ![n] = {}]
          /\ pc' = [pc EXCEPT ![p] = "remove_read"]
          /\ cmd' = [cmd EXCEPT ![p] = [name |-> n]]
          /\ UNCHANGED <<rights, seen, own, typed, ended, ever>>

(* user remove NAME: the user, then its line in the rights.                 *)
Remove(p, n) ==
  /\ Begin(p)
  /\ IF n = Root \/ n \notin passwd THEN Refuse(p, "refused")
     ELSE /\ passwd' = passwd \ {n}
          /\ should' = [should EXCEPT ![n] = {}]
          /\ pc' = [pc EXCEPT ![p] = "remove_read"]
          /\ cmd' = [cmd EXCEPT ![p] = [name |-> n]]
          /\ UNCHANGED <<rights, seen, own, typed, ended, ever>>

RemoveRead(p) ==
  /\ pc[p] = "remove_read"
  /\ seen' = [seen EXCEPT ![p] = rights]
  /\ pc' = [pc EXCEPT ![p] = "remove_write"]
  /\ UNCHANGED <<accounts, cmd, own, typed, ended, commands, clean>>

(* A file that cannot be read or written is passed over.                    *)
RemoveForgets(p) ==
  /\ pc[p] \in {"remove_read", "remove_write"} /\ MayFail
  /\ End(p, "done")
  /\ clean' = FALSE
  /\ UNCHANGED <<accounts, commands>>

(* A mutant: the line of the user that was removed is left.                 *)
RemoveKeepsLine(p) ==
  /\ pc[p] = "remove_write"
  /\ rights' = seen[p]
  /\ End(p, "done")
  /\ UNCHANGED <<passwd, should, ever, commands, clean>>

RemoveWrite(p) ==
  /\ pc[p] = "remove_write"
  /\ rights' = WithRecord(seen[p], cmd[p].name, NoLine)
  /\ End(p, "done")
  /\ UNCHANGED <<passwd, should, ever, commands, clean>>

(* user NAME may RIGHT..., user NAME may not RIGHT...                       *)
May(p, n, giving, named) ==
  /\ Begin(p)
  /\ IF n \notin passwd THEN Refuse(p, "no user")
     ELSE /\ pc' = [pc EXCEPT ![p] = "may_read"]
          /\ cmd' = [cmd EXCEPT ![p] = [name |-> n, giving |-> giving, named |-> named]]
          /\ UNCHANGED <<accounts, seen, own, typed, ended>>

(* Rights that cannot be read are taken for none at all.                    *)
MayRead(p) ==
  /\ pc[p] = "may_read"
  /\ \/ seen' = [seen EXCEPT ![p] = rights] /\ UNCHANGED clean
     \/ MayFail /\ seen' = [seen EXCEPT ![p] = Unread] /\ clean' = FALSE
  /\ pc' = [pc EXCEPT ![p] = "may_write"]
  /\ UNCHANGED <<accounts, cmd, own, typed, ended, commands>>

(* A mutant: what is taken back is given.                                   *)
AlwaysGives(p) == RightsOf(seen[p], cmd[p].name) \cup cmd[p].named

Now(p) ==
  LET before == RightsOf(seen[p], cmd[p].name)
  IN  IF cmd[p].giving THEN before \cup cmd[p].named ELSE before \ cmd[p].named

MayWrite(p) ==
  /\ pc[p] = "may_write"
  /\ LET n == cmd[p].name
         given == IF cmd[p].giving THEN cmd[p].named ELSE {}
     IN  /\ rights' = WithRecord(seen[p], n, Words(Now(p)))
         /\ should' = [should EXCEPT ![n] = IF cmd[p].giving THEN @ \cup given
                                            ELSE @ \ cmd[p].named]
         /\ ever' = [ever EXCEPT ![n] = @ \cup given]
  /\ End(p, "done")
  /\ UNCHANGED <<passwd, commands, clean>>

-----------------------------------------------------------------------------
(* as USER: who calls, and whose command it is to be.                       *)
As(p, caller, n) ==
  /\ Begin(p)
  /\ IF n \notin passwd THEN Refuse(p, "no user")
     ELSE /\ pc' = [pc EXCEPT ![p] = "as_read"]
          /\ cmd' = [cmd EXCEPT ![p] =
                       [name |-> n, caller |-> caller, mine |-> caller \in passwd]]
          /\ UNCHANGED <<accounts, seen, own, typed, ended>>

AsRead(p) ==
  /\ pc[p] = "as_read"
  /\ \/ seen' = [seen EXCEPT ![p] = rights]
     \/ MayFail /\ seen' = [seen EXCEPT ![p] = Unread]
  /\ own' = [own EXCEPT ![p] =
               cmd[p].mine /\ Become \in RightsOf(seen'[p], cmd[p].caller)]
  /\ pc' = [pc EXCEPT ![p] = IF cmd[p].caller = Root THEN "as_begin" ELSE "as_ask"]
  /\ UNCHANGED <<accounts, cmd, typed, ended, commands, clean>>

Whose(p) == IF own[p] THEN cmd[p].caller ELSE cmd[p].name

(* Whoever is at the terminal takes as long as they like to answer.         *)
AsAsk(p) ==
  /\ pc[p] = "as_ask"
  /\ \/ typed' = [typed EXCEPT ![p] = Nothing] /\ Whose(p) \in Open
     \/ \E w \in Names \cup {Nothing} :
          Whose(p) \notin Open /\ typed' = [typed EXCEPT ![p] = w]
  /\ pc' = [pc EXCEPT ![p] = "as_begin"]
  /\ UNCHANGED <<accounts, cmd, seen, own, ended, commands, clean>>

(* A mutant: the server is not told whose password was asked for.           *)
NotTold(p) == FALSE

(* What the server is told of the command: whether the password is the      *)
(* caller's own.                                                            *)
OwnFlag(p) == own[p] /\ cmd[p].caller # Root

(* The server decides by the accounts as they are when it is asked.         *)
Answer(p) ==
  LET right(w) == typed[p] = w \/ w \in Open
      c == cmd[p].caller
      n == cmd[p].name
  IN  CASE n \notin passwd -> "no user"
        [] n \in passwd /\ c = Root -> "begun"
        [] n \in passwd /\ c # Root /\ OwnFlag(p) ->
             IF Become \notin RightsOf(rights, c) THEN "not allowed"
             ELSE IF right(c) THEN "begun" ELSE "wrong"
        [] OTHER -> IF right(n) THEN "begun" ELSE "wrong"

AsBegin(p) ==
  /\ pc[p] = "as_begin"
  /\ End(p, Answer(p))
  /\ UNCHANGED <<accounts, commands, clean>>

(* A call that fails, where that is looked at, is the end of a command.     *)
Fail(p) ==
  /\ pc[p] \in {"may_write", "as_read", "as_ask", "as_begin"} /\ MayFail
  /\ End(p, "failed")
  /\ clean' = FALSE
  /\ UNCHANGED <<accounts, commands>>

(* A command that is ended where it is, by who gave it.                     *)
Kill(p) ==
  /\ pc[p] # "idle" /\ MayEnd
  /\ End(p, "killed")
  /\ clean' = FALSE
  /\ UNCHANGED <<accounts, commands>>

Next ==
  \E p \in Procs :
    \/ \E n \in Names :
         \/ Add(p, n) \/ Remove(p, n)
         \/ \E giving \in BOOLEAN, named \in {{r} : r \in Rights \ Unnamed} \cup {Rights} :
              May(p, n, giving, named)
         \/ \E caller \in Names : As(p, caller, n)
    \/ RemoveRead(p) \/ RemoveForgets(p) \/ RemoveWrite(p)
    \/ MayRead(p) \/ MayWrite(p)
    \/ AsRead(p) \/ AsAsk(p) \/ AsBegin(p)
    \/ Fail(p) \/ Kill(p)

Spec == Init /\ [][Next]_vars

-----------------------------------------------------------------------------
(* What a session has in hand is of the command it is at: what it was       *)
(* given, the rights only once they are read, whose password it asks for    *)
(* only in `as`, and what was typed only once it has been asked for.        *)
OfItsCommand(p) ==
  /\ pc[p] = "idle" => cmd[p] = <<>>
  /\ pc[p] \in {"remove_read", "remove_write"} => cmd[p] \in [name : Names]
  /\ pc[p] \in {"may_read", "may_write"} =>
       cmd[p] \in [name : Names, giving : BOOLEAN, named : SUBSET Rights]
  /\ pc[p] \in {"as_read", "as_ask", "as_begin"} =>
       cmd[p] \in [name : Names, caller : Names, mine : BOOLEAN]
  /\ pc[p] \in {"idle", "remove_read", "may_read", "as_read"} => seen[p] = Unread
  /\ pc[p] \notin {"as_ask", "as_begin"} => own[p] = FALSE
  /\ pc[p] # "as_begin" => typed[p] = Nothing

(* The state is of its type, the one user a system cannot be without is     *)
(* there, and a command that is not of `as` has asked nobody anything       *)
(* (user/src/main.rs:107-195, as/src/main.rs:101-168).                      *)
TypeOK ==
  /\ passwd \subseteq Names /\ Root \in passwd
  /\ rights \in Files
  /\ pc \in [Procs -> {"idle", "remove_read", "remove_write", "may_read", "may_write",
                       "as_read", "as_ask", "as_begin"}]
  /\ seen \in [Procs -> Files \cup {Unread}]
  /\ own \in [Procs -> BOOLEAN]
  /\ typed \in [Procs -> Names \cup {Nothing}]
  /\ commands \in 0..MaxCommands
  /\ {should, ever} \subseteq [Names -> SUBSET Rights]
  /\ clean \in BOOLEAN
  /\ \A p \in Procs : OfItsCommand(p)

(* Commands given one after the other, none of which fails, leave each user *)
(* what it was given and not taken back: a user of a name that was had      *)
(* before begins with nothing, and nobody else's line changes with one      *)
(* (user/src/main.rs:120-195).  But for what only `all` names: it           *)
(* goes with any right that is taken back.                                  *)
AsGiven ==
  clean /\ (\A p \in Procs : pc[p] = "idle") =>
    \A n \in passwd : RightsOf(rights, n) \ Unnamed = should[n] \ Unnamed

(* Whatever fails, is ended halfway or is at work at once, nobody may do    *)
(* what no command ever gave to that name (user/src/main.rs:147-195).       *)
EverGiven ==
  \A n \in Names : rights[n] # NoLine => rights[n] \subseteq ever[n]

(* Who typed the password that was asked for is never told it is not the    *)
(* password, whatever was given or taken back while they typed: the server  *)
(* is asked about the password `as` asked for (as/src/main.rs:101-168).     *)
SaysWhy ==
  [][\A p \in Procs :
       pc[p] = "as_begin" /\ pc'[p] = "idle" /\ ended'[p] = "wrong"
         => typed[p] # Whose(p)]_vars
=============================================================================

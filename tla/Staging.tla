------------------------------ MODULE Staging ------------------------------
(* What `make stage` does to the stage: the directory that an image is      *)
(* filled from.  It is never emptied.  A make takes out what the last one   *)
(* wrote down of somebody else's builds, installs the trees over what is    *)
(* left, copies in the builds its variables name, and writes down what it   *)
(* copies, in records at the top of the stage.  It may be stopped anywhere, *)
(* by a command of it that fails or by the one who began it; some of its    *)
(* commands it does not look at, and goes on when they fail.                *)
(*                                                                          *)
(* A file is a path; what is in it is told apart only by where it came      *)
(* from.  Directories, stripping and times are left out.                    *)
EXTENDS Naturals, FiniteSets, Sequences, FiniteSetsExt, SequencesExt

CONSTANTS
  Own,        \* what the kernel, the userland and this tree install, in order
  Grows,      \* files the trees may come to install later
  Loose,      \* of all these, those it goes on without when a copy fails:
              \* musl's, and this tree's own programs but the last
  Given,      \* of each source, the files it has, in order
  Overlays,   \* the directories given to stage-overlays.sh, in their order
  Toolchain,  \* those of them that are TOOLCHAIN's
  Twin,       \* of each of coreutils' programs, the name FAT wants of it
  Bin,        \* the files of usr/bin
  AsBin, AsTarget, Cargo, Conf, Hostile,
  Caches,     \* what quark-fc-cache writes, in order
  Names,      \* of each test list, the programs it runs
  OurLists,   \* hostile.tests, selftest.tests and fuzz.tests
  Claims,     \* of each package, in order, what its patterns match
  ListClaims, \* the packages that claim what the test lists run
  MaxUpsets   \* how often a make is stopped, a command fails
              \* or the trees change

None == "none"
Ours == "ours"
Order == <<"coreutils", "clients", "share", "suites">> \o Overlays
VariableOf(s) == IF s = "share" THEN "clients" ELSE s
Sources == Range(Order)
FcCache == "quark-fc-cache"
Variables == {VariableOf(s) : s \in Sources} \cup {FcCache}
Files ==
  UNION {Range(Own), Grows, UNION {Range(Given[s]) : s \in Sources}, Range(Twin),
         Range(Caches), DOMAIN Names, {AsBin, AsTarget, Cargo, Conf, Hostile}}
Records == {".coreutils", ".clients", ".suites", ".overlays"}
RecordOf(s) ==
  CASE s = "coreutils" -> ".coreutils"
    [] s \in {"clients", "share"} -> ".clients"
    [] s = "suites" -> ".suites"
    [] OTHER -> ".overlays"

(* The paths of the recipe are different ones, and usr/bin has none of them *)
(* but the assembler's; no directory is called what the model calls its     *)
(* other sources and its records.                                           *)
ASSUME StagingAssumption ==
  /\ Own \in Seq(Files) /\ Caches \in Seq(Files)
  /\ Overlays \in Seq(STRING) /\ Toolchain \subseteq Range(Overlays)
  /\ Range(Overlays) \cap Records = {}
  /\ Range(Overlays) \cap {"coreutils", "clients", "share", "suites"} = {}
  /\ Range(Overlays) \cap {None, Ours, "cache", "trees"} = {}
  /\ Given \in [Sources -> Seq(Files)]
  /\ AsBin \in (Range(Own) \cap Bin) \ Loose
  /\ Cargo \notin Range(Own) \cup Grows
  /\ (Bin \cup Range(Caches)) \cap {AsTarget, Cargo, Conf, Hostile} = {}
  /\ Bin \cap Range(Caches) = {}
  /\ AsTarget \notin {Cargo, Conf, Hostile} /\ Cargo # Conf
  /\ Hostile \notin {Cargo, Conf} /\ Hostile \in OurLists
  /\ Names \in [DOMAIN Names -> SUBSET Bin]
  /\ Claims \in Seq(SUBSET Files) /\ Claims # <<>> /\ Last(Claims) = Files
  /\ ListClaims \subseteq DOMAIN Claims
  /\ MaxUpsets \in Nat

(* coreutils' programs have a name for FAT each, NAME.ELF, which is none of *)
(* theirs and none of what this tree builds itself (Makefile:35,153-162).   *)
ASSUME TwinAssumption ==
  /\ Range(Given["coreutils"]) \subseteq Bin \cap DOMAIN Twin
  /\ Range(Twin) \subseteq Bin \ (Range(Given["coreutils"]) \cup Loose)

(* The list of a suite runs the suite's programs.                           *)
ASSUME ListsAssumption ==
  \A l \in (DOMAIN Names) \ OurLists : Names[l] \cap (Range(Own) \cup Grows) = {}

VARIABLES
  stage,   \* of each file, where what is in it came from
  rec,     \* of each record, the files it names, a line each
  own,     \* what the trees install now
  asked,   \* what the make there is has: the variables that name something,
           \* and the host's quark-fc-cache
  step,    \* where it is
  queue,   \* the lists of files it has to go through there, in order
  todo,    \* what it has not come to of the first
  fresh,   \* the files it has copied and not written down
  stray,   \* the files it copied and, stopped or unable to, never wrote down
  missed,  \* the files it went on without: it could not copy them or write
           \* them down, a stopped one had left something in their place, or
           \* they went out with coreutils' of the make before
  lists,   \* of each file a package has, which package, once it has written it
  upsets
vars == <<stage, rec, own, asked, step, queue, todo, fresh, stray, missed, lists, upsets>>

WithToolchain == asked \cap Toolchain # {}
Staged == {f \in Files : stage[f] # None}

(* The order of the recipe, and what it goes through at each step of it.    *)
Then(s) ==
  CASE s = "forget" -> "install"
    [] s = "install" -> "coreutils"
    [] s = "coreutils" -> "copy"
    [] s = "copy" -> "as"
    [] s = "as" -> "cargo"
    [] s = "cargo" -> "caches"
    [] s = "caches" -> "hostile"
    [] s = "hostile" -> "packages"
    [] s = "packages" -> "done"

(* A mutant: what was written down is taken out after the installs.         *)
ForgetsLate(s) ==
  IF s = "coreutils" THEN <<".clients", ".suites", ".overlays", ".coreutils">>
  ELSE <<>>

Forgets(s) ==
  CASE s = "forget" -> <<".clients", ".suites", ".overlays">>
    [] s = "coreutils" -> <<".coreutils">>
    [] OTHER -> <<>>

QueueOf(s) ==
  CASE s = "install" -> <<"trees">>
    [] s = "copy" -> Order
    [] OTHER -> Forgets(s)

(* Of a source that no variable names, nothing.                             *)
Lines(q) ==
  CASE q = <<>> -> <<>>
    [] q # <<>> /\ Head(q) = "trees" -> own
    [] q # <<>> /\ Head(q) \in Records -> rec[Head(q)]
    [] q # <<>> /\ Head(q) \in Sources ->
         IF VariableOf(Head(q)) \in asked THEN Given[Head(q)] ELSE <<>>

Enter(s) == step' = s /\ queue' = QueueOf(s) /\ todo' = Lines(QueueOf(s))
NextList == queue' = Tail(queue) /\ todo' = Lines(Tail(queue))

Init ==
  /\ stage = [f \in Files |-> None]
  /\ rec = [r \in Records |-> <<>>]
  /\ own = Own
  /\ asked = {}
  /\ step = "idle"
  /\ queue = <<>> /\ todo = <<>>
  /\ fresh = {} /\ stray = {} /\ missed = {}
  /\ lists = <<>>
  /\ upsets = 0

Make ==
  /\ step \in {"idle", "done"}
  /\ asked' \in SUBSET Variables
  /\ missed' = {} /\ lists' = <<>>
  /\ Enter("forget")
  /\ UNCHANGED <<stage, rec, own, fresh, stray, upsets>>

(* A step of the recipe that has nothing more to go through.                *)
StepDone ==
  /\ step \in {"forget", "install", "coreutils", "copy"} /\ queue = <<>>
  /\ Enter(Then(step))
  /\ UNCHANGED <<stage, rec, own, asked, fresh, stray, missed, lists, upsets>>

-----------------------------------------------------------------------------
(* Taking out what is written down: of the clients, the suites and the      *)
(* overlays before the installs, of coreutils when its turn comes.          *)
Forgetting == step \in {"forget", "coreutils"} /\ queue # <<>>

(* coreutils' come out after the installs, by name: what the trees have     *)
(* come to install under one of those names goes with them.                 *)
RemoveFile ==
  /\ Forgetting /\ todo # <<>>
  /\ stage' = [stage EXCEPT ![Head(todo)] = None]
  /\ todo' = Tail(todo)
  /\ stray' = stray \ {Head(todo)}
  /\ missed' = missed \cup
       (IF Head(queue) = ".coreutils" THEN {Head(todo)} \cap Range(own) ELSE {})
  /\ UNCHANGED <<rec, own, asked, step, queue, fresh, lists, upsets>>

RemoveRecord ==
  /\ Forgetting /\ todo = <<>>
  /\ rec' = [rec EXCEPT ![Head(queue)] = <<>>]
  /\ NextList
  /\ UNCHANGED <<stage, own, asked, step, fresh, stray, missed, lists, upsets>>

Install ==
  /\ step = "install" /\ todo # <<>>
  /\ stage' = [stage EXCEPT ![Head(todo)] = Ours]
  /\ todo' = Tail(todo)
  /\ queue' = IF todo' = <<>> THEN <<>> ELSE queue
  /\ stray' = stray \ {Head(todo)}
  /\ UNCHANGED <<rec, own, asked, step, fresh, missed, lists, upsets>>

(* A copy that nobody looks at: what was there is there still, or a part of *)
(* the file.                                                                *)
InstallFails ==
  /\ step = "install" /\ todo # <<>> /\ Head(todo) \in Loose
  /\ upsets < MaxUpsets /\ upsets' = upsets + 1
  /\ \E c \in {stage[Head(todo)], Ours} : stage' = [stage EXCEPT ![Head(todo)] = c]
  /\ todo' = Tail(todo)
  /\ queue' = IF todo' = <<>> THEN <<>> ELSE queue
  /\ missed' = missed \cup {Head(todo)}
  /\ UNCHANGED <<rec, own, asked, step, fresh, stray, lists>>

-----------------------------------------------------------------------------
(* Copying a source in.  The data of the clients is copied as a whole and   *)
(* then written down; anything else is written down file by file.           *)
Copying == step = "copy" /\ queue # <<>>
Whole == {"share"}

(* A mutant: only the name a program is staged by is looked at.             *)
KeptByName(s, f) == s = "coreutils" /\ stage[f] # None

(* Of coreutils, what there is under either name stays as it is.            *)
Kept(s, f) == s = "coreutils" /\ (stage[f] # None \/ stage[Twin[f]] # None)

Keep ==
  /\ Copying /\ fresh = {} /\ todo # <<>>
  /\ Kept(Head(queue), Head(todo))
  /\ todo' = Tail(todo)
  /\ missed' = IF stage[Head(todo)] = None /\ Twin[Head(todo)] \in stray
               THEN missed \cup {Head(todo)} ELSE missed
  /\ UNCHANGED <<stage, rec, own, asked, step, queue, fresh, stray, lists, upsets>>

Copy ==
  /\ Copying /\ todo # <<>>
  /\ Head(queue) \in Whole \/ fresh = {}
  /\ ~Kept(Head(queue), Head(todo))
  /\ stage' = [stage EXCEPT ![Head(todo)] = Head(queue)]
  /\ todo' = Tail(todo)
  /\ fresh' = fresh \cup {Head(todo)}
  /\ stray' = stray \ {Head(todo)}
  /\ UNCHANGED <<rec, own, asked, step, queue, missed, lists, upsets>>

(* The loops over the clients and the suites do not look at whether a copy  *)
(* was made: the file, or the part of it there is, is written down, and the *)
(* make goes on without it.                                                 *)
PassedOver == {"clients", "share", "suites"}

CopyFails ==
  /\ Copying /\ todo # <<>> /\ Head(queue) \in PassedOver
  /\ Head(queue) \in Whole \/ fresh = {}
  /\ upsets < MaxUpsets /\ upsets' = upsets + 1
  /\ \E c \in {stage[Head(todo)], Head(queue)} :
       stage' = [stage EXCEPT ![Head(todo)] = c]
  /\ todo' = Tail(todo)
  /\ fresh' = fresh \cup {Head(todo)}
  /\ missed' = missed \cup {Head(todo)}
  /\ UNCHANGED <<rec, own, asked, step, queue, stray, lists>>

WriteDown ==
  /\ Copying /\ fresh # {}
  /\ Head(queue) \in Whole => todo = <<>>
  /\ rec' = [rec EXCEPT ![RecordOf(Head(queue))] = @ \o SetToSeq(fresh)]
  /\ fresh' = {}
  /\ UNCHANGED <<stage, own, asked, step, queue, todo, stray, missed, lists, upsets>>

(* A line that could not be added to a record: they do not look at that     *)
(* either, nor does what moves the assembler.                               *)
WriteDownFails ==
  /\ fresh # {}
  /\ \/ /\ Copying /\ Head(queue) \in PassedOver
        /\ Head(queue) \in Whole => todo = <<>>
     \/ step = "as"
  /\ upsets < MaxUpsets /\ upsets' = upsets + 1
  /\ stray' = stray \cup fresh
  /\ missed' = missed \cup fresh
  /\ fresh' = {}
  /\ UNCHANGED <<stage, rec, own, asked, step, queue, todo, lists>>

NextSource ==
  /\ Copying /\ fresh = {} /\ todo = <<>>
  /\ NextList
  /\ UNCHANGED <<stage, rec, own, asked, step, fresh, stray, missed, lists, upsets>>

-----------------------------------------------------------------------------
(* An assembler that came as usr/bin/as goes where gcc looks for it first,  *)
(* and this system's own program of that name comes back.  Of the commands  *)
(* only the last is looked at: where the move fails, what comes back is     *)
(* copied over the assembler.                                               *)
AsReplaced == WithToolchain /\ stage[AsBin] # Ours

MoveAs ==
  /\ step = "as" /\ queue = <<>> /\ AsReplaced /\ stage[AsBin] # None
  /\ stage' = [stage EXCEPT ![AsTarget] = stage[AsBin], ![AsBin] = None]
  /\ fresh' = {AsTarget} /\ queue' = <<"as">>
  /\ stray' = stray \ {AsBin, AsTarget}
  /\ UNCHANGED <<rec, own, asked, step, todo, missed, lists, upsets>>

MoveAsFails ==
  /\ step = "as" /\ queue = <<>> /\ AsReplaced
  /\ upsets < MaxUpsets /\ upsets' = upsets + 1
  /\ fresh' = {AsTarget} /\ queue' = <<"as">>
  /\ missed' = missed \cup {AsTarget}
  /\ UNCHANGED <<stage, rec, own, asked, step, todo, stray, lists>>

(* A mutant: the assembler's new place is not written down.                 *)
AsNotWritten ==
  /\ step = "as" /\ fresh # {}
  /\ fresh' = {}
  /\ UNCHANGED <<stage, rec, own, asked, step, queue, todo, stray, missed, lists, upsets>>

WriteDownAs ==
  /\ step = "as" /\ fresh # {}
  /\ rec' = [rec EXCEPT ![".overlays"] = @ \o SetToSeq(fresh)]
  /\ fresh' = {}
  /\ UNCHANGED <<stage, own, asked, step, queue, todo, stray, missed, lists, upsets>>

PutAsBack ==
  /\ step = "as" /\ queue # <<>> /\ fresh = {}
  /\ stage' = [stage EXCEPT ![AsBin] = Ours]
  /\ stray' = stray \ {AsBin}
  /\ queue' = <<>>
  /\ UNCHANGED <<rec, own, asked, step, todo, fresh, missed, lists, upsets>>

AsDone ==
  /\ step = "as" /\ queue = <<>> /\ ~AsReplaced
  /\ step' = Then(step)
  /\ UNCHANGED <<stage, rec, own, asked, queue, todo, fresh, stray, missed, lists, upsets>>

CargoConfig ==
  /\ step = "cargo"
  /\ stage' = [stage EXCEPT ![Cargo] = IF WithToolchain THEN Ours ELSE None]
  /\ step' = Then(step)
  /\ UNCHANGED <<rec, own, asked, queue, todo, fresh, stray, missed, lists, upsets>>

(* The font caches: what is there goes, quark-fc-cache writes them all, and *)
(* then they are written down.  Nothing where there is no configuration, or *)
(* no quark-fc-cache.                                                       *)
MakesCaches == stage[Conf] # None /\ FcCache \in asked

ClearCaches ==
  /\ step = "caches" /\ queue = <<>> /\ MakesCaches
  /\ stage' = [f \in Files |-> IF f \in Range(Caches) THEN None ELSE stage[f]]
  /\ stray' = stray \ Range(Caches)
  /\ queue' = <<"caches">> /\ todo' = Caches
  /\ UNCHANGED <<rec, own, asked, step, fresh, missed, lists, upsets>>

WriteCache ==
  /\ step = "caches" /\ todo # <<>>
  /\ stage' = [stage EXCEPT ![Head(todo)] = "cache"]
  /\ todo' = Tail(todo)
  /\ fresh' = fresh \cup {Head(todo)}
  /\ UNCHANGED <<rec, own, asked, step, queue, stray, missed, lists, upsets>>

WriteDownCaches ==
  /\ step = "caches" /\ queue # <<>> /\ todo = <<>>
  /\ rec' = [rec EXCEPT ![".overlays"] = @ \o SetToSeq(fresh)]
  /\ fresh' = {} /\ queue' = <<>>
  /\ step' = Then(step)
  /\ UNCHANGED <<stage, own, asked, todo, stray, missed, lists, upsets>>

NoCaches ==
  /\ step = "caches" /\ ~MakesCaches
  /\ step' = Then(step)
  /\ UNCHANGED <<stage, rec, own, asked, queue, todo, fresh, stray, missed, lists, upsets>>

(* The list of every program with arguments nobody would give it.           *)
WriteHostile ==
  /\ step = "hostile"
  /\ stage' = [stage EXCEPT ![Hostile] = Ours]
  /\ step' = Then(step)
  /\ UNCHANGED <<rec, own, asked, queue, todo, fresh, stray, missed, lists, upsets>>

-----------------------------------------------------------------------------
(* Whose every file is.  What hostile.tests runs is every program there is. *)
Runs(l) == IF l = Hostile THEN Bin \cap Staged ELSE Names[l]
(* A mutant: every list of tests claims what it runs.                       *)
ListedByAny ==
  UNION {Runs(l) : l \in Staged \cap (DOMAIN Names \cup {Hostile})}
Listed ==
  UNION {Runs(l) : l \in (Staged \cap (DOMAIN Names \cup {Hostile})) \ OurLists}
Claimed(p, f) ==
  \/ f \in Claims[p]
  \/ p \in ListClaims /\ f \in Bin /\ f \in Listed
PackageOf(f) == Min({p \in DOMAIN Claims : Claimed(p, f)})

WritePackages ==
  /\ step = "packages"
  /\ lists' = [f \in Staged |-> PackageOf(f)]
  /\ step' = Then(step)
  /\ UNCHANGED <<stage, rec, own, asked, queue, todo, fresh, stray, missed, upsets>>

-----------------------------------------------------------------------------
(* A mutant: the next make takes up what a stopped one had in hand.         *)
StopHolding ==
  /\ step \notin {"idle", "done"} /\ upsets < MaxUpsets
  /\ upsets' = upsets + 1
  /\ todo' = <<>> /\ queue' = <<>>
  /\ step' = "idle"
  /\ UNCHANGED <<stage, rec, own, asked, fresh, stray, missed, lists>>

(* A make that is stopped, or a command of it that fails.                   *)
Stop ==
  /\ step \notin {"idle", "done"} /\ upsets < MaxUpsets
  /\ upsets' = upsets + 1
  /\ stray' = stray \cup fresh
  /\ fresh' = {} /\ todo' = <<>> /\ queue' = <<>>
  /\ step' = "idle"
  /\ UNCHANGED <<stage, rec, own, asked, missed, lists>>

(* The trees are other repositories: between two makes they may have come   *)
(* to install more.                                                         *)
TreesGrow ==
  /\ step \in {"idle", "done"} /\ upsets < MaxUpsets
  /\ upsets' = upsets + 1
  /\ \E f \in Grows \ Range(own) : own' = Append(own, f)
  /\ step' = "idle"
  /\ UNCHANGED <<stage, rec, asked, queue, todo, fresh, stray, missed, lists>>

Next ==
  \/ Make \/ StepDone \/ RemoveFile \/ RemoveRecord \/ Install \/ InstallFails
  \/ Keep \/ Copy \/ CopyFails \/ WriteDown \/ WriteDownFails \/ NextSource
  \/ MoveAs \/ MoveAsFails \/ WriteDownAs \/ PutAsBack \/ AsDone \/ CargoConfig
  \/ ClearCaches \/ WriteCache \/ WriteDownCaches \/ NoCaches
  \/ WriteHostile \/ WritePackages
  \/ Stop \/ TreesGrow

Spec == Init /\ [][Next]_vars

-----------------------------------------------------------------------------
(* The state is of its type, and what a copy needs to know is there only    *)
(* while it copies: what a make that was stopped had in hand is not taken   *)
(* up by the next one (Makefile:134-254).                                   *)
TypeOK ==
  /\ stage \in [Files -> Sources \cup {None, Ours, "cache"}]
  /\ rec \in [Records -> Seq(Files)]
  /\ own \in Seq(Files) /\ Range(Own) \subseteq Range(own)
  /\ asked \subseteq Variables
  /\ todo \in Seq(Files) /\ stray \subseteq Files
  /\ missed \subseteq Files
  /\ fresh \subseteq Staged \cup missed
  /\ fresh # {} => step \in {"copy", "as", "caches"}
  /\ queue # <<>> => step \in {"forget", "install", "coreutils", "copy", "as", "caches"}
  /\ todo # <<>> => queue # <<>>
  /\ upsets \in 0..MaxUpsets

(* What a make with the variables `a` leaves of a stage that was empty: the *)
(* last source that has a file has it, coreutils only where this system has *)
(* neither name, and what follows the copies.                               *)
Copies(a, i, f) ==
  /\ VariableOf(Order[i]) \in a
  /\ f \in Range(Given[Order[i]])
  /\ Order[i] # "coreutils" \/ {f, Twin[f]} \cap Range(own) = {}

CopiedFrom(a, f) ==
  LET having == {i \in DOMAIN Order : Copies(a, i, f)}
  IN  IF having # {} THEN Order[Max(having)]
      ELSE IF f \in Range(own) THEN Ours ELSE None

FromNothing(a) ==
  LET tools == a \cap Toolchain # {}
      moved == tools /\ CopiedFrom(a, AsBin) # Ours
  IN [f \in Files |->
        IF moved /\ f = AsBin THEN Ours
        ELSE IF moved /\ f = AsTarget THEN CopiedFrom(a, AsBin)
        ELSE IF f = Cargo THEN IF tools THEN Ours ELSE None
        ELSE IF f \in Range(Caches) /\ CopiedFrom(a, Conf) # None /\ FcCache \in a
             THEN "cache"
        ELSE IF f = Hostile THEN Ours
        ELSE CopiedFrom(a, f)]

(* Files this make went on without, and files that were never written down, *)
(* by it or by one that was stopped.  With the fonts' configuration among   *)
(* them the caches are too, and with usr/bin/as the assembler's other       *)
(* place.                                                                   *)
Touched ==
  stray \cup missed
    \cup (IF Conf \in stray \cup missed THEN Range(Caches) ELSE {})
    \cup (IF AsBin \in missed THEN {AsTarget} ELSE {})

(* A stage made with some variables is the one they would make of nothing:  *)
(* no file of an earlier make's variables is in it and none is missing,     *)
(* wherever earlier makes were stopped and whatever commands failed, but    *)
(* for the files such a make had in hand, those this one passed over and    *)
(* those it took out by name after the installs (tools/stage-forget.sh:9-12). *)
AsFromNothing ==
  step = "done" =>
    \A f \in Files \ Touched : stage[f] = FromNothing(asked)[f]

(* What is somebody else's in the stage is written down, in hand, or was in *)
(* the hand of a make that was stopped or could not write it down: no other *)
(* step of any order of makes loses sight of a file (the records,           *)
(* tools/stage-forget.sh:7-8).                                              *)
WrittenDown ==
  \A f \in Files :
    stage[f] \in Sources \cup {"cache"} =>
      f \in (UNION {Range(rec[r]) : r \in Records}) \cup fresh \cup stray

(* A file of this system's is in every stage that is made, whatever had     *)
(* replaced it in earlier ones (tools/stage-overlays.sh:8-11), but for one  *)
(* the make went on without: a copy of it failed and nobody looked          *)
(* (Makefile:153-162), or the trees had come to install it under the name   *)
(* of a program of coreutils' (tools/stage-coreutils.sh:34-39).             *)
OursThere ==
  step = "done" => \A f \in Range(own) \ missed : stage[f] # None

(* The lists describe the stage they are in, and a program of this system's *)
(* that no pattern gives away is the last package's: no list of tests takes *)
(* it (tools/stage-packages.py:83-89).                                      *)
ListsDescribe ==
  step = "done" =>
    /\ DOMAIN lists = Staged
    /\ \A f \in Staged :
         stage[f] = Ours /\ (\A p \in DOMAIN Claims : f \in Claims[p] => p = Len(Claims))
           => lists[f] = Len(Claims)
=============================================================================

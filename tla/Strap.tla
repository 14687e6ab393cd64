-------------------------------- MODULE Strap --------------------------------
(***************************************************************************)
(* `qpkg strap ROOT SET...`: one system makes another by copying the       *)
(* packages of the sets asked for, file by file and then list by list,     *)
(* into a root mounted at ROOT (programs/qpkg/src/main.rs, `strap`).       *)
(*                                                                         *)
(* Every call to the file server that changes the new root is a step, so   *)
(* a call that fails, a machine that stops and a second attempt over what  *)
(* the first one left can come between any two.  The file server itself is *)
(* external: a change is answered at once and is on the disk for certain   *)
(* only after a `sync`; until then a crash may keep it, lose it or keep    *)
(* half of it.                                                             *)
(***************************************************************************)
EXTENDS Integers, Sequences

CONSTANTS
  NPackages,  \* packages in /var/lib/qpkg, numbered in the order of their names
  Name,       \* the name of each
  Lines,      \* what each list says: a sequence of [kind, path]
  SetOf,      \* the set each belongs to
  Asked,      \* the sets on the command line
  Files,      \* the paths of files, links and lists
  Dirs,       \* the paths of directories
  DB,         \* the directory the lists are in, `DB`
  NameLen,    \* how long each directory's name is, in bytes
  DirsMax,    \* the room for remembered names, `DIRS_MAX`
  MaxRuns,    \* bound: how often the command is run
  Faults      \* which calls may fail, and whether the machine may stop

(* A path is the sequence of its names; / is the empty one. *)
RootDir == << >>
Packages == 1..NPackages
DirOf(path) == SubSeq(path, 1, Len(path) - 1)
Prefix(path, k) == SubSeq(path, 1, k)
ListOf(p) == Append(DB, Name[p])
FaultKinds == {"names", "load", "call", "attr", "times", "sync", "crash"}

ASSUME StrapAssumption ==
  /\ NPackages \in Nat
  /\ DirsMax \in Nat
  /\ MaxRuns \in Nat \ {0}
  /\ Faults \subseteq FaultKinds
  /\ Dirs \subseteq Seq(STRING)
  /\ Files \subseteq Seq(STRING) /\ Files \cap Dirs = {}
  /\ RootDir \in Dirs /\ DB \in Dirs
  /\ \A d \in Dirs : \A k \in 0..Len(d) : Prefix(d, k) \in Dirs
  /\ \A f \in Files : Len(f) > 0 /\ DirOf(f) \in Dirs
  /\ NameLen \in [Dirs -> Nat]
  /\ Lines \in [Packages -> Seq([kind : {"dir", "file", "link"},
                                 path : Dirs \cup Files])]
  /\ \A p \in Packages : \A n \in 1..Len(Lines[p]) :
       Lines[p][n].path \in IF Lines[p][n].kind = "dir" THEN Dirs ELSE Files
  /\ \A p \in Packages : ListOf(p) \in Files

FilesOf(p) == {Lines[p][n].path : n \in {m \in 1..Len(Lines[p]) : Lines[p][m].kind # "dir"}}
DirsOf(p) == {Lines[p][n].path : n \in {m \in 1..Len(Lines[p]) : Lines[p][m].kind = "dir"}}

(* A file is in one package at most, and no package has a list in it: what *)
(* tools/stage-packages.py makes of a root.                                 *)
ASSUME OnePackageEach ==
  \A p, q \in Packages :
    /\ ListOf(p) \notin FilesOf(q)
    /\ p # q => ListOf(p) # ListOf(q) /\ FilesOf(p) \cap FilesOf(q) = {}

VARIABLES
  pc,       \* what `strap` does next
  names,    \* the packages `Names::read` found
  pkg,      \* the package being put in, `i`
  line,     \* the line of its list; one past the last is the list itself
  at,       \* how much of a directory's path `make_dirs` has made
  dirs,     \* the directories remembered for their times, in order
  dirs_len, \* how much of the room for their names is used
  nth,      \* the remembered directory whose times are next
  said,     \* what the last run told its user
  runs,     \* how often the command has been run
  file,     \* each file of the new root
  mode,     \* each directory's mode there, or that there is none
  stamp,    \* whether a directory's times are those it has here
  disk,     \* [file, mode, stamp] as last synced
  touched   \* paths changed since then

here == <<pc, names, pkg, line, at, dirs, dirs_len, nth, said, runs>>
there == <<file, mode, stamp, disk, touched>>
vars == <<here, there>>

(* A file that is not there, opened and truncated or half written, whole   *)
(* but with the mode a new file gets, whole with its mode and times.       *)
FileStates == {"absent", "part", "data", "whole"}
(* A directory that is not there, with the mode of a new one, with the     *)
(* mode it has in the running system, with the mode its list gives.        *)
ModeStates == {"absent", "new", "here", "list"}

AtLine == line <= Len(Lines[pkg])
Line == Lines[pkg][line]
Current == IF AtLine THEN Line.path ELSE ListOf(pkg)
IsDirLine == AtLine /\ Line.kind = "dir"
IsLink == AtLine /\ Line.kind = "link"
MakingDir == IF IsDirLine THEN Line.path ELSE DirOf(Current)

(* in_set(said(list, "set")) *)
Wanted(p) == SetOf[p] \in Asked

-----------------------------------------------------------------------------
(* The new root is a filesystem just made and mounted. *)
Init ==
  /\ pc = "start" /\ names = {} /\ pkg = 1 /\ line = 1 /\ at = 0
  /\ dirs = << >> /\ dirs_len = 0 /\ nth = 1
  /\ said = "nothing" /\ runs = 1
  /\ file = [f \in Files |-> "absent"]
  /\ mode = [d \in Dirs |-> IF d = RootDir THEN "new" ELSE "absent"]
  /\ stamp = [d \in Dirs |-> "new"]
  /\ disk = [file |-> file, mode |-> mode, stamp |-> stamp]
  /\ touched = {}

(* `fail`: say so and exit 1. *)
Exit(what) == pc' = "end" /\ said' = what

(* ROOT is a directory and not this system's own root; then Names::read,   *)
(* which stops short, with what it has, when the directory cannot be read. *)
ReadNames ==
  /\ pc = "start"
  /\ names' \in IF "names" \in Faults THEN SUBSET Packages ELSE {Packages}
  /\ pc' = "sets"
  /\ UNCHANGED <<pkg, line, at, dirs, dirs_len, nth, said, runs, there>>

(* Every set asked for has to be one some package is in.  A list that      *)
(* cannot be read is of no set.                                            *)
CheckSets ==
  /\ pc = "sets"
  /\ \/ /\ \A s \in Asked : \E p \in names : SetOf[p] = s
        /\ pc' = "package" /\ UNCHANGED said
     \/ /\ \/ \E s \in Asked : \A p \in names : SetOf[p] # s
           \/ "load" \in Faults
        /\ Exit("failed")
  /\ UNCHANGED <<names, pkg, line, at, dirs, dirs_len, nth, runs, there>>

-----------------------------------------------------------------------------
(* The loop over the packages. *)
TakePackage ==
  /\ pc = "package" /\ pkg \in names /\ Wanted(pkg)
  /\ pc' = "line" /\ line' = 1
  /\ UNCHANGED <<names, pkg, at, dirs, dirs_len, nth, said, runs, there>>

(* Not seen, of another set, or its list cannot be read now. *)
SkipPackage ==
  /\ pc = "package" /\ pkg \in Packages
  /\ \/ pkg \notin names
     \/ ~Wanted(pkg)
     \/ "load" \in Faults
  /\ pkg' = pkg + 1
  /\ UNCHANGED <<pc, names, line, at, dirs, dirs_len, nth, said, runs, there>>

NoMorePackages ==
  /\ pc = "package" /\ pkg > NPackages
  /\ pc' = "times"
  /\ UNCHANGED <<names, pkg, line, at, dirs, dirs_len, nth, said, runs, there>>

(* The line, or the list, is done with: the next line, the list itself, or *)
(* the next package.                                                       *)
Advance ==
  IF AtLine
    THEN pc' = "line" /\ line' = line + 1 /\ UNCHANGED pkg
    ELSE pc' = "package" /\ pkg' = pkg + 1 /\ UNCHANGED line

Remembered == IF dirs = << >> THEN << >> ELSE <<dirs[Len(dirs)]>>
(* A file in the directory the last file went to needs no directory made. *)
SameDirectory == AtLine /\ ~IsDirLine /\ Remembered = <<DirOf(Current)>>

TakeLine ==
  /\ pc = "line"
  /\ pc' = IF SameDirectory THEN "copy" ELSE "mkdir"
  /\ at' = 0
  /\ UNCHANGED <<names, pkg, line, dirs, dirs_len, nth, said, runs, there>>

-----------------------------------------------------------------------------
(* make_dirs: each directory down to the one wanted, with the mode the     *)
(* directory of that name has here.  One that exists is left as it is.     *)
GiveNewDir(d, m) ==
  /\ mode' = [mode EXCEPT ![d] = m]
  /\ stamp' = [stamp EXCEPT ![d] = "new", ![DirOf(d)] = "new"]
  /\ touched' = touched \cup {d, DirOf(d)}

(* mkdir, and lstat and set_attr whose failure is passed over. *)
MakesDirsAgain ==
  /\ pc = "mkdir" /\ at < Len(MakingDir)
  /\ at' = at + 1
  /\ GiveNewDir(Prefix(MakingDir, at + 1), "here")
  /\ UNCHANGED <<pc, names, pkg, line, dirs, dirs_len, nth, said, runs, file, disk>>
MakeDirs ==
  LET d == Prefix(MakingDir, at + 1) IN
  /\ pc = "mkdir" /\ at < Len(MakingDir)
  /\ at' = at + 1
  /\ IF mode[d] # "absent"
       THEN UNCHANGED <<mode, stamp, touched>>
       ELSE \E m \in {"here"} \cup IF "attr" \in Faults THEN {"new"} ELSE {} :
              GiveNewDir(d, m)
  /\ UNCHANGED <<pc, names, pkg, line, dirs, dirs_len, nth, said, runs, file, disk>>

(* `d MODE PATH`: the directory is made, now its mode. *)
SetDirMode ==
  /\ pc = "mkdir" /\ at = Len(MakingDir) /\ IsDirLine
  /\ mode' = [mode EXCEPT ![Line.path] = "list"]
  /\ touched' = touched \cup {Line.path}
  /\ Advance
  /\ UNCHANGED <<names, at, dirs, dirs_len, nth, said, runs, file, stamp, disk>>

(* The directory a file goes to is made, and remembered where there is     *)
(* room for its name; the one the lists go to is not remembered.           *)
RemembersAnyway(d) == dirs' = Append(dirs, d) /\ dirs_len' = dirs_len + NameLen[d] + 1
Forgets(d) == UNCHANGED <<dirs, dirs_len>>
Remember(d) ==
  IF dirs_len + NameLen[d] + 1 <= DirsMax
    THEN dirs' = Append(dirs, d) /\ dirs_len' = dirs_len + NameLen[d] + 1
    ELSE UNCHANGED <<dirs, dirs_len>>

DirMade ==
  /\ pc = "mkdir" /\ at = Len(MakingDir) /\ ~IsDirLine
  /\ IF AtLine THEN Remember(MakingDir) ELSE UNCHANGED <<dirs, dirs_len>>
  /\ pc' = "copy"
  /\ UNCHANGED <<names, pkg, line, at, nth, said, runs, there>>

-----------------------------------------------------------------------------
(* copy *)
Entry(f) == stamp' = [stamp EXCEPT ![DirOf(f)] = "new"]

(* A link: what has its name is unlinked, and it is made again. *)
CopyLink ==
  /\ pc = "copy" /\ IsLink
  /\ file' = [file EXCEPT ![Current] = "whole"]
  /\ Entry(Current)
  /\ touched' = touched \cup {Current, DirOf(Current)}
  /\ Advance
  /\ UNCHANGED <<names, at, dirs, dirs_len, nth, said, runs, mode, disk>>

LinkRefused ==
  /\ pc = "copy" /\ IsLink /\ "call" \in Faults
  /\ file[Current] # "absent"
  /\ file' = [file EXCEPT ![Current] = "absent"]
  /\ Entry(Current)
  /\ touched' = touched \cup {Current, DirOf(Current)}
  /\ Exit("failed")
  /\ UNCHANGED <<names, pkg, line, at, dirs, dirs_len, nth, runs, mode, disk>>

(* OPEN_CREATE | OPEN_TRUNCATE *)
OpenFile ==
  /\ pc = "copy" /\ ~IsLink
  /\ file' = [file EXCEPT ![Current] = "part"]
  /\ IF file[Current] = "absent"
       THEN Entry(Current) /\ touched' = touched \cup {Current, DirOf(Current)}
       ELSE UNCHANGED stamp /\ touched' = touched \cup {Current}
  /\ pc' = "write"
  /\ UNCHANGED <<names, pkg, line, at, dirs, dirs_len, nth, said, runs, mode, disk>>

(* Read and written to its end (module CopyLoop). *)
WriteFile ==
  /\ pc = "write"
  /\ file' = [file EXCEPT ![Current] = "data"]
  /\ touched' = touched \cup {Current}
  /\ pc' = "attr"
  /\ UNCHANGED <<names, pkg, line, at, dirs, dirs_len, nth, said, runs, mode, stamp, disk>>

(* Owner, mode and times. *)
SetAttr ==
  /\ pc = "attr"
  /\ file' = [file EXCEPT ![Current] = "whole"]
  /\ touched' = touched \cup {Current}
  /\ Advance
  /\ UNCHANGED <<names, at, dirs, dirs_len, nth, said, runs, mode, stamp, disk>>

RefusedGoesOn ==
  /\ pc \in {"copy", "write", "attr"} /\ "call" \in Faults
  /\ Advance
  /\ UNCHANGED <<names, at, dirs, dirs_len, nth, said, runs, there>>
(* A call to the file server is refused: say which, and exit 1 with the    *)
(* new root as it is.                                                      *)
Refused ==
  /\ pc \in {"start", "mkdir", "copy", "write", "attr"} /\ "call" \in Faults
  /\ pc = "mkdir" => at < Len(MakingDir) \/ IsDirLine
  /\ Exit("failed")
  /\ UNCHANGED <<names, pkg, line, at, dirs, dirs_len, nth, runs, there>>

-----------------------------------------------------------------------------
(* When every file is there: each remembered directory's times.  A failure *)
(* is passed over.                                                         *)
RestoreTimes ==
  /\ pc = "times" /\ nth <= Len(dirs)
  /\ nth' = nth + 1
  /\ \/ /\ stamp' = [stamp EXCEPT ![dirs[nth]] = "here"]
        /\ touched' = touched \cup {dirs[nth]}
     \/ "times" \in Faults /\ UNCHANGED <<stamp, touched>>
  /\ UNCHANGED <<pc, names, pkg, line, at, dirs, dirs_len, said, runs, file, mode, disk>>

(* `let _ = vfs::sync(vfs_tid)`, and what was done is said. *)
SaysBeforeSync ==
  /\ pc = "times" /\ nth > Len(dirs)
  /\ UNCHANGED <<disk, touched>>
  /\ Exit("done")
  /\ UNCHANGED <<names, pkg, line, at, dirs, dirs_len, nth, runs, file, mode, stamp>>
SyncAndSay ==
  /\ pc = "times" /\ nth > Len(dirs)
  /\ \/ /\ disk' = [file |-> file, mode |-> mode, stamp |-> stamp]
        /\ touched' = {}
     \/ "sync" \in Faults /\ UNCHANGED <<disk, touched>>
  /\ Exit("done")
  /\ UNCHANGED <<names, pkg, line, at, dirs, dirs_len, nth, runs, file, mode, stamp>>

-----------------------------------------------------------------------------
(* What the program had in mind is gone with it. *)
Blank ==
  /\ names' = {} /\ pkg' = 1 /\ line' = 1 /\ at' = 0
  /\ dirs' = << >> /\ dirs_len' = 0 /\ nth' = 1

(* The machine stops.  Of what changed since the last sync, anything may   *)
(* be as it was then, as it is now, or — a file — in part; what is there   *)
(* is in directories that are there.                                       *)
Differs(p) ==
  IF p \in Files THEN file[p] # disk.file[p]
                 ELSE mode[p] # disk.mode[p] \/ stamp[p] # disk.stamp[p]
Crash ==
  /\ "crash" \in Faults /\ pc # "off"
  /\ \E torn \in SUBSET {f \in touched \cap Files : file[f] # "part"} :
     \E lost \in SUBSET {p \in touched \ torn : Differs(p)} :
       /\ file' = [f \in Files |-> CASE f \in torn -> "part"
                                     [] f \in lost -> disk.file[f]
                                     [] OTHER -> file[f]]
       /\ mode' = [d \in Dirs |-> IF d \in lost THEN disk.mode[d] ELSE mode[d]]
       /\ stamp' = [d \in Dirs |-> IF d \in lost THEN disk.stamp[d] ELSE stamp[d]]
       /\ \A f \in Files : file'[f] # "absent" => mode'[DirOf(f)] # "absent"
       /\ \A d \in Dirs \ {RootDir} : mode'[d] # "absent" => mode'[DirOf(d)] # "absent"
  /\ disk' = [file |-> file', mode |-> mode', stamp |-> stamp']
  /\ touched' = {}
  /\ pc' = "off"
  /\ Blank
  /\ UNCHANGED <<said, runs>>

(* The same command again, over what is there. *)
RunAgain ==
  /\ pc \in {"end", "off"} /\ runs < MaxRuns
  /\ runs' = runs + 1
  /\ pc' = "start" /\ said' = "nothing"
  /\ Blank
  /\ UNCHANGED there

Next ==
  \/ ReadNames \/ CheckSets
  \/ TakePackage \/ SkipPackage \/ NoMorePackages \/ TakeLine
  \/ MakeDirs \/ SetDirMode \/ DirMade
  \/ CopyLink \/ LinkRefused \/ OpenFile \/ WriteFile \/ SetAttr \/ Refused
  \/ RestoreTimes \/ SyncAndSay
  \/ Crash \/ RunAgain

Spec == Init /\ [][Next]_vars

-----------------------------------------------------------------------------
TypeOK ==
  /\ pc \in {"start", "sets", "package", "line", "mkdir", "copy", "write",
              "attr", "times", "end", "off"}
  /\ names \subseteq Packages
  /\ pkg \in 1..(NPackages + 1)
  /\ line \in Nat \ {0}
  /\ pc \in {"line", "mkdir", "copy", "write", "attr"} =>
       pkg \in Packages /\ line <= Len(Lines[pkg]) + 1
  /\ pc \in {"copy", "write", "attr"} => ~IsDirLine
  /\ at \in Nat
  /\ pc = "mkdir" => at <= Len(MakingDir)
  /\ dirs \in Seq(Dirs) /\ dirs_len \in 0..DirsMax
  /\ nth \in 1..(Len(dirs) + 1)
  /\ said \in {"nothing", "failed", "done"}
  /\ runs \in 1..MaxRuns
  /\ file \in [Files -> FileStates]
  /\ mode \in [Dirs -> ModeStates]
  /\ stamp \in [Dirs -> {"new", "here"}]
  /\ disk \in [file : [Files -> FileStates], mode : [Dirs -> ModeStates],
               stamp : [Dirs -> {"new", "here"}]]
  /\ touched \subseteq Files \cup Dirs

(* A run that says how much it put in has put in every package of every    *)
(* set asked for: each file, link and list whole, with its mode, and each  *)
(* directory a list gives a mode with that mode.  It stays so when the     *)
(* machine stops, since what is said is said after the sync; and it is so  *)
(* of a second run over what a failure or a crash left.                    *)
Complete(p) ==
  /\ \A f \in FilesOf(p) \cup {ListOf(p)} : file[f] = "whole"
  /\ \A d \in DirsOf(p) : mode[d] = "list"
SaidIsDone == said = "done" => \A p \in Packages : SetOf[p] \in Asked => Complete(p)

PackageFiles == UNION {FilesOf(p) : p \in {q \in Packages : SetOf[q] \in Asked}}

(* Every directory a file was put in has its own times again at the end —  *)
(* a cache of what is in it is believed — or there was no more room for    *)
(* its name: whatever order the packages' files come in, however often     *)
(* they go back to the same directory, and whatever was put there last.    *)
FileDirs == {DirOf(f) : f \in PackageFiles}
TimesRestored ==
  said = "done" /\ pc = "end" => \A d \in FileDirs :
    \/ stamp[d] = "here"
    \/ (\A n \in 1..Len(dirs) : dirs[n] # d) /\ dirs_len + NameLen[d] + 1 > DirsMax

(* A first run that ends leaves each directory with the mode of its list   *)
(* line, if a package put in has one, and otherwise with the mode the      *)
(* directory has here, whichever package came to it first.                 *)
ListedDirs == UNION {DirsOf(p) : p \in {q \in Packages : SetOf[q] \in Asked}}
ModesKept ==
  said = "done" /\ runs = 1 =>
    \A d \in Dirs \ {RootDir} :
      mode[d] \in {"absent", IF d \in ListedDirs THEN "list" ELSE "here"}

(* What a new root is made of and what its lists say never part: as long   *)
(* as nothing was there before, a package's list is begun only when every  *)
(* file it names is whole, whatever calls fail and whatever is left out.   *)
ListsTellTrue ==
  runs = 1 /\ pc # "off" => \A p \in Packages :
    file[ListOf(p)] # "absent" => \A f \in FilesOf(p) : file[f] = "whole"

(* What holds between any two calls of a run whose package lists can all   *)
(* be read: every package before this one is complete, and every line of   *)
(* this one's list before this line is done, a path that comes twice in it *)
(* excepted while it is copied again.                                      *)
InPackage == pc \in {"line", "mkdir", "copy", "write", "attr"}
Working == InPackage \/ pc \in {"package", "times"}
LineDone(n) ==
  LET l == Lines[pkg][n] IN
  IF l.kind = "dir"
    THEN mode[l.path] = "list"
    ELSE file[l.path] = "whole" \/ (pc \in {"write", "attr"} /\ l.path = Current)
PackagesBehind == Working => \A p \in Packages : p < pkg /\ Wanted(p) => Complete(p)
LinesBehind ==
  InPackage => Wanted(pkg) /\ \A n \in 1..Len(Lines[pkg]) : n < line => LineDone(n)
AllSeen ==
  /\ Working \/ pc = "sets" => names = Packages
  /\ pc \in {"start", "sets"} => pkg = 1
  /\ pc = "times" => pkg = NPackages + 1
SaidLast ==
  /\ pc \notin {"end", "off"} => said = "nothing"
  /\ said = "done" => touched = {} /\ \A p \in Packages : Wanted(p) => Complete(p)
StrapInv == PackagesBehind /\ LinesBehind /\ AllSeen /\ SaidLast

(* What strap does is what an install promises.                            *)
Whole == {f \in Files : file[f] = "whole"}
Promise ==
  INSTANCE Install WITH
    whole <- Whole,
    up <- pc # "off",
    outcome <- said,
    Lists <- {ListOf(p) : p \in Packages},
    Needs <- [l \in {ListOf(p) : p \in Packages} |->
                UNION {FilesOf(p) : p \in {q \in Packages : ListOf(q) = l}}],
    Required <- UNION {FilesOf(p) \cup {ListOf(p)} : p \in {q \in Packages : SetOf[q] \in Asked}}
(* No list is made whole before all it lists, what is said to be done is,  *)
(* and a crash after that takes nothing back: of every run, the first and  *)
(* those over what a failure or a crash left.                              *)
KeepsPromise == Promise!Spec

=============================================================================

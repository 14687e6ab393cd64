----------------------------- MODULE StrapProofs -----------------------------
(***************************************************************************)
(* What holds of a strap for every set of packages, every layout of their  *)
(* directories and every number of runs (module Strap); and what a copy of *)
(* one file is when it says it is done (module CopyLoop), which Strap      *)
(* takes for granted.                                                      *)
(***************************************************************************)
EXTENDS Strap, CopyLoop, TLAPS

(* The paths `strap` works on are paths of the new root.                   *)
AtWork == {"line", "mkdir", "copy", "write", "attr"}

LEMMA PathsAreThere ==
  ASSUME pkg \in Packages, line \in 1..(Len(Lines[pkg]) + 1)
  PROVE  /\ AtLine => line \in 1..Len(Lines[pkg])
         /\ ~IsDirLine => Current \in Files
         /\ IsDirLine => AtLine /\ Line.path \in Dirs
         /\ MakingDir \in Dirs
         /\ ~AtLine <=> line = Len(Lines[pkg]) + 1
<1>1. Len(Lines[pkg]) \in Nat
  BY StrapAssumption
<1>2. AtLine => line \in 1..Len(Lines[pkg])
  BY <1>1 DEF AtLine
<1>3. ListOf(pkg) \in Files
  BY StrapAssumption
<1>4. ASSUME AtLine
      PROVE  Line.path \in IF Line.kind = "dir" THEN Dirs ELSE Files
  BY <1>2, <1>4, StrapAssumption DEF Line
<1>5. ~IsDirLine => Current \in Files
  BY <1>3, <1>4 DEF Current, IsDirLine
<1>6. IsDirLine => AtLine /\ Line.path \in Dirs
  BY <1>4 DEF IsDirLine
<1>7. MakingDir \in Dirs
  BY <1>5, <1>6, StrapAssumption DEF MakingDir
<1>8. ~AtLine <=> line = Len(Lines[pkg]) + 1
  BY <1>1 DEF AtLine
<1>9. QED
  BY <1>2, <1>5, <1>6, <1>7, <1>8

LEMMA PrefixesAreThere ==
  ASSUME NEW d \in Dirs
  PROVE  /\ Len(d) \in Nat
         /\ \A k \in 0..Len(d) : Prefix(d, k) \in Dirs
  BY StrapAssumption

-----------------------------------------------------------------------------
LEMMA InitTyped == Init => TypeOK
  BY StrapAssumption DEF Init, TypeOK, Packages, RootDir, FileStates, ModeStates

(* What a step of the program leaves of the disk, and a call that changes  *)
(* nothing of the line it is at.                                           *)
LEMMA AdvanceTyped ==
  ASSUME TypeOK, pc \in AtWork, Advance
  PROVE  /\ pkg' \in 1..(NPackages + 1) /\ line' \in Nat \ {0}
         /\ pc' \in {"line", "package"}
         /\ pc' = "line" => pkg' \in Packages /\ line' <= Len(Lines[pkg']) + 1
<1>1. pkg \in Packages /\ line \in 1..(Len(Lines[pkg]) + 1) /\ Len(Lines[pkg]) \in Nat
  BY StrapAssumption DEF TypeOK, AtWork
<1>2. NPackages \in Nat
  BY StrapAssumption
<1>3. CASE AtLine
  BY <1>1, <1>2, <1>3 DEF Advance, AtLine, Packages
<1>4. CASE ~AtLine
  BY <1>1, <1>2, <1>4 DEF Advance, Packages
<1>5. QED
  BY <1>3, <1>4

LEMMA StepTyped == TypeOK /\ [Next]_vars => TypeOK'
<1> SUFFICES ASSUME TypeOK, [Next]_vars
             PROVE  TypeOK'
  OBVIOUS
<1> USE DEF AtWork
<1>a. NPackages \in Nat /\ DirsMax \in Nat /\ RootDir \in Dirs /\ Dirs \subseteq Seq(STRING)
  BY StrapAssumption
<1>b. ASSUME pc \in AtWork
      PROVE  /\ pkg \in Packages /\ line \in 1..(Len(Lines[pkg]) + 1)
             /\ ~IsDirLine => Current \in Files /\ DirOf(Current) \in Dirs
             /\ IsDirLine => Line.path \in Dirs
             /\ MakingDir \in Dirs /\ Len(MakingDir) \in Nat
  <2>1. pkg \in Packages /\ line \in 1..(Len(Lines[pkg]) + 1)
    BY <1>b, StrapAssumption DEF TypeOK
  <2>2. QED
    BY <2>1, PathsAreThere, PrefixesAreThere, StrapAssumption
<1>c. ASSUME UNCHANGED <<pkg, line>>
      PROVE  (IsDirLine' <=> IsDirLine) /\ MakingDir' = MakingDir
  BY <1>c DEF MakingDir, IsDirLine, AtLine, Line, Current
<1>1. CASE ReadNames
  BY <1>1 DEF TypeOK, ReadNames, there, Packages
<1>2. CASE CheckSets
  BY <1>2 DEF TypeOK, CheckSets, Exit, there
<1>3. CASE TakePackage
  <2>1. Len(Lines[pkg]) \in Nat /\ pkg \in Packages
    BY <1>3, StrapAssumption DEF TakePackage, TypeOK
  <2>2. QED
    BY <1>3, <2>1 DEF TypeOK, TakePackage, there
<1>4. CASE SkipPackage
  BY <1>4, <1>a DEF TypeOK, SkipPackage, there, Packages
<1>5. CASE NoMorePackages
  BY <1>5 DEF TypeOK, NoMorePackages, there
<1>6. CASE TakeLine
  <2>1. MakingDir' = MakingDir /\ (IsDirLine' <=> IsDirLine)
    BY <1>6, <1>c DEF TakeLine
  <2>2. pc' = "copy" => ~IsDirLine
    BY <1>6 DEF TakeLine, SameDirectory
  <2>3. pc' \in {"copy", "mkdir"}
    BY <1>6 DEF TakeLine
  <2>4. QED
    BY <1>6, <1>b, <2>1, <2>2, <2>3 DEF TypeOK, TakeLine, there
<1>7. CASE MakeDirs
  <2>1. MakingDir' = MakingDir
    BY <1>7, <1>c DEF MakeDirs
  <2>2. Prefix(MakingDir, at + 1) \in Dirs
    BY <1>7, <1>b, PrefixesAreThere DEF MakeDirs, TypeOK
  <2>3. /\ mode' \in [Dirs -> ModeStates]
        /\ stamp' \in [Dirs -> {"new", "here"}]
        /\ touched' \subseteq Files \cup Dirs
    <3>1. CASE mode[Prefix(MakingDir, at + 1)] # "absent"
      BY <1>7, <3>1 DEF MakeDirs, TypeOK
    <3>2. CASE mode[Prefix(MakingDir, at + 1)] = "absent"
      <4>1. PICK m \in {"here", "new"} : GiveNewDir(Prefix(MakingDir, at + 1), m)
        BY <1>7, <3>2 DEF MakeDirs
      <4>2. DirOf(Prefix(MakingDir, at + 1)) \in Dirs
        <5>1. PICK n \in Nat : n = at /\ n < Len(MakingDir)
          BY <1>7 DEF MakeDirs, TypeOK
        <5>2. MakingDir \in Seq(STRING)
          BY <1>7, <1>a, <1>b DEF MakeDirs
        <5>3. DirOf(Prefix(MakingDir, at + 1)) = Prefix(MakingDir, at)
          BY <5>1, <5>2 DEF DirOf, Prefix
        <5>4. QED
          BY <5>1, <5>3, <1>7, <1>b, PrefixesAreThere DEF MakeDirs
      <4>3. QED
        BY <4>1, <4>2, <2>2 DEF GiveNewDir, TypeOK, ModeStates
    <3>3. QED
      BY <3>1, <3>2
  <2>4. QED
    BY <1>7, <1>b, <2>1, <2>3 DEF TypeOK, MakeDirs
<1>8. CASE SetDirMode
  <2>1. Line.path \in Dirs
    BY <1>8, <1>b DEF SetDirMode
  <2>2. QED
    BY <1>8, <2>1, AdvanceTyped DEF TypeOK, SetDirMode, ModeStates
<1>9. CASE DirMade
  <2>1. /\ dirs' \in Seq(Dirs) /\ dirs_len' \in 0..DirsMax
        /\ Len(dirs) \in Nat /\ Len(dirs') >= Len(dirs)
    <3>1. CASE AtLine /\ dirs_len + NameLen[MakingDir] + 1 <= DirsMax
      <4>1. NameLen[MakingDir] \in Nat
        BY <1>9, <1>b, StrapAssumption DEF DirMade
      <4>2. MakingDir \in Dirs
        BY <1>9, <1>b DEF DirMade
      <4>3. dirs' = Append(dirs, MakingDir) /\ dirs_len' = dirs_len + NameLen[MakingDir] + 1
        BY <1>9, <3>1 DEF DirMade, Remember
      <4>4. dirs \in Seq(Dirs) /\ dirs_len \in 0..DirsMax
        BY DEF TypeOK
      <4>5. dirs' \in Seq(Dirs) /\ Len(dirs') = Len(dirs) + 1 /\ Len(dirs) \in Nat
        BY <4>2, <4>3, <4>4
      <4>6. dirs_len' \in 0..DirsMax
        BY <1>a, <3>1, <4>1, <4>3, <4>4
      <4>7. QED
        BY <4>5, <4>6
    <3>2. CASE ~(AtLine /\ dirs_len + NameLen[MakingDir] + 1 <= DirsMax)
      BY <1>9, <3>2 DEF DirMade, Remember, TypeOK
    <3>3. QED
      BY <3>1, <3>2
  <2>2. nth' \in 1..(Len(dirs') + 1)
    BY <1>9, <2>1 DEF DirMade, TypeOK
  <2>3. QED
    BY <1>9, <1>c, <2>1, <2>2 DEF TypeOK, DirMade, there
<1>10. CASE CopyLink
  <2>1. Current \in Files /\ DirOf(Current) \in Dirs
    BY <1>10, <1>b DEF CopyLink, IsLink, IsDirLine
  <2>2. QED
    BY <1>10, <2>1, AdvanceTyped DEF TypeOK, CopyLink, Entry, FileStates
<1>11. CASE LinkRefused
  <2>1. Current \in Files /\ DirOf(Current) \in Dirs
    BY <1>11, <1>b DEF LinkRefused, IsLink, IsDirLine
  <2>2. QED
    BY <1>11, <2>1 DEF TypeOK, LinkRefused, Entry, Exit, FileStates
<1>12. CASE OpenFile
  <2>1. Current \in Files /\ DirOf(Current) \in Dirs
    BY <1>12, <1>b DEF OpenFile, TypeOK
  <2>2. /\ file' \in [Files -> FileStates] /\ stamp' \in [Dirs -> {"new", "here"}]
        /\ touched' \subseteq Files \cup Dirs
    BY <1>12, <2>1, SMTT(30) DEF OpenFile, Entry, FileStates, TypeOK
  <2>3. QED
    BY <1>12, <1>c, <2>2 DEF TypeOK, OpenFile
<1>13. CASE WriteFile
  BY <1>13, <1>b, <1>c DEF TypeOK, WriteFile, FileStates
<1>14. CASE SetAttr
  BY <1>14, <1>b, AdvanceTyped DEF TypeOK, SetAttr, FileStates
<1>15. CASE Refused
  BY <1>15 DEF TypeOK, Refused, Exit, there
<1>16. CASE RestoreTimes
  BY <1>16 DEF TypeOK, RestoreTimes
<1>17. CASE SyncAndSay
  BY <1>17 DEF TypeOK, SyncAndSay, Exit
<1>18. CASE Crash
  BY <1>18, <1>a DEF TypeOK, Crash, Blank, FileStates
<1>19. CASE RunAgain
  BY <1>19, <1>a, StrapAssumption DEF TypeOK, RunAgain, Blank, there
<1>20. CASE UNCHANGED vars
  BY <1>20 DEF TypeOK, vars, here, there, MakingDir, IsDirLine, AtLine, Line, Current
<1>21. QED
  BY <1>1, <1>2, <1>3, <1>4, <1>5, <1>6, <1>7, <1>8, <1>9, <1>10, <1>11, <1>12,
     <1>13, <1>14, <1>15, <1>16, <1>17, <1>18, <1>19, <1>20 DEF Next

(* The types of everything a strap keeps, in every state.                  *)
THEOREM TypeCorrect == Spec => []TypeOK
  BY InitTyped, StepTyped, PTL DEF Spec

-----------------------------------------------------------------------------
(* The lists can all be read and a sync that is asked for is made.         *)
NoQuietLoss == Faults \cap {"names", "load", "sync"} = {}

(* What is copied now is in no package but this one, and, while it is a    *)
(* line of this one, is not its list.                                      *)
LEMMA CurrentIsOurs ==
  ASSUME TypeOK, InPackage, ~IsDirLine
  PROVE  /\ pkg \in Packages
         /\ AtLine => Current \in FilesOf(pkg)
         /\ ~AtLine => Current = ListOf(pkg)
         /\ \A p \in Packages : p # pkg => Current \notin FilesOf(p) \cup {ListOf(p)}
<1>1. pkg \in Packages /\ line \in 1..(Len(Lines[pkg]) + 1)
  BY StrapAssumption DEF TypeOK, InPackage
<1>2. AtLine => line \in 1..Len(Lines[pkg])
  BY <1>1, PathsAreThere
<1>3. AtLine => Current \in FilesOf(pkg)
  BY <1>2 DEF Current, IsDirLine, Line, FilesOf
<1>4. ~AtLine => Current = ListOf(pkg)
  BY DEF Current
<1>5. QED
  BY <1>1, <1>3, <1>4, OnePackageEach

(* A package stays complete while none of its files changes and each of    *)
(* its directories keeps its mode.                                         *)
LEMMA CompleteKept ==
  ASSUME NEW p \in Packages, Complete(p),
         \A f \in FilesOf(p) \cup {ListOf(p)} : file'[f] = file[f],
         \A d \in DirsOf(p) : mode[d] = "list" => mode'[d] = "list"
  PROVE  Complete(p)'
  BY DEF Complete

(* Nothing the program does takes from a directory the mode of its list.   *)
LEMMA ListModesKept ==
  ASSUME TypeOK, Next, ~Crash, NEW d \in Dirs, mode[d] = "list"
  PROVE  mode'[d] = "list"
<1>1. CASE MakeDirs
  <2>1. CASE mode[Prefix(MakingDir, at + 1)] # "absent"
    BY <1>1, <2>1 DEF MakeDirs
  <2>2. CASE mode[Prefix(MakingDir, at + 1)] = "absent"
    BY <1>1, <2>2 DEF MakeDirs, GiveNewDir, TypeOK
  <2>3. QED
    BY <2>1, <2>2
<1>2. CASE SetDirMode
  BY <1>2 DEF SetDirMode, TypeOK
<1>3. QED
  BY <1>1, <1>2 DEF Next, ReadNames, CheckSets, TakePackage, SkipPackage, NoMorePackages,
     TakeLine, DirMade, CopyLink, LinkRefused, OpenFile, WriteFile, SetAttr, Refused,
     RestoreTimes, SyncAndSay, RunAgain, there

(* Nor does it, short of its end, touch a file but the one it copies.      *)
LEMMA OnlyCurrentChanges ==
  ASSUME TypeOK, Next, ~Crash, NEW f \in Files, file'[f] # file[f]
  PROVE  f = Current /\ InPackage /\ ~IsDirLine
<1>1. CASE CopyLink
  BY <1>1 DEF CopyLink, InPackage, IsLink, IsDirLine, TypeOK
<1>2. CASE LinkRefused
  BY <1>2 DEF LinkRefused, InPackage, IsLink, IsDirLine, TypeOK
<1>3. CASE OpenFile \/ WriteFile \/ SetAttr
  BY <1>3 DEF OpenFile, WriteFile, SetAttr, InPackage, TypeOK
<1>4. QED
  BY <1>1, <1>2, <1>3 DEF Next, ReadNames, CheckSets, TakePackage, SkipPackage, NoMorePackages,
     TakeLine, MakeDirs, SetDirMode, DirMade, Refused, RestoreTimes, SyncAndSay, RunAgain, there

(* So a package that is complete and is not the one being put in stays so. *)
LEMMA OthersStayComplete ==
  ASSUME TypeOK, Next, ~Crash, NEW p \in Packages, Complete(p),
         InPackage /\ ~IsDirLine => p # pkg
  PROVE  Complete(p)'
<1>1. FilesOf(p) \cup {ListOf(p)} \subseteq Files /\ DirsOf(p) \subseteq Dirs
  BY StrapAssumption DEF FilesOf, DirsOf
<1>2. ASSUME NEW f \in FilesOf(p) \cup {ListOf(p)}
      PROVE  file'[f] = file[f]
  BY <1>1, CurrentIsOurs, OnlyCurrentChanges
<1>3. ASSUME NEW d \in DirsOf(p), mode[d] = "list"
      PROVE  mode'[d] = "list"
  BY <1>1, <1>3, ListModesKept
<1>4. QED
  BY <1>2, <1>3, CompleteKept

-----------------------------------------------------------------------------
(* The lines before this one stay done over a call that stays at the line. *)
LEMMA LinesKept ==
  ASSUME TypeOK, Next, ~Crash, InPackage, LinesBehind, UNCHANGED <<pkg, line>>,
         pc' \in {"copy", "write", "attr", "mkdir"},
         pc \in {"write", "attr"} => pc' \in {"write", "attr"},
         file' # file => pc' \in {"write", "attr"}
  PROVE  LinesBehind'
<1>1. pkg \in Packages /\ pkg' = pkg /\ line' = line /\ Current' = Current
  BY DEF TypeOK, InPackage, Current, AtLine, Line
<1>2. ASSUME NEW n \in 1..Len(Lines[pkg]), n < line
      PROVE  LineDone(n)'
  <2>1. LineDone(n)
    BY <1>2 DEF LinesBehind
  <2>2. CASE Lines[pkg][n].kind = "dir"
    <3>1. Lines[pkg][n].path \in Dirs
      BY <1>1, <2>2, StrapAssumption
    <3>2. QED
      BY <1>1, <2>1, <2>2, <3>1, ListModesKept DEF LineDone
  <2>3. CASE Lines[pkg][n].kind # "dir"
    <3>1. Lines[pkg][n].path \in Files
      BY <1>1, <2>3, StrapAssumption
    <3>2. QED
      BY <1>1, <2>1, <2>3, <3>1, OnlyCurrentChanges DEF LineDone
  <2>4. QED
    BY <2>2, <2>3
<1>3. Wanted(pkg)
  BY DEF LinesBehind
<1>4. QED
  BY <1>1, <1>2, <1>3 DEF LinesBehind, Wanted

(* Over one that ends the line — a directory given its mode, a link or a   *)
(* file made whole — the line is done as well; over one that ends the      *)
(* list, the package is complete.                                          *)
LEMMA LineEnds ==
  ASSUME TypeOK, StrapInv, InPackage, Advance,
         \/ SetDirMode
         \/ ~IsDirLine /\ file' = [file EXCEPT ![Current] = "whole"] /\ mode' = mode
  PROVE  /\ LinesBehind'
         /\ pc' = "package" => \A p \in Packages : p = pkg => Complete(p)'
<1>1. /\ pkg \in Packages /\ line \in 1..(Len(Lines[pkg]) + 1) /\ Wanted(pkg)
      /\ Len(Lines[pkg]) \in Nat
  BY StrapAssumption DEF TypeOK, InPackage, StrapInv, LinesBehind
<1>2. ~IsDirLine => Current \in Files
  BY <1>1, PathsAreThere
<1>3. ASSUME NEW n \in 1..Len(Lines[pkg]), n < line,  Lines[pkg][n].kind = "dir"
      PROVE  mode'[Lines[pkg][n].path] = "list"
  <2>1. Lines[pkg][n].path \in Dirs /\ mode[Lines[pkg][n].path] = "list"
    BY <1>1, <1>3, StrapAssumption DEF StrapInv, LinesBehind, LineDone
  <2>2. QED
    BY <2>1 DEF SetDirMode, TypeOK
<1>4. ASSUME NEW n \in 1..Len(Lines[pkg]), n < line,  Lines[pkg][n].kind # "dir"
      PROVE  file'[Lines[pkg][n].path] = "whole"
  <2>1. /\ Lines[pkg][n].path \in Files
        /\ \/ file[Lines[pkg][n].path] = "whole"
           \/ pc \in {"write", "attr"} /\ Lines[pkg][n].path = Current
    BY <1>1, <1>4, StrapAssumption DEF StrapInv, LinesBehind, LineDone
  <2>2. QED
    BY <1>2, <2>1 DEF SetDirMode, TypeOK
<1>5. CASE AtLine
  <2>1. pc' = "line" /\ pkg' = pkg /\ line' = line + 1 /\ line \in 1..Len(Lines[pkg])
    BY <1>1, <1>5, PathsAreThere DEF Advance
  <2>2. ASSUME NEW n \in 1..Len(Lines[pkg]), n = line
        PROVE  LineDone(n)'
    <3>1. CASE IsDirLine
      <4>1. Line.path \in Dirs /\ Line.kind = "dir"
        BY <1>1, <3>1, PathsAreThere DEF IsDirLine
      <4>2. mode'[Line.path] = "list"
        BY <3>1, <4>1 DEF SetDirMode, TypeOK
      <4>3. QED
        BY <2>1, <2>2, <4>1, <4>2 DEF LineDone, Line
    <3>2. CASE ~IsDirLine
      <4>1. Line.kind # "dir" /\ Current = Line.path
        BY <1>5, <3>2 DEF IsDirLine, Current
      <4>2. file'[Line.path] = "whole"
        BY <1>2, <3>2, <4>1 DEF SetDirMode, TypeOK
      <4>3. QED
        BY <2>1, <2>2, <4>1, <4>2 DEF LineDone, Line
    <3>3. QED
      BY <3>1, <3>2
  <2>3. ASSUME NEW n \in 1..Len(Lines[pkg]), n < line + 1
        PROVE  LineDone(n)'
    <3>1. CASE n = line
      BY <2>2, <3>1
    <3>2. CASE n < line
      BY <1>3, <1>4, <2>1, <3>2 DEF LineDone
    <3>3. QED
      BY <1>1, <2>3, <3>1, <3>2
  <2>4. QED
    BY <1>1, <2>1, <2>3 DEF LinesBehind, InPackage, Wanted
<1>6. CASE ~AtLine
  <2>1. pc' = "package" /\ ~IsDirLine /\ Current = ListOf(pkg) /\ line = Len(Lines[pkg]) + 1
    BY <1>1, <1>6, PathsAreThere DEF Advance, IsDirLine, Current
  <2>2. file'[ListOf(pkg)] = "whole"
    BY <1>2, <2>1 DEF SetDirMode, TypeOK
  <2>3. ASSUME NEW f \in FilesOf(pkg)
        PROVE  file'[f] = "whole"
    BY <1>1, <1>4, <2>1 DEF FilesOf
  <2>4. ASSUME NEW d \in DirsOf(pkg)
        PROVE  mode'[d] = "list"
    BY <1>1, <1>3, <2>1 DEF DirsOf
  <2>5. ASSUME NEW p \in Packages, p = pkg
        PROVE  Complete(p)'
    BY <2>2, <2>3, <2>4, <2>5 DEF Complete
  <2>6. QED
    BY <2>1, <2>5 DEF LinesBehind, InPackage
<1>7. QED
  BY <1>5, <1>6

-----------------------------------------------------------------------------
LEMMA InitInv == Init => StrapInv
  BY DEF Init, StrapInv, PackagesBehind, LinesBehind, AllSeen, SaidLast, Working, InPackage

LEMMA StepInv == ASSUME NoQuietLoss PROVE TypeOK /\ StrapInv /\ [Next]_vars => StrapInv'
<1> SUFFICES ASSUME TypeOK, StrapInv, [Next]_vars
             PROVE  StrapInv'
  OBVIOUS
<1>0. NPackages \in Nat /\ pkg \in 1..(NPackages + 1)
  BY StrapAssumption DEF TypeOK
<1>1. CASE UNCHANGED vars
  BY <1>1 DEF StrapInv, PackagesBehind, LinesBehind, AllSeen, SaidLast, Working, InPackage,
     vars, here, there, Complete, LineDone, Current, AtLine, Line, Wanted
<1>2. CASE Crash
  <2>1. ASSUME said = "done"
        PROVE  file' = file /\ mode' = mode
    <3>1. touched = {}
      BY <2>1 DEF StrapInv, SaidLast
    <3>2. QED
      BY <1>2, <3>1 DEF Crash, TypeOK
  <2>2. QED
    BY <1>2, <2>1 DEF Crash, StrapInv, PackagesBehind, LinesBehind, AllSeen, SaidLast,
       Working, InPackage, Complete, Wanted
<1>3. ASSUME Next, ~Crash
      PROVE  StrapInv'
  <2>1. ASSUME NEW p \in Packages, Complete(p), InPackage /\ ~IsDirLine => p # pkg
        PROVE  Complete(p)'
    BY <1>3, <2>1, OthersStayComplete
  <2>2. Working => said = "nothing" /\ names = Packages
    BY DEF StrapInv, AllSeen, SaidLast, Working, InPackage
  <2>3. CASE ReadNames \/ CheckSets \/ RunAgain
    <3>1. CASE ReadNames
      BY <3>1 DEF ReadNames, NoQuietLoss, StrapInv, PackagesBehind, LinesBehind, AllSeen,
         SaidLast, Working, InPackage
    <3>2. CASE CheckSets
      BY <3>2 DEF CheckSets, Exit, StrapInv, PackagesBehind, LinesBehind, AllSeen,
         SaidLast, Working, InPackage, Packages
    <3>3. CASE RunAgain
      BY <3>3 DEF RunAgain, Blank, StrapInv, PackagesBehind, LinesBehind, AllSeen,
         SaidLast, Working, InPackage
    <3>4. QED
      BY <2>3, <3>1, <3>2, <3>3
  <2>4. CASE Refused \/ LinkRefused
    BY <2>4 DEF Refused, LinkRefused, Exit, StrapInv, PackagesBehind, LinesBehind, AllSeen,
       SaidLast, Working, InPackage
  <2>5. CASE TakePackage \/ SkipPackage \/ NoMorePackages
    <3>1. /\ Working /\ Working' /\ UNCHANGED <<names, said, there>>
          /\ InPackage' => TakePackage
          /\ pc' = "times" => pkg' = NPackages + 1
      BY <1>0, <2>5 DEF TakePackage, SkipPackage, NoMorePackages, Working, InPackage
    <3>2. ASSUME NEW p \in Packages, p < pkg', Wanted(p)
          PROVE  Complete(p)
      <4>1. p < pkg
        BY <1>0, <2>2, <2>5, <3>1, <3>2 DEF TakePackage, SkipPackage, NoMorePackages,
           NoQuietLoss, Packages
      <4>2. QED
        BY <3>1, <3>2, <4>1 DEF StrapInv, PackagesBehind
    <3>3. PackagesBehind'
      BY <3>1, <3>2 DEF PackagesBehind, Complete, Wanted, there
    <3>4. LinesBehind'
      <4>1. CASE TakePackage
        BY <4>1, StrapAssumption DEF TakePackage, LinesBehind, Wanted
      <4>2. QED
        BY <3>1, <4>1 DEF LinesBehind
    <3>5. AllSeen' /\ SaidLast'
      BY <2>2, <2>5, <3>1 DEF AllSeen, SaidLast, Working, InPackage
    <3>6. QED
      BY <3>3, <3>4, <3>5 DEF StrapInv
  <2>6. CASE TakeLine \/ MakeDirs \/ DirMade \/ OpenFile \/ WriteFile
    <3>1. /\ InPackage /\ InPackage' /\ UNCHANGED <<pkg, line, names, said>>
          /\ pc' \in {"copy", "write", "attr", "mkdir"}
          /\ pc \in {"write", "attr"} => pc' \in {"write", "attr"}
          /\ file' # file => pc' \in {"write", "attr"}
      BY <2>6 DEF TakeLine, MakeDirs, DirMade, OpenFile, WriteFile, InPackage, there
    <3>2. LinesBehind'
      BY <1>3, <3>1, LinesKept DEF StrapInv
    <3>3. PackagesBehind'
      BY <2>1, <3>1, <1>0 DEF StrapInv, PackagesBehind, Working, Wanted, Packages
    <3>4. AllSeen' /\ SaidLast'
      BY <2>2, <3>1 DEF AllSeen, SaidLast, Working, InPackage
    <3>5. QED
      BY <3>2, <3>3, <3>4 DEF StrapInv
  <2>7. CASE SetDirMode \/ CopyLink \/ SetAttr
    <3>1. InPackage /\ Advance /\ UNCHANGED <<names, said>>
      BY <2>7 DEF SetDirMode, CopyLink, SetAttr, InPackage
    <3>2. \/ SetDirMode
          \/ ~IsDirLine /\ file' = [file EXCEPT ![Current] = "whole"] /\ mode' = mode
      BY <2>7 DEF CopyLink, SetAttr, TypeOK
    <3>3. LinesBehind' /\ (pc' = "package" => \A p \in Packages : p = pkg => Complete(p)')
      BY <3>1, <3>2, LineEnds
    <3>4. /\ pc' \in {"line", "package"}
          /\ pc' = "line" => pkg' = pkg
          /\ pc' = "package" => pkg' = pkg + 1
      BY <3>1 DEF Advance
    <3>5. PackagesBehind'
      <4>1. ASSUME NEW p \in Packages, p < pkg', Wanted(p)
            PROVE  Complete(p)'
        <5>1. (p = pkg /\ pc' = "package") \/ p < pkg
          BY <1>0, <3>4, <4>1 DEF Packages
        <5>2. CASE p < pkg
          BY <1>0, <2>1, <3>1, <4>1, <5>2 DEF StrapInv, PackagesBehind, Working, Packages
        <5>3. QED
          BY <3>3, <5>1, <5>2
      <4>2. QED
        BY <4>1 DEF PackagesBehind, Wanted
    <3>6. AllSeen' /\ SaidLast'
      BY <2>2, <3>1, <3>4 DEF AllSeen, SaidLast, Working, InPackage
    <3>7. QED
      BY <3>3, <3>5, <3>6 DEF StrapInv
  <2>8. CASE RestoreTimes
    <3>1. UNCHANGED <<pc, names, pkg, line, said, file, mode>> /\ pc = "times"
      BY <2>8 DEF RestoreTimes
    <3>2. QED
      BY <2>2, <3>1 DEF StrapInv, PackagesBehind, LinesBehind, AllSeen, SaidLast, Working,
         InPackage, Complete, Wanted
  <2>9. CASE SyncAndSay
    <3>1. pc = "times" /\ pc' = "end" /\ UNCHANGED <<file, mode>> /\ touched' = {}
      BY <2>9 DEF SyncAndSay, Exit, NoQuietLoss
    <3>2. ASSUME NEW p \in Packages, Wanted(p)
          PROVE  Complete(p)
      BY <1>0, <3>1, <3>2 DEF StrapInv, AllSeen, PackagesBehind, Working, Packages
    <3>3. QED
      BY <3>1, <3>2 DEF StrapInv, PackagesBehind, LinesBehind, AllSeen, SaidLast, Working,
         InPackage, Complete, Wanted
  <2>10. QED
    BY <1>3, <2>3, <2>4, <2>5, <2>6, <2>7, <2>8, <2>9 DEF Next
<1>4. QED
  BY <1>1, <1>2, <1>3

LEMMA StrapInvHolds == ASSUME NoQuietLoss PROVE Spec => [](TypeOK /\ StrapInv)
<1>1. Init => TypeOK /\ StrapInv
  BY InitTyped, InitInv
<1>2. TypeOK /\ StrapInv /\ [Next]_vars => (TypeOK /\ StrapInv)'
  BY StepTyped, StepInv
<1>3. QED
  BY <1>1, <1>2, PTL DEF Spec

(* A strap that says it is done is: every package of every set asked for   *)
(* is complete in the new root, whatever failed or stopped before, and     *)
(* whenever the machine stops after.                                       *)
THEOREM SaidIsDoneHolds == ASSUME NoQuietLoss PROVE Spec => []SaidIsDone
<1>1. StrapInv => SaidIsDone
  BY DEF StrapInv, SaidLast, SaidIsDone, Wanted
<1>2. QED
  BY <1>1, StrapInvHolds, PTL

-----------------------------------------------------------------------------
(* Each step of a strap is a step of an install, or none.                  *)
Lists == {ListOf(p) : p \in Packages}

(* A list is finished only when what it lists is whole.                    *)
LEMMA ListIsLast ==
  ASSUME TypeOK, StrapInv, InPackage, ~IsDirLine, Current \in Lists
  PROVE  \A p \in Packages : ListOf(p) = Current => FilesOf(p) \subseteq Whole
<1>1. pkg \in Packages /\ line \in 1..(Len(Lines[pkg]) + 1) /\ Len(Lines[pkg]) \in Nat
  BY StrapAssumption DEF TypeOK, InPackage
<1>2. PICK q \in Packages : Current = ListOf(q)
  BY DEF Lists
<1>3. ~AtLine /\ q = pkg
  BY <1>1, <1>2, CurrentIsOurs, OnePackageEach
<1>4. line = Len(Lines[pkg]) + 1
  BY <1>1, <1>3, PathsAreThere
<1>5. ASSUME NEW n \in 1..Len(Lines[pkg]), Lines[pkg][n].kind # "dir"
      PROVE  Lines[pkg][n].path \in Whole
  <2>1. LineDone(n)
    BY <1>1, <1>4 DEF StrapInv, LinesBehind
  <2>2. Lines[pkg][n].path \in Files /\ Lines[pkg][n].path \in FilesOf(pkg)
    BY <1>1, <1>5, StrapAssumption DEF FilesOf
  <2>3. Lines[pkg][n].path # Current
    BY <1>1, <1>2, <1>3, <2>2, OnePackageEach
  <2>4. QED
    BY <1>5, <2>1, <2>2, <2>3 DEF LineDone, Whole
<1>6. FilesOf(pkg) \subseteq Whole
  BY <1>5 DEF FilesOf
<1>7. QED
  BY <1>1, <1>2, <1>3, <1>6, OnePackageEach

LEMMA InitPromised == Init => Promise!Init
  BY DEF Init, Promise!Init, Whole

LEMMA StepPromised ==
  ASSUME NoQuietLoss, TypeOK, StrapInv, [Next]_vars
  PROVE  [Promise!Next]_(Promise!vars)
<1>1. CASE UNCHANGED vars
  BY <1>1 DEF vars, here, there, Promise!vars, Whole
<1>2. CASE ReadNames \/ TakePackage \/ SkipPackage \/ NoMorePackages \/ TakeLine \/ MakeDirs
           \/ SetDirMode \/ DirMade \/ RestoreTimes
  BY <1>2 DEF ReadNames, TakePackage, SkipPackage, NoMorePackages, TakeLine, MakeDirs, SetDirMode,
     DirMade, RestoreTimes, Advance, there, Promise!vars, Whole
<1>3. CASE CheckSets \/ Refused \/ LinkRefused
  <2>1. pc \notin {"end", "off"} /\ said = "nothing"
    BY <1>3 DEF CheckSets, Refused, LinkRefused, StrapInv, SaidLast
  <2>2. CASE CheckSets /\ said' = said
    BY <2>1, <2>2 DEF CheckSets, Exit, there, Promise!vars, Whole
  <2>3. CASE ~(CheckSets /\ said' = said)
    <3>1. pc' = "end" /\ said' = "failed"
      BY <1>3, <2>1, <2>3 DEF CheckSets, Refused, LinkRefused, Exit
    <3>2. Whole' \subseteq Whole
      BY <1>3 DEF CheckSets, Refused, LinkRefused, there, Whole, TypeOK
    <3>3. Promise!SayFailed
      BY <2>1, <3>1, <3>2 DEF Promise!SayFailed, Promise!AtWork
    <3>4. QED
      BY <3>3 DEF Promise!Next
  <2>4. QED
    BY <2>2, <2>3
<1>4. CASE OpenFile \/ WriteFile \/ CopyLink \/ SetAttr
  <2>1. /\ InPackage /\ ~IsDirLine /\ said = "nothing" /\ said' = said
        /\ pc \notin {"end", "off"} /\ pc' \notin {"end", "off"}
    BY <1>4 DEF OpenFile, WriteFile, CopyLink, SetAttr, Advance, InPackage, TypeOK, StrapInv,
       SaidLast
  <2>2. Current \in Files
    BY <2>1, PathsAreThere, StrapAssumption DEF TypeOK, InPackage
  <2>3. CASE OpenFile \/ WriteFile
    <3>1. Whole' = Whole \ {Current}
      BY <2>2, <2>3 DEF OpenFile, WriteFile, Whole, TypeOK
    <3>2. Promise!Begin(Current)
      BY <2>1, <3>1 DEF Promise!Begin, Promise!AtWork
    <3>3. QED
      BY <2>2, <3>2 DEF Promise!Next
  <2>4. CASE CopyLink \/ SetAttr
    <3>1. Whole' = Whole \cup {Current}
      BY <2>2, <2>4 DEF CopyLink, SetAttr, Whole, TypeOK
    <3>2. ASSUME Current \in {ListOf(p) : p \in Packages}
          PROVE  UNION {FilesOf(p) : p \in {q \in Packages : ListOf(q) = Current}} \subseteq Whole
      BY <2>1, <3>2, ListIsLast DEF Lists
    <3>3. Promise!Finish(Current)
      BY <2>1, <3>1, <3>2 DEF Promise!Finish, Promise!AtWork
    <3>4. QED
      BY <2>2, <3>3 DEF Promise!Next
  <2>5. QED
    BY <1>4, <2>3, <2>4
<1>5. CASE SyncAndSay
  <2>1. pc = "times" /\ said = "nothing" /\ said' = "done" /\ pc' = "end" /\ file' = file
    BY <1>5 DEF SyncAndSay, Exit, StrapInv, SaidLast
  <2>2. ASSUME NEW p \in Packages, Wanted(p)
        PROVE  FilesOf(p) \cup {ListOf(p)} \subseteq Whole
    <3>1. Complete(p)
      BY <2>1, <2>2, StrapAssumption DEF StrapInv, AllSeen, PackagesBehind, Working, Packages
    <3>2. FilesOf(p) \cup {ListOf(p)} \subseteq Files
      BY StrapAssumption DEF FilesOf
    <3>3. QED
      BY <3>1, <3>2 DEF Complete, Whole
  <2>3. Promise!SayDone
    BY <2>1, <2>2 DEF Promise!SayDone, Promise!AtWork, Whole, Wanted
  <2>4. QED
    BY <2>3 DEF Promise!Next
<1>6. CASE Crash
  <2>1. pc' = "off" /\ said' = said /\ Whole' \subseteq Files
    BY <1>6 DEF Crash, Whole
  <2>2. said = "done" => Whole' = Whole
    <3>1. said = "done" => touched = {}
      BY DEF StrapInv, SaidLast
    <3>2. QED
      BY <1>6, <3>1 DEF Crash, Whole, TypeOK
  <2>3. Promise!Stop
    BY <2>1, <2>2 DEF Promise!Stop
  <2>4. QED
    BY <2>3 DEF Promise!Next
<1>7. CASE RunAgain
  <2>1. Promise!Again
    BY <1>7 DEF RunAgain, Promise!Again, there, Whole
  <2>2. QED
    BY <2>1 DEF Promise!Next
<1>8. QED
  BY <1>1, <1>2, <1>3, <1>4, <1>5, <1>6, <1>7 DEF Next

(* A strap keeps what an install promises: no list is whole before what it *)
(* lists, and what was said to be done stays whole through a crash.        *)
THEOREM PromiseKept == ASSUME NoQuietLoss PROVE Spec => KeepsPromise
<1>1. Spec => [](TypeOK /\ StrapInv)
  BY StrapInvHolds
<1>2. TypeOK /\ StrapInv /\ [Next]_vars => [Promise!Next]_(Promise!vars)
  BY StepPromised
<1>3. QED
  BY <1>1, <1>2, InitPromised, PTL DEF Spec, KeepsPromise, Promise!Spec

-----------------------------------------------------------------------------
(* Of a first run, whatever fails and whatever is left out: no list is     *)
(* begun ahead of the package being put in, nor that one's own before it   *)
(* is come to; and every file its lines so far name is whole.              *)
ListsAhead ==
  pc # "end" => \A p \in Packages : file[ListOf(p)] # "absent" =>
    p < pkg \/ (p = pkg /\ pc \in {"write", "attr"} /\ ~AtLine)
FilesBehind ==
  InPackage => \A n \in 1..Len(Lines[pkg]) : n < line /\ Lines[pkg][n].kind # "dir" =>
    \/ file[Lines[pkg][n].path] = "whole"
    \/ pc \in {"write", "attr"} /\ Lines[pkg][n].path = Current
FirstRunInv == runs = 1 /\ pc # "off" => ListsTellTrue /\ ListsAhead /\ FilesBehind

(* When the list itself is come to, every file it names is whole.          *)
LEMMA AllBehindList ==
  ASSUME TypeOK, InPackage, FilesBehind, ~AtLine
  PROVE  \A f \in FilesOf(pkg) : file[f] = "whole"
<1>1. pkg \in Packages /\ line \in 1..(Len(Lines[pkg]) + 1) /\ Len(Lines[pkg]) \in Nat
  BY StrapAssumption DEF TypeOK, InPackage
<1>2. line = Len(Lines[pkg]) + 1 /\ Current = ListOf(pkg)
  BY <1>1, PathsAreThere DEF Current
<1>3. ASSUME NEW n \in 1..Len(Lines[pkg]), Lines[pkg][n].kind # "dir"
      PROVE  file[Lines[pkg][n].path] = "whole"
  <2>1. Lines[pkg][n].path \in FilesOf(pkg)
    BY <1>3 DEF FilesOf
  <2>2. Lines[pkg][n].path # Current
    BY <1>1, <1>2, <2>1, OnePackageEach
  <2>3. QED
    BY <1>1, <1>2, <1>3, <2>2 DEF FilesBehind
<1>4. QED
  BY <1>3 DEF FilesOf

(* A step that changes a file changes the one being copied: a file of this *)
(* package before its list is there, or the list after all its files are.  *)
LEMMA ListsStayTrue ==
  ASSUME TypeOK, Next, ~Crash, runs = 1, pc # "off", ListsTellTrue, ListsAhead, FilesBehind
  PROVE  \A p \in Packages : file'[ListOf(p)] # "absent" => \A f \in FilesOf(p) : file'[f] = "whole"
<1> SUFFICES ASSUME NEW p \in Packages, file'[ListOf(p)] # "absent", NEW f \in FilesOf(p)
             PROVE  file'[f] = "whole"
  OBVIOUS
<1>1. ListOf(p) \in Files /\ f \in Files
  BY StrapAssumption DEF FilesOf
<1>2. CASE file'[ListOf(p)] = file[ListOf(p)]
  <2>1. file[f] = "whole"
    BY <1>2 DEF ListsTellTrue
  <2>2. ASSUME file'[f] # file[f]
        PROVE  FALSE
    <3>1. f = Current /\ InPackage /\ ~IsDirLine
      BY <1>1, <2>2, OnlyCurrentChanges
    <3>2. p = pkg /\ pkg \in Packages
      BY <3>1, CurrentIsOurs
    <3>3. AtLine
      BY <3>1, <3>2, CurrentIsOurs, OnePackageEach
    <3>4. p < pkg
      BY <1>2, <3>1, <3>3 DEF ListsAhead, InPackage
    <3>5. QED
      BY <3>2, <3>4 DEF Packages
  <2>3. QED
    BY <2>1, <2>2
<1>3. CASE file'[ListOf(p)] # file[ListOf(p)]
  <2>1. ListOf(p) = Current /\ InPackage /\ ~IsDirLine
    BY <1>1, <1>3, OnlyCurrentChanges
  <2>2. p = pkg /\ ~AtLine
    BY <2>1, CurrentIsOurs, OnePackageEach
  <2>3. file[f] = "whole"
    BY <2>1, <2>2, AllBehindList
  <2>4. f # Current
    BY <2>1, OnePackageEach
  <2>5. QED
    BY <1>1, <2>3, <2>4, OnlyCurrentChanges
<1>4. QED
  BY <1>2, <1>3

(* A file made whole at the end of its line, or a directory, leaves every  *)
(* line before the next one done.                                          *)
LEMMA FilesLeftBehind ==
  ASSUME TypeOK, InPackage, FilesBehind, Advance,
         \/ IsDirLine /\ file' = file
         \/ ~IsDirLine /\ file' = [file EXCEPT ![Current] = "whole"]
  PROVE  FilesBehind'
<1>1. pkg \in Packages /\ line \in 1..(Len(Lines[pkg]) + 1) /\ Len(Lines[pkg]) \in Nat
  BY StrapAssumption DEF TypeOK, InPackage
<1>2. CASE AtLine
  <2>1. pc' = "line" /\ pkg' = pkg /\ line' = line + 1
    BY <1>2 DEF Advance
  <2>2. ASSUME NEW n \in 1..Len(Lines[pkg]), n < line + 1, Lines[pkg][n].kind # "dir"
        PROVE  file'[Lines[pkg][n].path] = "whole"
    <3>1. Lines[pkg][n].path \in Files
      BY <1>1, <2>2, StrapAssumption
    <3>2. CASE n = line
      BY <1>2, <2>2, <3>1, <3>2 DEF IsDirLine, Line, Current, TypeOK
    <3>3. CASE n < line
      BY <2>2, <3>1, <3>3 DEF FilesBehind, TypeOK, IsDirLine, InPackage
    <3>4. QED
      BY <1>1, <2>2, <3>2, <3>3
  <2>3. QED
    BY <2>1, <2>2 DEF FilesBehind
<1>3. CASE ~AtLine
  BY <1>3 DEF Advance, FilesBehind, InPackage
<1>4. QED
  BY <1>2, <1>3

LEMMA StepFirstRun == TypeOK /\ FirstRunInv /\ [Next]_vars => FirstRunInv'
<1> SUFFICES ASSUME TypeOK, FirstRunInv, [Next]_vars, runs' = 1, pc' # "off"
             PROVE  (ListsTellTrue /\ ListsAhead /\ FilesBehind)'
  BY DEF FirstRunInv
<1>0. NPackages \in Nat /\ pkg \in 1..(NPackages + 1) /\ runs \in 1..MaxRuns /\ MaxRuns \in Nat
  BY StrapAssumption DEF TypeOK
<1>1. CASE UNCHANGED vars
  BY <1>1 DEF FirstRunInv, ListsTellTrue, ListsAhead, FilesBehind, InPackage, vars, here, there,
     Current, AtLine, Line
<1>2. CASE Next
  <2>1. ~Crash /\ ~RunAgain /\ runs' = runs
    BY <1>0, <1>2 DEF Crash, RunAgain, Next, ReadNames, CheckSets, TakePackage, SkipPackage,
       NoMorePackages, TakeLine, MakeDirs, SetDirMode, DirMade, CopyLink, LinkRefused, OpenFile,
       WriteFile, SetAttr, Refused, RestoreTimes, SyncAndSay
  <2>2. pc # "off"
    BY <1>2, <2>1 DEF Next, ReadNames, CheckSets, TakePackage, SkipPackage,
       NoMorePackages, TakeLine, MakeDirs, SetDirMode, DirMade, CopyLink, LinkRefused, OpenFile,
       WriteFile, SetAttr, Refused, RestoreTimes, SyncAndSay
  <2>3. runs = 1 /\ ListsTellTrue /\ ListsAhead /\ FilesBehind
    BY <2>1, <2>2 DEF FirstRunInv
  <2>4. ListsTellTrue'
    BY <1>2, <2>1, <2>2, <2>3, ListsStayTrue DEF ListsTellTrue
  <2>5. CASE ReadNames \/ CheckSets \/ TakePackage \/ SkipPackage \/ NoMorePackages \/ Refused
             \/ LinkRefused \/ RestoreTimes \/ SyncAndSay
    <3>1. ListsAhead'
      BY <1>0, <2>3, <2>5 DEF ReadNames, CheckSets, TakePackage, SkipPackage, NoMorePackages,
         Refused, LinkRefused, RestoreTimes, SyncAndSay, Exit, there, ListsAhead, Packages
    <3>2. FilesBehind'
      BY <2>3, <2>5, StrapAssumption, SMTT(30) DEF ReadNames, CheckSets, TakePackage, SkipPackage,
         NoMorePackages, Refused, LinkRefused, RestoreTimes, SyncAndSay, Exit, there, FilesBehind,
         InPackage
    <3>3. QED
      BY <2>4, <3>1, <3>2
  <2>6. CASE TakeLine \/ MakeDirs \/ DirMade
    <3>1. UNCHANGED <<pkg, line, file>> /\ pc \in {"line", "mkdir"} /\ pc' \in {"mkdir", "copy"}
      BY <2>6 DEF TakeLine, MakeDirs, DirMade, there
    <3>2. ListsAhead'
      BY <2>3, <3>1 DEF ListsAhead
    <3>3. FilesBehind'
      BY <2>3, <3>1 DEF FilesBehind, InPackage
    <3>4. QED
      BY <2>4, <3>2, <3>3
  <2>7. CASE OpenFile \/ WriteFile
    <3>1. /\ UNCHANGED <<pkg, line>> /\ pc \in {"copy", "write"} /\ pc' \in {"write", "attr"}
          /\ InPackage /\ ~IsDirLine
      BY <2>7 DEF OpenFile, WriteFile, InPackage, TypeOK
    <3>2. Current' = Current /\ (AtLine' <=> AtLine)
      BY <3>1 DEF Current, AtLine, Line
    <3>3. ASSUME NEW f \in Files, f # Current
          PROVE  file'[f] = file[f]
      BY <1>2, <2>1, <3>3, OnlyCurrentChanges
    <3>4. ASSUME NEW p \in Packages, file'[ListOf(p)] # "absent"
          PROVE  p < pkg \/ (p = pkg /\ ~AtLine)
      <4>1. CASE ListOf(p) = Current
        BY <3>1, <4>1, CurrentIsOurs, OnePackageEach
      <4>2. CASE ListOf(p) # Current
        BY <2>3, <3>1, <3>3, <3>4, <4>2, StrapAssumption DEF ListsAhead
      <4>3. QED
        BY <4>1, <4>2
    <3>5. ASSUME NEW n \in 1..Len(Lines[pkg]), n < line, Lines[pkg][n].kind # "dir"
          PROVE  file'[Lines[pkg][n].path] = "whole" \/ Lines[pkg][n].path = Current
      <4>1. Lines[pkg][n].path \in Files
        BY <3>1, <3>5, StrapAssumption DEF TypeOK, InPackage
      <4>2. QED
        BY <2>3, <3>1, <3>3, <3>5, <4>1 DEF FilesBehind
    <3>6. ListsAhead'
      BY <3>1, <3>2, <3>4 DEF ListsAhead
    <3>7. FilesBehind'
      BY <3>1, <3>2, <3>5 DEF FilesBehind
    <3>8. QED
      BY <2>4, <3>6, <3>7
  <2>8. CASE SetDirMode \/ CopyLink \/ SetAttr
    <3>1. /\ InPackage /\ Advance
          /\ \/ IsDirLine /\ file' = file
             \/ ~IsDirLine /\ file' = [file EXCEPT ![Current] = "whole"]
      BY <2>8 DEF SetDirMode, CopyLink, SetAttr, InPackage, TypeOK
    <3>2. FilesBehind'
      BY <2>3, <3>1, FilesLeftBehind
    <3>3. /\ pc' \in {"line", "package"}
          /\ pc' = "line" => pkg' = pkg /\ AtLine
          /\ pc' = "package" => pkg' = pkg + 1
      BY <3>1 DEF Advance
    <3>4. ASSUME NEW p \in Packages, file'[ListOf(p)] # "absent"
          PROVE  p < pkg'
      <4>1. ListOf(p) \in Files
        BY StrapAssumption
      <4>2. CASE file'[ListOf(p)] = file[ListOf(p)]
        BY <1>0, <2>3, <3>1, <3>3, <3>4, <4>2 DEF ListsAhead, InPackage, Packages
      <4>3. CASE file'[ListOf(p)] # file[ListOf(p)]
        <5>1. ListOf(p) = Current /\ ~IsDirLine
          BY <1>2, <2>1, <4>1, <4>3, OnlyCurrentChanges
        <5>2. p = pkg /\ ~AtLine
          BY <3>1, <5>1, CurrentIsOurs, OnePackageEach
        <5>3. QED
          BY <1>0, <3>3, <5>2
      <4>4. QED
        BY <4>2, <4>3
    <3>5. ListsAhead'
      BY <3>4 DEF ListsAhead
    <3>6. QED
      BY <2>4, <3>2, <3>5
  <2>9. QED
    BY <1>2, <2>1, <2>5, <2>6, <2>7, <2>8 DEF Next
<1>3. QED
  BY <1>1, <1>2

(* Of a root nothing was in before, what it is made of and what its lists  *)
(* say never part, whichever calls fail, whichever lists cannot be read.   *)
THEOREM ListsTellTrueHolds == Spec => []ListsTellTrue
<1>1. Init => FirstRunInv
  BY StrapAssumption DEF Init, FirstRunInv, ListsTellTrue, ListsAhead, FilesBehind, InPackage
<1>2. FirstRunInv => ListsTellTrue
  BY DEF FirstRunInv, ListsTellTrue
<1>3. QED
  BY <1>1, <1>2, StepFirstRun, TypeCorrect, PTL DEF Spec

-----------------------------------------------------------------------------
(* Of a first run: no directory has a mode but the one it has here, or,    *)
(* where a package put in gives it one, the one of its list; and so it is  *)
(* on the disk, which a crash may bring back.                              *)
ModesGiven(m) ==
  \A d \in Dirs \ {RootDir} :
    m[d] \in {"absent", "here"} \/ (m[d] = "list" /\ d \in ListedDirs)
ModesInv == runs = 1 => ModesGiven(mode) /\ ModesGiven(disk.mode)

(* A directory made anew gets the mode of the one here, and a list line    *)
(* gives its own.                                                          *)
LEMMA ModesStayGiven ==
  ASSUME "attr" \notin Faults, TypeOK, LinesBehind, ModesGiven(mode), MakeDirs \/ SetDirMode
  PROVE  ModesGiven(mode')
<1>1. pkg \in Packages /\ line \in 1..(Len(Lines[pkg]) + 1) /\ InPackage
  BY StrapAssumption DEF TypeOK, InPackage, MakeDirs, SetDirMode
<1>2. CASE MakeDirs
  <2>1. CASE mode[Prefix(MakingDir, at + 1)] # "absent"
    BY <1>2, <2>1 DEF MakeDirs
  <2>2. CASE mode[Prefix(MakingDir, at + 1)] = "absent"
    <3>1. GiveNewDir(Prefix(MakingDir, at + 1), "here")
      BY <1>2, <2>2 DEF MakeDirs
    <3>2. QED
      BY <3>1 DEF GiveNewDir, ModesGiven, TypeOK
  <2>3. QED
    BY <2>1, <2>2
<1>3. CASE SetDirMode
  <2>1. IsDirLine /\ AtLine /\ line \in 1..Len(Lines[pkg])
    BY <1>1, <1>3, PathsAreThere DEF SetDirMode
  <2>2. Line.path \in DirsOf(pkg)
    BY <2>1 DEF DirsOf, Line, IsDirLine
  <2>3. Line.path \in ListedDirs
    BY <1>1, <2>2 DEF ListedDirs, LinesBehind, Wanted
  <2>4. QED
    BY <1>3, <2>3 DEF SetDirMode, ModesGiven, TypeOK
<1>4. QED
  BY <1>2, <1>3

LEMMA StepModes ==
  ASSUME NoQuietLoss, "attr" \notin Faults
  PROVE  TypeOK /\ StrapInv /\ ModesInv /\ [Next]_vars => ModesInv'
<1> SUFFICES ASSUME TypeOK, StrapInv, ModesInv, [Next]_vars, runs' = 1
             PROVE  ModesGiven(mode') /\ ModesGiven(disk'.mode)
  BY DEF ModesInv, ModesGiven
<1>1. CASE RunAgain
  BY <1>1, StrapAssumption DEF RunAgain, TypeOK
<1>2. ASSUME ~RunAgain
      PROVE  ModesGiven(mode) /\ ModesGiven(disk.mode)
  BY <1>2 DEF ModesInv, Next, ReadNames, CheckSets, TakePackage, SkipPackage, NoMorePackages,
     TakeLine, MakeDirs, SetDirMode, DirMade, CopyLink, LinkRefused, OpenFile, WriteFile, SetAttr,
     Refused, RestoreTimes, SyncAndSay, Crash, vars, here
<1>3. CASE Crash
  <2>1. ASSUME NEW d \in Dirs
        PROVE  mode'[d] \in {mode[d], disk.mode[d]}
    BY <1>3 DEF Crash
  <2>2. ~RunAgain
    BY <1>3, StrapAssumption DEF Crash, RunAgain, TypeOK
  <2>3. ModesGiven(mode')
    BY <1>2, <2>1, <2>2 DEF ModesGiven
  <2>4. disk'.mode = mode'
    BY <1>3 DEF Crash
  <2>5. QED
    BY <2>3, <2>4
<1>4. CASE SyncAndSay
  <2>1. mode' = mode /\ disk'.mode = mode /\ runs = 1
    BY <1>4 DEF SyncAndSay, NoQuietLoss
  <2>2. QED
    BY <2>1 DEF ModesInv, ModesGiven
<1>5. CASE MakeDirs \/ SetDirMode
  <2>1. disk' = disk /\ runs = 1 /\ ~RunAgain
    BY <1>5, StrapAssumption DEF MakeDirs, SetDirMode, RunAgain, TypeOK
  <2>2. QED
    BY <1>2, <1>5, <2>1, ModesStayGiven DEF StrapInv
<1>6. ASSUME ~RunAgain, ~Crash, ~SyncAndSay, ~MakeDirs, ~SetDirMode
      PROVE  UNCHANGED <<mode, disk>>
  BY <1>6 DEF Next, ReadNames, CheckSets, TakePackage, SkipPackage, NoMorePackages,
     TakeLine, DirMade, CopyLink, LinkRefused, OpenFile, WriteFile, SetAttr,
     Refused, RestoreTimes, vars, there
<1>7. QED
  BY <1>1, <1>2, <1>3, <1>4, <1>5, <1>6

(* A first run that ends has given each directory the mode of its list     *)
(* line if a package put in has one, and else the mode it has here,        *)
(* whichever package came to it first, and no crash takes it back.         *)
THEOREM ModesKeptHolds == ASSUME NoQuietLoss, "attr" \notin Faults PROVE Spec => []ModesKept
<1>1. Init => ModesInv
  BY DEF Init, ModesInv, ModesGiven
<1>2. StrapInv /\ ModesInv => ModesKept
  <2> SUFFICES ASSUME StrapInv, ModesInv, said = "done", runs = 1, NEW d \in Dirs \ {RootDir}
               PROVE  mode[d] \in {"absent", IF d \in ListedDirs THEN "list" ELSE "here"}
    BY DEF ModesKept
  <2>1. CASE d \in ListedDirs
    <3>1. PICK p \in Packages : Wanted(p) /\ d \in DirsOf(p)
      BY <2>1 DEF ListedDirs, Wanted
    <3>2. mode[d] = "list"
      BY <3>1 DEF StrapInv, SaidLast, Complete
    <3>3. QED
      BY <2>1, <3>2
  <2>2. CASE d \notin ListedDirs
    BY <2>2 DEF ModesInv, ModesGiven
  <2>3. QED
    BY <2>1, <2>2
<1>3. QED
  BY <1>1, <1>2, StepModes, StrapInvHolds, PTL DEF Spec

-----------------------------------------------------------------------------
(* A directory is remembered, or there is no room left for its name.       *)
Covered(d) ==
  \/ \E k \in 1..Len(dirs) : dirs[k] = d
  \/ dirs_len + NameLen[d] + 1 > DirsMax

(* Covered is the directory of every file put in so far, and of the one    *)
(* being copied; and when the times are being given back, those before     *)
(* this one have been.                                                     *)
DirsBehind ==
  /\ Working => \A p \in Packages : p < pkg /\ Wanted(p) =>
                  \A f \in FilesOf(p) : Covered(DirOf(f))
  /\ InPackage => \A n \in 1..Len(Lines[pkg]) : n < line /\ Lines[pkg][n].kind # "dir" =>
                    Covered(DirOf(Lines[pkg][n].path))
  /\ pc \in {"copy", "write", "attr"} /\ AtLine => Covered(DirOf(Current))
TimesBehind ==
  /\ pc \notin {"times", "end"} => nth = 1
  /\ pc = "times" => \A k \in 1..Len(dirs) : k < nth => stamp[dirs[k]] = "here"
SaidAtEnd == pc \notin {"end", "off"} => said = "nothing"
TimesInv == AllSeen /\ SaidAtEnd /\ DirsBehind /\ TimesBehind /\ TimesRestored

(* The lists can all be read, and the times can be set.                    *)
NothingPassedOver == Faults \cap {"names", "load", "times"} = {}

(* Nothing is forgotten: the room for names only gets less.                *)
LEMMA StaysCovered ==
  ASSUME TypeOK, NEW d \in Dirs, Covered(d),
         UNCHANGED <<dirs, dirs_len>> \/ \E e \in Dirs : Remember(e)
  PROVE  Covered(d)'
<1>1. NameLen[d] \in Nat /\ DirsMax \in Nat /\ dirs_len \in Nat /\ dirs \in Seq(Dirs)
  BY StrapAssumption DEF TypeOK
<1>2. CASE UNCHANGED <<dirs, dirs_len>>
  BY <1>2 DEF Covered
<1>3. ASSUME NEW e \in Dirs, dirs' = Append(dirs, e), dirs_len' = dirs_len + NameLen[e] + 1
      PROVE  Covered(d)'
  <2>1. NameLen[e] \in Nat
    BY StrapAssumption
  <2>2. CASE dirs_len + NameLen[d] + 1 > DirsMax
    BY <1>1, <1>3, <2>1, <2>2 DEF Covered
  <2>3. ASSUME NEW k \in 1..Len(dirs), dirs[k] = d
        PROVE  Covered(d)'
    <3>1. k \in 1..Len(dirs') /\ dirs'[k] = d
      BY <1>1, <1>3, <2>3
    <3>2. QED
      BY <3>1 DEF Covered
  <2>4. QED
    BY <2>2, <2>3 DEF Covered
<1>4. QED
  BY <1>2, <1>3 DEF Remember

LEMMA RememberedIsCovered ==
  ASSUME TypeOK, NEW d \in Dirs, Remember(d)
  PROVE  Covered(d)'
<1>1. NameLen[d] \in Nat /\ DirsMax \in Nat /\ dirs_len \in Nat /\ dirs \in Seq(Dirs)
  BY StrapAssumption DEF TypeOK
<1>2. CASE dirs_len + NameLen[d] + 1 <= DirsMax
  <2>1. Len(dirs') \in 1..Len(dirs') /\ dirs'[Len(dirs')] = d
    BY <1>1, <1>2 DEF Remember
  <2>2. QED
    BY <2>1 DEF Covered
<1>3. CASE ~(dirs_len + NameLen[d] + 1 <= DirsMax)
  BY <1>1, <1>3 DEF Remember, Covered
<1>4. QED
  BY <1>2, <1>3

(* The end of a line leaves every line before the next one covered, and    *)
(* the end of the list the package.                                        *)
LEMMA CoveredBehind ==
  ASSUME TypeOK, InPackage, DirsBehind, Advance, UNCHANGED <<dirs, dirs_len>>,
         SetDirMode \/ pc \in {"copy", "attr"}
  PROVE  DirsBehind'
<1>1. /\ pkg \in Packages /\ line \in 1..(Len(Lines[pkg]) + 1) /\ Len(Lines[pkg]) \in Nat
      /\ NPackages \in Nat
  BY StrapAssumption DEF TypeOK, InPackage
<1>2. \A d : Covered(d)' <=> Covered(d)
  BY DEF Covered
<1>3. Working
  BY DEF Working
<1>4. CASE AtLine
  <2>1. pc' = "line" /\ pkg' = pkg /\ line' = line + 1
    BY <1>4 DEF Advance
  <2>2. ASSUME NEW n \in 1..Len(Lines[pkg]), n < line + 1, Lines[pkg][n].kind # "dir"
        PROVE  Covered(DirOf(Lines[pkg][n].path))
    <3>1. CASE n < line
      BY <2>2, <3>1 DEF DirsBehind
    <3>2. CASE n = line
      BY <1>4, <2>2, <3>2 DEF DirsBehind, Current, Line, SetDirMode, IsDirLine
    <3>3. QED
      BY <1>1, <2>2, <3>1, <3>2
  <2>3. QED
    BY <1>2, <1>3, <2>1, <2>2 DEF DirsBehind, Wanted
<1>5. CASE ~AtLine
  <2>1. pc' = "package" /\ pkg' = pkg + 1 /\ line' = line /\ line = Len(Lines[pkg]) + 1
    BY <1>1, <1>5, PathsAreThere DEF Advance
  <2>2. ASSUME NEW p \in Packages, p < pkg + 1, Wanted(p), NEW f \in FilesOf(p)
        PROVE  Covered(DirOf(f))
    <3>1. CASE p < pkg
      BY <1>3, <2>2, <3>1 DEF DirsBehind
    <3>2. CASE p = pkg
      BY <1>1, <2>1, <2>2, <3>2 DEF DirsBehind, FilesOf
    <3>3. QED
      BY <1>1, <2>2, <3>1, <3>2 DEF Packages
  <2>3. QED
    BY <1>2, <2>1, <2>2 DEF DirsBehind, Wanted, InPackage
<1>6. QED
  BY <1>4, <1>5

LEMMA StepSeen ==
  ASSUME "names" \notin Faults, TypeOK, AllSeen, SaidAtEnd, [Next]_vars
  PROVE  AllSeen' /\ SaidAtEnd'
<1>0. NPackages \in Nat /\ pkg \in 1..(NPackages + 1)
  BY StrapAssumption DEF TypeOK
<1>1. CASE UNCHANGED vars \/ ReadNames \/ CheckSets \/ Crash \/ RunAgain
  BY <1>1 DEF vars, here, ReadNames, CheckSets, Exit, Crash, RunAgain, Blank, AllSeen, SaidAtEnd,
     Working, InPackage, Packages
<1>2. CASE TakePackage \/ SkipPackage \/ NoMorePackages
  BY <1>0, <1>2 DEF TakePackage, SkipPackage, NoMorePackages, AllSeen, SaidAtEnd, Working, InPackage
<1>3. CASE TakeLine \/ MakeDirs \/ DirMade \/ OpenFile \/ WriteFile
  BY <1>3 DEF TakeLine, MakeDirs, DirMade, OpenFile, WriteFile, AllSeen, SaidAtEnd, Working, InPackage
<1>4. CASE SetDirMode \/ CopyLink \/ SetAttr
  BY <1>4 DEF SetDirMode, CopyLink, SetAttr, Advance, AllSeen, SaidAtEnd, Working, InPackage
<1>5. CASE Refused \/ LinkRefused \/ RestoreTimes \/ SyncAndSay
  BY <1>5 DEF Refused, LinkRefused, RestoreTimes, SyncAndSay, Exit, AllSeen, SaidAtEnd, Working,
     InPackage
<1>6. QED
  BY <1>1, <1>2, <1>3, <1>4, <1>5 DEF Next

(* Where a file of a package put in goes to is a directory of the root.    *)
LEMMA FileDirsAreDirs ==
  /\ \A p \in Packages : \A f \in FilesOf(p) : DirOf(f) \in Dirs
  /\ \A p \in Packages : \A n \in 1..Len(Lines[p]) :
       Lines[p][n].kind # "dir" => DirOf(Lines[p][n].path) \in Dirs
  BY StrapAssumption DEF FilesOf

LEMMA StepTimes ==
  ASSUME NothingPassedOver
  PROVE  TypeOK /\ TimesInv /\ [Next]_vars => TimesInv'
<1> SUFFICES ASSUME TypeOK, TimesInv, [Next]_vars
             PROVE  TimesInv'
  OBVIOUS
<1>0. NPackages \in Nat /\ pkg \in 1..(NPackages + 1) /\ dirs \in Seq(Dirs)
  BY StrapAssumption DEF TypeOK
<1>a. AllSeen' /\ SaidAtEnd'
  BY StepSeen DEF NothingPassedOver, TimesInv
<1>b. ASSUME pc' # "end"
      PROVE  TimesRestored'
  BY <1>b DEF TimesRestored
<1>c. ASSUME UNCHANGED <<dirs, dirs_len>>
      PROVE  \A d : Covered(d)' <=> Covered(d)
  BY <1>c DEF Covered
<1>1. CASE UNCHANGED vars
  BY <1>1 DEF vars, here, there, TimesInv, AllSeen, SaidAtEnd, DirsBehind, TimesBehind, TimesRestored,
     Working, InPackage, Covered, Wanted, AtLine, Current, Line
<1>2. CASE ReadNames \/ Crash \/ RunAgain
  <2>1. pc' \in {"sets", "off", "start"} /\ nth' = 1
    BY <1>2 DEF ReadNames, Crash, RunAgain, Blank, TimesInv, TimesBehind
  <2>2. QED
    BY <1>a, <1>b, <2>1 DEF TimesInv, DirsBehind, TimesBehind, Working, InPackage
<1>3. CASE CheckSets
  <2>1. pc' \in {"package", "end"} /\ pkg' = pkg /\ pkg = 1 /\ nth' = 1
    BY <1>3 DEF CheckSets, Exit, TimesInv, TimesBehind, AllSeen
  <2>2. pc' = "end" => said' = "failed"
    BY <1>3 DEF CheckSets, Exit
  <2>3. DirsBehind'
    BY <2>1 DEF DirsBehind, Working, InPackage, Packages
  <2>4. QED
    BY <1>a, <1>b, <2>1, <2>2, <2>3 DEF TimesInv, TimesBehind, TimesRestored
<1>4. CASE Refused \/ LinkRefused
  <2>1. pc' = "end" /\ said' = "failed"
    BY <1>4 DEF Refused, LinkRefused, Exit
  <2>2. QED
    BY <1>a, <2>1 DEF TimesInv, DirsBehind, TimesBehind, TimesRestored, Working, InPackage
<1>5. CASE TakePackage \/ SkipPackage \/ NoMorePackages
  <2>1. /\ pc = "package" /\ pc' \in {"line", "package", "times"} /\ nth' = nth /\ nth = 1
        /\ UNCHANGED <<names, dirs, dirs_len, stamp>> /\ Working
    BY <1>5 DEF TakePackage, SkipPackage, NoMorePackages, there, TimesInv, TimesBehind, Working
  <2>2. ASSUME NEW p \in Packages, p < pkg', Wanted(p)
        PROVE  p < pkg
    BY <1>0, <1>5, <2>1, <2>2 DEF TakePackage, SkipPackage, NoMorePackages, NothingPassedOver,
       TimesInv, AllSeen, Packages
  <2>3. pc' = "line" => line' = 1 /\ pkg' \in Packages
    BY <1>5, <2>1 DEF TakePackage, SkipPackage, NoMorePackages, TypeOK
  <2>4. DirsBehind'
    BY <1>c, <2>1, <2>2, <2>3, StrapAssumption DEF TimesInv, DirsBehind, Wanted, InPackage
  <2>5. TimesBehind'
    BY <1>0, <2>1 DEF TimesBehind
  <2>6. QED
    BY <1>a, <1>b, <2>1, <2>4, <2>5 DEF TimesInv
<1>6. CASE TakeLine \/ MakeDirs \/ OpenFile \/ WriteFile
  <2>1. /\ pc' \in {"mkdir", "copy", "write", "attr"} /\ InPackage /\ nth' = nth /\ nth = 1
        /\ UNCHANGED <<pkg, line, dirs, dirs_len>>
        /\ pc' \in {"copy", "write", "attr"} => pc \in {"copy", "write", "attr"} \/ TakeLine
    BY <1>6 DEF TakeLine, MakeDirs, OpenFile, WriteFile, InPackage, TimesInv, TimesBehind
  <2>2. ASSUME TakeLine, pc' = "copy"
        PROVE  Covered(DirOf(Current))
    <3>1. dirs # << >> /\ dirs[Len(dirs)] = DirOf(Current)
      BY <2>2 DEF TakeLine, SameDirectory, Remembered
    <3>2. Len(dirs) \in 1..Len(dirs)
      BY <1>0, <3>1
    <3>3. QED
      BY <3>1, <3>2 DEF Covered
  <2>3. pc' \in {"copy", "write", "attr"} /\ AtLine => Covered(DirOf(Current))
    BY <1>6, <2>1, <2>2 DEF TimesInv, DirsBehind, TakeLine
  <2>4. DirsBehind'
    BY <1>c, <2>1, <2>3 DEF TimesInv, DirsBehind, Working, InPackage, Wanted, AtLine, Current, Line
  <2>5. TimesBehind'
    BY <2>1 DEF TimesBehind
  <2>6. QED
    BY <1>a, <1>b, <2>1, <2>4, <2>5 DEF TimesInv
<1>7. CASE DirMade
  <2>1. /\ pc = "mkdir" /\ pc' = "copy" /\ InPackage /\ nth' = nth /\ nth = 1 /\ ~IsDirLine
        /\ UNCHANGED <<pkg, line>>
        /\ IF AtLine THEN Remember(MakingDir) ELSE UNCHANGED <<dirs, dirs_len>>
    BY <1>7 DEF DirMade, InPackage, TimesInv, TimesBehind
  <2>2. pkg \in Packages /\ MakingDir \in Dirs /\ MakingDir = DirOf(Current)
    BY <2>1, PathsAreThere, StrapAssumption DEF TypeOK, InPackage, MakingDir
  <2>3. ASSUME NEW d \in Dirs, Covered(d)
        PROVE  Covered(d)'
    BY <2>1, <2>2, <2>3, StaysCovered
  <2>4. ASSUME NEW d \in Dirs, d = MakingDir, AtLine
        PROVE  Covered(d)'
    BY <2>1, <2>4, RememberedIsCovered
  <2>5. AtLine' = AtLine /\ Current' = Current /\ Working
    BY <2>1 DEF AtLine, Current, Line, Working
  <2>6. AtLine' => Covered(DirOf(Current))'
    BY <2>2, <2>4, <2>5
  <2>7. ASSUME NEW p \in Packages, p < pkg, Wanted(p), NEW f \in FilesOf(p)
        PROVE  Covered(DirOf(f))'
    BY <2>3, <2>5, <2>7, FileDirsAreDirs DEF TimesInv, DirsBehind
  <2>8. ASSUME NEW n \in 1..Len(Lines[pkg]), n < line, Lines[pkg][n].kind # "dir"
        PROVE  Covered(DirOf(Lines[pkg][n].path))'
    BY <2>1, <2>2, <2>3, <2>8, FileDirsAreDirs DEF TimesInv, DirsBehind
  <2>9. DirsBehind'
    BY <2>1, <2>5, <2>6, <2>7, <2>8 DEF DirsBehind, Wanted, Working, InPackage
  <2>10. TimesBehind'
    BY <2>1 DEF TimesBehind
  <2>11. QED
    BY <1>a, <1>b, <2>1, <2>9, <2>10 DEF TimesInv
<1>8. CASE SetDirMode \/ CopyLink \/ SetAttr
  <2>1. /\ InPackage /\ Advance /\ UNCHANGED <<dirs, dirs_len>> /\ nth' = nth /\ nth = 1
        /\ SetDirMode \/ pc \in {"copy", "attr"}
    BY <1>8 DEF SetDirMode, CopyLink, SetAttr, InPackage, TimesInv, TimesBehind
  <2>2. DirsBehind'
    BY <2>1, CoveredBehind DEF TimesInv
  <2>3. pc' \in {"line", "package"}
    BY <2>1 DEF Advance
  <2>4. QED
    BY <1>a, <1>b, <2>1, <2>2, <2>3 DEF TimesInv, TimesBehind
<1>9. CASE RestoreTimes
  <2>1. /\ pc = "times" /\ pc' = "times" /\ nth \in 1..Len(dirs) /\ nth' = nth + 1
        /\ UNCHANGED <<pkg, dirs, dirs_len>>
        /\ stamp' = [stamp EXCEPT ![dirs[nth]] = "here"]
    BY <1>0, <1>9 DEF RestoreTimes, NothingPassedOver, TypeOK
  <2>2. ASSUME NEW k \in 1..Len(dirs), k < nth + 1
        PROVE  stamp'[dirs[k]] = "here"
    <3>1. k = nth \/ k < nth
      BY <1>0, <2>1, <2>2
    <3>2. QED
      BY <1>0, <2>1, <3>1 DEF TimesInv, TimesBehind, TypeOK
  <2>3. TimesBehind'
    BY <2>1, <2>2 DEF TimesBehind
  <2>4. DirsBehind'
    BY <1>c, <2>1 DEF TimesInv, DirsBehind, Working, InPackage, Wanted
  <2>5. QED
    BY <1>a, <1>b, <2>1, <2>3, <2>4 DEF TimesInv
<1>10. CASE SyncAndSay
  <2>1. /\ pc = "times" /\ pc' = "end" /\ nth > Len(dirs) /\ UNCHANGED <<dirs, dirs_len, stamp>>
        /\ pkg = NPackages + 1 /\ Working
    BY <1>10 DEF SyncAndSay, Exit, TimesInv, AllSeen, Working
  <2>2. ASSUME NEW d \in FileDirs
        PROVE  Covered(d)
    <3>1. PICK p \in Packages : Wanted(p) /\ \E f \in FilesOf(p) : d = DirOf(f)
      BY <2>2 DEF FileDirs, PackageFiles, Wanted
    <3>2. p < pkg
      BY <1>0, <2>1 DEF Packages
    <3>3. QED
      BY <2>1, <3>1, <3>2 DEF TimesInv, DirsBehind
  <2>3. ASSUME NEW d \in FileDirs, NEW k \in 1..Len(dirs), dirs[k] = d
        PROVE  stamp[d] = "here"
    BY <1>0, <2>1, <2>3 DEF TimesInv, TimesBehind, TypeOK
  <2>4. TimesRestored'
    BY <2>1, <2>2, <2>3 DEF TimesRestored, Covered
  <2>5. QED
    BY <1>a, <2>1, <2>4 DEF TimesInv, DirsBehind, TimesBehind, Working, InPackage
<1>11. QED
  BY <1>1, <1>2, <1>3, <1>4, <1>5, <1>6, <1>7, <1>8, <1>9, <1>10 DEF Next

(* Where the lists can be read and the times set, every directory a file   *)
(* was put in has its own times again when a strap says it is done, or     *)
(* there was no more room for its name: in whatever order the files came,  *)
(* however often a run went back to a directory, whichever run it was.     *)
THEOREM TimesRestoredHolds == ASSUME NothingPassedOver PROVE Spec => []TimesRestored
<1>1. Init => TimesInv
  BY DEF Init, TimesInv, AllSeen, SaidAtEnd, DirsBehind, TimesBehind, TimesRestored, Working, InPackage
<1>2. TimesInv => TimesRestored
  BY DEF TimesInv
<1>3. QED
  BY <1>1, <1>2, StepTimes, TypeCorrect, PTL DEF Spec

-----------------------------------------------------------------------------
(* The loop that copies one file, for every length of file, every size of  *)
(* page and every width of offset.                                         *)
LEMMA Sent ==
  ASSUME NEW x \in Nat
  PROVE  /\ AsU32(x) \in 0..(Wrap - 1)
         /\ x < Wrap => AsU32(x) = x
  BY CopyAssumption DEF AsU32

LEMMA PageRead ==
  ASSUME NEW x \in Nat, size \in Nat
  PROVE  /\ UntilEnd(x) \in 0..Page
         /\ UntilEnd(x) = 0 <=> x >= size
         /\ x <= size => x + UntilEnd(x) <= size
  BY CopyAssumption DEF UntilEnd, Least

-----------------------------------------------------------------------------
LEMMA CopyStepTyped == CopyTypeOK /\ [CopyNext]_copyVars => CopyTypeOK'
<1> SUFFICES ASSUME CopyTypeOK, [CopyNext]_copyVars
             PROVE  CopyTypeOK'
  OBVIOUS
<1> USE DEF CopyTypeOK
<1>0. Page \in Nat \ {0} /\ Wrap \in Nat \ {0} /\ size \in Nat /\ Sizes \subseteq Nat
  BY CopyAssumption
<1>1. CASE Read
  <2>1. PICK k \in 1..UntilEnd(AsU32(offset)) : got' = k
    BY <1>1 DEF Read
  <2>2. AsU32(offset) \in 0..(Wrap - 1)
    BY Sent
  <2>3. UntilEnd(AsU32(offset)) \in 0..Page
    BY <2>2, <1>0, PageRead
  <2>4. QED
    BY <1>0, <1>1, <2>1, <2>2, <2>3 DEF Read
<1>2. CASE ReadEnd
  BY <1>2 DEF ReadEnd
<1>3. CASE Write
  <2>1. PICK k \in 1..(got - put) : WritePiece(k) /\ put' = put + k
    BY <1>3 DEF Write
  <2>2. AsU32(offset + put) \in 0..(Wrap - 1)
    BY <1>0, Sent
  <2>3. k \in Nat /\ put' \in 0..got
    BY <1>0, <2>1
  <2>4. to' \in [Offsets -> Nat \cup {Nothing}]
    BY <1>0, <2>1, <2>2, <2>3 DEF WritePiece, Offsets
  <2>5. QED
    BY <1>3, <2>3, <2>4 DEF Write
<1>4. CASE NextPage
  BY <1>4, <1>0 DEF NextPage
<1>5. CASE Fail
  BY <1>5 DEF Fail
<1>6. CASE UNCHANGED copyVars
  BY <1>6 DEF copyVars
<1>7. QED
  BY <1>1, <1>2, <1>3, <1>4, <1>5, <1>6 DEF CopyNext

(* Every variable of a copy stays in its range: what is written of a page  *)
(* never passes what was read of it, nor an offset its 32 bits.            *)
THEOREM CopyTypeCorrect == CopySpec => []CopyTypeOK
<1>1. CopyInit => CopyTypeOK
  BY CopyAssumption DEF CopyInit, CopyTypeOK
<1>2. QED
  BY <1>1, CopyStepTyped, PTL DEF CopySpec

-----------------------------------------------------------------------------
(* A piece goes after what was copied before it.                           *)
LEMMA PieceFollows ==
  ASSUME CopyTypeOK, CopyInv, size < Wrap, phase = "write",
         NEW k \in 1..(got - put), WritePiece(k), put' = put + k,
         UNCHANGED <<phase, size, offset, got, from>>
  PROVE  \A i \in Offsets : to'[i] = IF i < Copied' THEN i ELSE Nothing
<1>1. /\ Page \in Nat \ {0} /\ Wrap \in Nat \ {0} /\ size \in Nat
      /\ offset \in Nat /\ got \in Nat /\ put \in Nat /\ put <= got /\ k \in Nat /\ k <= got - put
      /\ to \in [Offsets -> Nat \cup {Nothing}]
  BY CopyAssumption DEF CopyTypeOK
<1>2. from = offset /\ offset + got <= size
  BY DEF CopyInv
<1>3. Copied = offset + put /\ Copied' = offset + put + k
  BY <1>1 DEF Copied
<1>4. AsU32(offset + put) = offset + put
  BY <1>1, <1>2, Sent
<1>5. \A i \in Offsets : to[i] = IF i < offset + put THEN i ELSE Nothing
  BY <1>3 DEF CopyInv
<1>6. SUFFICES ASSUME NEW i \in Offsets
               PROVE  to'[i] = IF i < offset + put + k THEN i ELSE Nothing
  BY <1>3
<1>7. to'[i] = IF i >= offset + put /\ i < offset + put + k THEN from + put + (i - (offset + put))
                                                     ELSE to[i]
  BY <1>4 DEF WritePiece
<1>8. i \in Nat
  BY <1>1 DEF Offsets
<1>9. QED
  BY <1>1, <1>2, <1>5, <1>7, <1>8

LEMMA StepCopied == CopyTypeOK /\ CopyInv /\ [CopyNext]_copyVars => CopyInv'
<1> SUFFICES ASSUME CopyTypeOK, CopyInv, [CopyNext]_copyVars
             PROVE  CopyInv'
  OBVIOUS
<1>0. /\ Page \in Nat \ {0} /\ Wrap \in Nat \ {0} /\ size \in Nat
      /\ offset \in Nat /\ got \in Nat /\ put \in Nat
  BY CopyAssumption DEF CopyTypeOK
<1>1. CASE Read
  <2>1. PICK k \in 1..UntilEnd(AsU32(offset)) : got' = k
    BY <1>1 DEF Read
  <2>2. size < Wrap => from' = offset /\ offset + got' <= size
    <3>1. ASSUME size < Wrap
          PROVE  from' = offset /\ offset + got' <= size
      <4>1. offset <= size /\ AsU32(offset) = offset
        BY <1>0, <3>1, Sent DEF CopyInv
      <4>2. offset + UntilEnd(offset) <= size /\ UntilEnd(offset) \in 0..Page
        BY <1>0, <4>1, PageRead
      <4>3. QED
        BY <1>0, <1>1, <2>1, <4>1, <4>2 DEF Read
    <3>2. QED
      BY <3>1
  <2>3. Copied' = Copied
    BY <1>0, <1>1 DEF Read, Copied
  <2>4. QED
    BY <1>1, <2>2, <2>3 DEF Read, CopyInv
<1>2. CASE ReadEnd
  <2>1. AsU32(offset) \in 0..(Wrap - 1) /\ (offset < Wrap => AsU32(offset) = offset)
    BY <1>0, Sent
  <2>2. AsU32(offset) >= size
    BY <1>0, <1>2, <2>1, PageRead DEF ReadEnd
  <2>3. size < Wrap
    BY <1>0, <2>1, <2>2
  <2>4. offset = size
    BY <1>0, <2>1, <2>2, <2>3 DEF CopyInv
  <2>5. Copied' = Copied
    BY <1>0, <1>2 DEF ReadEnd, Copied
  <2>6. QED
    BY <1>2, <2>3, <2>4, <2>5 DEF ReadEnd, CopyInv
<1>3. CASE Write
  <2>1. PICK k \in 1..(got - put) : WritePiece(k) /\ put' = put + k
    BY <1>3 DEF Write
  <2>2. size < Wrap => \A i \in Offsets : to'[i] = IF i < Copied' THEN i ELSE Nothing
    BY <1>3, <2>1, PieceFollows DEF Write
  <2>3. QED
    BY <1>3, <2>2 DEF Write, CopyInv
<1>4. CASE NextPage
  <2>1. Copied' = Copied
    BY <1>0, <1>4 DEF NextPage, Copied
  <2>2. QED
    BY <1>0, <1>4, <2>1 DEF NextPage, CopyInv
<1>5. CASE Fail
  BY <1>5 DEF Fail, CopyInv
<1>6. CASE UNCHANGED copyVars
  <2>1. Copied' = Copied
    BY <1>6 DEF copyVars, Copied
  <2>2. QED
    BY <1>6, <2>1 DEF copyVars, CopyInv
<1>7. QED
  BY <1>1, <1>2, <1>3, <1>4, <1>5, <1>6 DEF CopyNext

(* A copy that says it is done has copied every byte to its place and      *)
(* nothing else, however the reads and writes were cut up; and a file too  *)
(* long for its offsets is never said to be copied.                        *)
THEOREM CopiedWholeHolds == CopySpec => []CopiedWhole
<1>1. CopyInit => CopyTypeOK /\ CopyInv
  BY CopyAssumption DEF CopyInit, CopyTypeOK, CopyInv, Copied, Offsets
<1>2. CopyTypeOK /\ CopyInv /\ [CopyNext]_copyVars => (CopyTypeOK /\ CopyInv)'
  BY CopyStepTyped, StepCopied
<1>3. CopyTypeOK /\ CopyInv => CopiedWhole
  <2>1. ASSUME CopyTypeOK, CopyInv, phase = "done"
        PROVE  CopiedWhole
    <3>1. size \in Nat /\ offset = size /\ Copied = offset
      BY <2>1, CopyAssumption DEF CopyTypeOK, CopyInv, Copied
    <3>2. QED
      BY <2>1, <3>1 DEF CopyInv, CopiedWhole
  <2>2. QED
    BY <2>1 DEF CopiedWhole
<1>4. QED
  BY <1>1, <1>2, <1>3, PTL DEF CopySpec
=============================================================================

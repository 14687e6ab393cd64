---------------------------- MODULE BangInstall ----------------------------
(* `bang-install ROOT`: what the firmware starts is copied from the new     *)
(* root, which qpkg put it in, to the EFI system partition, and where that  *)
(* root is, is written down there last, for `init` of the system that it    *)
(* starts (programs/bang-install/src/main.rs).                              *)
(*                                                                          *)
(* Every call that changes the partition is a step: one may be refused, the *)
(* machine may stop between any two, and the command may be given again     *)
(* over what is there, with another strap of the root in between.  The file *)
(* server answers a change at once and has it on the disk for certain only  *)
(* after a `sync`.                                                          *)
EXTENDS Naturals, Sequences, FiniteSets, Functions

CONSTANTS
  Fixed,     \* the loader, the kernel and the menu, in the order of copying
  Modules,   \* the drivers directory, in the order it is read in
  Page,      \* how many of its entries one call reads
  Disks,     \* what can be started from or installed to
  Target,    \* the one whose partition is mounted on ROOT
  Tables,    \* of each disk, the id its table gives that partition, or Zero
  Zero,      \* what stands where there is none
  Drivers,   \* the names the disks' drivers may take
  Faults,    \* which failures there are; see FaultKinds
  MaxStraps, \* bound: how often qpkg straps the root
  MaxRuns    \* bound: how often the command is given

FaultKinds == {"call", "dir", "id", "sync", "crash"}
Copied == Range(Fixed) \cup Range(Modules)
Loader == Fixed[1]

ASSUME BangAssumption ==
  /\ Fixed \in Seq(STRING) \ {<<>>} /\ Modules \in Seq(STRING)
  /\ Page \in Nat \ {0} /\ MaxStraps \in Nat /\ MaxRuns \in Nat
  /\ Range(Fixed) \cap Range(Modules) = {} /\ IsInjective(Fixed \o Modules)
  /\ Target \in Disks /\ Faults \subseteq FaultKinds
  /\ \A t \in Tables : \A d, e \in Disks : t[d] = t[e] /\ t[d] # Zero => d = e

VARIABLES
  src,      \* of each file, whether it is in the root, and whether it is whole
  strapped, \* qpkg has said that the root has everything
  straps,
  esp,      \* the files on the boot partition that are whole and of this root
  cfg,      \* what root.cfg there says, or Nowhere of this root: half a line,
            \* another system's, or no such file
  recorded, \* both as they were when last synced
  touched,  \* the files changed since then, and "cfg"
  id,       \* one of Tables
  name,     \* what name each disk's driver took when the machine started
  was,      \* what the target's was as it was installed to
  place, todo, \* where the command is, and what it has yet to copy
  next,     \* how much of the drivers directory it has read
  line,     \* what it has found to write to root.cfg
  said,     \* that it is done
  began,    \* whether qpkg had said so when it began
  passed,   \* the failures it passed over
  runs
root == <<src, strapped, straps>>
boot == <<esp, cfg, touched>>
bangVars == <<root, boot, recorded, id, name, was, place, todo, next, line, said, began, passed, runs>>

Nowhere == [by |-> "none"]
ById(i) == [by |-> "id", id |-> i]
ByVolume(d) == [by |-> "volume", driver |-> d]
Cfgs == {Nowhere} \cup {ById(t[d]) : d \in Disks, t \in Tables} \cup {ByVolume(d) : d \in Drivers}
DriverNames == {n \in [Disks -> Drivers] : \A d, e \in Disks : n[d] = n[e] => d = e}

(* The partition may be a new one, or have another system's files on it.    *)
BangInit ==
  /\ src = [f \in Copied |-> "none"] /\ strapped = FALSE /\ straps = 0
  /\ esp = {} /\ cfg = Nowhere
  /\ touched = {}
  /\ recorded = [esp |-> esp, cfg |-> cfg]
  /\ id \in Tables /\ name \in DriverNames /\ was = name[Target]
  /\ place = "idle" /\ todo = <<>> /\ next = 0 /\ line = Nowhere
  /\ said = FALSE /\ began = FALSE /\ passed = {} /\ runs = 0

(* The command is over, and only what it said is left of it.                *)
EndInstall == place' = "idle" /\ todo' = <<>> /\ next' = 0 /\ line' = Nowhere
Forget == IF said THEN UNCHANGED <<began, passed>> ELSE began' = FALSE /\ passed' = {}

-----------------------------------------------------------------------------
(* qpkg strap: done, or what a refused or stopped one leaves.               *)
Strap ==
  /\ place = "idle"
  /\ runs < MaxRuns \* bound: what is in the root afterwards is not looked at
  /\ straps < MaxStraps /\ straps' = straps + 1
  /\ \/ src' = [f \in Copied |-> "new"] /\ strapped' = TRUE
     \/ /\ "call" \in Faults /\ strapped' = FALSE
        /\ \E done \in SUBSET Copied, f \in Copied :
             src' = [g \in Copied |-> IF g = f THEN "part"
                                     ELSE IF g \in done THEN "new" ELSE src[g]]
  /\ UNCHANGED <<boot, recorded, id, name, was, place, todo, next, line, said, began, passed, runs>>

(* Nothing is touched until the loader has been found in the root.          *)
BeginInstall ==
  /\ place = "idle" /\ runs < MaxRuns
  /\ src[Loader] # "none"
  /\ place' = "copy" /\ todo' = Fixed /\ next' = 0
  /\ said' = FALSE /\ began' = strapped /\ passed' = {} /\ runs' = runs + 1
  /\ was' = name[Target]
  /\ UNCHANGED <<root, boot, recorded, id, name, line>>

(* copy: the file is made or truncated, and then written.                   *)
OpenFile ==
  /\ place = "copy" /\ todo # <<>> /\ src[Head(todo)] # "none"
  /\ esp' = esp \ {Head(todo)}
  /\ touched' = touched \cup {Head(todo)}
  /\ place' = "write"
  /\ UNCHANGED <<root, cfg, recorded, id, name, was, todo, next, line, said, began, passed, runs>>

Write ==
  /\ place = "write"
  /\ esp' = IF src[Head(todo)] = "new" THEN esp \cup {Head(todo)} ELSE esp
  /\ place' = "copy" /\ todo' = Tail(todo)
  /\ UNCHANGED <<root, cfg, touched, recorded, id, name, was, next, line, said, began, passed, runs>>

(* The drivers directory, a page of entries at a time; what is not in it is *)
(* not read.                                                                *)
Least(a, b) == IF a < b THEN a ELSE b
Listed(f) == src[f] # "none"

NotListed ==
  /\ place = "copy" /\ todo # <<>> /\ next > 0 /\ ~Listed(Head(todo))
  /\ todo' = Tail(todo)
  /\ UNCHANGED <<root, boot, recorded, id, name, was, place, next, line, said, began, passed, runs>>

ReadDir ==
  /\ place = "copy" /\ todo = <<>>
  /\ IF next = Len(Modules) THEN place' = "find" /\ UNCHANGED <<todo, next>>
     ELSE /\ next' = Least(next + Page, Len(Modules))
          /\ todo' = SubSeq(Modules, next + 1, next') /\ UNCHANGED place
  /\ UNCHANGED <<root, boot, recorded, id, name, was, line, said, began, passed, runs>>

(* A call to read it that fails is taken for its end.                       *)
DirUnread ==
  /\ place = "copy" /\ todo = <<>> /\ next < Len(Modules)
  /\ "dir" \in Faults
  /\ place' = "find" /\ passed' = passed \cup {"dir"}
  /\ UNCHANGED <<root, boot, recorded, id, name, was, todo, next, line, said, began, runs>>

(* A mutant: the id is written down whatever it is.                         *)
IdAnyway == ById(id[Target])

(* Where the root is: the partition's id, where it has one, or else the     *)
(* name of its driver as this runs.                                         *)
Where == IF id[Target] # Zero THEN ById(id[Target]) ELSE ByVolume(name[Target])

FindRoot ==
  /\ place = "find"
  /\ \/ line' = Where /\ UNCHANGED passed
     \/ /\ "id" \in Faults /\ passed' = passed \cup {"id"}
        /\ line' = ByVolume(name[Target])
  /\ place' = "cfg"
  /\ UNCHANGED <<root, boot, recorded, id, name, was, todo, next, said, began, runs>>

OpenCfg ==
  /\ place = "cfg" /\ cfg' = Nowhere
  /\ touched' = touched \cup {"cfg"}
  /\ place' = "cfg_open"
  /\ UNCHANGED <<root, esp, recorded, id, name, was, todo, next, line, said, began, passed, runs>>

WriteCfg ==
  /\ place = "cfg_open" /\ cfg' = line
  /\ place' = "sync"
  /\ UNCHANGED <<root, esp, touched, recorded, id, name, was, todo, next, line, said, began, passed, runs>>

(* A mutant: it is said before it is recorded.                              *)
SayWithoutSync ==
  /\ place = "sync" /\ said' = TRUE /\ EndInstall
  /\ UNCHANGED <<root, boot, recorded, id, name, was, began, passed, runs>>

(* A sync that fails is passed over.                                        *)
SyncAndSay ==
  /\ place = "sync"
  /\ \/ recorded' = [esp |-> esp, cfg |-> cfg] /\ touched' = {} /\ UNCHANGED passed
     \/ /\ "sync" \in Faults /\ passed' = passed \cup {"sync"}
        /\ UNCHANGED <<recorded, touched>>
  /\ said' = TRUE /\ EndInstall
  /\ UNCHANGED <<root, esp, cfg, id, name, was, began, runs>>

(* A mutant: what was left to copy is not let go of.                        *)
RefusedKeeps ==
  /\ place # "idle" /\ "call" \in Faults
  /\ place' = "idle" /\ Forget
  /\ UNCHANGED <<root, boot, recorded, id, name, was, todo, next, line, said, runs>>

(* Any other call that is refused is the end of the command, and so is      *)
(* whoever gave it and thinks again.                                        *)
Refused ==
  /\ place # "idle"
  /\ \/ "call" \in Faults
     \/ place = "copy" /\ todo # <<>> /\ next = 0 /\ src[Head(todo)] = "none"
     \/ place = "copy" /\ todo = <<>> /\ next = 0 /\ ~\E f \in Range(Modules) : Listed(f)
  /\ EndInstall /\ Forget
  /\ UNCHANGED <<root, boot, recorded, id, name, was, said, runs>>

(* The machine stops and starts again: what was not recorded is there, as   *)
(* it was or half of it, and the drivers take names in another order.       *)
Crash ==
  /\ "crash" \in Faults
  /\ \E kept \in SUBSET (touched \cap (esp \cup recorded.esp)) :
       esp' = (esp \ touched) \cup kept
  /\ cfg' \in IF "cfg" \in touched THEN {cfg, recorded.cfg, Nowhere} ELSE {cfg}
  /\ recorded' = [esp |-> esp', cfg |-> cfg'] /\ touched' = {}
  /\ name' \in DriverNames
  /\ EndInstall /\ Forget
  /\ UNCHANGED <<root, id, was, said, runs>>

BangNext ==
  \/ Strap \/ BeginInstall \/ OpenFile \/ Write \/ NotListed \/ ReadDir \/ DirUnread
  \/ FindRoot \/ OpenCfg \/ WriteCfg \/ SyncAndSay \/ Refused \/ Crash

BangSpec == BangInit /\ [][BangNext]_bangVars

-----------------------------------------------------------------------------
(* The state is of its type, what is on the disk is what is there but for   *)
(* what was changed since, and a command that has ended copies nothing.     *)
BangTypeOK ==
  /\ src \in [Copied -> {"none", "part", "new"}]
  /\ esp \subseteq Copied /\ cfg \in Cfgs
  /\ touched \subseteq Copied \cup {"cfg"}
  /\ recorded \in [esp : SUBSET Copied, cfg : Cfgs]
  /\ esp \ touched = recorded.esp \ touched
  /\ "cfg" \notin touched => cfg = recorded.cfg
  /\ id \in Tables /\ name \in DriverNames /\ was \in Drivers
  /\ place \in {"idle", "copy", "write", "find", "cfg", "cfg_open", "sync"}
  /\ line \in Cfgs
  /\ todo \in Seq(Copied) /\ (place \notin {"copy", "write"} => todo = <<>>)
  /\ place = "write" => todo # <<>> /\ Head(todo) \in touched \ esp
  /\ place = "cfg_open" => "cfg" \in touched
  /\ next \in 0..Len(Modules)
  /\ strapped \in BOOLEAN /\ said \in BOOLEAN /\ began \in BOOLEAN
  /\ passed \subseteq Faults /\ runs \in 0..MaxRuns /\ straps \in 0..MaxStraps

(* Once it has said that the loader, the kernel and the modules are on the  *)
(* partition, they are all there and whole, of a root that qpkg was done    *)
(* with, whatever was there before and whatever happens after               *)
(* (bang-install/src/main.rs:285-293), but for a directory or a sync whose  *)
(* failure it passed over.                                                  *)
SaidStarts ==
  said /\ began /\ passed \cap {"dir", "sync"} = {} => esp = Copied

(* Where root.cfg says the root is, as the machine has started this time.   *)
Found ==
  CASE cfg.by = "id" -> {d \in Disks : id[d] = cfg.id}
    [] cfg.by = "volume" -> {d \in Disks : name[d] = cfg.driver}
    [] OTHER -> {}

(* And then the system it starts finds its root, and no other: on whichever *)
(* disk it turns out to be where its table names it (17-21), and where it   *)
(* does not, as long as its driver takes the name it had (256-258).         *)
FindsRoot ==
  said /\ passed \cap {"id", "sync"} = {} /\ (id[Target] # Zero \/ name[Target] = was)
    => Found = {Target}
=============================================================================

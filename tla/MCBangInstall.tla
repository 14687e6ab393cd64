--------------------------- MODULE MCBangInstall ---------------------------
(* The loader and the kernel, three modules read two at a time; two disks,  *)
(* of which one has an id, or neither has.  Only whether two drivers' names *)
(* are the same matters to anything.                                        *)
EXTENDS BangInstall, TLC
MCFixed == <<"BOOTX64", "KERNEL">>
MCModules == <<"init", "vfs", "disk">>
MCTables == {[live |-> "none", disk |-> i] : i \in {"none", "guid"}}
MCSymmetry == Permutations(Drivers)
=============================================================================

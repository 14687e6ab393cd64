------------------------------ MODULE CopyLoop ------------------------------
(***************************************************************************)
(* The loop that copies one file (programs/qpkg/src/main.rs, `copy`): a    *)
(* page is read at `at`, written out in as many pieces as the file server  *)
(* takes it in, and the next is read after it, until there is none.        *)
(* `strap` takes a file to be whole when this loop ends (module Strap).    *)
(*                                                                         *)
(* The code's `at`, `offset` here, has 64 bits, and what is sent of it has *)
(* 32 (`at as u32`); its `n` is `got`, `pc` is `phase`: StrapProofs has    *)
(* both modules, and `at`, `n` and `pc` are Strap's.                       *)
(***************************************************************************)
EXTENDS Integers

CONSTANTS
  Sizes,   \* how long the file that is copied may be
  Page,    \* how much is read at once, 4096
  Wrap,    \* offsets there are in a message, 2^32
  MaxAt    \* bound: how far a copy is followed

ASSUME CopyAssumption ==
  /\ Sizes \subseteq Nat
  /\ Page \in Nat \ {0} /\ Wrap \in Nat \ {0}
  /\ MaxAt \in Nat

VARIABLES
  phase,   \* "read", "write", "done", "failed"
  size,    \* the length of the file here; its byte at i is called i
  offset,  \* how much has been copied
  got,     \* how much of the page was read
  from,    \* where in the file the page was read
  put,     \* how much of it is written
  to       \* the bytes of the file there: which byte of this one, or Nothing

copyVars == <<phase, size, offset, got, from, put, to>>

Nothing == -1
Least(a, b) == IF a < b THEN a ELSE b
(* A piece of a page that starts below Wrap ends below this. *)
Offsets == 0..(Wrap + Page)
UntilEnd(x) == IF x < size THEN Least(Page, size - x) ELSE 0
AsU32(x) == x % Wrap

(* Both are open, the one there truncated. *)
CopyInit ==
  /\ phase = "read" /\ size \in Sizes
  /\ offset = 0 /\ got = 0 /\ from = 0 /\ put = 0
  /\ to = [i \in Offsets |-> Nothing]

(* As much as the file server sends, which may be less than a page. *)
Read ==
  /\ phase = "read" /\ offset <= MaxAt
  /\ \E k \in 1..UntilEnd(AsU32(offset)) : got' = k
  /\ from' = AsU32(offset) /\ put' = 0
  /\ phase' = "write"
  /\ UNCHANGED <<size, offset, to>>

(* Ok(0): the end. *)
ReadEnd ==
  /\ phase = "read" /\ UntilEnd(AsU32(offset)) = 0
  /\ phase' = "done"
  /\ UNCHANGED <<size, offset, got, from, put, to>>

(* A piece of what is left of the page, where it belongs. *)
WriteOver(k) ==
  LET there == AsU32(offset) IN
  to' = [i \in Offsets |-> IF i >= there /\ i < there + k THEN from + put + (i - there)
                                                      ELSE to[i]]
WritePiece(k) ==
  LET there == AsU32(offset + put) IN
  to' = [i \in Offsets |-> IF i >= there /\ i < there + k THEN from + put + (i - there)
                                                      ELSE to[i]]

WriteTooFar ==
  /\ phase = "write" /\ put < got
  /\ \E k \in 1..got : WritePiece(k) /\ put' = put + k
  /\ UNCHANGED <<phase, size, offset, got, from>>
Write ==
  /\ phase = "write" /\ put < got
  /\ \E k \in 1..(got - put) : WritePiece(k) /\ put' = put + k
  /\ UNCHANGED <<phase, size, offset, got, from>>

(* put == n in the code. *)
SamePage ==
  /\ phase = "write" /\ put = got
  /\ phase' = "read"
  /\ UNCHANGED <<size, offset, got, from, put, to>>
NextPage ==
  /\ phase = "write" /\ put = got
  /\ offset' = offset + got
  /\ phase' = "read"
  /\ UNCHANGED <<size, got, from, put, to>>

(* An error, or a write of which nothing was taken. *)
Fail ==
  /\ phase = "read" \/ (phase = "write" /\ put < got)
  /\ phase' = "failed"
  /\ UNCHANGED <<size, offset, got, from, put, to>>

CopyNext == Read \/ ReadEnd \/ Write \/ NextPage \/ Fail
CopySpec == CopyInit /\ [][CopyNext]_copyVars
FairCopySpec == CopySpec /\ WF_copyVars(CopyNext)

-----------------------------------------------------------------------------
CopyTypeOK ==
  /\ phase \in {"read", "write", "done", "failed"}
  /\ size \in Sizes
  /\ offset \in Nat /\ got \in 0..Page /\ from \in 0..Wrap /\ put \in 0..got
  /\ to \in [Offsets -> Nat \cup {Nothing}]

(* A copy that says it is done has every byte of the file where it was,    *)
(* and nothing after them, however the reads and writes were cut up; so none   *)
(* of a file too long for its offsets to be sent says so.                  *)
CopiedWhole ==
  phase = "done" => /\ offset = size
                 /\ \A i \in Offsets : to[i] = IF i < size THEN i ELSE Nothing

(* The copy of a file whose offsets can all be sent ends.  Longer than     *)
(* that, it begins again from the start of the file, for ever.             *)
Ends == size < Wrap => <>(phase \in {"done", "failed"})

(* Between any two calls, what was copied is a beginning of the file.      *)
Copied == offset + IF phase = "write" THEN put ELSE 0
CopyInv ==
  /\ size < Wrap =>
       /\ offset <= size
       /\ phase = "write" => from = offset /\ offset + got <= size
       /\ phase # "failed" =>
            \A i \in Offsets : to[i] = IF i < Copied THEN i ELSE Nothing
       /\ phase = "done" => offset = size
  /\ phase = "done" => size < Wrap
=============================================================================

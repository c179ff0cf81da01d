------------------------------- MODULE Backup -------------------------------
(***************************************************************************)
(* What a user of ptgz counts on, with -c and then -x: an archive that is  *)
(* handed to an extraction holds all the files, and once files are taken   *)
(* out of it nothing is dropped that is not restored (src/README.md:26,40).*)
(***************************************************************************)
CONSTANT Files

VARIABLES
  open,      \* the archive is still being made
  packed,    \* files that the archive, or a part of it, holds
  restored   \* files that are back in their place

vars == <<open, packed, restored>>

Init == open = TRUE /\ packed = {} /\ restored = {}

\* A job may be stopped half way, and started again from what it left.
Pack == open /\ packed' \in SUBSET Files /\ UNCHANGED <<open, restored>>

\* The archive is handed to an extraction.
Close == open /\ packed = Files /\ open' = FALSE /\ UNCHANGED <<packed, restored>>

Restore == ~ open /\ (\E S \in SUBSET packed : restored' = restored \cup S) /\ UNCHANGED <<open, packed>>
Drop    == ~ open /\ (\E S \in SUBSET restored : packed' = packed \ S) /\ UNCHANGED <<open, restored>>

Spec == Init /\ [][Pack \/ Close \/ Restore \/ Drop]_vars
=============================================================================

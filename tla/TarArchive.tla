----------------------------- MODULE TarArchive -----------------------------
(***************************************************************************)
(* What mpitar promises, without workers, messages or buffers: the archive *)
(* file is emptied, every listed file is stored once at the byte offset a  *)
(* sequential tar would give it, in any order, and the index file and the  *)
(* end-of-archive blocks are added only when every file is in place.       *)
(***************************************************************************)
EXTENDS Integers

CONSTANTS
  NFiles,  \* number of files on the list mpitar is given
  Layout   \* Layout[f]: where a sequential tar puts member f

Files     == 1..NFiles
IndexFile == NFiles + 1          \* the .idx file, the last member
Members   == Files \cup {IndexFile}

\* One member of the archive file, at the place it was written to.
Extent(at, f) == [at |-> at, file |-> f]
Placed(S)     == {Extent(Layout[f], f) : f \in S}

VARIABLES
  archive,  \* the extents in the archive file
  phase     \* "old", "writing" or "closed"

vars == <<archive, phase>>

\* Before the run the file may be missing (no extent) or left by another run.
Init == phase = "old"

Truncate ==
  /\ phase = "old"
  /\ archive' = {}
  /\ phase' = "writing"

Store(S) ==
  /\ phase = "writing"
  /\ S \cap {e.file : e \in archive} = {}
  /\ archive' = archive \cup Placed(S)
  /\ UNCHANGED phase

StoreIndex ==
  /\ phase = "writing"
  /\ archive = Placed(Files)
  /\ archive' = Placed(Members)
  /\ UNCHANGED phase

\* What is still in a buffer goes to the file with the end-of-archive blocks.
Close ==
  /\ phase = "writing"
  /\ archive \in {Placed(Files), Placed(Members)}
  /\ archive' = Placed(Members)
  /\ phase' = "closed"

Next == Truncate \/ (\E S \in SUBSET Files : Store(S)) \/ StoreIndex \/ Close

Spec == Init /\ [][Next]_vars
=============================================================================

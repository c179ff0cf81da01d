----------------------------- MODULE Extraction -----------------------------
(***************************************************************************)
(* extraction() of ptgz (src/src/ptgz-mpi.cpp): root reads the index out   *)
(* of <name>.ptgz.tar, every rank takes the archives of its block out of   *)
(* it, and after a barrier unpacks them twice and deletes them; root       *)
(* removes <name>.ptgz.tar.                                                *)
(*                                                                         *)
(* A child process that runs tar does its work, or fails to start (execute *)
(* returns -1 or the child _exit(1)): ptgz never looks at the difference.  *)
(* What an archive holds is one thing here, unpacked or not.               *)
(***************************************************************************)
EXTENDS Partition

CONSTANTS
  N,            \* globalSize
  NArchives,    \* archives in the tar: 0..NArchives - 1
  Listed,       \* lines of its ptgz.idx, less the three that are no archives
  Keep,         \* -k
  Failing,      \* the steps whose tar may fail to start
  MaxFails      \* how many of them do

Ranks    == 0..N - 1
Archives == 0..NArchives - 1
Lines    == 0..Listed - 1
Steps    == {"index", "extract", "unpack", "check"}

ASSUME RanksAssumption   == N \in Nat \ {0}
ASSUME ArchiveAssumption == NArchives \in Nat \ {0} /\ Listed \in Nat /\ Listed >= NArchives
ASSUME FailsAssumption   == Keep \in BOOLEAN /\ Failing \subseteq Steps /\ MaxFails \in Nat

VARIABLES
  pc,           \* where each rank is
  left,         \* left[r]: archives the loop of rank r has not done
  numArchives,  \* what root counted in the index
  tar,          \* <name>.ptgz.tar exists
  gz,           \* the <a>.<name>.ptgz.tar.gz that exist
  out,          \* the archives whose files are unpacked
  fails         \* tar processes that failed so far

vars == <<pc, left, numArchives, tar, gz, out, fails>>

Init ==
  /\ pc = [r \in Ranks |-> IF r = 0 THEN "index" ELSE "scatter"]
  /\ left = [r \in Ranks |-> {}]
  /\ numArchives = 0
  /\ tar = TRUE /\ gz = {} /\ out = {}
  /\ fails = 0

\* A tar process of this step fails to start.
Fail(step) ==
  /\ step \in Failing
  /\ fails < MaxFails
  /\ fails' = fails + 1
-----------------------------------------------------------------------------
\* Root extracts the index, counts its lines and removes it.  Without the file
\* it counts none, and takes three off.
ReadIndex ==
  /\ pc[0] = "index"
  /\ \/ numArchives' = Listed /\ UNCHANGED fails
     \/ numArchives' = 0 - 3 /\ Fail("index")
  /\ pc' = [pc EXCEPT ![0] = "scatter"]
  /\ UNCHANGED <<left, tar, gz, out>>

\* MPI_Scatter of the blocks.  With -3 archives start + count is -3 for every
\* rank, which the unsigned loop counter of rank 0 reaches at 2^64 - 3: rank 0
\* runs tar on names that do not exist, and the others wait for it.
Scatter(r) ==
  /\ pc[r] = "scatter" /\ pc[0] # "index"
  /\ IF numArchives < 0
     THEN /\ pc' = [pc EXCEPT ![r] = "endless"]
          /\ UNCHANGED left
     ELSE /\ pc' = [pc EXCEPT ![r] = "extract"]
          /\ left' = [left EXCEPT ![r] = Block(r, N, numArchives)]
  /\ UNCHANGED <<numArchives, tar, gz, out, fails>>

\* tar -x of one archive out of <name>.ptgz.tar.
Extract(r, a) ==
  /\ pc[r] = "extract"
  /\ a \in left[r]
  /\ left' = [left EXCEPT ![r] = @ \ {a}]
  /\ \/ gz' = (IF tar THEN gz \cup ({a} \cap Archives) ELSE gz) /\ UNCHANGED fails
     \/ UNCHANGED gz /\ Fail("extract")
  /\ UNCHANGED <<pc, numArchives, tar, out>>

\* Slip: no MPI_Barrier after the loop.
EndExtractAlone ==
  \E r \in Ranks :
    /\ pc[r] = "extract" /\ left[r] = {}
    /\ pc' = [pc EXCEPT ![r] = "unpack"]
    /\ left' = [left EXCEPT ![r] = Block(r, N, numArchives)]
    /\ UNCHANGED <<numArchives, tar, gz, out, fails>>

\* MPI_Barrier after the loop.  A rank whose block has less than none of the
\* archives asks for a vector of that size: std::length_error ends it.
EndExtract ==
  /\ \A r \in Ranks : pc[r] = "extract" /\ left[r] = {}
  /\ pc' = [r \in Ranks |-> IF Count(r, N, numArchives) < 0 THEN "crashed" ELSE "unpack"]
  /\ left' = [r \in Ranks |-> Block(r, N, numArchives)]
  /\ UNCHANGED <<numArchives, tar, gz, out, fails>>

\* tar -x, and in the second loop tar -x -k, of one archive.
Unpack(r, a) ==
  /\ pc[r] \in {"unpack", "check"}
  /\ a \in left[r]
  /\ left' = [left EXCEPT ![r] = @ \ {a}]
  /\ \/ out' = out \cup ({a} \cap gz) /\ UNCHANGED fails
     \/ UNCHANGED out /\ Fail(pc[r])
  /\ UNCHANGED <<pc, numArchives, tar, gz>>

\* The archives are deleted by the rank that unpacked them.
Delete(r, a) ==
  /\ pc[r] = "delete"
  /\ a \in left[r]
  /\ left' = [left EXCEPT ![r] = @ \ {a}]
  /\ gz' = gz \ {a}
  /\ UNCHANGED <<pc, numArchives, tar, out, fails>>

\* The loop that comes after the one of pc[r].
NextUnchecked(step) ==  \* slip: no second loop
  CASE step = "unpack" -> "delete" [] step = "check" -> "delete" [] step = "delete" -> "done"
NextLoop(step) ==
  CASE step = "unpack" -> "check" [] step = "check" -> "delete" [] step = "delete" -> "done"

\* A rank goes on alone to its next loop; root, at the end, removes the tar.
EndLoop(r) ==
  /\ pc[r] \in {"unpack", "check", "delete"}
  /\ left[r] = {}
  /\ pc' = [pc EXCEPT ![r] = NextLoop(pc[r])]
  /\ left' = [left EXCEPT ![r] = IF pc[r] = "delete" THEN {} ELSE Block(r, N, numArchives)]
  /\ tar' = (tar /\ (Keep \/ r # 0 \/ pc[r] # "delete"))
  /\ UNCHANGED <<numArchives, gz, out, fails>>

Rank(r) ==
  \/ Scatter(r) \/ EndLoop(r)
  \/ \E a \in left[r] : Extract(r, a) \/ Unpack(r, a) \/ Delete(r, a)

Done    == \A r \in Ranks : pc[r] = "done"
Stopped == \A r \in Ranks : pc[r] \in {"done", "crashed", "endless"}

Next == ReadIndex \/ EndExtract \/ (\E r \in Ranks : Rank(r)) \/ (Stopped /\ UNCHANGED vars)

Spec == Init /\ [][Next]_vars

\* Every rank that can go on does; the launcher need not end the others when
\* one crashes, and may.
Fairness == WF_vars(ReadIndex) /\ WF_vars(EndExtract) /\ \A r \in Ranks : WF_vars(Rank(r))

FairSpec == Spec /\ Fairness
-----------------------------------------------------------------------------
\* The variables have their types, and only listed archives are handled.
TypeOK ==
  /\ pc \in [Ranks -> Steps \cup {"scatter", "endless", "crashed", "delete", "done"}]
  /\ left \in [Ranks -> SUBSET Lines]
  /\ numArchives \in {0 - 3, 0, Listed}
  /\ tar \in BOOLEAN /\ gz \subseteq Archives /\ out \subseteq Archives
  /\ fails \in 0..MaxFails

\* Nothing is lost, wherever the job is ended: what is in an archive is still
\* in <name>.ptgz.tar, in the archive, or unpacked (the barrier at
\* ptgz-mpi.cpp:634 and the loops before the removals at 695 and 707).
NothingLost == \A a \in Archives : tar \/ a \in gz \/ a \in out

\* When the ranks have finished everything is unpacked, and only the tar may
\* be left of what was packed, if it was to be kept (ptgz-mpi.cpp:664-711).
AllUnpacked == Done => out = Archives /\ gz = {} /\ (tar <=> Keep)

\* "The passed ptgz archive will be unpacked and split into its component
\* files" (README.md:40), unless root could not read the index: one tar process
\* that fails to unpack is made up for (ptgz-mpi.cpp:664).
Finishes == <>(Done /\ out = Archives) \/ <>(numArchives < 0)
=============================================================================

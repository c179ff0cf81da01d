------------------------------ MODULE Division ------------------------------
(* What the division of work must satisfy, for every number of files, ranks *)
(* and threads up to a bound.  A state is one choice of the three.          *)
EXTENDS Partition, FiniteSets

CONSTANTS MaxFiles, MaxRanks, MaxThreads

ASSUME BoundsAssumption == MaxFiles \in Nat /\ MaxRanks \in Nat /\ MaxThreads \in Nat

VARIABLES nFiles, N, numThreads

vars == <<nFiles, N, numThreads>>

Init == nFiles \in 1..MaxFiles /\ N \in 1..MaxRanks /\ numThreads \in 1..MaxThreads
Next == UNCHANGED vars
Spec == Init /\ [][Next]_vars

T        == NumArchives(nFiles, NumBlocks(numThreads, N))
Archives == 0..T - 1
Ranks    == 0..N - 1

\* There are at most as many archives as blocks wanted, and every file is on
\* the list of exactly one: each has a file and none more than blockSize, or
\* two more than another (ptgz-mpi.cpp:322-355).
ListsPartitionFiles ==
  LET list == [a \in Archives |-> ListOf(a, nFiles, T)]
      size == [a \in Archives |-> Cardinality(list[a])]
  IN  /\ T \in 1..NumBlocks(numThreads, N)
      /\ \A j \in 0..nFiles - 1 : \E a \in Archives :
           {b \in Archives : j \in list[b]} = {a}
      /\ \A a, b \in Archives :
           /\ size[a] \in 1..BlockSize(nFiles, NumBlocks(numThreads, N))
           /\ size[a] <= size[b] + 1

\* The blocks of the ranks cover the archives, each once: every archive gets
\* its lines in the index, is removed and is extracted by one rank
\* (ptgz-mpi.cpp:360-375, 384, 491 and 600-611).
BlocksPartitionArchives ==
  \A a \in Archives :
    \E r \in Ranks : a \in Block(r, N, T) /\ \A s \in Ranks \ {r} : a \notin Block(s, N, T)

\* No archive is written by two ranks, or twice by one (ptgz-mpi.cpp:403-410).
BuiltAtMostOnce ==
  LET rounds == [r \in Ranks |-> Rounds(r, N, T)]
  IN  \A r, s \in Ranks : \A i \in rounds[r], k \in rounds[s] :
        ArchiveNum(r, i, N) = ArchiveNum(s, k, N) => r = s /\ i = k

\* "Build tar archives for each block" (ptgz-mpi.cpp:401).
EveryArchiveBuilt ==
  LET rounds == [r \in Ranks |-> Rounds(r, N, T)]
  IN  \A a \in Archives : \E r \in Ranks : \E i \in rounds[r] : ArchiveNum(r, i, N) = a

\* An archive is left out only if the block of some rank is short by three.
LeftOutOnlyIfShort ==
  (\A r \in Ranks : Count(r, N, T) + 2 >= TarBlock(N, T)) => EveryArchiveBuilt
=============================================================================

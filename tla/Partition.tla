----------------------------- MODULE Partition -----------------------------
(***************************************************************************)
(* How ptgz divides its work (src/src/ptgz-mpi.cpp): the files over the    *)
(* archives, the archives over the ranks in contiguous blocks (for the     *)
(* index, the removal and the extraction) and, for the building of the     *)
(* archives, over the ranks in rounds of alternating direction.            *)
(*                                                                         *)
(* Files, archives and ranks are numbered from 0, as in the program; N is  *)
(* globalSize and T the number of archives.                                *)
(***************************************************************************)
EXTENDS Integers

\* The divisions of the program: rounded up.
CeilDiv(a, b) == IF a % b = 0 THEN a \div b ELSE (a \div b) + 1

\* At most this many archives are made.
NumBlocks(numThreads, N) == numThreads * 10 * N

\* blockSize and tarNames->size() for nFiles files when numBlocks are wanted.
BlockSize(nFiles, numBlocks)   == CeilDiv(nFiles, numBlocks)
NumArchives(nFiles, numBlocks) == CeilDiv(nFiles, BlockSize(nFiles, numBlocks))

\* The list of archive a takes every T-th file from file a on.
EveryFrom(a, nFiles, step) ==
  [i \in 1..((nFiles - 1 - a) \div step) + 1 |-> a + (i - 1) * step]
LinesOfFirst(a, nFiles, T) ==    \* slip: j += tarNames->size() - 1
  EveryFrom(a, nFiles, IF T = 1 THEN 1 ELSE T - 1)
LinesOf(a, nFiles, T) == EveryFrom(a, nFiles, T)
ListOf(a, nFiles, T)  == {LinesOf(a, nFiles, T)[i] : i \in DOMAIN LinesOf(a, nFiles, T)}

\* tarBlock, and the pair of sendSizes of rank r.  The size of a block is what
\* is left of the archives: zero or less when the ranks before took them all.
TarBlock(N, T) == CeilDiv(T, N)
StartFromOne(r, N, T) == r * TarBlock(N, T) + 1  \* slip: archives counted from 1
Start(r, N, T) == r * TarBlock(N, T)
CountWhole(r, N, T) == TarBlock(N, T)    \* slip: no check of reserved
CountNoRest(r, N, T) ==                  \* slip: the last archives go to nobody
  IF (r + 1) * TarBlock(N, T) <= T THEN TarBlock(N, T) ELSE 0
Count(r, N, T) ==
  LET reserved == (r + 1) * TarBlock(N, T)
  IN  IF reserved <= T THEN TarBlock(N, T) ELSE TarBlock(N, T) - (reserved - T)
Block(r, N, T) == Start(r, N, T)..(Start(r, N, T) + Count(r, N, T) - 1)

\* The archive rank r builds in round i: every other round runs backwards.
ArchiveNumShifted(r, i, N) ==            \* slip: globalSize - globalRank
  IF i % 2 = 1 THEN (N - r) + N * i ELSE r + N * i
ArchiveNum(r, i, N) ==
  IF i % 2 = 1 THEN (N - (r + 1)) + N * i ELSE r + N * i

\* The turns of the building loop of rank r, and those that build an archive.
TurnsShort(r, N, T) == 0..Count(r, N, T) - 1   \* slip: i < localSize[1]
Turns(r, N, T)      == 0..Count(r, N, T) + 1
Rounds(r, N, T)     == {i \in Turns(r, N, T) : ArchiveNum(r, i, N) < T}
=============================================================================

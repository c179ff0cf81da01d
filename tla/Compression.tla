----------------------------- MODULE Compression -----------------------------
(***************************************************************************)
(* compression() of ptgz (src/src/ptgz-mpi.cpp): every rank runs the same  *)
(* program on a shared file system.  Root writes one list of files for     *)
(* each archive; the ranks take turns at writing the index, build the      *)
(* archives in parallel with tar, call mpitar together to pack them into   *)
(* one tar, and remove the temporary files.                                *)
(*                                                                         *)
(* mpitar is what TarArchive says of it, seen by a reader of the file: the *)
(* members of its list come into the tar one after the other, until all    *)
(* are in it or a rank calls exit(1).                                      *)
(*                                                                         *)
(* The job may be killed and started again with the same command: the      *)
(* files stay, and those ptgz opens in append mode keep what they hold.    *)
(* Text is written a buffer at a time, a buffer holds more than a line,    *)
(* and a kill loses what is not written: a file may end in the middle of   *)
(* a line, but for the first line of a start.  The files to store are      *)
(* those of another directory (-d), the ranks as many, and the threads of  *)
(* root too, so that a second start finds the same files and archives.     *)
(***************************************************************************)
EXTENDS Partition, Sequences, SequencesExt

CONSTANTS
  N,          \* globalSize
  NFiles,     \* filePathSize
  NumWanted,  \* numBlocks of root, 10 for each thread in the program
  Others,     \* numBlocks on nodes with another number of threads
  Fragile,    \* the archives whose tar process may fail, or be killed at work
  MaxRuns,    \* how often the program may be started
  IOErrors    \* TRUE: any system call that mpitar or makeScript checks may fail

T        == NumArchives(NFiles, NumWanted)
Ranks    == 0..N - 1
Archives == 0..T - 1
Files    == 0..NFiles - 1

ASSUME RanksAssumption == N \in Nat \ {0} /\ NFiles \in Nat \ {0} /\ NumWanted \in Nat \ {0}
ASSUME RunsAssumption  ==
  /\ Others \subseteq Nat \ {0} /\ Fragile \subseteq Archives
  /\ MaxRuns \in Nat \ {0} /\ IOErrors \in BOOLEAN

VARIABLES
  own,      \* own[r]: how many archives there are by the reckoning of rank r
  pc,       \* where each rank is
  failed,   \* why a rank called exit(), which ends every rank: "missing", a
            \* file on the list for mpitar, or "io"; "no" as long as none did
  turn,     \* the loop counter of the index, the same in all ranks
  left,     \* left[r]: iterations of its parallel loop rank r has not done
  runs,     \* how often the program was started
  tmp,      \* tmp[a]: lines of <a>.<name>.ptgz.tmp, << >> if there is none
  gz,       \* gz[a]: names tar was given for <a>.<name>.ptgz.tar.gz, and came
            \* to; << >> if there is no archive
  nameIdx,  \* lines of <name>.idx
  ptgzIdx,  \* lines of <name>.ptgz.idx
  script,   \* <name>.sh exists
  tar,      \* members of <name>.ptgz.tar, up to the first gap
  tarIdx    \* <name>.ptgz.tar.idx exists

rankVars == <<pc, turn, left>>
tempVars == <<nameIdx, ptgzIdx, script>>
packVars == <<tar, tarIdx>>
vars     == <<own, rankVars, failed, runs, tmp, gz, tempVars, packVars>>

\* The lines of ptgz.idx: archive a is number a, and three names follow.
PtgzIdx == T
Script  == T + 1
NameIdx == T + 2

\* Files j = a, a + T, a + 2T, ... in this order.
ListLines(a) == LinesOf(a, NFiles, T)
IdxLines     == [i \in 1..T |-> i - 1] \o <<PtgzIdx, Script, NameIdx>>

\* A name without its end, last in a file, and one that names nothing: such a
\* name with the first name of the next start behind it.
Cut  == 0 - 2
Torn == 0 - 1

\* What a kill leaves of the lines t of one start.
Partial(t) ==
  {SubSeq(t, 1, k) : k \in 0..Len(t)}
    \cup {[SubSeq(t, 1, k) EXCEPT ![k] = Cut] : k \in 2..Len(t)}

\* The lines s of earlier starts with those of this one behind them; joined is
\* what a name that is cut makes with the first of t.
EndsCut(s) == s # << >> /\ s[Len(s)] = Cut
Appended(s, t, joined) ==
  IF EndsCut(s) /\ t # << >> THEN [s EXCEPT ![Len(s)] = joined] \o Tail(t) ELSE s \o t

\* The halves of two paths are taken to name no file to store; 1 and 0.x make
\* the name of archive 10.
JoinedArchives == {Torn} \cup {a \in Archives : a > 0 /\ a % 10 = 0}

\* What the rank that has the turn adds to the index for archive a.
IndexLines(a) == << [header |-> a] >> \o [i \in DOMAIN tmp[a] |-> [file |-> tmp[a][i]]]
-----------------------------------------------------------------------------
StartPC == [r \in Ranks |-> IF r = 0 THEN "lists" ELSE "scatter"]

\* Each rank asks OpenMP for its number of threads and divides the number of
\* files for itself; the lists, the index and the blocks are those of root.
Reckonings ==
  {o \in [Ranks -> {T} \cup {NumArchives(NFiles, w) : w \in Others}] : o[0] = T}

Init ==
  /\ own \in Reckonings
  /\ pc = StartPC /\ turn = 0 /\ failed = "no" /\ runs = 1
  /\ left = [r \in Ranks |-> IF r = 0 THEN Archives ELSE {}]
  /\ tmp = [a \in Archives |-> << >>]
  /\ gz = [a \in Archives |-> << >>]
  /\ nameIdx = << >> /\ ptgzIdx = << >> /\ script = FALSE
  /\ tar = << >> /\ tarIdx = FALSE

\* Root writes one of the lists, in append mode.
WriteList(a) ==
  /\ pc[0] = "lists"
  /\ a \in left[0]
  /\ tmp' = [tmp EXCEPT ![a] = Appended(@, ListLines(a), Torn)]
  /\ left' = [left EXCEPT ![0] = @ \ {a}]
  /\ UNCHANGED <<own, pc, turn, failed, runs, gz, tempVars, packVars>>

\* Rank r enters the turns of the index: turn 0 is that of rank 0.
EnterTurns(r) == pc' = [pc EXCEPT ![r] = IF r = 0 THEN "index" ELSE "turn_end"]

\* MPI_Scatter of the blocks: root sends when its lists are written, another
\* rank goes on when it has its block.
Scatter(r) ==
  /\ \/ r = 0 /\ pc[0] = "lists" /\ left[0] = {}
     \/ r # 0 /\ pc[r] = "scatter" /\ pc[0] # "lists"
  /\ EnterTurns(r)
  /\ UNCHANGED <<own, turn, left, failed, runs, tmp, gz, tempVars, packVars>>

\* The rank that has the turn appends its block to the index.
WriteIndex(r) ==
  /\ pc[r] = "index"
  /\ nameIdx' = nameIdx \o FlattenSeq([k \in 1..Count(r, N, T) |->
                                         IndexLines(Start(r, N, T) + k - 1)])
  /\ pc' = [pc EXCEPT ![r] = "turn_end"]
  /\ UNCHANGED <<own, turn, left, failed, runs, tmp, gz, ptgzIdx, script, packVars>>

\* The archives rank r builds: the rounds come from root's blocks, the end of
\* the archives from its own reckoning.
ToBuild(r) == {ArchiveNum(r, i, N) : i \in Turns(r, N, T)} \cap 0..own[r] - 1

\* Slip: the next rank has its turn while this one still writes.
EndTurnAlone ==
  /\ IF turn + 1 < N THEN pc[turn + 1] = "turn_end" ELSE \A r \in Ranks : pc[r] = "turn_end"
  /\ turn' = turn + 1
  /\ IF turn + 1 < N
     THEN /\ pc' = [pc EXCEPT ![turn + 1] = "index"]
          /\ UNCHANGED left
     ELSE /\ pc' = [r \in Ranks |-> "build"]
          /\ left' = [r \in Ranks |-> ToBuild(r)]
  /\ UNCHANGED <<own, failed, runs, tmp, gz, tempVars, packVars>>

\* MPI_Barrier at the end of a turn; after the last one the builds begin.
EndTurn ==
  /\ \A r \in Ranks : pc[r] = "turn_end"
  /\ turn' = turn + 1
  /\ IF turn + 1 < N
     THEN /\ pc' = [pc EXCEPT ![turn + 1] = "index"]
          /\ UNCHANGED left
     ELSE /\ pc' = [r \in Ranks |-> "build"]
          /\ left' = [r \in Ranks |-> ToBuild(r)]
  /\ UNCHANGED <<own, failed, runs, tmp, gz, tempVars, packVars>>

\* What tar leaves of an archive when it fails: none, one without a file, or one
\* with the first of them; else one with all its list names.
Short(a)    == {SubSeq(tmp[a], 1, k) : k \in 0..Len(tmp[a])} \cup {<<Torn>>}
Outcomes(a) == {tmp[a]} \cup (IF a \in Fragile THEN Short(a) ELSE {})

\* A child process runs tar on the list of one archive; tar goes on after a name
\* of no file.  Its exit status is not looked at, and a list that does not exist
\* leaves no archive.
Build(r, a) ==
  /\ pc[r] = "build"
  /\ a \in left[r]
  /\ gz' \in IF a \in Archives THEN {[gz EXCEPT ![a] = s] : s \in Outcomes(a)} ELSE {gz}
  /\ left' = [left EXCEPT ![r] = @ \ {a}]
  /\ UNCHANGED <<own, pc, turn, failed, runs, tmp, tempVars, packVars>>

EndBuild(r) ==
  /\ pc[r] = "build"
  /\ left[r] = {}
  /\ pc' = [pc EXCEPT ![r] = "built"]
  /\ UNCHANGED <<own, turn, left, failed, runs, tmp, gz, tempVars, packVars>>

\* MPI_Barrier: root writes the list for mpitar, the others wait for it.
AllBuilt ==
  /\ \A r \in Ranks : pc[r] = "built"
  /\ pc' = [r \in Ranks |-> IF r = 0 THEN "list_archives" ELSE "mpitar"]
  /\ UNCHANGED <<own, turn, left, failed, runs, tmp, gz, tempVars, packVars>>

\* makeScript(), when ptgz.idx has the names of the archives and its own.
MakeScript ==
  /\ pc[0] = "list_archives"
  /\ script' = TRUE
  /\ pc' = [pc EXCEPT ![0] = "close_index"]
  /\ UNCHANGED <<own, turn, left, failed, runs, tmp, gz, nameIdx, ptgzIdx, packVars>>

\* The names of the script and the index, and close() of ptgz.idx: its lines
\* have come after those of earlier starts.
CloseIndex ==
  /\ pc[0] = "close_index"
  /\ \E n \in JoinedArchives : ptgzIdx' = Appended(ptgzIdx, IdxLines, n)
  /\ pc' = [pc EXCEPT ![0] = "mpitar"]
  /\ UNCHANGED <<own, turn, left, failed, runs, tmp, gz, nameIdx, script, packVars>>

\* What mpitar stores for a name of its list.
Member(n) == [name |-> n, files |-> IF n \in Archives THEN gz[n] ELSE << >>]
Exists(n) == n \in 0..T + 2 /\ (n \in Archives => gz[n] # << >>)
Missing   == \E i \in DOMAIN ptgzIdx : ~ Exists(ptgzIdx[i])
Packed(names) == [i \in DOMAIN names |-> Member(names[i])]

\* Every rank goes on to remove the temporary files of its block.
StartRemoval ==
  /\ pc' = [r \in Ranks |-> "remove"]
  /\ left' = [r \in Ranks |-> Block(r, N, T)]

\* The ranks call mpitar between two barriers.  It refuses a single rank, and
\* nobody looks at what it returns.
Refused ==
  /\ N = 1 /\ pc[0] = "mpitar"
  /\ StartRemoval
  /\ UNCHANGED <<own, turn, failed, runs, tmp, gz, tempVars, packVars>>

\* open(O_TRUNC) of the tar.
OpenTar ==
  /\ N > 1 /\ \A r \in Ranks : pc[r] = "mpitar"
  /\ tar' = << >>
  /\ pc' = [r \in Ranks |-> "packing"]
  /\ UNCHANGED <<own, turn, left, failed, runs, tmp, gz, tempVars, tarIdx>>

\* The names are taken in order, so none comes into the tar that is behind one
\* that does not exist.
StoreMembers ==
  /\ \A r \in Ranks : pc[r] = "packing"
  /\ \E k \in Len(tar) + 1..Len(ptgzIdx) :
       /\ \A i \in 1..k : Exists(ptgzIdx[i])
       /\ tar' = Packed(SubSeq(ptgzIdx, 1, k))
  /\ tarIdx' = TRUE
  /\ UNCHANGED <<own, rankVars, failed, runs, tmp, gz, tempVars>>

\* The lstat of a name fails: exit(1).
NameMissing ==
  /\ \A r \in Ranks : pc[r] = "packing"
  /\ Missing
  /\ failed' = "missing"
  /\ tarIdx' = TRUE
  /\ UNCHANGED <<own, rankVars, runs, tmp, gz, tempVars, tar>>

\* Slip: the ranks that have no more to pack do not wait for the others.
CloseTarEarly ==
  /\ \A r \in Ranks : pc[r] = "packing"
  /\ tar # << >>
  /\ StartRemoval
  /\ UNCHANGED <<own, turn, failed, runs, tmp, gz, tempVars, packVars>>

\* All is in the tar; the barrier behind the call.
CloseTar ==
  /\ \A r \in Ranks : pc[r] = "packing"
  /\ Len(tar) = Len(ptgzIdx)
  /\ StartRemoval
  /\ UNCHANGED <<own, turn, failed, runs, tmp, gz, tempVars, packVars>>

Return == IF N = 1 THEN Refused ELSE CloseTar

\* makeScript cannot open the script: exit(0); or any rank fails at one of the
\* calls mpitar checks: exit(1).
IOExit ==
  /\ IOErrors
  /\ \/ pc[0] = "list_archives"
     \/ N > 1 /\ \E there \in {"mpitar", "packing"} : \A r \in Ranks : pc[r] = there
  /\ failed' = "io"
  /\ UNCHANGED <<own, rankVars, runs, tmp, gz, tempVars, packVars>>

\* A rank removes the archive and the list of one archive of its block.
RemoveTemp(r, a) ==
  /\ pc[r] = "remove"
  /\ a \in left[r]
  /\ tmp' = [tmp EXCEPT ![a] = << >>]
  /\ gz' = [gz EXCEPT ![a] = << >>]
  /\ left' = [left EXCEPT ![r] = @ \ {a}]
  /\ UNCHANGED <<own, pc, turn, failed, runs, tempVars, packVars>>

\* Root removes the other temporary files as well; then MPI_Finalize.
Finish(r) ==
  /\ pc[r] = "remove"
  /\ left[r] = {}
  /\ pc' = [pc EXCEPT ![r] = "done"]
  /\ IF r = 0
     THEN nameIdx' = << >> /\ ptgzIdx' = << >> /\ script' = FALSE /\ tarIdx' = FALSE
     ELSE UNCHANGED <<tempVars, tarIdx>>
  /\ UNCHANGED <<own, turn, left, failed, runs, tmp, gz, tar>>

\* The lines root has given to its streams, and not yet closed.
OpenLists == IF pc[0] = "lists" THEN left[0] ELSE {}
OpenIndex == CASE pc[0] = "list_archives" -> SubSeq(IdxLines, 1, T + 1)
               [] pc[0] = "close_index"   -> IdxLines
               [] OTHER                   -> << >>

\* The job is killed, or exit() ended it, and the same command is given again.
\* (What a kill leaves of <name>.idx is not told apart: no program reads it.)
Rerun ==
  /\ runs < MaxRuns
  /\ failed # "no" \/ \E r \in Ranks : pc[r] # "done"
  /\ runs' = runs + 1
  /\ failed' = "no"
  /\ own' \in Reckonings
  /\ pc' = StartPC /\ turn' = 0
  /\ left' = [r \in Ranks |-> IF r = 0 THEN Archives ELSE {}]
  /\ \E part \in [OpenLists -> UNION {Partial(ListLines(a)) : a \in OpenLists}] :
       /\ \A a \in OpenLists : part[a] \in Partial(ListLines(a))
       /\ tmp' = [a \in Archives |-> IF a \in OpenLists THEN Appended(tmp[a], part[a], Torn)
                                                       ELSE tmp[a]]
  /\ \E part \in Partial(OpenIndex), n \in JoinedArchives : ptgzIdx' = Appended(ptgzIdx, part, n)
  /\ UNCHANGED <<gz, nameIdx, script, packVars>>

Rank(r) ==
  \/ Scatter(r) \/ WriteIndex(r) \/ EndBuild(r) \/ Finish(r)
  \/ \E a \in left[r] : Build(r, a) \/ RemoveTemp(r, a)

Together ==
  \/ \E a \in Archives : WriteList(a)
  \/ EndTurn \/ AllBuilt \/ MakeScript \/ CloseIndex
  \/ OpenTar \/ StoreMembers \/ NameMissing \/ Return

Done    == \A r \in Ranks : pc[r] = "done"
Stopped == failed # "no" \/ Done

Next ==
  \/ failed = "no" /\ (Together \/ IOExit \/ \E r \in Ranks : Rank(r))
  \/ Rerun
  \/ Stopped /\ UNCHANGED vars

Spec == Init /\ [][Next]_vars

\* Every rank keeps running; nobody has to give the command again.
Fairness ==
  /\ WF_vars(failed = "no" /\ Together)
  /\ \A r \in Ranks : WF_vars(failed = "no" /\ Rank(r))

FairSpec == Spec /\ Fairness
=============================================================================

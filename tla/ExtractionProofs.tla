-------------------------- MODULE ExtractionProofs --------------------------
(* Nothing is lost in an extraction, for every number of ranks and archives *)
(* and wherever the job stops: only because of the barrier, and only while  *)
(* at most one tar process fails and none that takes an archive out.        *)
(* Whatever fails, the variables keep their types.                          *)
EXTENDS Extraction, PartitionProofs

Own(r) == Block(r, N, Listed)
Before == {"index", "scatter", "extract", "endless"}
After  == {"unpack", "check", "delete", "done", "crashed"}

\* Nobody starts before the index is read; only what it lists is handled.
Counted ==
  /\ pc[0] = "index" => \A r \in Ranks : pc[r] \in {"index", "scatter"}
  /\ pc[0] # "index" => numArchives \in {Listed, 0 - 3}
  /\ \A r \in Ranks : pc[r] \in {"extract"} \cup After => numArchives = Listed

\* All ranks are on the same side of the barrier.
OneSide == (\A r \in Ranks : pc[r] \in Before) \/ (\A r \in Ranks : pc[r] \in After)

\* Root alone removes the tar, at its end.
TarRemoved == tar <=> (Keep \/ pc[0] # "done")

OwnWork == \A r \in Ranks : left[r] \subseteq Own(r)

\* What has become of an archive of rank r.
Extracted ==
  \A r \in Ranks : \A a \in Own(r) \cap Archives :
    pc[r] = "extract" /\ a \notin left[r] => a \in gz
Packed ==
  \A r \in Ranks : \A a \in Own(r) \cap Archives :
    pc[r] \in {"crashed", "unpack", "check"} => a \in gz
Unpacked ==
  \A r \in Ranks : \A a \in Own(r) \cap Archives :
    /\ pc[r] = "unpack" /\ a \notin left[r] => a \in out \/ fails = 1
    /\ pc[r] = "check" => a \in out \/ (fails = 1 /\ a \in left[r])
    /\ pc[r] \in {"delete", "done"} => a \in out
Deleted ==
  \A r \in Ranks : \A a \in Own(r) \cap gz :
    /\ pc[r] = "delete" => a \in left[r]
    /\ pc[r] # "done"

\* The inductive invariant: what holds whatever fails, and what has become of
\* the archives.
Order == TypeOK /\ Counted /\ OneSide /\ TarRemoved /\ OwnWork
Fate  == Extracted /\ Packed /\ Unpacked /\ Deleted
IInv  == Order /\ Fate

\* At most one tar process fails, and none that takes an archive out.
FewFailures == "extract" \notin Failing /\ MaxFails <= 1
-----------------------------------------------------------------------------
LEMMA Constants ==
  /\ N \in Nat \ {0} /\ Listed \in Nat \ {0} /\ NArchives \in Nat \ {0} /\ NArchives <= Listed
  /\ 0 \in Ranks /\ Archives \subseteq Lines
BY RanksAssumption, ArchiveAssumption DEF Ranks, Archives, Lines

\* The blocks lie within the lines of the index, and no two have one in common.
LEMMA OwnLines == \A r \in Ranks : Own(r) \subseteq Lines
BY Constants, BlockInRange DEF Own, Ranks, Lines

LEMMA OneOwner ==
  ASSUME NEW a \in Lines
  PROVE  \E r \in Ranks : a \in Own(r) /\ \A s \in Ranks : a \in Own(s) => s = r
<1>1. a \in 0..Listed - 1
  BY DEF Lines
<1>2. PICK r \in 0..N - 1 : /\ a \in Block(r, N, Listed)
                            /\ \A s \in (0..N - 1) \ {r} : a \notin Block(s, N, Listed)
  BY <1>1, Constants, BlockOwner
<1> QED  BY <1>2 DEF Ranks, Own

LEMMA InitHolds == Init => Order /\ Fate
<1> SUFFICES ASSUME Init PROVE Order /\ Fate
  OBVIOUS
<1>1. TypeOK
  BY Constants, FailsAssumption DEF Init, TypeOK, Steps
<1>2. Counted /\ OneSide /\ TarRemoved /\ OwnWork
  BY Constants DEF Init, Counted, OneSide, Before, After, TarRemoved, OwnWork
<1>3. Extracted /\ Packed /\ Unpacked /\ Deleted
  BY DEF Init, Extracted, Packed, Unpacked, Deleted
<1> QED  BY <1>1, <1>2, <1>3 DEF Order, Fate
-----------------------------------------------------------------------------
LEMMA ReadIndexKeeps ==
  ASSUME Order, ReadIndex
  PROVE  Order' /\ (Fate => Fate')
<1> USE DEF Order, Fate, ReadIndex
<1>1. TypeOK'
  <2>1. fails' \in 0..MaxFails
    BY FailsAssumption DEF TypeOK, Fail
  <2>2. pc' \in [Ranks -> Steps \cup {"scatter", "endless", "crashed", "delete", "done"}]
    BY DEF TypeOK
  <2>3. numArchives' \in {0 - 3, 0, Listed}
    OBVIOUS
  <2> QED  BY <2>1, <2>2, <2>3 DEF TypeOK
<1>2. pc' = [pc EXCEPT ![0] = "scatter"] /\ \A r \in Ranks : pc[r] \in {"index", "scatter"}
  BY DEF Counted
<1>3. \A r \in Ranks : pc'[r] \in {"index", "scatter"}
  BY <1>2 DEF TypeOK
<1>4. pc'[0] = "scatter"
  BY <1>2, Constants DEF TypeOK
<1>5. numArchives' \in {Listed, 0 - 3}
  OBVIOUS
<1>6. Counted'
  BY <1>3, <1>4, <1>5 DEF Counted, After
<1>7. OneSide' /\ TarRemoved'
  <2>1. OneSide'
    BY <1>3 DEF OneSide, Before
  <2>2. tar' = tar /\ pc[0] # "done" /\ pc'[0] # "done"
    BY <1>4
  <2> QED  BY <2>1, <2>2 DEF TarRemoved
<1>8. OwnWork' /\ Extracted' /\ Packed' /\ Unpacked'
  BY <1>3 DEF OwnWork, Extracted, Packed, Unpacked
<1>9. Fate => Deleted'
  BY <1>3 DEF Deleted
<1> QED  BY <1>1, <1>6, <1>7, <1>8, <1>9

LEMMA ScatterKeeps ==
  ASSUME Order, NEW r \in Ranks, Scatter(r)
  PROVE  Order' /\ (Fate => Fate')
<1> USE DEF Order, Fate, Scatter
<1>1. numArchives \in {Listed, 0 - 3}
  BY DEF Counted
<1>2. /\ pc' = [pc EXCEPT ![r] = pc'[r]] /\ pc[r] = "scatter"
      /\ \/ pc'[r] = "endless" /\ left' = left
         \/ /\ pc'[r] = "extract" /\ numArchives = Listed
            /\ left' = [left EXCEPT ![r] = Own(r)]
  BY <1>1, Constants DEF TypeOK, Own
<1>3. \A s \in Ranks : pc[s] \in Before
  BY <1>2 DEF OneSide, After
<1>4. TypeOK'
  BY <1>2, OwnLines DEF TypeOK, Steps
<1>5. Counted'
  BY <1>1, <1>2, <1>3, Constants DEF Counted, TypeOK, Before, After
<1>6. OneSide'
  BY <1>2, <1>3 DEF OneSide, TypeOK, Before
<1>7. TarRemoved'
  <2>1. tar' = tar /\ pc[0] # "done" /\ pc'[0] # "done"
    BY <1>2, <1>3, Constants DEF TypeOK, Before
  <2> QED  BY <2>1 DEF TarRemoved
<1>8. OwnWork'
  BY <1>2 DEF OwnWork, TypeOK
<1>9. Fate => Extracted'
  BY <1>2 DEF Extracted, TypeOK
<1>10. Fate => Packed' /\ Unpacked'
  BY <1>2 DEF Packed, Unpacked, TypeOK
<1>11. Fate => Deleted'
  BY <1>2 DEF Deleted, TypeOK
<1> QED  BY <1>4, <1>5, <1>6, <1>7, <1>8, <1>9, <1>10, <1>11

LEMMA ExtractKeeps ==
  ASSUME Order, NEW r \in Ranks, NEW a \in left[r], Extract(r, a)
  PROVE  Order' /\ (FewFailures /\ Fate => Fate')
<1> USE DEF Order, Fate, Extract
<1>1. \A s \in Ranks : pc[s] \in Before
  BY DEF OneSide, After
<1>2. tar
  BY <1>1, Constants DEF TarRemoved, Before
<1>3. FewFailures => gz' = gz \cup ({a} \cap Archives)
  BY <1>2 DEF FewFailures, Fail
<1>4. pc' = pc /\ tar' = tar /\ out' = out /\ numArchives' = numArchives
  OBVIOUS
<1>5. left' = [left EXCEPT ![r] = @ \ {a}]
  OBVIOUS
<1>6. TypeOK'
  <2>1. fails' \in 0..MaxFails
    BY FailsAssumption DEF Fail, TypeOK
  <2>2. gz' \subseteq Archives
    BY DEF TypeOK
  <2> QED  BY <1>4, <1>5, <2>1, <2>2 DEF TypeOK
<1>7. Counted' /\ OneSide' /\ TarRemoved'
  BY <1>4 DEF Counted, OneSide, TarRemoved
<1>8. OwnWork'
  BY <1>5 DEF OwnWork, TypeOK
<1>9. FewFailures /\ Fate => Extracted'
  BY <1>3, <1>4, <1>5 DEF Extracted, TypeOK
<1>10. Packed' /\ Unpacked'
  BY <1>1, <1>4 DEF Packed, Unpacked, Before
<1>11. Deleted'
  BY <1>1, <1>4 DEF Deleted, Before
<1> QED  BY <1>6, <1>7, <1>8, <1>9, <1>10, <1>11

LEMMA EndExtractKeeps ==
  ASSUME Order, EndExtract
  PROVE  Order' /\ (Fate => Fate')
<1> USE DEF Order, Fate, EndExtract
<1>1. numArchives = Listed
  BY Constants DEF Counted
<1>2. left' = [r \in Ranks |-> Own(r)] /\ \A r \in Ranks : pc'[r] \in {"crashed", "unpack"}
  BY <1>1 DEF Own
<1>3. Fate => \A r \in Ranks : \A a \in Own(r) \cap Archives : a \in gz
  BY DEF Extracted
<1>4. TypeOK'
  <2>1. pc' \in [Ranks -> Steps \cup {"scatter", "endless", "crashed", "delete", "done"}]
    BY DEF Steps
  <2>2. left' \in [Ranks -> SUBSET Lines]
    BY <1>2, OwnLines
  <2> QED  BY <2>1, <2>2 DEF TypeOK
<1>5. Counted' /\ OneSide'
  BY <1>1, <1>2, Constants DEF Counted, OneSide, After
<1>6. TarRemoved'
  <2>1. tar' = tar /\ pc[0] # "done" /\ pc'[0] # "done"
    BY <1>2, Constants
  <2> QED  BY <2>1 DEF TarRemoved
<1>7. OwnWork' /\ (Fate => Extracted' /\ Packed' /\ Unpacked')
  BY <1>2, <1>3 DEF OwnWork, Extracted, Packed, Unpacked
<1>8. Deleted'
  BY <1>2 DEF Deleted
<1> QED  BY <1>4, <1>5, <1>6, <1>7, <1>8

LEMMA UnpackKeeps ==
  ASSUME Order, NEW r \in Ranks, NEW a \in left[r], Unpack(r, a)
  PROVE  Order' /\ (FewFailures /\ Fate => Fate')
<1> USE DEF Order, Fate, Unpack
<1>1. pc' = pc /\ tar' = tar /\ gz' = gz /\ numArchives' = numArchives
  OBVIOUS
<1>2. left' = [left EXCEPT ![r] = @ \ {a}]
  OBVIOUS
<1>3. a \in Own(r)
  BY DEF OwnWork
<1>4. TypeOK'
  <2>1. fails' \in 0..MaxFails
    BY FailsAssumption DEF Fail, TypeOK
  <2>2. left' \in [Ranks -> SUBSET Lines] /\ out' \subseteq Archives
    BY <1>2 DEF TypeOK
  <2> QED  BY <1>1, <2>1, <2>2 DEF TypeOK
<1>5. Counted' /\ OneSide' /\ TarRemoved'
  BY <1>1 DEF Counted, OneSide, TarRemoved
<1>6. OwnWork' /\ (Fate => Extracted' /\ Packed')
  BY <1>1, <1>2 DEF OwnWork, Extracted, Packed, TypeOK
<1>7. ASSUME FewFailures, Fate PROVE Unpacked'
  <2>1. \/ out' = out \cup ({a} \cap gz) /\ fails' = fails
        \/ out' = out /\ fails = 0 /\ fails' = 1
    BY <1>7, FailsAssumption DEF Fail, FewFailures, TypeOK
  <2> SUFFICES ASSUME NEW s \in Ranks, NEW b \in Own(s) \cap Archives
               PROVE  /\ pc[s] = "unpack" /\ b \notin left'[s] => b \in out' \/ fails' = 1
                      /\ pc[s] = "check" => b \in out' \/ (fails' = 1 /\ b \in left'[s])
                      /\ pc[s] \in {"delete", "done"} => b \in out'
    BY <1>1 DEF Unpacked
  <2>2. CASE s = r /\ b = a
    BY <1>2, <1>7, <2>1, <2>2 DEF Packed, Unpacked, TypeOK
  <2>3. CASE ~ (s = r /\ b = a)
    <3>1. b \in left'[s] <=> b \in left[s]
      BY <1>2, <2>3 DEF TypeOK
    <3>2. (b \in out => b \in out') /\ (fails = 1 => fails' = 1)
      BY <2>1
    <3> QED  BY <1>7, <3>1, <3>2 DEF Unpacked
  <2> QED  BY <2>2, <2>3
<1>8. ASSUME Fate PROVE Deleted'
  <2> SUFFICES ASSUME NEW s \in Ranks, NEW b \in Own(s) \cap gz
               PROVE  (pc[s] = "delete" => b \in left'[s]) /\ pc[s] # "done"
    BY <1>1 DEF Deleted
  <2> QED  BY <1>2, <1>8 DEF Deleted, TypeOK
<1> QED  BY <1>4, <1>5, <1>6, <1>7, <1>8

LEMMA DeleteKeeps ==
  ASSUME Order, NEW r \in Ranks, NEW a \in left[r], Delete(r, a)
  PROVE  Order' /\ (Fate => Fate')
<1> USE DEF Order, Fate, Delete
<1>1. pc' = pc /\ tar' = tar /\ out' = out /\ numArchives' = numArchives /\ fails' = fails
  OBVIOUS
<1>2. left' = [left EXCEPT ![r] = @ \ {a}] /\ gz' = gz \ {a} /\ pc[r] = "delete"
  OBVIOUS
<1>3. \A s \in Ranks \ {r} : a \notin Own(s)
  <2>1. a \in Own(r) /\ a \in Lines
    BY OwnLines DEF OwnWork
  <2> QED  BY <2>1, OneOwner
<1>4. TypeOK'
  BY <1>1, <1>2 DEF TypeOK
<1>5. Counted' /\ OneSide' /\ TarRemoved'
  BY <1>1 DEF Counted, OneSide, TarRemoved
<1>6. OwnWork'
  BY <1>2 DEF OwnWork, TypeOK
<1>7. Fate => Extracted'
  BY <1>1, <1>2, <1>3 DEF Extracted, TypeOK
<1>8. Fate => Packed'
  BY <1>1, <1>2, <1>3 DEF Packed
<1>9. Fate => Unpacked'
  BY <1>1, <1>2, <1>3 DEF Unpacked, TypeOK
<1>10. Fate => Deleted'
  BY <1>1, <1>2 DEF Deleted, TypeOK
<1> QED  BY <1>4, <1>5, <1>6, <1>7, <1>8, <1>9, <1>10

LEMMA EndLoopKeeps ==
  ASSUME Order, NEW r \in Ranks, EndLoop(r)
  PROVE  Order' /\ (Fate => Fate')
<1> USE DEF Order, Fate, EndLoop
<1>1. gz' = gz /\ out' = out /\ numArchives' = numArchives /\ fails' = fails
  OBVIOUS
<1>2. /\ left[r] = {} /\ pc' = [pc EXCEPT ![r] = pc'[r]]
      /\ left' = [left EXCEPT ![r] = IF pc[r] = "delete" THEN {} ELSE Own(r)]
      /\ \/ pc[r] = "unpack" /\ pc'[r] = "check"
         \/ pc[r] = "check" /\ pc'[r] = "delete"
         \/ pc[r] = "delete" /\ pc'[r] = "done"
  <2>1. numArchives = Listed
    BY DEF Counted, After
  <2> QED  BY <2>1 DEF NextLoop, TypeOK, Own
<1>3. \A s \in Ranks : pc[s] \in After
  BY <1>2 DEF OneSide, Before
<1>4. TypeOK'
  BY <1>1, <1>2, OwnLines DEF TypeOK, Steps
<1>5. Counted' /\ OneSide'
  BY <1>1, <1>2, <1>3, Constants DEF Counted, OneSide, TypeOK, After
<1>6. TarRemoved'
  <2>1. CASE r = 0
    <3>1. tar
      BY <1>2, <2>1 DEF TarRemoved
    <3>2. tar' <=> (Keep \/ pc[r] # "delete")
      BY <2>1, <3>1
    <3>3. pc[r] = "delete" <=> pc'[r] = "done"
      BY <1>2
    <3> QED  BY <2>1, <3>2, <3>3 DEF TarRemoved
  <2>2. CASE r # 0
    <3>1. pc'[0] = pc[0]
      BY <1>2, <2>2, Constants DEF TypeOK
    <3> QED  BY <2>2, <3>1 DEF TarRemoved
  <2> QED  BY <2>1, <2>2
<1>7. OwnWork' /\ (Fate => Extracted' /\ Packed')
  BY <1>1, <1>2 DEF OwnWork, Extracted, Packed, TypeOK
<1>8. Fate => Unpacked'
  BY <1>1, <1>2 DEF Unpacked, TypeOK
<1>9. Fate => Deleted'
  BY <1>1, <1>2 DEF Deleted, TypeOK
<1> QED  BY <1>4, <1>5, <1>6, <1>7, <1>8, <1>9
-----------------------------------------------------------------------------
LEMMA StepKeeps ==
  ASSUME Order, [Next]_vars
  PROVE  Order' /\ (FewFailures /\ Fate => Fate')
<1>1. CASE UNCHANGED vars
  <2>1. Order'
    BY <1>1 DEF vars, Order, TypeOK, Counted, OneSide, TarRemoved, OwnWork
  <2>2. Fate => Fate'
    BY <1>1 DEF vars, Fate, Extracted, Packed, Unpacked, Deleted
  <2> QED  BY <2>1, <2>2
<1>2. CASE ReadIndex
  BY <1>2, ReadIndexKeeps
<1>3. CASE EndExtract
  BY <1>3, EndExtractKeeps
<1>4. CASE \E r \in Ranks : Rank(r)
  BY <1>4, ScatterKeeps, ExtractKeeps, UnpackKeeps, DeleteKeeps, EndLoopKeeps DEF Rank
<1> QED  BY <1>1, <1>2, <1>3, <1>4 DEF Next

\* Whatever fails and however often, the variables keep their types, and no
\* rank handles an archive that the index does not list: the block sizes that
\* are zero or less do no harm before the barrier (ptgz-mpi.cpp:600-632).
THEOREM TypesKept == Spec => []TypeOK
<1>1. Init => Order
  BY InitHolds
<1>2. Order /\ [Next]_vars => Order'
  BY StepKeeps
<1>3. Order => TypeOK
  BY DEF Order
<1> QED  BY <1>1, <1>2, <1>3, PTL DEF Spec

LEMMA Inductive ==
  ASSUME FewFailures
  PROVE  Spec => []IInv
<1>1. IInv /\ [Next]_vars => IInv'
  BY StepKeeps DEF IInv
<1>2. Init => IInv
  BY InitHolds DEF IInv
<1> QED  BY <1>1, <1>2, PTL DEF Spec

\* With few failures nothing is lost at any moment, however many ranks and
\* archives there are and whatever the index lists twice: the barrier between
\* extracting and unpacking, and the order of the loops, are enough
\* (ptgz-mpi.cpp:617-711).
THEOREM ExtractionLosesNothing ==
  ASSUME FewFailures
  PROVE  Spec => []NothingLost
<1>1. IInv => NothingLost
  <2> SUFFICES ASSUME IInv, NEW a \in Archives, ~ tar, a \notin gz PROVE a \in out
    BY DEF NothingLost
  <2>1. \A r \in Ranks : pc[r] \in After
    BY Constants DEF IInv, Order, TarRemoved, OneSide, Before
  <2>2. PICK r \in Ranks : a \in Own(r)
    BY OneOwner, Constants
  <2> QED  BY <2>1, <2>2 DEF IInv, Fate, Packed, Unpacked, After
<1> QED  BY <1>1, Inductive, PTL

\* When all ranks have finished, everything is unpacked and nothing but the
\* kept tar is left (ptgz-mpi.cpp:664-711).
THEOREM ExtractionIsComplete ==
  ASSUME FewFailures
  PROVE  Spec => []AllUnpacked
<1>1. IInv => AllUnpacked
  <2> SUFFICES ASSUME IInv, Done PROVE out = Archives /\ gz = {} /\ (tar <=> Keep)
    BY DEF AllUnpacked
  <2>1. \A a \in Archives : \E r \in Ranks : a \in Own(r)
    BY OneOwner, Constants
  <2>2. Archives \subseteq out
    BY <2>1 DEF IInv, Fate, Unpacked, Done
  <2>3. out \subseteq Archives /\ gz \subseteq Archives
    BY DEF IInv, Order, TypeOK
  <2>4. gz = {}
    BY <2>1, <2>3 DEF IInv, Fate, Deleted, Done
  <2>5. tar <=> Keep
    BY Constants DEF IInv, Order, TarRemoved, Done
  <2> QED  BY <2>2, <2>3, <2>4, <2>5
<1> QED  BY <1>1, Inductive, PTL
=============================================================================

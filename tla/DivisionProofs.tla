--------------------------- MODULE DivisionProofs ---------------------------
(* What is proved of the division of work, for every number of files, ranks *)
(* and threads.                                                             *)
EXTENDS Division, PartitionProofs, FiniteSetTheorems, FunctionTheorems

ChoiceOK == nFiles \in Nat \ {0} /\ N \in Nat \ {0} /\ numThreads \in Nat \ {0}

LEMMA ChoiceHolds == Spec => []ChoiceOK
<1>1. Init => ChoiceOK
  BY BoundsAssumption DEF Init, ChoiceOK
<1>2. ChoiceOK /\ [Next]_vars => ChoiceOK'
  BY DEF ChoiceOK, Next, vars
<1> QED  BY <1>1, <1>2, PTL DEF Spec

LEMMA ArchivesExist == ChoiceOK => T \in Nat \ {0}
<1> SUFFICES ASSUME ChoiceOK PROVE T \in Nat \ {0}
  OBVIOUS
<1>1. NumBlocks(numThreads, N) \in Nat \ {0}
  <2>1. numThreads * 10 \in Nat \ {0}
    BY DEF ChoiceOK
  <2>2. \A x, y \in Nat \ {0} : x * y \in Nat \ {0}
    OBVIOUS
  <2> QED  BY <2>1, <2>2 DEF NumBlocks, ChoiceOK
<1>2. BlockSize(nFiles, NumBlocks(numThreads, N)) \in Nat \ {0}
  BY <1>1, CeilDivBounds DEF BlockSize, ChoiceOK
<1> QED  BY <1>2, CeilDivBounds DEF T, NumArchives, ChoiceOK

LEMMA TarBlockBounds ==
  ASSUME ChoiceOK
  PROVE  /\ TarBlock(N, T) \in Nat \ {0} /\ T <= N * TarBlock(N, T)
         /\ T \in Nat \ {0}
<1>1. T \in Nat \ {0} /\ N \in Nat \ {0}
  BY ArchivesExist DEF ChoiceOK
<1> QED  BY <1>1, CeilDivBounds DEF TarBlock

\* A round holds N consecutive archives, and each goes to a rank of its own.
LEMMA ArchiveNumInRound ==
  ASSUME ChoiceOK, NEW r \in Ranks, NEW i \in Nat
  PROVE  \E p \in 0..N - 1 : /\ ArchiveNum(r, i, N) = N * i + p
                             /\ p = IF i % 2 = 1 THEN N - (r + 1) ELSE r
<1> DEFINE p == IF i % 2 = 1 THEN N - (r + 1) ELSE r
<1>1. N \in Nat \ {0} /\ r \in 0..N - 1
  BY DEF ChoiceOK, Ranks
<1>2. p \in 0..N - 1
  BY <1>1
<1>3. N * i \in Nat
  BY <1>1
<1>4. ArchiveNum(r, i, N) = N * i + p
  BY <1>1, <1>3 DEF ArchiveNum
<1> QED  BY <1>2, <1>4

\* No archive is written by two ranks, or twice by one, however many files,
\* ranks and threads there are (ptgz-mpi.cpp:403-410).
THEOREM NoArchiveBuiltTwice == Spec => []BuiltAtMostOnce
<1>1. ChoiceOK => BuiltAtMostOnce
  <2> SUFFICES ASSUME ChoiceOK, NEW r \in Ranks, NEW s \in Ranks,
                      NEW i \in Rounds(r, N, T), NEW k \in Rounds(s, N, T),
                      ArchiveNum(r, i, N) = ArchiveNum(s, k, N)
               PROVE  r = s /\ i = k
    BY DEF BuiltAtMostOnce
  <2>1. i \in Nat /\ k \in Nat
    BY DEF Rounds, Turns
  <2>2. PICK p \in 0..N - 1 : /\ ArchiveNum(r, i, N) = N * i + p
                              /\ p = IF i % 2 = 1 THEN N - (r + 1) ELSE r
    BY <2>1, ArchiveNumInRound
  <2>3. PICK q \in 0..N - 1 : /\ ArchiveNum(s, k, N) = N * k + q
                              /\ q = IF k % 2 = 1 THEN N - (s + 1) ELSE s
    BY <2>1, ArchiveNumInRound
  <2>4. N \in Nat
    BY DEF ChoiceOK
  <2>5. i = k /\ p = q
    <3>1. N * i + p = N * k + q
      BY <2>2, <2>3
    <3> QED  BY <2>1, <2>4, <3>1, Quotient
  <2>6. r = s
    BY <2>2, <2>3, <2>4, <2>5 DEF Ranks
  <2> QED  BY <2>5, <2>6
<1> QED  BY <1>1, ChoiceHolds, PTL

\* The blocks of the ranks cover the archives, each once, however the division
\* falls out (ptgz-mpi.cpp:360-375 and 600-611).
THEOREM BlocksCoverOnce == Spec => []BlocksPartitionArchives
<1>1. ChoiceOK => BlocksPartitionArchives
  <2> SUFFICES ASSUME ChoiceOK, NEW a \in Archives
               PROVE  \E r \in Ranks : /\ a \in Block(r, N, T)
                                       /\ \A s \in Ranks \ {r} : a \notin Block(s, N, T)
    BY DEF BlocksPartitionArchives
  <2>1. N \in Nat \ {0} /\ T \in Nat \ {0} /\ a \in 0..T - 1
    BY ArchivesExist DEF ChoiceOK, Archives
  <2> QED  BY <2>1, BlockOwner DEF Ranks
<1> QED  BY <1>1, ChoiceHolds, PTL

\* If no block is short by three archives or more, every archive is built: the
\* two extra rounds of the loop make up for a short block (ptgz-mpi.cpp:403).
THEOREM BuiltUnlessShort == Spec => []LeftOutOnlyIfShort
<1>1. ChoiceOK => LeftOutOnlyIfShort
  <2> SUFFICES ASSUME ChoiceOK, \A r \in Ranks : Count(r, N, T) + 2 >= TarBlock(N, T),
                      NEW a \in Archives
               PROVE  \E r \in Ranks : \E i \in Rounds(r, N, T) : ArchiveNum(r, i, N) = a
    BY DEF LeftOutOnlyIfShort, EveryArchiveBuilt
  <2>1. PICK b \in Nat \ {0} : b = TarBlock(N, T) /\ T <= N * b
    BY TarBlockBounds
  <2>2. T \in Nat \ {0} /\ a \in Nat /\ a < T /\ N \in Nat \ {0}
    BY TarBlockBounds DEF Archives, ChoiceOK
  <2>3. PICK i \in Nat : \E p \in 0..N - 1 : a = N * i + p
    <3>1. a \div N \in Nat /\ a % N \in 0..N - 1 /\ a = N * (a \div N) + (a % N)
      BY <2>2, DivMod
    <3> QED  BY <3>1
  <2>4. PICK p \in 0..N - 1 : a = N * i + p
    BY <2>3
  <2>5. i < b
    <3> SUFFICES ASSUME ~ (i < b) PROVE FALSE
      OBVIOUS
    <3>1. N * b <= N * i
      <4>1. b < i => N * b + N <= N * i
        BY <2>1, <2>2, MulMonotone
      <4>2. N * b \in Int /\ N * i \in Int
        BY <2>2
      <4> QED  BY <2>1, <4>1, <4>2, <2>2
    <3>2. N * b \in Int /\ N * i \in Int
      BY <2>2
    <3> QED  BY <2>1, <2>2, <2>4, <3>1, <3>2
  <2> DEFINE r == IF i % 2 = 1 THEN N - (p + 1) ELSE p
  <2>6. r \in Ranks
    BY <2>2 DEF Ranks
  <2>7. ArchiveNum(r, i, N) = a
    <3>1. N * i \in Nat
      BY <2>2
    <3> QED  BY <2>2, <2>4, <3>1 DEF ArchiveNum
  <2>8. Count(r, N, T) \in Int
    <3>1. r \in Int /\ (r + 1) * b \in Int
      BY <2>2
    <3> QED  BY <2>1, <2>2, <3>1 DEF Count
  <2> HIDE DEF r
  <2>9. i \in Rounds(r, N, T)
    BY <2>1, <2>2, <2>5, <2>6, <2>7, <2>8 DEF Rounds, Turns
  <2> QED  BY <2>6, <2>7, <2>9
<1> QED  BY <1>1, ChoiceHolds, PTL
-----------------------------------------------------------------------------
\* The number of files on list a is one more than the q of Lists.
LEMMA ListSize ==
  ASSUME NEW n \in Nat, NEW t \in Nat \ {0}, t <= n, NEW a \in 0..t - 1
  PROVE  \E q \in Nat, r \in 0..t - 1 :
           n - 1 - a = t * q + r /\ Cardinality(ListOf(a, n, t)) = q + 1
<1>1. PICK q \in Nat : Lists(a, n, t, q)
  BY LinesFacts
<1>2. PICK f : f = LinesOf(a, n, t)
  OBVIOUS
<1>3. /\ DOMAIN f = 1..q + 1 /\ ListOf(a, n, t) = {f[i] : i \in 1..q + 1}
      /\ \A i \in 1..q + 1 : f[i] = t * (i - 1) + a
  <2>1. DOMAIN f = 1..q + 1 /\ \A i \in 1..q + 1 : f[i] = t * (i - 1) + a
    BY <1>1, <1>2 DEF Lists
  <2>2. ListOf(a, n, t) = {f[i] : i \in DOMAIN f}
    BY <1>2 DEF ListOf
  <2> QED  BY <2>1, <2>2
<1>4. ASSUME NEW i \in 1..q + 1, NEW k \in 1..q + 1, f[i] = f[k]
      PROVE  i = k
  <2>1. PICK x \in Nat, y \in Nat : x = i - 1 /\ y = k - 1
    OBVIOUS
  <2>2. t * x + a = t * y + a
    BY <1>3, <1>4, <2>1
  <2>3. x = y
    BY <2>2, Quotient
  <2> QED  BY <2>1, <2>3
<1>5. f \in [1..q + 1 -> ListOf(a, n, t)]
  <2>1. f \in [1..q + 1 -> 0..n - 1]
    BY <1>1, <1>2 DEF Lists
  <2> QED  BY <1>3, <2>1
<1>6. f \in Bijection(1..q + 1, ListOf(a, n, t))
  <2>1. \A j \in ListOf(a, n, t) : \E i \in 1..q + 1 : f[i] = j
    BY <1>3
  <2>2. \A i, k \in 1..q + 1 : f[i] = f[k] => i = k
    BY <1>4
  <2> QED  BY ONLY <1>5, <2>1, <2>2, Fun_IsBij
<1>7. ExistsBijection(1..q + 1, ListOf(a, n, t))
  BY <1>6 DEF ExistsBijection
<1>8. IsFiniteSet(1..q + 1) /\ Cardinality(1..q + 1) = q + 1
  BY FS_Interval
<1>9. Cardinality(ListOf(a, n, t)) = q + 1
  BY <1>7, <1>8, FS_Bijection
<1>10. PICK r \in 0..t - 1 : n - 1 - a = t * q + r
  <2>1. PICK m \in Nat : m = n - 1 - a
    <3>1. n - 1 - a \in Nat
      OBVIOUS
    <3> QED  BY <3>1
  <2>2. q = m \div t
    BY <1>1, <2>1 DEF Lists
  <2>3. m % t \in 0..t - 1 /\ m = t * q + (m % t)
    BY <2>2, DivMod
  <2> QED  BY <2>1, <2>3
<1> QED  BY <1>9, <1>10

\* Every file is on one list, no list is empty or longer than was wanted, and
\* the lists are as even as can be (ptgz-mpi.cpp:322-355).
THEOREM ListsCoverOnce == Spec => []ListsPartitionFiles
<1>1. ChoiceOK => ListsPartitionFiles
  <2> SUFFICES ASSUME ChoiceOK PROVE ListsPartitionFiles
    OBVIOUS
  <2>1. PICK m \in Nat \ {0} : m = NumBlocks(numThreads, N)
    <3>1. numThreads * 10 \in Nat \ {0} /\ N \in Nat \ {0}
      BY DEF ChoiceOK
    <3>2. \A x, y \in Nat \ {0} : x * y \in Nat \ {0}
      OBVIOUS
    <3> QED  BY <3>1, <3>2 DEF NumBlocks
  <2>2. PICK n \in Nat \ {0} : n = nFiles
    BY DEF ChoiceOK
  <2>3. PICK t \in Nat \ {0}, b \in Nat \ {0} :
          t = T /\ b = BlockSize(n, m) /\ t <= n /\ t <= m /\ n <= t * b
    <3>1. PICK t : t = NumArchives(n, m)
      OBVIOUS
    <3>2. PICK b : b = BlockSize(n, m)
      OBVIOUS
    <3>3. t \in 1..n /\ t <= m /\ b \in Nat \ {0} /\ n <= t * b
      BY <3>1, <3>2, ArchiveCount
    <3>4. t = T
      BY <2>1, <2>2, <3>1 DEF T
    <3> QED  BY <3>2, <3>3, <3>4
  <2>4. Archives = 0..t - 1
    BY <2>3 DEF Archives
  <2>5. \A a \in 0..t - 1 : ListOf(a, n, t) = {j \in 0..n - 1 : j % t = a}
    BY <2>3, ListOfMembers
  <2>6. \A j \in 0..n - 1 : \E a \in 0..t - 1 :
          {c \in 0..t - 1 : j \in ListOf(c, n, t)} = {a}
    <3> TAKE j \in 0..n - 1
    <3>1. j % t \in 0..t - 1
      BY DivMod
    <3>2. {c \in 0..t - 1 : j \in ListOf(c, n, t)} = {j % t}
      BY <2>5, <3>1
    <3> QED  BY <3>1, <3>2
  <2>7. \A a \in 0..t - 1 : \E q \in Nat, r \in 0..t - 1 :
          n - 1 - a = t * q + r /\ Cardinality(ListOf(a, n, t)) = q + 1
    BY <2>3, ListSize
  <2>8. ASSUME NEW a \in 0..t - 1, NEW c \in 0..t - 1
        PROVE  /\ Cardinality(ListOf(a, n, t)) \in 1..b
               /\ Cardinality(ListOf(a, n, t)) <= Cardinality(ListOf(c, n, t)) + 1
    <3>1. PICK q \in Nat, r \in 0..t - 1 :
            n - 1 - a = t * q + r /\ Cardinality(ListOf(a, n, t)) = q + 1
      BY <2>7
    <3>2. PICK p \in Nat, s \in 0..t - 1 :
            n - 1 - c = t * p + s /\ Cardinality(ListOf(c, n, t)) = p + 1
      BY <2>7
    <3>3. PICK x \in Nat, y \in Nat : x = t * q /\ y = t * p
      <4>1. t * q \in Nat /\ t * p \in Nat
        OBVIOUS
      <4> QED  BY <4>1
    <3>4. q < b
      <4> SUFFICES ASSUME b <= q PROVE FALSE
        OBVIOUS
      <4>1. t * b <= x
        BY <3>3, MulOrder
      <4>2. t * b \in Nat
        OBVIOUS
      <4> QED  BY <2>3, <3>1, <3>3, <4>1, <4>2
    <3>5. q <= p + 1
      <4> SUFFICES ASSUME p + 1 < q PROVE FALSE
        OBVIOUS
      <4>1. t * (p + 1) + t <= x
        BY <3>3, MulMonotone
      <4>2. t * (p + 1) = y + t
        BY <3>3
      <4> QED  BY <3>1, <3>2, <3>3, <4>1, <4>2
    <3> QED  BY <3>1, <3>2, <3>4, <3>5
  <2>9. PICK list : list = [a \in Archives |-> ListOf(a, n, t)]
    OBVIOUS
  <2>10. PICK size : size = [a \in Archives |-> Cardinality(list[a])]
    OBVIOUS
  <2>11. \A a \in 0..t - 1 : list[a] = ListOf(a, n, t) /\ size[a] = Cardinality(ListOf(a, n, t))
    BY <2>4, <2>9, <2>10
  <2>12. \A j \in 0..n - 1 : \E a \in Archives : {c \in Archives : j \in list[c]} = {a}
    <3> TAKE j \in 0..n - 1
    <3>1. {c \in Archives : j \in list[c]} = {c \in 0..t - 1 : j \in ListOf(c, n, t)}
      BY <2>4, <2>11
    <3> QED  BY <2>4, <2>6, <3>1
  <2>13. \A a, c \in Archives : size[a] \in 1..b /\ size[a] <= size[c] + 1
    BY <2>4, <2>8, <2>11
  <2>14. T \in 1..NumBlocks(numThreads, N)
    BY <2>1, <2>3
  <2>15. /\ list = [a \in Archives |-> ListOf(a, nFiles, T)]
         /\ b = BlockSize(nFiles, NumBlocks(numThreads, N))
    BY <2>1, <2>2, <2>3, <2>9
  <2> QED  BY ONLY <2>2, <2>10, <2>12, <2>13, <2>14, <2>15 DEF ListsPartitionFiles
<1> QED  BY <1>1, ChoiceHolds, PTL
=============================================================================

--------------------------- MODULE PartitionProofs ---------------------------
(* Arithmetic of the division of work, for every number of archives and of  *)
(* ranks.                                                                   *)
EXTENDS Partition, WellFoundedInduction, TLAPS

LEMMA DivMod ==
  ASSUME NEW a \in Nat, NEW b \in Nat \ {0}
  PROVE  /\ a \div b \in Nat /\ a % b \in 0..b - 1
         /\ a = b * (a \div b) + (a % b)
OBVIOUS

LEMMA MulMonotone ==
  ASSUME NEW b \in Nat, NEW q \in Nat, NEW p \in Nat, q < p
  PROVE  b * q + b <= b * p
<1>1. PICK d \in Nat : p = q + 1 + d
  <2>1. p - q - 1 \in Nat /\ p = q + 1 + (p - q - 1)
    OBVIOUS
  <2> QED  BY <2>1
<1>2. b * p = b * q + b + b * d
  BY <1>1
<1>3. b * d >= 0
  OBVIOUS
<1> QED  BY <1>2, <1>3

\* Quotient and remainder are unique.
LEMMA Quotient ==
  ASSUME NEW b \in Nat, NEW q \in Nat, NEW p \in Nat,
         NEW r \in 0..b - 1, NEW s \in 0..b - 1, b * q + r = b * p + s
  PROVE  q = p /\ r = s
<1>1. ~ (q < p)
  <2> SUFFICES ASSUME q < p PROVE FALSE
    OBVIOUS
  <2>1. b * q + b <= b * p
    BY MulMonotone
  <2>2. b * q \in Int /\ b * p \in Int
    OBVIOUS
  <2> QED  BY <2>1, <2>2
<1>2. ~ (p < q)
  <2> SUFFICES ASSUME p < q PROVE FALSE
    OBVIOUS
  <2>1. b * p + b <= b * q
    BY MulMonotone
  <2>2. b * q \in Int /\ b * p \in Int
    OBVIOUS
  <2> QED  BY <2>1, <2>2
<1>3. q = p
  BY <1>1, <1>2
<1>4. b * q \in Int
  OBVIOUS
<1> QED  BY <1>3, <1>4

\* A set that has 0, and with a number the next one, has all.
LEMMA Counting ==
  ASSUME NEW K \in SUBSET Nat, 0 \in K, \A n \in K : n + 1 \in K
  PROVE  K = Nat
<1> SUFFICES ASSUME Nat \ K # {} PROVE FALSE
  OBVIOUS
<1>1. PICK n \in Nat \ K : \A m \in Nat \ K : ~ (<<m, n>> \in OpToRel(<, Nat))
  <2>1. IsWellFoundedOn(OpToRel(<, Nat), Nat)
    BY NatLessThanWellFounded
  <2>2. Nat \ K \subseteq Nat
    OBVIOUS
  <2> QED  BY <2>1, <2>2, WFMin
<1>2. n - 1 \in Nat \ K
  <2>1. n \in Nat /\ n # 0
    OBVIOUS
  <2>2. n - 1 \in Nat /\ (n - 1) + 1 = n
    BY <2>1
  <2> QED  BY <2>2
<1>3. <<n - 1, n>> \in OpToRel(<, Nat)
  BY <1>1, <1>2 DEF OpToRel
<1> QED  BY <1>1, <1>2, <1>3

\* The rounded-up quotient is positive and large enough.
LEMMA CeilDivBounds ==
  ASSUME NEW a \in Nat \ {0}, NEW b \in Nat \ {0}
  PROVE  CeilDiv(a, b) \in Nat \ {0} /\ a <= b * CeilDiv(a, b)
<1> DEFINE q == a \div b
<1>1. q \in Nat /\ a % b \in 0..b - 1 /\ a = b * q + (a % b)
  BY DivMod
<1> HIDE DEF q
<1>2. b * (q + 1) = b * q + b
  BY <1>1
<1>3. CASE a % b = 0
  <2>1. q # 0
    BY <1>1, <1>3
  <2> QED  BY <1>1, <1>3, <2>1 DEF CeilDiv, q
<1>4. CASE a % b # 0
  <2>1. CeilDiv(a, b) = q + 1
    BY <1>4 DEF CeilDiv, q
  <2> QED  BY <1>1, <1>2, <2>1
<1> QED  BY <1>3, <1>4

LEMMA MulOrder ==
  ASSUME NEW b \in Nat, NEW q \in Nat, NEW p \in Nat, q <= p
  PROVE  b * q <= b * p /\ b * q \in Nat /\ b * p \in Nat
<1>1. b * q \in Nat /\ b * p \in Nat
  OBVIOUS
<1>2. q < p => b * q + b <= b * p
  BY MulMonotone
<1> QED  BY <1>1, <1>2

\* The rounded-up quotient is the least that is large enough.
LEMMA CeilDivLeast ==
  ASSUME NEW a \in Nat \ {0}, NEW b \in Nat \ {0}, NEW c \in Nat, a <= b * c
  PROVE  CeilDiv(a, b) <= c
<1>1. PICK q \in Nat, r \in 0..b - 1 : q = a \div b /\ r = a % b /\ a = b * q + r
  BY DivMod
<1>2. q <= c
  <2> SUFFICES ASSUME c < q PROVE FALSE
    BY <1>1
  <2>1. b * c + b <= b * q
    BY <1>1, MulMonotone
  <2>2. b * c \in Nat /\ b * q \in Nat
    BY <1>1
  <2> QED  BY <1>1, <2>1, <2>2
<1>3. r # 0 => q # c
  <2>1. b * q \in Nat
    BY <1>1
  <2> QED  BY <1>1, <2>1
<1> QED  BY <1>1, <1>2, <1>3 DEF CeilDiv

\* There is an archive, none without a file, and no more than were wanted.
LEMMA ArchiveCount ==
  ASSUME NEW nFiles \in Nat \ {0}, NEW numBlocks \in Nat \ {0}
  PROVE  /\ NumArchives(nFiles, numBlocks) \in 1..nFiles
         /\ NumArchives(nFiles, numBlocks) <= numBlocks
         /\ BlockSize(nFiles, numBlocks) \in Nat \ {0}
         /\ nFiles <= NumArchives(nFiles, numBlocks) * BlockSize(nFiles, numBlocks)
<1>1. PICK b \in Nat \ {0} : b = BlockSize(nFiles, numBlocks) /\ nFiles <= numBlocks * b
  BY CeilDivBounds DEF BlockSize
<1>2. PICK t \in Nat \ {0} : t = NumArchives(nFiles, numBlocks) /\ nFiles <= b * t
  BY <1>1, CeilDivBounds DEF NumArchives
<1>3. numBlocks * b = b * numBlocks /\ t * b = b * t
  OBVIOUS
<1>4. t <= numBlocks
  BY <1>1, <1>2, <1>3, CeilDivLeast DEF NumArchives
<1>5. nFiles <= b * nFiles
  <2>1. nFiles * 1 <= nFiles * b
    BY MulOrder
  <2> QED  BY <2>1
<1>6. t <= nFiles
  BY <1>1, <1>2, <1>5, CeilDivLeast DEF NumArchives
<1> QED  BY <1>1, <1>2, <1>3, <1>4, <1>6

\* List a has the files that leave the remainder a, q + 1 of them, in order.
Lists(a, nFiles, T, q) ==
  /\ q = (nFiles - 1 - a) \div T
  /\ LinesOf(a, nFiles, T) \in [1..q + 1 -> 0..nFiles - 1]
  /\ \A i \in 1..q + 1 : LinesOf(a, nFiles, T)[i] = T * (i - 1) + a
  /\ \A j \in 0..nFiles - 1 : j % T = a => \E i \in 1..q + 1 : LinesOf(a, nFiles, T)[i] = j
  /\ \A i \in 1..q + 1 : LinesOf(a, nFiles, T)[i] % T = a

LEMMA LinesFacts ==
  ASSUME NEW nFiles \in Nat, NEW T \in Nat \ {0}, T <= nFiles, NEW a \in 0..T - 1
  PROVE  \E q \in Nat : Lists(a, nFiles, T, q)
<1>1. PICK m \in Nat : m = nFiles - 1 - a
  <2>1. nFiles - 1 - a \in Nat
    OBVIOUS
  <2> QED  BY <2>1
<1>2. PICK q \in Nat, r \in 0..T - 1 : q = (nFiles - 1 - a) \div T /\ nFiles - 1 - a = T * q + r
  BY <1>1, DivMod
<1>3. LinesOf(a, nFiles, T) = [i \in 1..q + 1 |-> a + (i - 1) * T]
  BY <1>2 DEF LinesOf, EveryFrom
<1>4. \A i \in 1..q + 1 : /\ LinesOf(a, nFiles, T)[i] = T * (i - 1) + a
                          /\ T * (i - 1) \in Nat /\ i - 1 \in Nat
  BY <1>3
<1>5. \A i \in 1..q + 1 : LinesOf(a, nFiles, T)[i] \in 0..nFiles - 1
  <2> TAKE i \in 1..q + 1
  <2>1. T * (i - 1) <= T * q /\ T * q \in Nat
    BY <1>4, MulOrder
  <2> QED  BY <1>2, <1>4, <2>1
<1>6. \A i \in 1..q + 1 : LinesOf(a, nFiles, T)[i] % T = a
  <2> TAKE i \in 1..q + 1
  <2>1. PICK j \in Nat : j = LinesOf(a, nFiles, T)[i] /\ j = T * (i - 1) + a
    BY <1>4, <1>5
  <2>2. j \div T \in Nat /\ j % T \in 0..T - 1 /\ j = T * (j \div T) + (j % T)
    BY DivMod
  <2>3. PICK d \in Nat, x \in 0..T - 1 : x = j % T /\ j = T * d + x
    BY <2>2
  <2>4. PICK p \in Nat : p = i - 1
    BY <1>4
  <2>5. T * p + a = T * d + x
    BY <2>1, <2>3, <2>4
  <2>6. a = x
    BY <2>5, Quotient
  <2> QED  BY <2>1, <2>3, <2>6
<1>7. ASSUME NEW j \in 0..nFiles - 1, j % T = a
      PROVE  \E i \in 1..q + 1 : LinesOf(a, nFiles, T)[i] = j
  <2>1. PICK p \in Nat : j = T * p + a
    <3>1. j \div T \in Nat /\ j = T * (j \div T) + (j % T)
      BY DivMod
    <3> QED  BY <1>7, <3>1
  <2>2. p <= q
    <3> SUFFICES ASSUME q < p PROVE FALSE
      OBVIOUS
    <3>1. T * q + T <= T * p
      BY MulMonotone
    <3>2. T * q \in Nat /\ T * p \in Nat
      OBVIOUS
    <3> QED  BY <1>2, <2>1, <3>1, <3>2
  <2>3. p + 1 \in 1..q + 1 /\ LinesOf(a, nFiles, T)[p + 1] = j
    <3>1. p + 1 \in 1..q + 1 /\ (p + 1) - 1 = p
      BY <2>2
    <3> QED  BY <1>4, <2>1, <3>1
  <2> QED  BY <2>3
<1>8. LinesOf(a, nFiles, T) \in [1..q + 1 -> 0..nFiles - 1]
  BY <1>3, <1>5
<1> QED  BY <1>2, <1>4, <1>6, <1>7, <1>8 DEF Lists

\* List a holds the files that leave the remainder a.
LEMMA ListOfMembers ==
  ASSUME NEW nFiles \in Nat, NEW T \in Nat \ {0}, T <= nFiles, NEW a \in 0..T - 1
  PROVE  ListOf(a, nFiles, T) = {j \in 0..nFiles - 1 : j % T = a}
<1>1. PICK q \in Nat : Lists(a, nFiles, T, q)
  BY LinesFacts
<1>2. PICK f : f = LinesOf(a, nFiles, T)
  OBVIOUS
<1>3. DOMAIN f = 1..q + 1 /\ \A i \in 1..q + 1 : f[i] \in 0..nFiles - 1
  BY <1>1, <1>2 DEF Lists
<1>4. ListOf(a, nFiles, T) = {f[i] : i \in DOMAIN f}
  BY <1>2 DEF ListOf
<1>5. \A j \in 0..nFiles - 1 : j % T = a => j \in ListOf(a, nFiles, T)
  BY <1>1, <1>2, <1>3, <1>4 DEF Lists
<1>6. \A j \in ListOf(a, nFiles, T) : j \in 0..nFiles - 1 /\ j % T = a
  BY <1>1, <1>2, <1>3, <1>4 DEF Lists
<1> QED  BY <1>5, <1>6

\* Every archive is in the block of exactly one rank.
LEMMA BlockOwner ==
  ASSUME NEW N \in Nat \ {0}, NEW T \in Nat \ {0}, NEW a \in 0..T - 1
  PROVE  \E r \in 0..N - 1 : /\ a \in Block(r, N, T)
                             /\ \A s \in (0..N - 1) \ {r} : a \notin Block(s, N, T)
<1>1. PICK b \in Nat \ {0} : b = TarBlock(N, T) /\ T <= N * b
  BY CeilDivBounds DEF TarBlock
<1>2. T \in Nat \ {0} /\ a \in Nat /\ a < T /\ N \in Nat \ {0}
  OBVIOUS
<1>3. PICK r \in Nat : \E x \in 0..b - 1 : a = b * r + x
  <2>1. a \div b \in Nat /\ a % b \in 0..b - 1 /\ a = b * (a \div b) + (a % b)
    BY <1>2, DivMod
  <2> QED  BY <2>1
<1>4. PICK x \in 0..b - 1 : a = b * r + x
  BY <1>3
<1>5. r < N
  <2> SUFFICES ASSUME ~ (r < N) PROVE FALSE
    OBVIOUS
  <2>1. N = r \/ N < r
    BY <1>2
  <2>2. b * N <= b * r
    <3>1. N < r => b * N + b <= b * r
      BY <1>1, <1>2, MulMonotone
    <3>2. b * N \in Int /\ b * r \in Int
      BY <1>2
    <3> QED  BY <2>1, <3>1, <3>2
  <2>3. N * b = b * N /\ b * N \in Int /\ b * r \in Int
    BY <1>2
  <2> QED  BY <1>1, <1>2, <1>4, <2>2, <2>3
<1>6. \A s \in Nat : /\ Start(s, N, T) = b * s
                     /\ Count(s, N, T) = IF b * s + b <= T THEN b ELSE T - b * s
  <2> TAKE s \in Nat
  <2>1. s * b = b * s /\ (s + 1) * b = b * s + b /\ b * s \in Nat
    OBVIOUS
  <2> QED  BY <1>1, <1>2, <2>1 DEF Start, Count
<1>7. b * r \in Nat
  OBVIOUS
<1>8. a \in Block(r, N, T)
  BY <1>1, <1>2, <1>4, <1>6, <1>7 DEF Block
<1>9. ASSUME NEW s \in (0..N - 1) \ {r} PROVE a \notin Block(s, N, T)
  <2> SUFFICES ASSUME a \in Block(s, N, T) PROVE FALSE
    OBVIOUS
  <2>1. s \in Nat
    BY <1>2
  <2>2. b * s \in Nat
    BY <2>1
  <2>3. b * s <= a /\ a - b * s < b
    BY <1>1, <1>2, <1>6, <2>1, <2>2 DEF Block
  <2>4. a - b * s \in 0..b - 1 /\ a = b * s + (a - b * s)
    BY <1>2, <2>2, <2>3
  <2>5. s = r
    BY <1>4, <2>1, <2>4, Quotient
  <2> QED  BY <2>5
<1> QED  BY <1>2, <1>5, <1>8, <1>9

\* No block reaches beyond the archives.
LEMMA BlockInRange ==
  ASSUME NEW N \in Nat \ {0}, NEW T \in Nat \ {0}, NEW r \in 0..N - 1
  PROVE  Block(r, N, T) \subseteq 0..T - 1
<1>1. PICK b \in Nat \ {0} : b = TarBlock(N, T)
  BY CeilDivBounds DEF TarBlock
<1>2. r * b \in Nat /\ (r + 1) * b = r * b + b
  BY <1>1
<1>3. Start(r, N, T) = r * b /\ Count(r, N, T) = IF r * b + b <= T THEN b ELSE T - r * b
  BY <1>1, <1>2 DEF Start, Count
<1> QED  BY <1>1, <1>2, <1>3 DEF Block
=============================================================================

--------------------------- MODULE EntryCopyProofs ---------------------------
(* Proofs about EntryCopy, for every block size, limit and set of files: the  *)
(* bytes a worker writes are those the master reserved, and those a reader    *)
(* of the headers skips.                                                      *)
EXTENDS EntryCopy, FiniteSetTheorems, SequenceTheorems, TLAPS

Arith == INSTANCE PartitionProofs

USE TarEntryAssumption, EntryCopyAssumption
-----------------------------------------------------------------------------
(* Lengths of headers and of padding *)

LEMMA DivIs ==
  ASSUME NEW m \in Nat, NEW p \in Nat, NEW s \in 0..Block - 1, m = Block * p + s
  PROVE  m \div Block = p /\ m % Block = s
<1>1. m \div Block \in Nat /\ m % Block \in 0..Block - 1
      /\ m = Block * (m \div Block) + (m % Block)
  BY Arith!DivMod
<1> DEFINE q == m \div Block
           r == m % Block
<1>2. Block * q + r = Block * p + s
  BY <1>1
<1>3. q \in Nat /\ r \in 0..Block - 1
  BY <1>1
<1> HIDE DEF q, r
<1>4. q = p /\ r = s
  BY <1>2, <1>3, Arith!Quotient
<1> QED  BY <1>4 DEF q, r

LEMMA RoundPads ==
  ASSUME NEW n \in Nat
  PROVE  /\ Padding(n) \in Nat /\ Round(n) \in Nat
         /\ Round(n) = n + Padding(n)
         /\ \E k \in Nat : Round(n) = Block * k
<1>1. PICK q \in Nat, r \in 0..Block - 1 :
        n = Block * q + r /\ r = n % Block
  BY Arith!DivMod
<1>2. PICK c \in Nat : c = Block * q
  OBVIOUS
<1>3. n = c + r /\ Block \in Nat \ {0} /\ r \in 0..Block - 1
  BY <1>1, <1>2
<1>4. Padding(n) = IF r = 0 THEN 0 ELSE Block - r
  BY <1>1 DEF Padding
<1> DEFINE m == n + Block - 1
<1>5. m \in Nat
  BY <1>3
<1>6. CASE r = 0
  <2>1. m = c + (Block - 1) /\ Block - 1 \in 0..Block - 1
    BY ONLY <1>3, <1>6, c \in Nat, n \in Nat
  <2>2. m \div Block = q
    <3> HIDE DEF m
    <3> QED  BY <1>2, <1>5, <2>1, DivIs
  <2>3. Round(n) = c
    <3>1. q * Block = c
      BY <1>2
    <3> QED  BY <2>2, <3>1 DEF Round
  <2> QED  BY <1>2, <1>3, <1>4, <1>6, <2>3
<1>7. CASE r # 0
  <2> DEFINE p == q + 1
  <2>1. Block * p = c + Block /\ p \in Nat /\ p * Block = Block * p
    BY <1>2
  <2>2. m = c + Block + (r - 1) /\ r - 1 \in 0..Block - 1
    BY ONLY <1>3, <1>7, c \in Nat, n \in Nat
  <2> HIDE DEF p
  <2>3. m \div Block = p
    <3> HIDE DEF m
    <3> QED  BY <1>5, <2>1, <2>2, DivIs
  <2>4. Round(n) = Block * p
    BY <2>1, <2>3 DEF Round
  <2>5. Round(n) = c + Block
    BY <2>1, <2>4
  <2>6. \E k \in Nat : Round(n) = Block * k
    BY <2>1, <2>4
  <2> QED  BY ONLY <1>3, <1>4, <1>7, <2>5, <2>6, c \in Nat, n \in Nat
<1> QED  BY <1>6, <1>7

\* Whole blocks in front do not change the padding.
LEMMA RoundAfterBlocks ==
  ASSUME NEW k \in Nat, NEW n \in Nat
  PROVE  Round(Block * k + n) = Block * k + n + Padding(n)
<1>1. PICK q \in Nat, r \in 0..Block - 1 :
        n = Block * q + r /\ r = n % Block
  BY Arith!DivMod
<1> DEFINE p == k + q
           m == Block * k + n
<1>2. p \in Nat /\ m \in Nat /\ m = Block * p + r
  <2>1. Block * p = Block * k + Block * q /\ Block * k \in Nat /\ Block * q \in Nat
    OBVIOUS
  <2> QED  BY <1>1, <2>1
<1> HIDE DEF p, m
<1>3. m % Block = r
  BY <1>2, DivIs
<1>4. Padding(m) = Padding(n)
  BY <1>1, <1>3 DEF Padding
<1>5. Round(m) = m + Padding(m)
  BY <1>2, RoundPads
<1> QED  BY <1>4, <1>5 DEF m

LEMMA DigitsType ==
  ASSUME NEW n \in Nat
  PROVE  Digits(n) \in Nat
<1> DEFINE S == {d \in 1..MaxDigits : n >= Power[d]}
<1>1. IsFiniteSet(1..MaxDigits)
  BY FS_Interval
<1>2. S \in SUBSET (1..MaxDigits)
  OBVIOUS
<1>3. IsFiniteSet(S)
  <2> HIDE DEF S
  <2> QED  BY <1>1, <1>2, FS_Subset
<1>4. Cardinality(S) \in Nat
  <2> HIDE DEF S
  <2> QED  BY <1>3, FS_CardinalityType
<1>5. Digits(n) = 1 + Cardinality(S)
  BY DEF Digits
<1> HIDE DEF S
<1> QED  BY <1>4, <1>5

LEMMA RecordLengthType ==
  ASSUME NEW key \in Nat, NEW value \in Nat
  PROVE  RecordLength(key, value) \in Nat \ {0}
<1>1. ASSUME NEW n \in Nat PROVE Printed(n, key, value) \in Nat \ {0}
  <2>1. Digits(n) \in Nat
    BY DigitsType
  <2> QED  BY <2>1 DEF Printed
<1> DEFINE len0 == key + value + 5
           len1 == Printed(len0, key, value)
           len2 == Printed(len1, key, value)
<1>2. len0 \in Nat
  OBVIOUS
<1>3. len1 \in Nat
  <2> HIDE DEF len0
  <2> QED  BY <1>1, <1>2
<1>4. len2 \in Nat
  <2> HIDE DEF len0, len1
  <2> SUFFICES Printed(len1, key, value) \in Nat
    BY DEF len2
  <2> QED  BY <1>1, <1>3
<1>5. RecordLength(key, value) = Printed(len2, key, value)
  BY DEF RecordLength, Rounds
<1> HIDE DEF len0, len1, len2
<1> QED  BY <1>1, <1>4, <1>5

LEMMA NewEntryType ==
  ASSUME NEW st \in Stats, NEW o \in Nat
  PROVE  NewEntry(st, o) \in Entries
BY DEF NewEntry, Stats, Entries

LEMMA PaxSizeType ==
  ASSUME NEW e \in Entries
  PROVE  PaxSize(e) \in Nat
<1>1. e.name \in Nat /\ e.link \in Nat /\ e.size \in Nat
  BY DEF Entries
<1>2. PathRecord(e) \in Nat /\ LinkpathRecord(e) \in Nat
  BY <1>1, RecordLengthType DEF PathRecord, LinkpathRecord
<1>3. SizeRecord(e) \in Nat
  BY <1>1, DigitsType, RecordLengthType DEF SizeRecord
<1> QED  BY <1>2, <1>3 DEF PaxSize

\* An entry has whole blocks of headers, and in all what size() says.
LEMMA EntrySizes ==
  ASSUME NEW e \in Entries
  PROVE  /\ FileSize(e) \in Nat /\ HeaderSize(e) \in Nat /\ Size(e) \in Nat
         /\ Size(e) = HeaderSize(e) + FileSize(e) + Padding(FileSize(e))
         /\ e.kind # "file" => Size(e) = HeaderSize(e)
<1>1. FileSize(e) \in Nat
  BY DEF Entries, FileSize
<1>2. PaxSize(e) \in Nat
  BY PaxSizeType
<1>3. \E k \in Nat : PaxHeader(e) = Block * k
  <2>1. CASE PaxSize(e) > 0
    <3>1. Block + PaxSize(e) \in Nat
      BY <1>2
    <3> QED  BY <2>1, <3>1, RoundPads DEF PaxHeader
  <2>2. CASE ~ (PaxSize(e) > 0)
    BY <2>2 DEF PaxHeader
  <2> QED  BY <2>1, <2>2
<1>4. PICK k \in Nat : HeaderSize(e) = Block * k
  <2>1. PICK j \in Nat : PaxHeader(e) = Block * j
    BY <1>3
  <2>2. HeaderSize(e) = Block * (j + 1) /\ j + 1 \in Nat
    BY <2>1 DEF HeaderSize
  <2> QED  BY <2>2
<1>5. HeaderSize(e) \in Nat
  BY <1>4
<1>6. Size(e) = HeaderSize(e) + FileSize(e) + Padding(FileSize(e))
  BY <1>1, <1>4, RoundAfterBlocks DEF Size
<1>7. Padding(FileSize(e)) \in Nat
  BY <1>1, RoundPads
<1>8. e.kind # "file" => FileSize(e) = 0 /\ Padding(0) = 0
  BY DEF FileSize, Padding
<1> QED  BY <1>1, <1>5, <1>6, <1>7, <1>8
-----------------------------------------------------------------------------
(* The inductive invariant *)

\* Each entry copied has its place; all but the last are full.
Placed ==
  /\ Len(placed) <= Len(mine)
  /\ \A i \in DOMAIN placed : placed[i].from = mine[i].off
  /\ \A i \in DOMAIN placed : i < Len(placed) => placed[i].bytes = Size(mine[i])

\* Between two entries file_off is where the stream is, and the last is full.
Between ==
  /\ fileOff = pos
  /\ Len(placed) > 0 => placed[Len(placed)].bytes = Size(mine[Len(placed)])

\* In the copy loop the stream is behind the header and what was copied.
Copying ==
  /\ Len(placed) > 0
  /\ LET e == Current
     IN  /\ fileOff = e.off + HeaderSize(e)
         /\ offset <= FileSize(e)
         /\ pos = fileOff + offset
         /\ placed[Len(placed)].bytes = HeaderSize(e) + offset

IInv ==
  /\ TypeOK /\ Placed
  /\ pc = "list" => placed = << >>
  /\ pc \in {"list", "next", "done"} => Between
  /\ pc = "read" => Copying
  /\ pc = "failed" /\ Len(placed) > 0 => placed[Len(placed)].bytes <= Size(mine[Len(placed)])

LEMMA Initial == Init => IInv
BY DEF Init, IInv, TypeOK, Placed, Between, Copying

\* Writing n bytes for the last entry.
LEMMA WriteTypes ==
  ASSUME IInv, NEW n \in Nat, Len(placed) > 0, Write(n)
  PROVE  /\ pos' = pos + n /\ pos' \in Nat
         /\ placed' \in Seq(Pieces)
         /\ Len(placed') = Len(placed) /\ DOMAIN placed' = DOMAIN placed
         /\ \A i \in DOMAIN placed : placed'[i].from = placed[i].from
         /\ \A i \in DOMAIN placed : i < Len(placed) => placed'[i] = placed[i]
         /\ placed'[Len(placed)].bytes = placed[Len(placed)].bytes + n
<1> DEFINE k == Len(placed)
           p == [placed[k] EXCEPT !.bytes = @ + n]
<1>1. placed \in Seq(Pieces) /\ pos \in Nat /\ k \in 1..Len(placed)
  BY DEF IInv, TypeOK
<1>2. placed[k] \in Pieces
  <2> HIDE DEF k
  <2> QED  BY <1>1
<1>3. /\ p \in Pieces /\ p.from = placed[k].from
      /\ p.bytes = placed[k].bytes + n
  <2> HIDE DEF k
  <2> QED  BY <1>2 DEF Pieces
<1>4. placed' = [placed EXCEPT ![k] = p] /\ pos' = pos + n
  BY DEF Write, This
<1> HIDE DEF p
<1>5. /\ placed' \in Seq(Pieces) /\ Len(placed') = Len(placed)
      /\ DOMAIN placed' = DOMAIN placed
      /\ placed'[k] = p /\ \A i \in DOMAIN placed : i # k => placed'[i] = placed[i]
  BY <1>1, <1>3, <1>4
<1> QED  BY <1>1, <1>3, <1>4, <1>5

LEMMA ListStep ==
  ASSUME IInv, NEW st \in Inputs, List(st)
  PROVE  IInv'
<1> DEFINE e == NewEntry(st, off)
<1>1. e \in Entries /\ Size(e) \in Nat
  BY NewEntryType, EntrySizes DEF IInv, TypeOK
<1> HIDE DEF e
<1>2. /\ off' = off + Size(e) /\ listed' = Append(listed, e)
      /\ mine' \in {mine, Append(mine, e)} /\ pc = "list"
      /\ UNCHANGED <<pc, placed, offset, len, fileOff, pos>>
  BY DEF List, e
<1>3. off' \in Nat /\ listed' \in Seq(Entries) /\ mine' \in Seq(Entries)
  <2>1. off \in Nat /\ listed \in Seq(Entries) /\ mine \in Seq(Entries)
    BY DEF IInv, TypeOK
  <2>2. Append(listed, e) \in Seq(Entries) /\ Append(mine, e) \in Seq(Entries)
    BY <1>1, <2>1
  <2>3. mine' = mine \/ mine' = Append(mine, e)
    BY <1>2
  <2>4. off' = off + Size(e)
    BY <1>2
  <2>5. off' \in Nat
    BY <1>1, <2>1, <2>4
  <2>6. listed' = Append(listed, e)
    BY <1>2
  <2> QED  BY <2>2, <2>1, <2>3, <2>5, <2>6
<1>4. TypeOK'
  BY <1>2, <1>3 DEF IInv, TypeOK
<1>5. placed' = << >> /\ Placed' /\ Between'
  BY <1>2, <1>3 DEF IInv, Placed, Between
<1> QED  BY <1>2, <1>4, <1>5 DEF IInv

LEMMA BeginStep ==
  ASSUME IInv, Begin
  PROVE  IInv'
<1> DEFINE k == Len(placed) + 1
           e == mine[k]
           p == [from |-> e.off, bytes |-> HeaderSize(e)]
<1>1. k \in 1..Len(mine) /\ Len(placed) \in Nat /\ mine \in Seq(Entries)
      /\ placed \in Seq(Pieces)
  BY DEF IInv, TypeOK, Placed, Begin, This
<1>2. e \in Entries
  BY <1>1
<1>3. /\ FileSize(e) \in Nat /\ HeaderSize(e) \in Nat /\ Size(e) \in Nat /\ e.off \in Nat
      /\ e.kind # "file" => Size(e) = HeaderSize(e)
  BY <1>2, EntrySizes DEF Entries
<1>4. placed' = Append(placed, p) /\ pos' = e.off + HeaderSize(e)
      /\ fileOff' = e.off + HeaderSize(e) /\ offset' = 0
  BY DEF Begin, This, IInv, Between
<1>5. /\ e.kind = "file" => pc' = "read" /\ len' \in Lengths \cup {e.size}
      /\ e.kind # "file" => pc' = "next" /\ len' = len
      /\ off' = off /\ listed' = listed /\ mine' = mine
  BY DEF Begin, This, listVars
<1>6. len' \in Nat
  BY <1>2, <1>5 DEF Entries, IInv, TypeOK
<1> HIDE DEF p, e
<1>7. p \in Pieces /\ p.from = e.off /\ p.bytes = HeaderSize(e)
  BY <1>3 DEF p, Pieces
<1>8. /\ placed' \in Seq(Pieces)
      /\ Len(placed') = k /\ DOMAIN placed' = 1..k
      /\ placed'[k] = p
      /\ \A i \in DOMAIN placed : placed'[i] = placed[i]
  BY <1>1, <1>4, <1>7
<1>9. DOMAIN placed = 1..Len(placed)
  BY <1>1
<1>10. TypeOK'
  BY <1>3, <1>4, <1>5, <1>6, <1>8 DEF IInv, TypeOK
<1>11. Placed'
  <2>1. \A i \in 1..Len(placed) : placed[i].bytes = Size(mine[i])
    <3> SUFFICES ASSUME NEW i \in 1..Len(placed) PROVE placed[i].bytes = Size(mine[i])
      OBVIOUS
    <3>1. pc = "next"
      BY DEF Begin
    <3>2. CASE i < Len(placed)
      BY <1>9, <3>2 DEF IInv, Placed
    <3>3. CASE i = Len(placed)
      BY <1>1, <3>1, <3>3 DEF IInv, Between
    <3> QED  BY <1>1, <3>2, <3>3
  <2>2. \A i \in 1..k : i = k \/ i \in 1..Len(placed)
    BY <1>1
  <2>3. \A i \in DOMAIN placed' : placed'[i].from = mine'[i].off
    BY <1>5, <1>7, <1>8, <1>9, <2>2 DEF IInv, Placed, e
  <2>4. \A i \in DOMAIN placed' : i < Len(placed') => placed'[i].bytes = Size(mine'[i])
    <3> SUFFICES ASSUME NEW i \in 1..k, i < k PROVE placed'[i].bytes = Size(mine[i])
      BY <1>5, <1>8
    <3>1. i \in 1..Len(placed)
      BY <1>1
    <3>2. placed'[i] = placed[i]
      BY <1>8, <1>9, <3>1
    <3> QED  BY <2>1, <3>1, <3>2
  <2> QED  BY <1>1, <1>5, <1>8, <2>3, <2>4 DEF Placed
<1>12. CASE e.kind = "file"
  <2>1. Current' = e
    BY <1>5, <1>8 DEF Current, e
  <2>2. Copying'
    BY <1>1, <1>3, <1>4, <1>7, <1>8, <2>1 DEF Copying
  <2> QED  BY <1>5, <1>10, <1>11, <1>12, <2>2 DEF IInv
<1>13. CASE e.kind # "file"
  <2>1. Between'
    BY <1>1, <1>3, <1>4, <1>5, <1>7, <1>8, <1>13 DEF Between, e
  <2> QED  BY <1>5, <1>10, <1>11, <1>13, <2>1 DEF IInv
<1> QED  BY <1>12, <1>13

\* read() returns no more than it was asked for.
LEMMA GotBounds ==
  ASSUME IInv, pc = "read", NEW n \in Got
  PROVE  n \in Nat /\ offset + n <= FileSize(Current)
<1>1. FileSize(Current) \in Nat
  <2>1. Current \in Entries
    BY DEF IInv, TypeOK, Copying, Placed, Current
  <2> QED  BY <2>1, EntrySizes
<1>2. offset \in Nat /\ len \in Nat /\ offset <= FileSize(Current)
  BY DEF IInv, TypeOK, Copying
<1> QED  BY <1>1, <1>2 DEF Got, Asked, Least

LEMMA ReadStep ==
  ASSUME IInv, Read
  PROVE  IInv'
<1>1. PICK n \in Got : Write(n) /\ offset' = offset + n
  BY DEF Read
<1>2. pc = "read" /\ UNCHANGED <<off, listed, mine, pc, len, fileOff>>
  BY DEF Read, listVars
<1>3. n \in Nat /\ offset + n <= FileSize(Current)
  BY <1>2, GotBounds
<1>4. Len(placed) > 0 /\ Len(placed) \in Nat
  BY <1>2 DEF IInv, Copying, TypeOK
<1>5. /\ pos' = pos + n /\ pos' \in Nat
      /\ placed' \in Seq(Pieces)
      /\ Len(placed') = Len(placed) /\ DOMAIN placed' = DOMAIN placed
      /\ \A i \in DOMAIN placed : placed'[i].from = placed[i].from
      /\ \A i \in DOMAIN placed : i < Len(placed) => placed'[i] = placed[i]
      /\ placed'[Len(placed)].bytes = placed[Len(placed)].bytes + n
  BY <1>1, <1>3, <1>4, WriteTypes
<1>6. TypeOK'
  BY <1>1, <1>2, <1>3, <1>5 DEF IInv, TypeOK
<1>7. Placed'
  BY <1>2, <1>5 DEF IInv, Placed
<1>8. Current' = Current /\ Current \in Entries
  BY <1>2, <1>4, <1>5 DEF Current, IInv, Placed, TypeOK
<1>9. HeaderSize(Current) \in Nat /\ Current.off \in Nat
  BY <1>8, EntrySizes DEF Entries
<1>10. Copying'
  <2> DEFINE e == Current
  <2>1. /\ fileOff = e.off + HeaderSize(e) /\ pos = fileOff + offset /\ offset \in Nat
        /\ placed[Len(placed)].bytes = HeaderSize(e) + offset
    BY <1>2 DEF IInv, Copying, TypeOK
  <2> HIDE DEF e
  <2>2. HeaderSize(e) \in Nat /\ e.off \in Nat /\ e' = e
    BY <1>8, <1>9 DEF e
  <2>3. /\ fileOff' = e.off + HeaderSize(e) /\ pos' = fileOff' + offset'
        /\ placed'[Len(placed')].bytes = HeaderSize(e) + offset'
    <3>1. fileOff' = fileOff /\ pos' = pos + n /\ offset' = offset + n /\ n \in Nat
      BY <1>1, <1>2, <1>3, <1>5
    <3>2. placed'[Len(placed')].bytes = placed[Len(placed)].bytes + n
      BY <1>5
    <3>a. fileOff = e.off + HeaderSize(e) /\ fileOff' = fileOff
      BY <2>1, <3>1
    <3>3. fileOff' = e.off + HeaderSize(e) /\ fileOff \in Nat
      BY <3>a DEF IInv, TypeOK
    <3>4. pos' = fileOff' + offset'
      BY <2>1, <3>1, <3>3
    <3> QED  BY <2>1, <2>2, <3>1, <3>2, <3>3, <3>4
  <2> QED  BY <1>1, <1>3, <1>4, <1>5, <1>8, <2>3 DEF Copying, e
<1> QED  BY <1>2, <1>6, <1>7, <1>10 DEF IInv

LEMMA EndStep ==
  ASSUME IInv, End
  PROVE  IInv'
<1> DEFINE e == Current
           n == Padding(FileSize(e))
<1>1. pc = "read" /\ pc' = "next" /\ offset >= FileSize(e) /\ Write(n)
      /\ fileOff' = fileOff + FileSize(e) + n
      /\ UNCHANGED <<off, listed, mine, offset, len>>
  BY DEF End, listVars
<1>2. Len(placed) > 0 /\ Len(placed) \in Nat /\ Len(placed) <= Len(mine)
      /\ mine \in Seq(Entries)
  BY <1>1 DEF IInv, Copying, TypeOK, Placed
<1>3. e \in Entries
  BY <1>2 DEF Current
<1>4. /\ FileSize(e) \in Nat /\ HeaderSize(e) \in Nat /\ e.off \in Nat /\ n \in Nat
      /\ Size(e) = HeaderSize(e) + FileSize(e) + n
  BY <1>3, EntrySizes, RoundPads DEF Entries
<1>5. /\ fileOff = e.off + HeaderSize(e) /\ offset = FileSize(e)
      /\ pos = fileOff + offset
      /\ placed[Len(placed)].bytes = HeaderSize(e) + offset
  BY <1>1, <1>4 DEF IInv, Copying, TypeOK
<1>6. e = mine[Len(placed)]
  BY DEF Current
<1> HIDE DEF e, n
<1>7. /\ pos' = pos + n /\ pos' \in Nat
      /\ placed' \in Seq(Pieces)
      /\ Len(placed') = Len(placed) /\ DOMAIN placed' = DOMAIN placed
      /\ \A i \in DOMAIN placed : placed'[i].from = placed[i].from
      /\ \A i \in DOMAIN placed : i < Len(placed) => placed'[i] = placed[i]
      /\ placed'[Len(placed)].bytes = placed[Len(placed)].bytes + n
  BY <1>1, <1>2, <1>4, WriteTypes
<1>8. TypeOK'
  BY <1>1, <1>4, <1>5, <1>7 DEF IInv, TypeOK
<1>9. Placed'
  BY <1>1, <1>7 DEF IInv, Placed
<1>10. Between'
  BY <1>1, <1>2, <1>4, <1>5, <1>6, <1>7 DEF Between
<1> QED  BY <1>1, <1>8, <1>9, <1>10 DEF IInv

LEMMA OtherSteps ==
  ASSUME IInv, EndList \/ Finish \/ Change \/ UNCHANGED vars
  PROVE  IInv'
<1>1. CASE EndList
  BY <1>1 DEF EndList, listVars, IInv, TypeOK, Placed, Between, Copying
<1>2. CASE Finish
  BY <1>2 DEF Finish, listVars, IInv, TypeOK, Placed, Between, Copying
<1>3. CASE Change
  BY <1>3 DEF Change, listVars, IInv, TypeOK, Placed, Between, Copying, Current
<1>4. CASE UNCHANGED vars
  BY <1>4 DEF vars, listVars, IInv, TypeOK, Placed, Between, Copying, Current
<1> QED  BY <1>1, <1>2, <1>3, <1>4

\* Whether the worker is between two entries or in the copy loop, the last
\* entry has no more bytes than it may.
LEMMA LastFits ==
  ASSUME IInv, Len(placed) > 0
  PROVE  placed[Len(placed)].bytes <= Size(mine[Len(placed)])
<1> DEFINE e == mine[Len(placed)]
<1>1. e \in Entries
  BY DEF IInv, TypeOK, Placed
<1>2. /\ FileSize(e) \in Nat /\ HeaderSize(e) \in Nat /\ Size(e) \in Nat
      /\ Padding(FileSize(e)) \in Nat
      /\ Size(e) = HeaderSize(e) + FileSize(e) + Padding(FileSize(e))
  BY <1>1, EntrySizes, RoundPads
<1>3. CASE pc = "read"
  <2>1. placed[Len(placed)].bytes = HeaderSize(e) + offset /\ offset <= FileSize(e)
        /\ offset \in Nat
    BY <1>3 DEF IInv, Copying, Current, TypeOK
  <2> QED  BY <1>2, <2>1
<1>4. CASE pc # "read"
  BY <1>2, <1>4 DEF IInv, Between, TypeOK
<1> QED  BY <1>3, <1>4

LEMMA FailStep ==
  ASSUME IInv, Fail
  PROVE  IInv'
<1>1. pc' = "failed" /\ UNCHANGED <<off, listed, mine, placed, offset, len, fileOff, pos>>
  BY DEF Fail, listVars
<1>2. Len(placed) > 0 => placed[Len(placed)].bytes <= Size(mine[Len(placed)])
  BY LastFits
<1> QED  BY <1>1, <1>2 DEF IInv, TypeOK, Placed

LEMMA Inductive == IInv /\ [Next]_vars => IInv'
<1> SUFFICES ASSUME IInv, [Next]_vars PROVE IInv'
  OBVIOUS
<1>1. CASE \E st \in Inputs : List(st)
  BY <1>1, ListStep
<1>2. CASE Begin
  BY <1>2, BeginStep
<1>3. CASE Read
  BY <1>3, ReadStep
<1>4. CASE End
  BY <1>4, EndStep
<1>5. CASE Fail
  BY <1>5, FailStep
<1>6. CASE EndList \/ Finish \/ Change \/ UNCHANGED vars
  BY <1>6, OtherSteps
<1> QED  BY <1>1, <1>2, <1>3, <1>4, <1>5, <1>6 DEF Next, Copy

\* The variables of copy_file_content() and of the files keep their types.
THEOREM TypeCorrect == Spec => []TypeOK
<1>1. IInv => TypeOK
  BY DEF IInv
<1> QED  BY <1>1, Initial, Inductive, PTL DEF Spec

LEMMA Slots == IInv => InOwnSlot
<1> SUFFICES ASSUME IInv PROVE InOwnSlot
  OBVIOUS
<1>1. placed \in Seq(Pieces) /\ mine \in Seq(Entries)
      /\ Len(placed) <= Len(mine)
  BY DEF IInv, TypeOK, Placed
<1>2. ASSUME NEW i \in DOMAIN placed
      PROVE  /\ placed[i].from = mine[i].off
             /\ placed[i].bytes <= Size(mine[i])
             /\ i < Len(placed) \/ pc = "next" => placed[i].bytes = Size(mine[i])
  <2>1. i \in 1..Len(placed) /\ mine[i] \in Entries
    BY <1>1
  <2>2. Size(mine[i]) \in Nat
    BY <2>1, EntrySizes
  <2>3. CASE i < Len(placed)
    BY <2>2, <2>3 DEF IInv, Placed
  <2>4. CASE i = Len(placed)
    BY <1>1, <2>1, <2>4, LastFits DEF IInv, Placed, Between
  <2> QED  BY <1>1, <2>1, <2>3, <2>4
<1> QED  BY <1>1, <1>2 DEF InOwnSlot

\* Whatever becomes of the files while they are copied, each entry is written
\* from the offset the master gave it and never past its own size().
THEOREM WritesOwnSlot == Spec => []InOwnSlot
BY Initial, Inductive, Slots, PTL DEF Spec
-----------------------------------------------------------------------------
(* What a reader of the headers finds *)

\* No file has exactly the size that neither the header nor a pax record holds
\* (tarentry.cpp:153, 188 and 247), and names are short enough for the size of
\* the pax records to fit into their header.
NoLimitMet ==
  \A st \in Inputs : \A o \in Nat :
    /\ st.kind = "file" => st.size # MaxFileSize
    /\ PaxSize(NewEntry(st, o)) < MaxFileSize

\* The reader gets the size of the file, from the header or from the record.
LEMMA ReadsFileSize ==
  ASSUME NEW e \in Entries, e.kind = "file" => e.size # MaxFileSize
  PROVE  ReadSize(e) = FileSize(e)
<1>1. e.size \in Nat /\ FileSize(e) \in Nat
  BY DEF Entries, FileSize
<1>2. SizeRecord(e) > 0 <=> FileSize(e) > MaxFileSize
  <2>1. RecordLength(4, Digits(e.size)) \in Nat \ {0}
    BY <1>1, DigitsType, RecordLengthType
  <2> QED  BY <2>1 DEF SizeRecord
<1>3. CASE e.kind = "file"
  <2>1. FileSize(e) = e.size /\ e.size # MaxFileSize
    BY <1>3 DEF FileSize
  <2> QED  BY <1>1, <1>2, <2>1 DEF ReadSize, SizeField
<1>4. CASE e.kind # "file"
  <2>1. FileSize(e) = 0
    BY <1>4 DEF FileSize
  <2> QED  BY <1>2, <2>1 DEF ReadSize, SizeField
<1> QED  BY <1>3, <1>4

LEMMA SpanIsSize ==
  ASSUME NEW e \in Entries, e.kind = "file" => e.size # MaxFileSize,
         PaxSize(e) < MaxFileSize
  PROVE  ReadSpan(e) = Size(e)
<1>1. PICK n \in Nat : n = FileSize(e) /\ n = ReadSize(e)
  BY ReadsFileSize, EntrySizes
<1>2. PICK p \in Nat : p = PaxSize(e)
  BY PaxSizeType
<1>3. PICK d \in Nat : d = Padding(n) /\ Round(n) = n + d
  BY RoundPads
<1>4. \A k \in Nat : Round(Block * k + n) = Block * k + n + d
  BY <1>3, RoundAfterBlocks
<1>5. CASE p = 0
  <2>1. HeaderSize(e) = Block * 1
    BY <1>2, <1>5 DEF HeaderSize, PaxHeader
  <2>2. Size(e) = Block + n + d
    <3>1. Round(Block * 1 + n) = Block * 1 + n + d
      BY <1>4
    <3> QED  BY <1>1, <2>1, <3>1 DEF Size
  <2>3. ReadSpan(e) = Block + (n + d)
    BY <1>1, <1>2, <1>3, <1>5 DEF ReadSpan
  <2> QED  BY <2>2, <2>3
<1>6. CASE p > 0
  <2>1. PICK j \in Nat : Round(p) = Block * j /\ Round(p) = p + Padding(p)
    BY RoundPads
  <2>2. PICK b \in Nat : b = Block * j
    OBVIOUS
  <2>3. Round(Block + p) = Block + b
    <3>1. Round(Block * 1 + p) = Block * 1 + p + Padding(p)
      BY RoundAfterBlocks
    <3>2. Padding(p) \in Nat
      BY RoundPads
    <3> QED  BY <2>1, <2>2, <3>1, <3>2
  <2>4. HeaderSize(e) = Block * (j + 2) /\ Block * (j + 2) = Block + Block + b
    <3>1. Block * (j + 2) = Block + Block + b
      BY <2>2
    <3> QED  BY <1>2, <1>6, <2>3, <3>1 DEF HeaderSize, PaxHeader
  <2>5. Size(e) = Block + Block + b + n + d
    <3>1. Round(Block * (j + 2) + n) = Block * (j + 2) + n + d
      <4>1. j + 2 \in Nat
        OBVIOUS
      <4> QED  BY <1>4, <4>1
    <3> QED  BY <1>1, <2>4, <3>1 DEF Size
  <2>6. Round(n + Block + b) = Block + b + n + d
    <3>1. Round(Block * (j + 1) + n) = Block * (j + 1) + n + d
      <4>1. j + 1 \in Nat
        OBVIOUS
      <4> QED  BY <1>4, <4>1
    <3>2. Block * (j + 1) = Block + b
      BY <2>2
    <3>3. Block * (j + 1) + n = n + Block + b
      BY <3>2
    <3> QED  BY <3>1, <3>2, <3>3
  <2>7. Round(SizeField(p)) = b
    BY <1>2, <2>1, <2>2 DEF SizeField
  <2>8. ReadSpan(e) = Block + Round(n + Block + b)
    BY <1>1, <1>2, <1>6, <2>7 DEF ReadSpan
  <2> QED  BY <2>5, <2>6, <2>8
<1> QED  BY <1>2, <1>5, <1>6

\* Every listed entry is that of an input.
FromInputs == \A i \in DOMAIN listed : \E st \in Inputs : \E o \in Nat : listed[i] = NewEntry(st, o)

LEMMA ListedFromInputs ==
  ASSUME TypeOK, FromInputs, [Next]_vars
  PROVE  FromInputs'
<1>1. CASE \E st \in Inputs : List(st)
  <2>1. PICK st \in Inputs : List(st)
    BY <1>1
  <2>2. PICK e : e = NewEntry(st, off)
    OBVIOUS
  <2>3. listed' = Append(listed, e) /\ listed \in Seq(Entries) /\ off \in Nat
    BY <2>1, <2>2 DEF List, TypeOK
  <2>4. ASSUME NEW i \in DOMAIN listed'
        PROVE  (i \in DOMAIN listed /\ listed'[i] = listed[i]) \/ listed'[i] = e
    BY <2>3
  <2> QED  BY <2>2, <2>3, <2>4 DEF FromInputs
<1>2. CASE listed' = listed
  BY <1>2 DEF FromInputs
<1> QED  BY <1>1, <1>2 DEF Next, EndList, Copy, Begin, Read, End, Finish, Fail, Change, vars, listVars

\* For every size but the largest one of a header, and every name, a reader
\* that goes from header to header comes to the next member: pax records, their
\* own header and the padding are counted alike by both sides
\* (tarentry.cpp:94-111, 153-188 and 247; choptar.pl).
THEOREM ReaderFindsMembers ==
  ASSUME NoLimitMet
  PROVE  Spec => []HeadersTellSize
<1>1. Init => FromInputs
  BY DEF Init, FromInputs
<1>2. TypeOK /\ FromInputs /\ [Next]_vars => FromInputs'
  BY ListedFromInputs
<1>3. TypeOK /\ FromInputs => HeadersTellSize
  <2> SUFFICES ASSUME TypeOK, FromInputs, NEW i \in DOMAIN listed
               PROVE  ReadSpan(listed[i]) = Size(listed[i])
    BY DEF HeadersTellSize
  <2>1. PICK st \in Inputs, o \in Nat : listed[i] = NewEntry(st, o)
    BY DEF FromInputs
  <2>2. NewEntry(st, o) \in Entries
    BY NewEntryType
  <2>3. NewEntry(st, o).kind = st.kind /\ NewEntry(st, o).size = st.size
    BY DEF NewEntry
  <2> QED  BY <2>1, <2>2, <2>3, SpanIsSize DEF NoLimitMet
<1> QED  BY <1>1, <1>2, <1>3, TypeCorrect, PTL DEF Spec
-----------------------------------------------------------------------------
(* The lengths of pax records: what Power computes, how many digits that     *)
(* gives, and that three rounds of record_length() are enough.               *)

LEMMA PowerIs ==
  /\ Power \in [0..MaxDigits -> Nat]
  /\ Power[0] = 1
  /\ \A d \in 1..MaxDigits : Power[d] = 10 * Power[d - 1]
<1> DEFINE Def(f, n) == f = [d \in 0..n |-> IF d = 0 THEN 1 ELSE 10 * f[d - 1]]
           K == {n \in Nat : \E f : Def(f, n) /\ f \in [0..n -> Nat]}
<1>1. 0 \in K
  <2>1. Def([d \in 0..0 |-> 1], 0) /\ [d \in 0..0 |-> 1] \in [0..0 -> Nat]
    OBVIOUS
  <2> QED  BY <2>1
<1>2. ASSUME NEW n \in K PROVE n + 1 \in K
  <2>1. PICK f : Def(f, n) /\ f \in [0..n -> Nat]
    OBVIOUS
  <2>2. n \in Nat
    OBVIOUS
  <2> DEFINE g == [d \in 0..n + 1 |-> IF d = n + 1 THEN 10 * f[n] ELSE f[d]]
  <2>3. \A d \in 0..n + 1 : g[d] = IF d = 0 THEN 1 ELSE 10 * g[d - 1]
    <3> TAKE d \in 0..n + 1
    <3>1. CASE d = n + 1
      <4>1. d # 0 /\ d - 1 \in 0..n + 1 /\ d - 1 # n + 1 /\ d - 1 = n
        BY <2>2, <3>1
      <4> QED  BY <3>1, <4>1
    <3>2. CASE d # n + 1
      <4>1. d \in 0..n /\ g[d] = f[d]
        BY <2>2, <3>2
      <4>2. d # 0 => d - 1 \in 0..n + 1 /\ d - 1 # n + 1
        BY <2>2, <3>2
      <4> QED  BY <2>1, <4>1, <4>2
    <3> QED  BY <3>1, <3>2
  <2>4. Def(g, n + 1)
    BY <2>3
  <2>5. g \in [0..n + 1 -> Nat]
    <3>1. \A d \in 0..n + 1 : d # n + 1 => d \in 0..n
      BY <2>2
    <3>2. 10 * f[n] \in Nat
      BY <2>1, <2>2
    <3> QED  BY <2>1, <3>1, <3>2
  <2> HIDE DEF Def, g
  <2> QED  BY <2>2, <2>4, <2>5
<1>3. K = Nat
  <2> HIDE DEF Def
  <2>1. K \in SUBSET Nat
    OBVIOUS
  <2> HIDE DEF K
  <2> QED  BY <1>1, <1>2, <2>1, Arith!Counting
<1>4. MaxDigits \in Nat
  OBVIOUS
<1>5. PICK f : Def(f, MaxDigits) /\ f \in [0..MaxDigits -> Nat]
  BY <1>3, <1>4
<1>6. Def(Power, MaxDigits)
  BY <1>5 DEF Power
<1>7. Power = f
  <2> DEFINE J == {n \in Nat : n \in 0..MaxDigits => Power[n] = f[n]}
  <2>1. 0 \in J
    BY <1>4, <1>5, <1>6
  <2>2. ASSUME NEW n \in J PROVE n + 1 \in J
    <3> SUFFICES ASSUME n + 1 \in 0..MaxDigits PROVE Power[n + 1] = f[n + 1]
      OBVIOUS
    <3>1. n \in 0..MaxDigits /\ n + 1 # 0 /\ (n + 1) - 1 = n /\ Power[n] = f[n]
      OBVIOUS
    <3>2. Power[n + 1] = 10 * Power[n]
      BY <1>6, <3>1
    <3>3. f[n + 1] = 10 * f[n]
      BY <1>5, <3>1
    <3> QED  BY <3>1, <3>2, <3>3
  <2>3. J \in SUBSET Nat
    OBVIOUS
  <2>4. J = Nat
    <3> HIDE DEF J
    <3> QED  BY <2>1, <2>2, <2>3, Arith!Counting
  <2>5. \A n \in 0..MaxDigits : Power[n] = f[n]
    BY <1>4, <2>4
  <2>6. DOMAIN Power = 0..MaxDigits /\ Power = [d \in DOMAIN Power |-> Power[d]]
    BY <1>6
  <2> QED  BY <1>5, <2>5, <2>6
<1>8. \A d \in 1..MaxDigits : d \in 0..MaxDigits /\ d # 0
  BY <1>4
<1> QED  BY <1>4, <1>5, <1>6, <1>7, <1>8

LEMMA PowerGrows ==
  /\ \A d \in 0..MaxDigits : Power[d] \in Nat /\ d < Power[d]
  /\ \A d \in 0..MaxDigits : \A b \in 0..d : Power[b] <= Power[d]
<1>1. \A d \in 0..MaxDigits : Power[d] \in Nat
  BY PowerIs
<1> DEFINE K == {n \in Nat : n \in 0..MaxDigits =>
                   n < Power[n] /\ \A b \in 0..n : Power[b] <= Power[n]}
<1>2. 0 \in K
  BY <1>1, PowerIs
<1>3. ASSUME NEW n \in K PROVE n + 1 \in K
  <2> SUFFICES ASSUME n + 1 \in 0..MaxDigits
               PROVE  n + 1 < Power[n + 1] /\ \A b \in 0..n + 1 : Power[b] <= Power[n + 1]
    OBVIOUS
  <2>1. n \in 0..MaxDigits /\ n + 1 \in 1..MaxDigits /\ (n + 1) - 1 = n
    OBVIOUS
  <2>2. Power[n + 1] = 10 * Power[n] /\ n < Power[n] /\ Power[n] \in Nat
    BY <1>1, <2>1, PowerIs
  <2>3. Power[n] <= Power[n + 1] /\ n + 1 < Power[n + 1] /\ Power[n + 1] \in Nat
    BY <2>1, <2>2
  <2>4. \A b \in 0..n + 1 : b = n + 1 \/ b \in 0..n
    BY <2>1
  <2>5. \A b \in 0..n : Power[b] <= Power[n] /\ Power[b] \in Nat
    BY <1>1, <2>1
  <2> QED  BY <2>2, <2>3, <2>4, <2>5
<1>4. K \in SUBSET Nat
  OBVIOUS
<1>5. K = Nat
  <2> HIDE DEF K
  <2> QED  BY <1>2, <1>3, <1>4, Arith!Counting
<1> QED  BY <1>1, <1>5

\* A number between two powers has as many digits.
LEMMA DigitsAre ==
  ASSUME NEW n \in Nat, NEW k \in 1..MaxDigits + 1,
         k # 1 => n >= Power[k - 1], k # MaxDigits + 1 => n < Power[k]
  PROVE  Digits(n) = k
<1> DEFINE S == {d \in 1..MaxDigits : n >= Power[d]}
<1>1. MaxDigits \in Nat /\ k \in Nat
  OBVIOUS
<1>2. \A d \in 1..MaxDigits : n >= Power[d] <=> d <= k - 1
  <2> TAKE d \in 1..MaxDigits
  <2>1. d \in 0..MaxDigits /\ Power[d] \in Nat
    BY <1>1, PowerGrows
  <2>2. CASE d <= k - 1
    <3>1. k # 1 /\ k - 1 \in 0..MaxDigits /\ d \in 0..k - 1
      BY <1>1, <2>2
    <3>2. Power[d] <= Power[k - 1] /\ Power[k - 1] \in Nat
      BY <3>1, PowerGrows
    <3> QED  BY <2>1, <2>2, <3>1, <3>2
  <2>3. CASE ~ (d <= k - 1)
    <3>1. k # MaxDigits + 1 /\ k \in 0..d /\ k \in 0..MaxDigits
      BY <1>1, <2>3
    <3>2. Power[k] <= Power[d] /\ Power[k] \in Nat
      BY <2>1, <3>1, PowerGrows
    <3> QED  BY <2>1, <2>3, <3>1, <3>2
  <2> QED  BY <2>2, <2>3
<1>3. S = 1..k - 1
  BY <1>1, <1>2
<1>4. Cardinality(1..k - 1) = k - 1
  <2>1. 1 \in Int /\ k - 1 \in Int
    BY <1>1
  <2>2. Cardinality(1..k - 1) = IF 1 > k - 1 THEN 0 ELSE (k - 1) - 1 + 1
    BY <2>1, FS_Interval
  <2> QED  BY <1>1, <2>2
<1>5. Digits(n) = 1 + Cardinality(S)
  BY DEF Digits
<1> HIDE DEF S
<1> QED  BY <1>1, <1>3, <1>4, <1>5

LEMMA DigitsExist ==
  ASSUME NEW n \in Nat
  PROVE  \E k \in 1..MaxDigits + 1 : /\ Digits(n) = k
                                     /\ k # 1 => n >= Power[k - 1]
                                     /\ k # MaxDigits + 1 => n < Power[k]
<1>1. MaxDigits \in Nat
  OBVIOUS
<1> DEFINE Past(k) == \A d \in 1..k : n >= Power[d]
           K == {k \in Nat : k \in 0..MaxDigits => Past(k)}
<1>2. 0 \in K
  OBVIOUS
<1>3. CASE K = Nat
  <2>1. MaxDigits # 0 => n >= Power[MaxDigits]
    BY <1>1, <1>3
  <2>2. MaxDigits + 1 \in 1..MaxDigits + 1 /\ (MaxDigits + 1) - 1 = MaxDigits
    BY <1>1
  <2>3. Digits(n) = MaxDigits + 1
    BY <1>1, <2>1, <2>2, DigitsAre
  <2> QED  BY <1>1, <2>1, <2>2, <2>3
<1>4. CASE K # Nat
  <2>1. PICK m \in K : m + 1 \notin K
    <3>1. K \in SUBSET Nat
      OBVIOUS
    <3> HIDE DEF K
    <3> QED  BY <1>2, <1>4, <3>1, Arith!Counting
  <2>2. m \in Nat /\ m + 1 \in 0..MaxDigits /\ m \in 0..MaxDigits /\ Past(m) /\ ~ Past(m + 1)
    BY <1>1, <2>1
  <2>3. Power[m + 1] \in Nat /\ ~ (n >= Power[m + 1])
    <3>1. \A d \in 1..m + 1 : d = m + 1 \/ d \in 1..m
      BY <2>2
    <3> QED  BY <2>2, <3>1, PowerGrows
  <2>4. m + 1 \in 1..MaxDigits + 1 /\ (m + 1) - 1 = m /\ m + 1 # MaxDigits + 1
    BY <1>1, <2>2
  <2>5. m + 1 # 1 => n >= Power[m]
    BY <2>2
  <2>6. n < Power[m + 1]
    BY <2>3
  <2>7. Digits(n) = m + 1
    BY <2>4, <2>5, <2>6, DigitsAre
  <2> QED  BY <2>4, <2>5, <2>6, <2>7
<1> QED  BY <1>3, <1>4

\* The length grows by the digits it has itself: once it passes a power of ten
\* it cannot pass the next, so the third round finds what the second found.
LEMMA ThreeRounds ==
  ASSUME NEW key \in Nat, NEW value \in Nat
  PROVE  SaysItsLength(RecordLength(key, value), key, value)
<1> DEFINE c == key + value + 3
<1>1. PICK M \in Nat : M = MaxDigits
  OBVIOUS
<1>2. PICK len0 \in Nat : len0 = key + value + 5
  OBVIOUS
<1>3. PICK D \in 1..M + 1 : /\ Digits(len0) = D
                            /\ D # 1 => len0 >= Power[D - 1]
                            /\ D # M + 1 => len0 < Power[D]
  BY <1>1, DigitsExist
<1>4. PICK len1 \in Nat : len1 = Printed(len0, key, value) /\ len1 = len0 + D - 2
  <2>1. Printed(len0, key, value) = D + key + value + 3
    BY <1>3 DEF Printed
  <2> QED  BY <1>2, <2>1
<1>5. CASE Digits(len1) = D
  <2>1. Printed(len1, key, value) = len1
    BY <1>2, <1>4, <1>5 DEF Printed
  <2> QED  BY <1>2, <1>4, <2>1 DEF SaysItsLength, RecordLength, Rounds
<1>6. CASE Digits(len1) # D
  <2>1. D # 1 => Power[D - 1] \in Nat
    BY <1>1, <1>3, PowerGrows
  <2>2. D # M + 1 => Power[D] \in Nat /\ D < Power[D]
    BY <1>1, <1>3, PowerGrows
  <2>3. D # 1 => len1 >= Power[D - 1]
    BY <1>3, <1>4, <2>1
  <2>4. D # M + 1 /\ ~ (len1 < Power[D])
    BY <1>1, <1>3, <1>6, <2>3, DigitsAre
  <2>5. len1 >= Power[D] /\ D # 1 /\ len1 < Power[D] + D - 2
    BY <1>3, <1>4, <2>2, <2>4
  <2>6. D + 1 # M + 1 => Power[D + 1] = 10 * Power[D]
    <3>1. D + 1 # M + 1 => D + 1 \in 1..MaxDigits /\ (D + 1) - 1 = D
      BY <1>1, <1>3, <2>4
    <3> QED  BY <3>1, PowerIs
  <2>7. PICK E \in 1..M + 1 : E = D + 1 /\ E # 1 /\ E - 1 = D
    BY <1>3, <2>4
  <2>8. PICK len2 \in Nat : len2 = len1 + 1
    OBVIOUS
  <2>9. ASSUME NEW n \in {len1, len2} PROVE Digits(n) = E
    <3>1. n \in Nat /\ n >= Power[D] /\ n < Power[D] + D
      BY <2>2, <2>4, <2>5, <2>8
    <3>2. E # M + 1 => n < Power[E]
      BY <2>2, <2>4, <2>6, <2>7, <3>1
    <3> QED  BY <1>1, <2>7, <3>1, <3>2, DigitsAre
  <2>10. Printed(len1, key, value) = len2 /\ Printed(len2, key, value) = len2
    BY <1>2, <1>4, <2>7, <2>8, <2>9 DEF Printed
  <2> QED  BY <1>2, <1>4, <2>10 DEF SaysItsLength, RecordLength, Rounds
<1> QED  BY <1>5, <1>6

\* Whatever the names and sizes, each pax record is as long as it says, and the
\* assert that allows three rounds holds (tarentry.cpp:281-291): the master
\* reserves what the worker will write.
THEOREM RecordsAreAsLong == Spec => []RecordsTellLength
<1>1. TypeOK => RecordsTellLength
  <2> SUFFICES ASSUME TypeOK, NEW i \in DOMAIN listed
               PROVE  LET e == listed[i]
                      IN  /\ PathRecord(e) > 0 => SaysItsLength(PathRecord(e), 4, e.name)
                          /\ LinkpathRecord(e) > 0 => SaysItsLength(LinkpathRecord(e), 8, e.link)
                          /\ SizeRecord(e) > 0 => SaysItsLength(SizeRecord(e), 4, Digits(e.size))
    BY DEF RecordsTellLength
  <2>1. PICK e \in Entries : e = listed[i]
    BY DEF TypeOK
  <2>2. e.name \in Nat /\ e.link \in Nat /\ Digits(e.size) \in Nat
    BY DigitsType DEF Entries
  <2>3. PathRecord(e) > 0 => SaysItsLength(PathRecord(e), 4, e.name)
    BY <2>2, ThreeRounds DEF PathRecord
  <2>4. LinkpathRecord(e) > 0 => SaysItsLength(LinkpathRecord(e), 8, e.link)
    BY <2>2, ThreeRounds DEF LinkpathRecord
  <2>5. SizeRecord(e) > 0 => SaysItsLength(SizeRecord(e), 4, Digits(e.size))
    BY <2>2, ThreeRounds DEF SizeRecord
  <2> QED  BY <2>1, <2>3, <2>4, <2>5
<1> QED  BY <1>1, TypeCorrect, PTL
-----------------------------------------------------------------------------
(* The message of a job: what the master puts together the worker takes apart *)

Number(b, n) == [bytes |-> b, value |-> n]
Fields == [bytes : Nat \ {0}, value : Nat]
          \cup [bytes : {144}, value : {"file", "dir", "link"} \X Nat]

\* t is q and one field more, r.
OneMore(S, q, r, t) ==
  /\ t \in Seq(S) /\ Len(t) = Len(q) + 1
  /\ \A i \in 1..Len(q) : t[i] = q[i]
  /\ t[Len(q) + 1] = r[1]

LEMMA Longer ==
  ASSUME NEW S, NEW q \in Seq(S), NEW r \in Seq(S), Len(r) = 1
  PROVE  OneMore(S, q, r, q \o r)
<1>1. Len(q) \in Nat /\ Len(q) + 1 \in 1..Len(q) + Len(r) /\ (Len(q) + 1) - Len(q) = 1
  OBVIOUS
<1>2. \A i \in 1..Len(q) : i \in 1..Len(q) + Len(r) /\ i <= Len(q)
  OBVIOUS
<1>3. ~ (Len(q) + 1 <= Len(q))
  BY <1>1
<1>4. PICK p : p = q \o r
  OBVIOUS
<1>5. /\ p \in Seq(S) /\ Len(p) = Len(q) + Len(r)
      /\ \A i \in 1..Len(q) + Len(r) : p[i] = IF i <= Len(q) THEN q[i] ELSE r[i - Len(q)]
  BY <1>4, ConcatProperties
<1>6. \A i \in 1..Len(q) : p[i] = q[i]
  BY <1>2, <1>5
<1>7. p[Len(q) + 1] = r[1]
  BY <1>1, <1>3, <1>5
<1> QED  BY <1>4, <1>5, <1>6, <1>7 DEF OneMore

LEMMA FieldTypes ==
  ASSUME NEW e \in Entries
  PROVE  /\ \A n \in Nat, b \in Nat \ {0} : Number(b, n) \in Fields
         /\ Number(144, <<e.kind, e.size>>) \in Fields
         /\ e.name \in Nat /\ e.link \in Nat /\ e.off \in Nat /\ e.size \in Nat
<1>1. e.name \in Nat /\ e.link \in Nat /\ e.off \in Nat /\ e.size \in Nat /\ e.kind \in {"file", "dir", "link"}
  BY DEF Entries
<1>2. <<e.kind, e.size>> \in {"file", "dir", "link"} \X Nat
  BY <1>1
<1> QED  BY <1>1, <1>2 DEF Fields, Number

\* What stands in the fields of an entry that has a name.
Laid(e, s) ==
  /\ s \in Seq(Fields) /\ Len(s) = IF e.link = 0 THEN 6 ELSE 7
  /\ s[1] = Number(8, 8 + 144 + 8 + 8 + e.name + 8 + e.link)
  /\ s[2] = Number(144, <<e.kind, e.size>>)
  /\ s[3] = Number(8, e.off) /\ s[4] = Number(8, e.name)
  /\ s[5] = Number(e.name, e.name) /\ s[6] = Number(8, e.link)
  /\ e.link # 0 => s[7] = Number(e.link, e.link)

LEMMA SerializeIs ==
  ASSUME NEW e \in Entries, e.name # 0
  PROVE  Laid(e, Serialize(e))
<1>1. PICK s1, s2, s3, s4, s5, s6, s7 :
        /\ s1 = Word(8 + 144 + 8 + 8 + e.name + 8 + e.link) /\ s2 = Stat(e) /\ s3 = Word(e.off)
        /\ s4 = Word(e.name) /\ s5 = Chars(e.name) /\ s6 = Word(e.link) /\ s7 = Chars(e.link)
  OBVIOUS
<1>2. PICK w, st, o, n, c, l, m :
        /\ w = Number(8, 8 + 144 + 8 + 8 + e.name + 8 + e.link)
        /\ st = Number(144, <<e.kind, e.size>>) /\ o = Number(8, e.off)
        /\ n = Number(8, e.name) /\ c = Number(e.name, e.name) /\ l = Number(8, e.link)
        /\ m = Number(e.link, e.link)
  OBVIOUS
<1>3. /\ w \in Fields /\ st \in Fields /\ o \in Fields /\ n \in Fields
      /\ c \in Fields /\ l \in Fields /\ (e.link # 0 => m \in Fields)
  BY <1>2, FieldTypes
<1>4. s1 = <<w>> /\ s2 = <<st>> /\ s3 = <<o>> /\ s4 = <<n>> /\ s5 = <<c>> /\ s6 = <<l>>
  BY <1>1, <1>2 DEF Word, Stat, Chars, Number
<1>5. s7 = IF e.link = 0 THEN << >> ELSE <<m>>
  BY <1>1, <1>2 DEF Chars, Number
<1>6. /\ s1 \in Seq(Fields) /\ s2 \in Seq(Fields) /\ s3 \in Seq(Fields) /\ s4 \in Seq(Fields)
      /\ s5 \in Seq(Fields) /\ s6 \in Seq(Fields)
      /\ Len(s1) = 1 /\ Len(s2) = 1 /\ Len(s3) = 1 /\ Len(s4) = 1 /\ Len(s5) = 1 /\ Len(s6) = 1
      /\ s1[1] = w /\ s2[1] = st /\ s3[1] = o /\ s4[1] = n /\ s5[1] = c /\ s6[1] = l
  BY <1>3, <1>4
<1>7. PICK t2 : t2 = s1 \o s2
  OBVIOUS
<1>8. t2 \in Seq(Fields) /\ Len(t2) = 2 /\ t2[1] = w /\ t2[2] = st
  <2>1. OneMore(Fields, s1, s2, t2)
    BY <1>6, <1>7, Longer
  <2> QED  BY <1>6, <2>1 DEF OneMore
<1>9. PICK t3 : t3 = t2 \o s3
  OBVIOUS
<1>10. t3 \in Seq(Fields) /\ Len(t3) = 3 /\ t3[1] = w /\ t3[2] = st /\ t3[3] = o
  <2>1. OneMore(Fields, t2, s3, t3)
    BY <1>6, <1>8, <1>9, Longer
  <2> QED  BY <1>6, <1>8, <2>1 DEF OneMore
<1>11. PICK t4 : t4 = t3 \o s4
  OBVIOUS
<1>12. t4 \in Seq(Fields) /\ Len(t4) = 4 /\ t4[1] = w /\ t4[2] = st /\ t4[3] = o /\ t4[4] = n
  <2>1. OneMore(Fields, t3, s4, t4)
    BY <1>6, <1>10, <1>11, Longer
  <2> QED  BY <1>6, <1>10, <2>1 DEF OneMore
<1>13. PICK t5 : t5 = t4 \o s5
  OBVIOUS
<1>14. /\ t5 \in Seq(Fields) /\ Len(t5) = 5 /\ t5[1] = w /\ t5[2] = st /\ t5[3] = o
       /\ t5[4] = n /\ t5[5] = c
  <2>1. OneMore(Fields, t4, s5, t5)
    BY <1>6, <1>12, <1>13, Longer
  <2> QED  BY <1>6, <1>12, <2>1 DEF OneMore
<1>15. PICK t6 : t6 = t5 \o s6
  OBVIOUS
<1>16. /\ t6 \in Seq(Fields) /\ Len(t6) = 6 /\ t6[1] = w /\ t6[2] = st /\ t6[3] = o
       /\ t6[4] = n /\ t6[5] = c /\ t6[6] = l
  <2>1. OneMore(Fields, t5, s6, t6)
    BY <1>6, <1>14, <1>15, Longer
  <2> QED  BY <1>6, <1>14, <2>1 DEF OneMore
<1>17. Serialize(e) = t6 \o s7
  BY <1>1, <1>7, <1>9, <1>11, <1>13, <1>15 DEF Serialize
<1>18. CASE e.link = 0
  <2>1. Serialize(e) = t6
    BY <1>5, <1>16, <1>17, <1>18, ConcatEmptySeq
  <2> QED  BY <1>2, <1>16, <1>18, <2>1 DEF Laid
<1>19. CASE e.link # 0
  <2>1. s7 \in Seq(Fields) /\ Len(s7) = 1 /\ s7[1] = m
    BY <1>3, <1>5, <1>19
  <2>2. PICK t7 : t7 = t6 \o s7
    OBVIOUS
  <2>3. /\ t7 \in Seq(Fields) /\ Len(t7) = 7 /\ t7[1] = w /\ t7[2] = st /\ t7[3] = o
        /\ t7[4] = n /\ t7[5] = c /\ t7[6] = l /\ t7[7] = m
    <3>1. OneMore(Fields, t6, s7, t7)
      BY <1>16, <2>1, <2>2, Longer
    <3> QED  BY <1>16, <2>1, <3>1 DEF OneMore
  <2> QED  BY <1>2, <1>17, <1>19, <2>2, <2>3 DEF Laid
<1> QED  BY <1>18, <1>19

\* The offsets at which the fields end.
LEMMA EndsExist ==
  ASSUME NEW buf \in Seq(Fields)
  PROVE  \E f : f = [i \in 0..Len(buf) |-> IF i = 0 THEN 0 ELSE f[i - 1] + buf[i].bytes]
<1> DEFINE Def(b, n) == b = [i \in 0..n |-> IF i = 0 THEN 0 ELSE b[i - 1] + buf[i].bytes]
           K == {n \in Nat : \E b : Def(b, n)}
<1>1. 0 \in K
  <2>1. Def([i \in 0..0 |-> 0], 0)
    OBVIOUS
  <2> HIDE DEF Def
  <2> QED  BY <2>1
<1>2. ASSUME NEW n \in K PROVE n + 1 \in K
  <2>1. n \in Nat
    OBVIOUS
  <2>2. PICK b : Def(b, n)
    OBVIOUS
  <2>3. PICK last : last = b[n] + buf[n + 1].bytes
    OBVIOUS
  <2>4. PICK c : c = [i \in 0..n + 1 |-> IF i = n + 1 THEN last ELSE b[i]]
    OBVIOUS
  <2>5. ASSUME NEW i \in 0..n + 1
        PROVE  c[i] = IF i = 0 THEN 0 ELSE c[i - 1] + buf[i].bytes
    <3>1. CASE i = n + 1
      <4>1. i # 0 /\ i - 1 = n /\ i - 1 \in 0..n + 1 /\ i - 1 # n + 1
        BY <2>1, <3>1
      <4>2. c[i] = last /\ c[i - 1] = b[n]
        BY <2>4, <3>1, <4>1
      <4> QED  BY <2>3, <3>1, <4>1, <4>2
    <3>2. CASE i # n + 1
      <4>1. i \in 0..n /\ (i # 0 => i - 1 \in 0..n + 1 /\ i - 1 # n + 1)
        BY <2>1, <3>2
      <4>2. c[i] = b[i] /\ (i # 0 => c[i - 1] = b[i - 1])
        BY <2>4, <3>2, <4>1
      <4>3. b[i] = IF i = 0 THEN 0 ELSE b[i - 1] + buf[i].bytes
        BY <2>2, <4>1
      <4> QED  BY <4>2, <4>3
    <3> QED  BY <3>1, <3>2
  <2>6. c = [i \in 0..n + 1 |-> IF i = 0 THEN 0 ELSE c[i - 1] + buf[i].bytes]
    <3>1. DOMAIN c = 0..n + 1 /\ c = [i \in DOMAIN c |-> c[i]]
      BY <2>4
    <3> QED  BY <2>5, <3>1
  <2>7. Def(c, n + 1)
    BY <2>6
  <2> HIDE DEF Def
  <2> QED  BY <2>1, <2>7
<1>3. K = Nat
  <2>1. K \in SUBSET Nat
    OBVIOUS
  <2> HIDE DEF K
  <2> QED  BY <1>1, <1>2, <2>1, Arith!Counting
<1>4. Len(buf) \in K
  <2>1. Len(buf) \in Nat
    OBVIOUS
  <2> HIDE DEF K
  <2> QED  BY <1>3, <2>1
<1> QED  BY <1>4

\* ends is where the fields of buf end.
EndAt(buf, ends) ==
  /\ ends[0] = 0 /\ \A i \in 0..Len(buf) : ends[i] \in Nat
  /\ \A i \in 0..Len(buf), j \in 1..Len(buf) : j = i + 1 => ends[j] = ends[i] + buf[j].bytes

LEMMA EndsAre ==
  ASSUME NEW buf \in Seq(Fields)
  PROVE  EndAt(buf, Ends(buf))
<1>1. Len(buf) \in Nat
  OBVIOUS
<1>2. PICK ends : ends = Ends(buf)
  OBVIOUS
<1>3. ends = [i \in 0..Len(buf) |-> IF i = 0 THEN 0 ELSE ends[i - 1] + buf[i].bytes]
  BY <1>2, EndsExist DEF Ends
<1>4. ends[0] = 0
  BY <1>1, <1>3
<1>5. ASSUME NEW i \in 0..Len(buf), NEW j \in 1..Len(buf), j = i + 1
      PROVE  ends[j] = ends[i] + buf[j].bytes
  <2>1. j \in 0..Len(buf) /\ j # 0 /\ j - 1 = i
    BY <1>1, <1>5
  <2> QED  BY <1>3, <2>1
<1>6. \A j \in 1..Len(buf) : buf[j].bytes \in Nat
  <2> TAKE j \in 1..Len(buf)
  <2>1. buf[j] \in Fields
    OBVIOUS
  <2> QED  BY <2>1 DEF Fields
<1> DEFINE K == {n \in Nat : n <= Len(buf) => ends[n] \in Nat}
<1>7. 0 \in K
  BY <1>4
<1>8. ASSUME NEW n \in K PROVE n + 1 \in K
  <2> SUFFICES ASSUME n + 1 <= Len(buf) PROVE ends[n + 1] \in Nat
    OBVIOUS
  <2>1. n \in 0..Len(buf) /\ n + 1 \in 1..Len(buf) /\ ends[n] \in Nat
    BY <1>1
  <2>2. ends[n + 1] = ends[n] + buf[n + 1].bytes
    BY <1>5, <2>1
  <2> QED  BY <1>6, <2>1, <2>2
<1>9. K = Nat
  <2>1. K \in SUBSET Nat
    OBVIOUS
  <2> HIDE DEF K
  <2> QED  BY <1>7, <1>8, <2>1, Arith!Counting
<1>10. \A i \in 0..Len(buf) : ends[i] \in Nat
  BY <1>1, <1>9
<1> QED  BY <1>2, <1>4, <1>5, <1>10 DEF EndAt

\* No two fields end at the same offset.
LEMMA EndsGrow ==
  ASSUME NEW buf \in Seq(Fields), NEW ends, EndAt(buf, ends),
         NEW i \in 0..Len(buf), NEW j \in 0..Len(buf), i < j
  PROVE  ends[i] < ends[j]
<1>1. Len(buf) \in Nat /\ i \in Nat /\ ends[i] \in Nat
  BY DEF EndAt
<1>2. \A k \in 1..Len(buf) : buf[k].bytes \in Nat \ {0}
  <2> TAKE k \in 1..Len(buf)
  <2>1. buf[k] \in Fields
    OBVIOUS
  <2> QED  BY <2>1 DEF Fields
<1> DEFINE K == {n \in Nat : n + i + 1 <= Len(buf) => ends[i] < ends[n + i + 1]}
<1>3. ASSUME NEW n \in 0..Len(buf), NEW m \in 1..Len(buf), m = n + 1
      PROVE  ends[n] < ends[m] /\ ends[n] \in Nat /\ ends[m] \in Nat
  <2>1. ends[m] = ends[n] + buf[m].bytes /\ ends[n] \in Nat
    BY <1>3 DEF EndAt
  <2> QED  BY <1>2, <2>1
<1>4. 0 \in K
  <2> SUFFICES ASSUME i + 1 <= Len(buf) PROVE ends[i] < ends[i + 1]
    BY <1>1
  <2>1. i + 1 \in 1..Len(buf)
    BY <1>1
  <2> QED  BY <1>3, <2>1
<1>5. ASSUME NEW n \in K PROVE n + 1 \in K
  <2> SUFFICES ASSUME (n + 1) + i + 1 <= Len(buf) PROVE ends[i] < ends[(n + 1) + i + 1]
    OBVIOUS
  <2>1. PICK p, q : p = n + i + 1 /\ q = (n + 1) + i + 1 /\ q = p + 1 /\ p \in 0..Len(buf) /\ q \in 1..Len(buf)
    BY <1>1
  <2>2. ends[i] < ends[p]
    BY <1>1, <2>1
  <2>3. ends[p] < ends[q] /\ ends[p] \in Nat /\ ends[q] \in Nat
    BY <1>3, <2>1
  <2> QED  BY <1>1, <2>1, <2>2, <2>3
<1>6. K = Nat
  <2>1. K \in SUBSET Nat
    OBVIOUS
  <2> HIDE DEF K
  <2> QED  BY <1>4, <1>5, <2>1, Arith!Counting
<1>7. PICK n \in Nat : j = n + i + 1
  <2>1. j - (i + 1) \in Nat /\ j = (j - (i + 1)) + i + 1
    BY <1>1
  <2> QED  BY <2>1
<1>8. n \in K
  <2> HIDE DEF K
  <2> QED  BY <1>6, <1>7
<1>9. n + i + 1 <= Len(buf)
  BY <1>1, <1>7
<1> QED  BY <1>7, <1>8, <1>9

\* Reading at the offset of a field as many bytes as it has gives the field.
LEMMA FieldIs ==
  ASSUME NEW buf \in Seq(Fields), NEW q \in 0..Len(buf), NEW p \in 1..Len(buf), p = q + 1,
         NEW o, o = Ends(buf)[q], NEW n, n = buf[p].bytes, NEW garbage
  PROVE  Field(buf, o, n, garbage) = buf[p].value
<1>1. PICK ends : ends = Ends(buf)
  OBVIOUS
<1>2. EndAt(buf, ends)
  BY <1>1, EndsAre
<1>3. Len(buf) \in Nat /\ DOMAIN buf = 1..Len(buf)
  OBVIOUS
<1>4. FieldsAt(buf, o, n) = {x \in DOMAIN buf : ends[x - 1] = o /\ buf[x].bytes = n}
  BY <1>1 DEF FieldsAt
<1>5. p - 1 = q /\ p \in DOMAIN buf
  BY <1>3
<1>6. p \in FieldsAt(buf, o, n)
  BY <1>1, <1>4, <1>5
<1>7. ASSUME NEW x \in FieldsAt(buf, o, n) PROVE x = p
  <2>1. x \in 1..Len(buf) /\ ends[x - 1] = ends[q]
    BY <1>1, <1>3, <1>4
  <2>2. PICK y : y = x - 1
    OBVIOUS
  <2>3. y \in 0..Len(buf) /\ x = y + 1 /\ ends[y] = ends[q]
    BY <1>3, <2>1, <2>2
  <2>4. ends[y] \in Nat /\ ends[q] \in Nat
    BY <1>2, <2>3 DEF EndAt
  <2>5. ~ (y < q) /\ ~ (q < y)
    BY <1>2, <2>3, <2>4, EndsGrow
  <2>6. y = q
    BY <1>3, <2>3, <2>5
  <2> QED  BY <2>3, <2>6
<1>8. FieldsAt(buf, o, n) # {} /\ (CHOOSE x \in FieldsAt(buf, o, n) : TRUE) = p
  BY <1>6, <1>7
<1> QED  BY <1>8 DEF Field

LEMMA WordsAre ==
  ASSUME NEW buf \in Seq(Fields), NEW o
  PROVE  Field(buf, o, 8, 0) \in Nat
<1>1. CASE FieldsAt(buf, o, 8) = {}
  BY <1>1 DEF Field
<1>2. CASE FieldsAt(buf, o, 8) # {}
  <2>1. PICK p : p = CHOOSE x \in FieldsAt(buf, o, 8) : TRUE
    OBVIOUS
  <2>2. p \in FieldsAt(buf, o, 8)
    BY <1>2, <2>1
  <2>3. p \in DOMAIN buf /\ buf[p].bytes = 8
    BY <2>2 DEF FieldsAt
  <2>4. buf[p] \in Fields
    BY <2>3
  <2>5. buf[p].value \in Nat
    BY <2>3, <2>4 DEF Fields
  <2> QED  BY <1>2, <2>1, <2>5 DEF Field
<1> QED  BY <1>1, <1>2

\* An entry takes up some bytes, whatever they are.
LEMMA NextOffset ==
  ASSUME NEW buf \in Seq(Fields), NEW o \in Nat
  PROVE  Deserialize(buf, o).next \in Nat /\ o < Deserialize(buf, o).next
<1>1. PICK name \in Nat : name = Field(buf, o + 160, 8, 0)
  BY WordsAre
<1>2. PICK at \in Nat : at = o + 168 + name
  OBVIOUS
<1>3. PICK link \in Nat : link = Field(buf, at, 8, 0)
  BY WordsAre
<1>4. Deserialize(buf, o).next = at + 8 + link
  BY <1>1, <1>2, <1>3 DEF Deserialize
<1> QED  BY <1>2, <1>4

\* One turn of the loop over a message, and what the rest of it gives.
ReadAt(buf, f, o) ==
  LET d == Deserialize(buf, o)
  IN  IF o = Bytes(buf) \/ d.said # d.next - o \/ d.ent.name = 0 THEN << >>
      ELSE << d.ent >> \o f[IF d.next < Bytes(buf) THEN d.next ELSE Bytes(buf)]

LEMMA LoopExists ==
  ASSUME NEW buf \in Seq(Fields)
  PROVE  \E f : f = [o \in 0..Bytes(buf) |-> ReadAt(buf, f, o)]
<1>1. PICK top : top = Bytes(buf) /\ top \in Nat
  <2>1. EndAt(buf, Ends(buf)) /\ Len(buf) \in 0..Len(buf)
    BY EndsAre
  <2> QED  BY <2>1 DEF Bytes, EndAt
<1> DEFINE Def(f, n) == f = [o \in top - n..top |-> ReadAt(buf, f, o)]
           K == {n \in Nat : n <= top => \E f : Def(f, n)}
<1>2. 0 \in K
  <2>1. \A o \in top - 0..top : o = top
    BY <1>1
  <2>2. \A f : ReadAt(buf, f, top) = << >>
    BY <1>1 DEF ReadAt
  <2>3. Def([o \in top - 0..top |-> << >>], 0)
    BY <2>1, <2>2
  <2> HIDE DEF Def
  <2> QED  BY <2>3
<1>3. ASSUME NEW n \in K PROVE n + 1 \in K
  <2> SUFFICES ASSUME n + 1 <= top PROVE \E f : Def(f, n + 1)
    OBVIOUS
  <2>1. n \in Nat /\ n <= top
    BY <1>1
  <2>2. PICK f : Def(f, n)
    BY <2>1
  <2>3. PICK low : low = top - (n + 1) /\ low \in Nat /\ low + 1 = top - n
    BY <1>1, <2>1
  <2>4. f = [o \in low + 1..top |-> ReadAt(buf, f, o)]
    BY <2>2, <2>3
  <2> HIDE DEF Def, K
  <2>5. PICK g : g = [o \in low..top |-> IF o = low THEN ReadAt(buf, f, o) ELSE f[o]]
    OBVIOUS
  <2>6. ASSUME NEW o \in low..top PROVE g[o] = ReadAt(buf, g, o)
    <3>1. g[o] = ReadAt(buf, f, o)
      <4>1. o = low \/ o \in low + 1..top
        BY <1>1, <2>3
      <4> QED  BY <2>4, <2>5, <4>1
    <3>2. ReadAt(buf, g, o) = ReadAt(buf, f, o)
      <4>1. CASE o = top
        BY <1>1, <4>1 DEF ReadAt
      <4>2. CASE o # top
        <5>1. PICK d : d = Deserialize(buf, o)
          OBVIOUS
        <5>2. d.next \in Nat /\ o < d.next
          BY <2>3, <5>1, NextOffset
        <5>3. PICK x : x = IF d.next < top THEN d.next ELSE top
          OBVIOUS
        <5>4. x \in low..top /\ x # low
          BY <1>1, <2>3, <4>2, <5>2, <5>3
        <5>5. g[x] = f[x]
          BY <2>5, <5>4
        <5> QED  BY <1>1, <5>1, <5>3, <5>5 DEF ReadAt
      <4> QED  BY <4>1, <4>2
    <3> QED  BY <3>1, <3>2
  <2>7. g = [o \in low..top |-> ReadAt(buf, g, o)]
    <3>1. DOMAIN g = low..top /\ g = [o \in DOMAIN g |-> g[o]]
      BY <2>5
    <3> QED  BY <2>6, <3>1
  <2>8. Def(g, n + 1)
    BY <2>3, <2>7 DEF Def
  <2> QED  BY <2>8
<1>4. K = Nat
  <2>1. K \in SUBSET Nat
    OBVIOUS
  <2> HIDE DEF K
  <2> QED  BY <1>2, <1>3, <2>1, Arith!Counting
<1>5. top <= top /\ top - top = 0
  BY <1>1
<1>6. PICK f : Def(f, top)
  BY <1>1, <1>4, <1>5
<1> QED  BY <1>1, <1>5, <1>6

\* f is the field between the ends y and z.
FieldAt(buf, y, z, f) ==
  /\ Ends(buf)[z] = Ends(buf)[y] + f.bytes
  /\ \A garbage : Field(buf, Ends(buf)[y], f.bytes, garbage) = f.value

LEMMA FieldBetween ==
  ASSUME NEW buf \in Seq(Fields), NEW y \in 0..Len(buf), NEW z \in 1..Len(buf), z = y + 1,
         NEW f, f = buf[z]
  PROVE  FieldAt(buf, y, z, f)
<1>1. EndAt(buf, Ends(buf))
  BY EndsAre
<1>2. Ends(buf)[z] = Ends(buf)[y] + f.bytes
  BY <1>1 DEF EndAt
<1>3. ASSUME NEW garbage
      PROVE  Field(buf, Ends(buf)[y], f.bytes, garbage) = f.value
  <2>1. PICK o, n : o = Ends(buf)[y] /\ n = buf[z].bytes
    OBVIOUS
  <2>2. Field(buf, o, n, garbage) = buf[z].value
    BY <2>1, FieldIs
  <2> QED  BY <2>1, <2>2
<1> QED  BY <1>2, <1>3 DEF FieldAt

\* The reader of an entry finds it, whatever comes before and after, and goes on
\* where the entry ends.
LEMMA TakenApart ==
  ASSUME NEW e \in Entries, e.name # 0, NEW r, Laid(e, r), NEW buf \in Seq(Fields),
         NEW q \in Nat, q + Len(r) <= Len(buf),
         \A k \in 1..Len(r) : buf[q + k] = r[k],
         NEW ends, ends = Ends(buf), NEW o, o = ends[q]
  PROVE  /\ o \in Nat
         /\ Deserialize(buf, o).ent = e
         /\ Deserialize(buf, o).next = ends[q + Len(r)]
         /\ Deserialize(buf, o).said = Deserialize(buf, o).next - o
         /\ o < Deserialize(buf, o).next
<1>1. e.name \in Nat /\ e.link \in Nat /\ e.off \in Nat /\ e.size \in Nat
  BY DEF Entries
<1>2. Len(r) \in Nat /\ 6 <= Len(r) /\ (e.link = 0 => Len(r) = 6) /\ (e.link # 0 => Len(r) = 7)
  <2>1. Len(r) = IF e.link = 0 THEN 6 ELSE 7
    BY DEF Laid
  <2> QED  BY <2>1
<1>3. EndAt(buf, ends) /\ Len(buf) \in Nat
  BY EndsAre
<1>4. o \in Nat
  <2>1. q \in 0..Len(buf)
    BY <1>2, <1>3
  <2> QED  BY <1>3, <2>1 DEF EndAt
<1>5. \A x, y : Number(x, y).value = y /\ Number(x, y).bytes = x
  BY DEF Number
<1>6. /\ r[1].bytes = 8 /\ r[1].value = 8 + 144 + 8 + 8 + e.name + 8 + e.link
      /\ r[2].bytes = 144 /\ r[2].value = <<e.kind, e.size>>
      /\ r[3].bytes = 8 /\ r[3].value = e.off
      /\ r[4].bytes = 8 /\ r[4].value = e.name
      /\ r[5].bytes = e.name /\ r[5].value = e.name
      /\ r[6].bytes = 8 /\ r[6].value = e.link
      /\ (e.link # 0 => r[7].bytes = e.link /\ r[7].value = e.link)
  <2>1. /\ r[1] = Number(8, 8 + 144 + 8 + 8 + e.name + 8 + e.link)
        /\ r[2] = Number(144, <<e.kind, e.size>>) /\ r[3] = Number(8, e.off)
        /\ r[4] = Number(8, e.name) /\ r[5] = Number(e.name, e.name) /\ r[6] = Number(8, e.link)
        /\ (e.link # 0 => r[7] = Number(e.link, e.link))
    BY DEF Laid
  <2> QED  BY <1>5, <2>1
\* Where each field starts, and what is read there.
<1>7. PICK y1, y2, y3, y4, y5, y6, y7 :
        /\ y1 = q + 1 /\ y2 = q + 2 /\ y3 = q + 3 /\ y4 = q + 4 /\ y5 = q + 5 /\ y6 = q + 6
        /\ y7 = q + 7
  OBVIOUS
<1>8. /\ q \in 0..Len(buf)
      /\ y1 \in 1..Len(buf) /\ y2 \in 1..Len(buf) /\ y3 \in 1..Len(buf) /\ y4 \in 1..Len(buf)
      /\ y5 \in 1..Len(buf) /\ y6 \in 1..Len(buf)
      /\ y1 \in 0..Len(buf) /\ y2 \in 0..Len(buf) /\ y3 \in 0..Len(buf) /\ y4 \in 0..Len(buf)
      /\ y5 \in 0..Len(buf) /\ y6 \in 0..Len(buf)
      /\ y1 = q + 1 /\ y2 = y1 + 1 /\ y3 = y2 + 1 /\ y4 = y3 + 1 /\ y5 = y4 + 1 /\ y6 = y5 + 1
      /\ y7 = y6 + 1
  BY <1>2, <1>3, <1>7
<1>9. /\ buf[y1] = r[1] /\ buf[y2] = r[2] /\ buf[y3] = r[3] /\ buf[y4] = r[4] /\ buf[y5] = r[5]
      /\ buf[y6] = r[6]
  <2>1. 1 \in 1..Len(r) /\ 2 \in 1..Len(r) /\ 3 \in 1..Len(r) /\ 4 \in 1..Len(r) /\ 5 \in 1..Len(r) /\ 6 \in 1..Len(r)
    BY <1>2
  <2> QED  BY <1>7, <2>1
<1>10. ends[y1] = o + 8 /\ Field(buf, o, 8, 0) = 8 + 144 + 8 + 8 + e.name + 8 + e.link
  <2>1. FieldAt(buf, q, y1, r[1])
    BY <1>8, <1>9, FieldBetween
  <2> QED  BY <1>6, <2>1 DEF FieldAt
<1>11. ends[y2] = o + 152 /\ Field(buf, o + 8, 144, <<"file", 0>>) = <<e.kind, e.size>>
  <2>1. FieldAt(buf, y1, y2, r[2])
    BY <1>8, <1>9, FieldBetween
  <2>2. ends[y2] = ends[y1] + 144 /\ Field(buf, ends[y1], 144, <<"file", 0>>) = <<e.kind, e.size>>
    BY <1>6, <2>1 DEF FieldAt
  <2> QED  BY <1>4, <1>10, <2>2
<1>12. ends[y3] = o + 160 /\ Field(buf, o + 152, 8, 0) = e.off
  <2>1. FieldAt(buf, y2, y3, r[3])
    BY <1>8, <1>9, FieldBetween
  <2>2. ends[y3] = ends[y2] + 8 /\ Field(buf, ends[y2], 8, 0) = e.off
    BY <1>6, <2>1 DEF FieldAt
  <2> QED  BY <1>4, <1>11, <2>2
<1>13. ends[y4] = o + 168 /\ Field(buf, o + 160, 8, 0) = e.name
  <2>1. FieldAt(buf, y3, y4, r[4])
    BY <1>8, <1>9, FieldBetween
  <2>2. ends[y4] = ends[y3] + 8 /\ Field(buf, ends[y3], 8, 0) = e.name
    BY <1>6, <2>1 DEF FieldAt
  <2> QED  BY <1>4, <1>12, <2>2
<1>14. PICK at \in Nat : at = o + 168 + e.name
  BY <1>1, <1>4
<1>15. ends[y5] = at /\ Field(buf, o + 168, e.name, 0) = e.name
  <2>1. FieldAt(buf, y4, y5, r[5])
    BY <1>8, <1>9, FieldBetween
  <2>2. ends[y5] = ends[y4] + e.name /\ Field(buf, ends[y4], e.name, 0) = e.name
    BY <1>6, <2>1 DEF FieldAt
  <2> QED  BY <1>1, <1>4, <1>13, <1>14, <2>2
<1>16. /\ ends[q + Len(r)] = at + 8 + e.link /\ Text(buf, at + 8, e.link) = e.link
       /\ Field(buf, at, 8, 0) = e.link
  <2>1. FieldAt(buf, y5, y6, r[6])
    BY <1>8, <1>9, FieldBetween
  <2>2. ends[y6] = at + 8 /\ Field(buf, at, 8, 0) = e.link
    BY <1>6, <1>15, <2>1 DEF FieldAt
  <2>3. CASE e.link = 0
    <3>1. Len(r) = 6
      BY <1>2, <2>3
    <3>2. ends[q + Len(r)] = at + 8 + e.link
      BY <1>7, <1>14, <2>2, <2>3, <3>1
    <3> QED  BY <2>2, <2>3, <3>2 DEF Text
  <2>4. CASE e.link # 0
    <3>1. Len(r) = 7 /\ 7 \in 1..Len(r)
      <4>1. Len(r) = 7
        BY <1>2, <2>4
      <4> QED  BY <4>1
    <3>2. y7 \in 1..Len(buf) /\ buf[y7] = r[7]
      <4>1. y7 \in 1..Len(buf)
        BY <1>3, <1>7, <3>1
      <4> QED  BY <1>7, <3>1, <4>1
    <3>3. FieldAt(buf, y6, y7, r[7])
      BY <1>8, <3>2, FieldBetween
    <3>4. ends[y7] = (at + 8) + e.link /\ Field(buf, at + 8, e.link, 0) = e.link
      BY <1>6, <2>2, <2>4, <3>3 DEF FieldAt
    <3>5. ends[q + Len(r)] = at + 8 + e.link
      BY <1>7, <3>1, <3>4
    <3> QED  BY <2>2, <2>4, <3>4, <3>5 DEF Text
  <2> QED  BY <2>3, <2>4
<1>17. Text(buf, o + 168, e.name) = e.name
  BY <1>15 DEF Text
<1>18. Deserialize(buf, o) =
        [ent |-> [kind |-> <<e.kind, e.size>>[1], size |-> <<e.kind, e.size>>[2], off |-> e.off,
                  name |-> e.name, link |-> e.link],
         next |-> at + 8 + e.link,
         said |-> 8 + 144 + 8 + 8 + e.name + 8 + e.link]
  <2> DEFINE S == <<e.kind, e.size>>
  <2>1. S = Field(buf, o + 8, 144, <<"file", 0>>)
    BY <1>11
  <2> HIDE DEF S
  <2>2. Deserialize(buf, o) =
        [ent |-> [kind |-> S[1], size |-> S[2], off |-> e.off, name |-> e.name, link |-> e.link],
         next |-> at + 8 + e.link,
         said |-> 8 + 144 + 8 + 8 + e.name + 8 + e.link]
    BY <1>10, <1>12, <1>13, <1>14, <1>16, <1>17, <2>1 DEF Deserialize
  <2> QED  BY <2>2 DEF S
<1>19. [kind |-> e.kind, size |-> e.size, off |-> e.off, name |-> e.name, link |-> e.link] = e
  BY DEF Entries
<1>20. 8 + 144 + 8 + 8 + e.name + 8 + e.link = (at + 8 + e.link) - o /\ o < at + 8 + e.link
  <2>1. PICK m \in Nat, l \in Nat, x \in Nat : m = e.name /\ l = e.link /\ x = o
    BY <1>1, <1>4
  <2>2. at = x + 168 + m
    BY <1>14, <2>1
  <2>3. 8 + 144 + 8 + 8 + m + 8 + l = (at + 8 + l) - x /\ x < at + 8 + l
    BY <2>2
  <2> QED  BY <2>1, <2>3
<1> QED  BY <1>4, <1>16, <1>18, <1>19, <1>20

\* The buffer after each entry, as the master puts it together.
Buffers(es, b) ==
  b = [i \in 0..Len(es) |-> IF i = 0 THEN << >> ELSE b[i - 1] \o Serialize(es[i])]

AllNamed(es) == \A i \in 1..Len(es) : es[i].name # 0

LEMMA BuffersExist ==
  ASSUME NEW es, Len(es) \in Nat
  PROVE  \E b : Buffers(es, b)
<1> DEFINE Def(b, n) == b = [i \in 0..n |-> IF i = 0 THEN << >> ELSE b[i - 1] \o Serialize(es[i])]
           K == {n \in Nat : \E b : Def(b, n)}
<1>1. 0 \in K
  <2>1. Def([i \in 0..0 |-> << >>], 0)
    OBVIOUS
  <2> HIDE DEF Def
  <2> QED  BY <2>1
<1>2. ASSUME NEW n \in K PROVE n + 1 \in K
  <2>1. n \in Nat
    OBVIOUS
  <2>2. PICK b : Def(b, n)
    OBVIOUS
  <2>3. PICK last : last = b[n] \o Serialize(es[n + 1])
    OBVIOUS
  <2>4. PICK c : c = [i \in 0..n + 1 |-> IF i = n + 1 THEN last ELSE b[i]]
    OBVIOUS
  <2>5. ASSUME NEW i \in 0..n + 1
        PROVE  c[i] = IF i = 0 THEN << >> ELSE c[i - 1] \o Serialize(es[i])
    <3>1. CASE i = n + 1
      <4>1. i # 0 /\ i - 1 = n /\ i - 1 \in 0..n + 1 /\ i - 1 # n + 1
        BY <2>1, <3>1
      <4>2. c[i] = last /\ c[i - 1] = b[n]
        BY <2>4, <3>1, <4>1
      <4> QED  BY <2>3, <3>1, <4>1, <4>2
    <3>2. CASE i # n + 1
      <4>1. i \in 0..n /\ (i # 0 => i - 1 \in 0..n + 1 /\ i - 1 # n + 1)
        BY <2>1, <3>2
      <4>2. c[i] = b[i] /\ (i # 0 => c[i - 1] = b[i - 1])
        BY <2>4, <3>2, <4>1
      <4>3. b[i] = IF i = 0 THEN << >> ELSE b[i - 1] \o Serialize(es[i])
        BY <2>2, <4>1
      <4> QED  BY <4>2, <4>3
    <3> QED  BY <3>1, <3>2
  <2>6. c = [i \in 0..n + 1 |-> IF i = 0 THEN << >> ELSE c[i - 1] \o Serialize(es[i])]
    <3>1. DOMAIN c = 0..n + 1 /\ c = [i \in DOMAIN c |-> c[i]]
      BY <2>4
    <3> QED  BY <2>5, <3>1
  <2>7. Def(c, n + 1)
    BY <2>6
  <2> HIDE DEF Def
  <2> QED  BY <2>1, <2>7
<1>3. K = Nat
  <2>1. K \in SUBSET Nat
    OBVIOUS
  <2> HIDE DEF K
  <2> QED  BY <1>1, <1>2, <2>1, Arith!Counting
<1> QED  BY <1>3 DEF Buffers

\* t has what q has, and then what r has.
Followed(S, q, r, t) ==
  /\ q \in Seq(S) /\ r \in Seq(S) /\ t \in Seq(S) /\ Len(t) = Len(q) + Len(r)
  /\ \A k \in 1..Len(q) : t[k] = q[k]
  /\ \A k \in 1..Len(r) : t[Len(q) + k] = r[k]

LEMMA ConcatFollowed ==
  ASSUME NEW S, NEW q \in Seq(S), NEW r \in Seq(S)
  PROVE  Followed(S, q, r, q \o r)
<1>1. PICK t : t = q \o r
  OBVIOUS
<1>2. /\ t \in Seq(S) /\ Len(t) = Len(q) + Len(r)
      /\ \A i \in 1..Len(q) + Len(r) : t[i] = IF i <= Len(q) THEN q[i] ELSE r[i - Len(q)]
  BY <1>1, ConcatProperties
<1>3. Len(q) \in Nat /\ Len(r) \in Nat
  OBVIOUS
<1>4. ASSUME NEW k \in 1..Len(q) PROVE t[k] = q[k]
  <2>1. k \in 1..Len(q) + Len(r) /\ k <= Len(q)
    BY <1>3
  <2> QED  BY <1>2, <2>1
<1>5. ASSUME NEW k \in 1..Len(r) PROVE t[Len(q) + k] = r[k]
  <2>1. Len(q) + k \in 1..Len(q) + Len(r) /\ ~ (Len(q) + k <= Len(q)) /\ (Len(q) + k) - Len(q) = k
    BY <1>3
  <2> QED  BY <1>2, <2>1
<1> QED  BY <1>1, <1>2, <1>4, <1>5 DEF Followed

LEMMA BuffersGrow ==
  ASSUME NEW es \in Seq(Entries), AllNamed(es), NEW b, Buffers(es, b)
  PROVE  /\ b[0] = << >> /\ \A i \in 0..Len(es) : b[i] \in Seq(Fields)
         /\ \A i \in 0..Len(es), j \in 1..Len(es) : j = i + 1 => Followed(Fields, b[i], Serialize(es[j]), b[j])
<1>1. Len(es) \in Nat
  OBVIOUS
<1>2. b[0] = << >>
  BY <1>1 DEF Buffers
<1>3. ASSUME NEW i \in 0..Len(es), NEW j \in 1..Len(es), j = i + 1
      PROVE  b[j] = b[i] \o Serialize(es[j])
  <2>1. j \in 0..Len(es) /\ j # 0 /\ j - 1 = i
    BY <1>1, <1>3
  <2> QED  BY <2>1 DEF Buffers
<1>4. \A j \in 1..Len(es) : Serialize(es[j]) \in Seq(Fields)
  <2> TAKE j \in 1..Len(es)
  <2>1. es[j] \in Entries /\ es[j].name # 0
    BY DEF AllNamed
  <2>2. Laid(es[j], Serialize(es[j]))
    BY <2>1, SerializeIs
  <2> QED  BY <2>2 DEF Laid
<1> DEFINE K == {n \in Nat : n <= Len(es) => b[n] \in Seq(Fields)}
<1>5. 0 \in K
  <2>1. << >> \in Seq(Fields)
    OBVIOUS
  <2> QED  BY <1>2, <2>1
<1>6. ASSUME NEW n \in K PROVE n + 1 \in K
  <2> SUFFICES ASSUME n + 1 <= Len(es) PROVE b[n + 1] \in Seq(Fields)
    OBVIOUS
  <2>1. n \in 0..Len(es) /\ n + 1 \in 1..Len(es) /\ b[n] \in Seq(Fields)
    BY <1>1
  <2>2. PICK r : r = Serialize(es[n + 1]) /\ r \in Seq(Fields)
    BY <1>4, <2>1
  <2>3. b[n + 1] = b[n] \o r
    BY <1>3, <2>1, <2>2
  <2> QED  BY <2>1, <2>2, <2>3, ConcatProperties
<1>7. K = Nat
  <2>1. K \in SUBSET Nat
    OBVIOUS
  <2> HIDE DEF K
  <2> QED  BY <1>5, <1>6, <2>1, Arith!Counting
<1>8. \A i \in 0..Len(es) : b[i] \in Seq(Fields)
  BY <1>1, <1>7
<1>9. ASSUME NEW i \in 0..Len(es), NEW j \in 1..Len(es), j = i + 1
      PROVE  Followed(Fields, b[i], Serialize(es[j]), b[j])
  <2>1. PICK q, r : q = b[i] /\ r = Serialize(es[j])
    OBVIOUS
  <2>2. q \in Seq(Fields) /\ r \in Seq(Fields)
    BY <1>4, <1>8, <2>1
  <2>3. b[j] = q \o r
    BY <1>3, <1>9, <2>1
  <2> QED  BY <2>1, <2>2, <2>3, ConcatFollowed
<1> QED  BY <1>2, <1>8, <1>9

\* The end of a sequence and the element before it.
LEMMA OneEarlier ==
  ASSUME NEW S, NEW es \in Seq(S), NEW i \in 0..Len(es), NEW j \in 1..Len(es), j = i + 1
  PROVE  << es[j] >> \o SubSeq(es, j + 1, Len(es)) = SubSeq(es, i + 1, Len(es))
<1>1. PICK s, t, u : s = << es[j] >> /\ t = SubSeq(es, j + 1, Len(es)) /\ u = SubSeq(es, j, Len(es))
  OBVIOUS
<1>2. Len(es) \in Nat /\ j \in Nat /\ j <= Len(es) /\ 1 <= j
  OBVIOUS
<1>3. s \in Seq(S) /\ Len(s) = 1 /\ s[1] = es[j]
  BY <1>1
<1>4. t \in Seq(S) /\ Len(t) = Len(es) - j /\ \A k \in 1..Len(es) - j : t[k] = es[j + k]
  BY <1>1, <1>2
<1>5. u \in Seq(S) /\ Len(u) = Len(es) - j + 1 /\ \A k \in 1..Len(es) - j + 1 : u[k] = es[j + k - 1]
  BY <1>1, <1>2
<1>6. PICK v : v = s \o t
  OBVIOUS
<1>7. Followed(S, s, t, v)
  BY <1>3, <1>4, <1>6, ConcatFollowed
<1>8. v \in Seq(S) /\ Len(v) = Len(u)
  BY <1>2, <1>3, <1>4, <1>5, <1>7 DEF Followed
<1>9. ASSUME NEW k \in 1..Len(u) PROVE v[k] = u[k]
  <2>1. k \in 1..Len(es) - j + 1
    BY <1>2, <1>5
  <2>2. CASE k = 1
    <3>1. v[k] = s[1]
      BY <1>3, <1>7, <2>2 DEF Followed
    <3>2. u[k] = es[j]
      BY <1>2, <1>5, <2>1, <2>2
    <3> QED  BY <1>3, <3>1, <3>2
  <2>3. CASE k # 1
    <3>1. PICK l : l = k - 1 /\ l \in 1..Len(es) - j /\ k = 1 + l /\ j + l = j + k - 1
      BY <1>2, <2>1, <2>3
    <3>2. v[Len(s) + l] = t[l]
      BY <1>4, <1>7, <3>1 DEF Followed
    <3>3. Len(s) + l = k
      BY <1>3, <3>1
    <3> QED  BY <1>4, <1>5, <2>1, <3>1, <3>2, <3>3
  <2> QED  BY <2>2, <2>3
<1>10. v = u
  BY <1>5, <1>8, <1>9, SeqEqual
<1> QED  BY <1>1, <1>6, <1>10

\* The loop of the worker, over what the master put together.
LEMMA MessageRead ==
  ASSUME NEW es \in Seq(Entries), AllNamed(es), NEW b, Buffers(es, b)
  PROVE  EntriesOf(b[Len(es)]) = es
<1>1. PICK N, buf : N = Len(es) /\ N \in Nat /\ buf = b[N]
  OBVIOUS
<1>2. /\ b[0] = << >> /\ \A i \in 0..N : b[i] \in Seq(Fields)
      /\ \A i \in 0..N, j \in 1..N : j = i + 1 => Followed(Fields, b[i], Serialize(es[j]), b[j])
  BY <1>1, BuffersGrow
<1>3. buf \in Seq(Fields) /\ Len(buf) \in Nat
  BY <1>1, <1>2
<1>4. PICK f : /\ f = [o \in 0..Bytes(buf) |-> ReadAt(buf, f, o)]
               /\ EntriesOf(buf) = f[0]
  BY <1>3, LoopExists DEF EntriesOf, ReadAt
<1>5. PICK ends : ends = Ends(buf)
  OBVIOUS
<1>6. EndAt(buf, ends) /\ Bytes(buf) = ends[Len(buf)] /\ Bytes(buf) \in Nat
  <2>1. EndAt(buf, ends) /\ Bytes(buf) = ends[Len(buf)] /\ Len(buf) \in 0..Len(buf)
    BY <1>3, <1>5, EndsAre DEF Bytes
  <2> QED  BY <2>1 DEF EndAt
<1>7. \A o \in 0..Bytes(buf) : f[o] = ReadAt(buf, f, o)
  BY <1>4
<1> DEFINE Front(q) == q \in Seq(Fields) /\ Len(q) <= Len(buf) /\ \A k \in 1..Len(q) : buf[k] = q[k]
           P(i) == Front(b[i]) /\ f[ends[Len(b[i])]] = SubSeq(es, i + 1, N)
           K == {n \in Nat : n <= N => P(N - n)}
<1>8. 0 \in K
  <2>1. N - 0 = N
    BY <1>1
  <2>2. Front(b[N])
    BY <1>1, <1>3
  <2>3. f[Bytes(buf)] = << >>
    <3>1. Bytes(buf) \in 0..Bytes(buf)
      BY <1>6
    <3> QED  BY <1>7, <3>1 DEF ReadAt
  <2>4. SubSeq(es, N + 1, N) = << >>
    BY <1>1
  <2> QED  BY <1>1, <1>6, <2>1, <2>2, <2>3, <2>4
<1>9. ASSUME NEW n \in K PROVE n + 1 \in K
  <2> SUFFICES ASSUME n + 1 <= N PROVE P(N - (n + 1))
    OBVIOUS
  <2>1. PICK i, j : i = N - (n + 1) /\ j = N - n /\ j = i + 1 /\ i \in 0..N /\ j \in 1..N /\ i + 1 = j
    <3>1. n \in Nat /\ N \in Nat
      BY <1>1
    <3>2. /\ N - n = (N - (n + 1)) + 1 /\ N - (n + 1) \in 0..N /\ N - n \in 1..N
      BY <3>1
    <3> QED  BY <3>2
  <2>2. P(j)
    BY <1>1, <2>1
  <2>3. PICK q, r, t, e : q = b[i] /\ t = b[j] /\ e = es[j] /\ r = Serialize(e)
    OBVIOUS
  <2>4. Followed(Fields, q, r, t)
    BY <1>2, <2>1, <2>3
  <2>5. e \in Entries /\ e.name # 0
    BY <1>1, <2>1, <2>3 DEF AllNamed
  <2>6. Laid(e, r)
    BY <2>3, <2>5, SerializeIs
  <2>7. Len(r) \in Nat /\ 6 <= Len(r)
    <3>1. Len(r) = IF e.link = 0 THEN 6 ELSE 7
      BY <2>6 DEF Laid
    <3> QED  BY <3>1
  <2>8. Front(t) /\ f[ends[Len(t)]] = SubSeq(es, j + 1, N)
    BY <2>2, <2>3
  <2>9. Len(q) \in Nat /\ Len(t) = Len(q) + Len(r) /\ Len(t) <= Len(buf)
    BY <2>4, <2>8 DEF Followed
  <2>10. Front(q)
    <3>1. \A k \in 1..Len(q) : k \in 1..Len(t)
      BY <2>7, <2>9
    <3>2. \A k \in 1..Len(q) : buf[k] = q[k]
      BY <2>4, <2>8, <3>1 DEF Followed
    <3> QED  BY <1>3, <2>4, <2>7, <2>9, <3>2 DEF Followed
  <2>11. \A k \in 1..Len(r) : buf[Len(q) + k] = r[k]
    <3>1. \A k \in 1..Len(r) : Len(q) + k \in 1..Len(t)
      BY <2>7, <2>9
    <3> QED  BY <2>4, <2>8, <3>1 DEF Followed
  <2>12. PICK o : o = ends[Len(q)]
    OBVIOUS
  <2>13. PICK d : d = Deserialize(buf, o)
    OBVIOUS
  <2>14. Len(q) + Len(r) <= Len(buf)
    BY <2>9
  <2>15. /\ o \in Nat /\ d.ent = e /\ d.next = ends[Len(q) + Len(r)]
         /\ d.said = d.next - o /\ o < d.next
    BY <1>3, <1>5, <2>5, <2>6, <2>9, <2>11, <2>12, <2>13, <2>14, TakenApart
  <2>16. d.next = ends[Len(t)] /\ ends[Len(t)] \in Nat /\ ends[Len(t)] <= Bytes(buf)
    <3>1. Len(t) \in 0..Len(buf) /\ Len(buf) \in 0..Len(buf)
      BY <1>3, <2>7, <2>9
    <3>2. ends[Len(t)] \in Nat
      BY <1>6, <3>1 DEF EndAt
    <3>3. Len(t) < Len(buf) => ends[Len(t)] < ends[Len(buf)]
      BY <1>3, <1>6, <3>1, EndsGrow
    <3>4. Len(t) < Len(buf) \/ Len(t) = Len(buf)
      BY <1>3, <3>1
    <3> QED  BY <1>6, <2>9, <2>15, <3>2, <3>3, <3>4
  <2>17. o \in 0..Bytes(buf) /\ o # Bytes(buf)
    BY <1>6, <2>15, <2>16
  <2>18. (IF d.next < Bytes(buf) THEN d.next ELSE Bytes(buf)) = ends[Len(t)]
    BY <1>6, <2>16
  <2>19. ReadAt(buf, f, o) = <<e>> \o f[ends[Len(t)]]
    BY <2>5, <2>13, <2>15, <2>17, <2>18 DEF ReadAt
  <2>20. f[o] = <<e>> \o f[ends[Len(t)]]
    BY <1>7, <2>17, <2>19
  <2>21. <<e>> \o SubSeq(es, j + 1, N) = SubSeq(es, i + 1, N)
    BY <1>1, <2>1, <2>3, OneEarlier
  <2>22. P(i)
    BY <2>3, <2>8, <2>10, <2>12, <2>20, <2>21
  <2> QED  BY <2>1, <2>22
<1>10. K = Nat
  <2>1. K \in SUBSET Nat
    OBVIOUS
  <2> HIDE DEF K
  <2> QED  BY <1>8, <1>9, <2>1, Arith!Counting
<1>11. P(0)
  <2>1. N \in K
    <3> HIDE DEF K
    <3> QED  BY <1>1, <1>10
  <2>2. N <= N /\ N - N = 0
    BY <1>1
  <2> QED  BY <2>1, <2>2
<1>12. f[0] = SubSeq(es, 1, N)
  <2>1. Len(b[0]) = 0 /\ ends[0] = 0
    BY <1>2, <1>6 DEF EndAt
  <2> QED  BY <1>11, <2>1
<1>13. SubSeq(es, 1, N) = es
  BY <1>1
<1> QED  BY <1>1, <1>4, <1>12, <1>13

\* The entries of a worker are among those of the master, which have names.
MineNamed == \A i \in 1..Len(mine) : mine[i].name # 0

LEMMA MineNamedNext ==
  ASSUME TypeOK, MineNamed, [Next]_vars
  PROVE  MineNamed'
<1>1. CASE \E st \in Inputs : List(st)
  <2>1. PICK st \in Inputs : List(st)
    BY <1>1
  <2>2. PICK e : e = NewEntry(st, off)
    OBVIOUS
  <2>3. e.name # 0
    <3>1. st.name \in Nat \ {0}
      BY EntryCopyAssumption DEF Stats
    <3>2. e.name = IF st.kind = "dir" /\ ~ st.slash THEN st.name + 1 ELSE st.name
      BY <2>2 DEF NewEntry
    <3>3. st.name # 0 /\ st.name + 1 # 0
      BY <3>1
    <3> QED  BY <3>2, <3>3
  <2>4. mine' = mine \/ mine' = Append(mine, e)
    BY <2>1, <2>2 DEF List
  <2>5. mine \in Seq(Entries)
    BY DEF TypeOK
  <2>6. CASE mine' = Append(mine, e)
    <3>1. ASSUME NEW i \in 1..Len(mine')
          PROVE  (i \in 1..Len(mine) /\ mine'[i] = mine[i]) \/ mine'[i] = e
      BY <2>5, <2>6
    <3> QED  BY <2>3, <3>1 DEF MineNamed
  <2> QED  BY <2>4, <2>6 DEF MineNamed
<1>2. CASE mine' = mine
  BY <1>2 DEF MineNamed
<1> QED  BY <1>1, <1>2 DEF Next, EndList, Copy, Begin, Read, End, Finish, Fail, Change, vars, listVars

LEMMA MessagesTell ==
  ASSUME TypeOK, MineNamed
  PROVE  MessageTellsEntries
<1>1. PICK es : es = mine
  OBVIOUS
<1>2. es \in Seq(Entries) /\ AllNamed(es)
  BY <1>1 DEF TypeOK, MineNamed, AllNamed
<1>3. Len(es) \in Nat
  BY <1>2
<1>4. PICK b : b = CHOOSE f : Buffers(es, f)
  OBVIOUS
<1>5. Buffers(es, b)
  BY <1>3, <1>4, BuffersExist
<1>6. EntriesOf(b[Len(es)]) = es
  BY <1>2, <1>5, MessageRead
<1>7. b = CHOOSE f : f = [i \in 0..Len(mine) |-> IF i = 0 THEN << >> ELSE f[i - 1] \o Serialize(mine[i])]
  BY <1>1, <1>4 DEF Buffers
<1> QED  BY <1>1, <1>6, <1>7 DEF MessageTellsEntries

\* A worker takes out of the message of a job what the master put there, for any
\* number of entries: it goes through the bytes by the lengths that stand in them,
\* and each entry is as long as it says (mpitar.cpp:242-256 and 412-420;
\* tarentry.cpp:78-118).
THEOREM MessagesAreRead == Spec => []MessageTellsEntries
<1>1. Init => MineNamed
  BY DEF Init, MineNamed
<1>2. TypeOK /\ MineNamed /\ [Next]_vars => MineNamed'
  BY MineNamedNext
<1>3. TypeOK /\ MineNamed => MessageTellsEntries
  BY MessagesTell
<1> QED  BY <1>1, <1>2, <1>3, TypeCorrect, PTL DEF Spec
=============================================================================

-------------------------- MODULE PtgzSystemProofs --------------------------
(* What is proved of compression(), for every number of ranks, files,       *)
(* archives and starts of the program: nothing is removed before it is      *)
(* packed, nothing is left behind, and the tar that is left is complete.    *)
(* And of the extraction that follows it: the two implement Backup, and all *)
(* files are back when it is done.                                          *)
EXTENDS PtgzSystem, PartitionProofs, SequenceTheorems

\* The barriers keep the ranks together in one of these stages.
Preparing == {"lists", "scatter", "index", "turn_end"}
Building  == {"build", "built"}
Packing   == {"list_archives", "close_index", "mpitar", "packing"}
Removing  == {"remove", "done"}
Stages    == {Preparing, Building, Packing, Removing}
InStage(G) == \A r \in Ranks : pc[r] \in G

\* A line may be a name that a kill has cut, or what became of one.
Contents == Files \cup {Torn, Cut}
Names    == 0..T + 2 \cup {Torn, Cut}

TypeInv ==
  /\ pc \in [Ranks -> UNION Stages]
  /\ left \in [Ranks -> SUBSET Int]
  /\ tmp \in [Archives -> Seq(Contents)] /\ gz \in [Archives -> Seq(Contents)]
  /\ ptgzIdx \in Seq(Names)
  /\ tar \in Seq([name : 0..T + 2, files : Seq(Contents)])

OneStage == \E G \in Stages : InStage(G)

\* A file that ends in the middle of a line has a whole one, its first.
FirstWhole(s, first) == EndsCut(s) => first \in ToSet(s)
Begun == FirstWhole(ptgzIdx, 0) /\ \A a \in Archives : FirstWhole(tmp[a], a)

\* A list holds the files of its archive, and an archive that was built holds
\* them unless its tar process failed, whatever an earlier run left of both.
OfList(a, s)     == ToSet(s) \subseteq ListOf(a, NFiles, T) \cup {Torn, Cut}
HasList(a, s)    == ListOf(a, NFiles, T) \subseteq ToSet(s)
Complete(a, s)   == OfList(a, s) /\ (a \notin Fragile => HasList(a, s))
AwaitsLines(a)   == pc[0] = "lists" /\ a \in left[0]
ListsFull == \A a \in Archives :
  OfList(a, tmp[a]) /\ (tmp[a] # << >> => AwaitsLines(a) \/ HasList(a, tmp[a]))
Built     == \A a \in Archives : gz[a] # << >> => Complete(a, gz[a])

\* Before mpitar runs its list has every name, and after it the tar has; while
\* it runs the tar has the first of them.
Named(n)   == \E i \in 1..Len(ptgzIdx) : ptgzIdx[i] = n
Stored(n)  == \E i \in 1..Len(tar) : tar[i].name = n
AllNamed   == pc[0] \in {"mpitar", "packing"} => \A n \in 0..T + 2 : Named(n)
TarSoFar   == pc[0] = "packing" =>
  /\ Len(tar) <= Len(ptgzIdx)
  /\ \A i \in 1..Len(tar) : Exists(ptgzIdx[i]) /\ tar[i] = Member(ptgzIdx[i])
StoredAsBuilt(a) ==
  \E i \in 1..Len(tar) : tar[i].name = a /\ tar[i].files = gz[a] /\ gz[a] # << >>
AllStored ==
  N > 1 /\ InStage(Removing) =>
    /\ \A n \in 0..T + 2 : Stored(n)
    /\ \A i \in 1..Len(tar) : tar[i].name \in Archives => Complete(tar[i].name, tar[i].files)
    /\ \A a \in Archives : tmp[a] # << >> => StoredAsBuilt(a)

\* What a rank has removed of its block.
Gone(a) == tmp[a] = << >> /\ gz[a] = << >>
Removed ==
  /\ \A r \in Ranks : pc[r] = "remove" =>
       left[r] \subseteq Block(r, N, T) /\ \A a \in Block(r, N, T) \ left[r] : Gone(a)
  /\ \A r \in Ranks : pc[r] = "done" => \A a \in Block(r, N, T) : Gone(a)
  /\ pc[0] = "done" => nameIdx = << >> /\ ptgzIdx = << >> /\ ~ script /\ ~ tarIdx

IInv ==
  /\ TypeInv /\ OneStage /\ Begun /\ ListsFull /\ Built /\ AllNamed /\ TarSoFar
  /\ AllStored /\ Removed
-----------------------------------------------------------------------------
LEMMA Numbers ==
  /\ N \in Nat \ {0} /\ NFiles \in Nat \ {0} /\ T \in Nat \ {0} /\ T <= NFiles
  /\ 0 \in Ranks
<1>1. T \in 1..NFiles
  BY RanksAssumption, ArchiveCount DEF T
<1> QED  BY <1>1, RanksAssumption DEF Ranks

\* Root writes on each list all files of its archive, first the one with the
\* number of the archive.
LEMMA LinesOfArchive ==
  ASSUME NEW a \in Archives
  PROVE  /\ ListLines(a) \in Seq(Files) /\ ToSet(ListLines(a)) = ListOf(a, NFiles, T)
         /\ ListLines(a) # << >> /\ ListLines(a)[1] = a
<1>1. PICK q \in Nat : Lists(a, NFiles, T, q)
  BY Numbers, LinesFacts DEF Archives
<1>2. ListLines(a) \in [1..q + 1 -> Files]
  BY <1>1 DEF Lists, ListLines, Files
<1>3. ListLines(a) \in Seq(Files)
  BY <1>2, SeqDef
<1>4. ToSet(ListLines(a)) = ListOf(a, NFiles, T)
  BY DEF ToSet, ListLines, ListOf
<1>5. 1 \in 1..q + 1 /\ ListLines(a)[1] = T * (1 - 1) + a /\ T * (1 - 1) = 0 /\ a \in Int
  BY <1>1, Numbers DEF Lists, ListLines, Archives
<1>6. ListLines(a) # << >>
  BY <1>2, <1>5
<1> QED  BY <1>3, <1>4, <1>5, <1>6

\* The names that root writes on the list for mpitar.
LEMMA IdxLinesFacts ==
  /\ IdxLines \in Seq(0..T + 2) /\ Len(IdxLines) = T + 3
  /\ 0..T + 2 \subseteq ToSet(IdxLines)
  /\ IdxLines # << >> /\ IdxLines[1] = 0
<1>1. T \in Nat /\ T # 0
  BY Numbers
<1>2. PICK f : f = [i \in 1..T |-> i - 1]
  OBVIOUS
<1>3. PICK t : t = <<PtgzIdx, Script, NameIdx>>
  OBVIOUS
<1>4. PICK u : u = f \o t
  OBVIOUS
<1>5. f \in [1..T -> 0..T + 2] /\ f \in Seq(0..T + 2) /\ Len(f) = T
  <2>1. f \in [1..T -> 0..T + 2]
    BY <1>1, <1>2
  <2>2. f \in Seq(0..T + 2)
    BY <1>1, <2>1, SeqDef
  <2>3. DOMAIN f = 1..T /\ DOMAIN f = 1..Len(f) /\ Len(f) \in Nat
    BY <2>1, <2>2, LenProperties
  <2> QED  BY <1>1, <2>1, <2>2, <2>3
<1>6. t \in Seq(0..T + 2) /\ Len(t) = 3 /\ t[1] = T /\ t[2] = T + 1 /\ t[3] = T + 2
  <2>1. T \in 0..T + 2 /\ T + 1 \in 0..T + 2 /\ T + 2 \in 0..T + 2
    BY <1>1
  <2> QED  BY <1>3, <2>1 DEF PtgzIdx, Script, NameIdx
<1>7. /\ u \in Seq(0..T + 2) /\ Len(u) = T + 3
      /\ \A i \in 1..T + 3 : u[i] = IF i <= T THEN f[i] ELSE t[i - T]
  <2>1. /\ f \o t \in Seq(0..T + 2) /\ Len(f \o t) = Len(f) + Len(t)
        /\ \A i \in 1..Len(f) + Len(t) : (f \o t)[i] = IF i <= Len(f) THEN f[i] ELSE t[i - Len(f)]
    BY <1>5, <1>6, ConcatProperties
  <2> QED  BY <1>1, <1>4, <1>5, <1>6, <2>1
<1>8. DOMAIN u = 1..T + 3
  BY <1>7, LenProperties
<1>9. ASSUME NEW n \in 0..T + 2 PROVE n \in ToSet(u)
  <2>1. n + 1 \in 1..T + 3 /\ (n < T => n + 1 \in 1..T)
    BY <1>1
  <2>2. u[n + 1] = n
    <3>1. CASE n < T
      <4>1. n + 1 \in 1..T /\ n + 1 <= T /\ (n + 1) - 1 = n
        BY <1>1, <3>1
      <4>2. f[n + 1] = (n + 1) - 1
        BY <1>2, <4>1
      <4> QED  BY <1>7, <2>1, <4>1, <4>2
    <3>2. CASE ~ (n < T)
      <4>0. PICK i \in 1..T + 3 : i = n + 1
        BY <2>1
      <4>1. ~ (i <= T) /\ i - T \in {1, 2, 3}
        BY <1>1, <3>2, <4>0
      <4>2. u[i] = t[i - T]
        BY <1>7, <4>1
      <4>3. CASE i - T = 1
        BY <1>1, <1>6, <4>0, <4>2, <4>3
      <4>4. CASE i - T = 2
        BY <1>1, <1>6, <4>0, <4>2, <4>4
      <4>5. CASE i - T = 3
        BY <1>1, <1>6, <4>0, <4>2, <4>5
      <4> QED  BY <4>1, <4>3, <4>4, <4>5
    <3> QED  BY <3>1, <3>2
  <2> QED  BY <1>8, <2>1, <2>2 DEF ToSet
<1>10. u # << >> /\ u[1] = 0
  <2>1. 1 \in 1..T + 3 /\ 1 <= T /\ 1 \in 1..T
    BY <1>1
  <2>2. u[1] = f[1] /\ f[1] = 0
    BY <1>2, <1>7, <2>1
  <2>3. u # << >>
    BY <1>1, <1>7
  <2> QED  BY <2>2, <2>3
<1> QED  BY <1>2, <1>3, <1>4, <1>7, <1>9, <1>10 DEF IdxLines
LEMMA ElementsOf ==
  ASSUME NEW S, NEW s \in Seq(S), NEW t \in Seq(S)
  PROVE  /\ ToSet(s \o t) = ToSet(s) \cup ToSet(t)
         /\ s \o t \in Seq(S)
         /\ s # << >> => s \o t # << >>
<1>1. /\ s \o t \in Seq(S) /\ Len(s \o t) = Len(s) + Len(t)
      /\ \A i \in 1..Len(s) + Len(t) : (s \o t)[i] = IF i <= Len(s) THEN s[i] ELSE t[i - Len(s)]
  BY ConcatProperties
<1>2. /\ Len(s) \in Nat /\ DOMAIN s = 1..Len(s) /\ Len(t) \in Nat /\ DOMAIN t = 1..Len(t)
      /\ DOMAIN (s \o t) = 1..Len(s \o t)
  BY <1>1, LenProperties
<1>3. ToSet(s \o t) \subseteq ToSet(s) \cup ToSet(t)
  BY <1>1, <1>2 DEF ToSet
<1>4. ToSet(s) \subseteq ToSet(s \o t)
  BY <1>1, <1>2 DEF ToSet
<1>5. ToSet(t) \subseteq ToSet(s \o t)
  <2> SUFFICES ASSUME NEW i \in 1..Len(t) PROVE t[i] \in ToSet(s \o t)
    BY <1>2 DEF ToSet
  <2>1. Len(s) + i \in 1..Len(s \o t) /\ (s \o t)[Len(s) + i] = t[i]
    BY <1>1, <1>2
  <2> QED  BY <1>2, <2>1 DEF ToSet
<1>6. s # << >> => s \o t # << >>
  BY ConcatEqualIffEmpty, ConcatEmptySeq, EmptySeq, <1>1, <1>2
<1> QED  BY <1>1, <1>3, <1>4, <1>5, <1>6

\* The lines t of one start behind s, those of earlier ones: all of them come
\* in, and of the old ones only a cut one changes.
Behind(S, s, t, joined, u) ==
  /\ u \in Seq(S)
  /\ ToSet(u) \subseteq ToSet(s) \cup ToSet(t) \cup {joined}
  /\ ToSet(s) \ {Cut} \subseteq ToSet(u)
  /\ t # << >> => ToSet(t) \ {t[1]} \subseteq ToSet(u)
  /\ ~ EndsCut(s) => ToSet(t) \subseteq ToSet(u)
  /\ t # << >> => u # << >> /\ u[Len(u)] \in {joined, t[Len(t)]}
  /\ t = << >> => u = s
  /\ Len(u) \in Nat /\ Len(u) <= Len(s) + Len(t)
  /\ Len(t) <= Len(u)

LEMMA AppendedLines ==
  ASSUME NEW S, NEW s \in Seq(S), NEW t \in Seq(S), NEW joined \in S, Cut \in S,
         NEW u, u = Appended(s, t, joined)
  PROVE  Behind(S, s, t, joined, u)
<1>1. /\ Len(s) \in Nat /\ DOMAIN s = 1..Len(s) /\ Len(t) \in Nat /\ DOMAIN t = 1..Len(t)
      /\ (t # << >> => Len(t) # 0) /\ (s # << >> => Len(s) # 0)
  BY LenProperties, EmptySeq
<1>2. CASE ~ (EndsCut(s) /\ t # << >>)
  <2>1. u = s \o t
    BY <1>2 DEF Appended
  <2>2. /\ u \in Seq(S) /\ Len(u) = Len(s) + Len(t)
        /\ \A i \in 1..Len(s) + Len(t) : u[i] = IF i <= Len(s) THEN s[i] ELSE t[i - Len(s)]
    BY <2>1, ConcatProperties
  <2>3. ToSet(u) = ToSet(s) \cup ToSet(t)
    BY <2>1, ElementsOf
  <2>4. t # << >> => u # << >> /\ u[Len(u)] = t[Len(t)]
    <3> SUFFICES ASSUME t # << >> PROVE u # << >> /\ u[Len(u)] = t[Len(t)]
      OBVIOUS
    <3>1. Len(u) \in 1..Len(s) + Len(t) /\ ~ (Len(u) <= Len(s)) /\ Len(u) - Len(s) = Len(t) /\ Len(u) # 0
      BY <1>1, <2>2
    <3>2. u # << >>
      BY <3>1
    <3> QED  BY <2>2, <3>1, <3>2
  <2>5. t = << >> => u = s
    BY <2>1, ConcatEmptySeq
  <2> QED  BY <1>1, <2>2, <2>3, <2>4, <2>5 DEF Behind
<1>3. CASE EndsCut(s) /\ t # << >>
  <2>1. PICK v : v = [s EXCEPT ![Len(s)] = joined]
    OBVIOUS
  <2>2. PICK w : w = Tail(t)
    OBVIOUS
  <2>3. u = v \o w
    BY <1>3, <2>1, <2>2 DEF Appended
  <2>4. /\ Len(s) \in 1..Len(s) /\ s[Len(s)] = Cut /\ Len(t) \in 1..Len(t)
    BY <1>1, <1>3 DEF EndsCut
  <2>5. /\ v \in Seq(S) /\ Len(v) = Len(s) /\ v[Len(s)] = joined
        /\ \A i \in 1..Len(s) : i # Len(s) => v[i] = s[i]
    <3>1. v \in [1..Len(s) -> S]
      BY <1>1, <2>1, LenProperties
    <3>2. v \in Seq(S)
      BY <1>1, <3>1, SeqDef
    <3>3. Len(v) = Len(s)
      BY <1>1, <3>1, <3>2, LenProperties
    <3> QED  BY <1>1, <2>1, <2>4, <3>2, <3>3
  <2>6. /\ w \in Seq(S) /\ Len(w) = Len(t) - 1 /\ \A i \in 1..Len(t) - 1 : w[i] = t[i + 1]
    BY <1>3, <2>2, HeadTailProperties
  <2>7. /\ u \in Seq(S) /\ Len(u) = Len(s) + Len(t) - 1 /\ ToSet(u) = ToSet(v) \cup ToSet(w)
    <3>1. u \in Seq(S) /\ Len(u) = Len(v) + Len(w)
      BY <2>3, <2>5, <2>6, ConcatProperties
    <3>2. ToSet(u) = ToSet(v) \cup ToSet(w)
      BY <2>3, <2>5, <2>6, ElementsOf
    <3> QED  BY <1>1, <2>5, <2>6, <3>1, <3>2
  <2>8. DOMAIN v = 1..Len(s) /\ DOMAIN w = 1..Len(t) - 1
    BY <2>5, <2>6, LenProperties
  <2>9. ToSet(v) \subseteq ToSet(s) \cup {joined} /\ ToSet(s) \ {Cut} \subseteq ToSet(v)
    BY <1>1, <2>4, <2>5, <2>8 DEF ToSet
  <2>10. ToSet(w) \subseteq ToSet(t)
    <3>1. \A i \in 1..Len(t) - 1 : i + 1 \in 1..Len(t)
      BY <1>1
    <3> QED  BY <1>1, <2>6, <2>8, <3>1 DEF ToSet
  <2>11. ToSet(t) \ {t[1]} \subseteq ToSet(w)
    <3> SUFFICES ASSUME NEW i \in 1..Len(t), i # 1 PROVE t[i] \in ToSet(w)
      BY <1>1 DEF ToSet
    <3>1. i - 1 \in 1..Len(t) - 1 /\ w[i - 1] = t[i]
      BY <1>1, <2>6
    <3> QED  BY <2>8, <3>1 DEF ToSet
  <2>12. u # << >> /\ u[Len(u)] \in {joined, t[Len(t)]}
    <3>1. \A i \in 1..Len(s) + (Len(t) - 1) : u[i] = IF i <= Len(s) THEN v[i] ELSE w[i - Len(s)]
      BY <2>3, <2>5, <2>6, ConcatProperties
    <3>2. Len(u) \in 1..Len(s) + (Len(t) - 1)
      BY <1>1, <2>4, <2>7
    <3>3. CASE Len(t) = 1
      <4>1. u[Len(u)] = v[Len(s)]
        BY <1>1, <2>7, <3>1, <3>2, <3>3
      <4> QED  BY <2>4, <2>5, <2>7, <3>2, <4>1
    <3>4. CASE Len(t) # 1
      <4>1. ~ (Len(u) <= Len(s)) /\ Len(u) - Len(s) = Len(t) - 1 /\ Len(t) - 1 \in 1..Len(t) - 1
        BY <1>1, <2>4, <2>7, <3>4
      <4>2. u[Len(u)] = w[Len(t) - 1] /\ w[Len(t) - 1] = t[(Len(t) - 1) + 1]
        BY <2>6, <3>1, <3>2, <4>1
      <4>3. (Len(t) - 1) + 1 = Len(t)
        BY <1>1
      <4> QED  BY <3>2, <4>2, <4>3
    <3> QED  BY <3>3, <3>4
  <2> QED  BY <1>1, <1>3, <2>4, <2>7, <2>9, <2>10, <2>11, <2>12 DEF Behind
<1> QED  BY <1>2, <1>3

\* What a kill leaves of the lines of one start.
Begins(S, t, p) ==
  /\ p \in Seq(S) /\ Len(p) <= Len(t)
  /\ ToSet(p) \subseteq ToSet(t) \cup {Cut}
  /\ p # << >> => p[1] = t[1]

LEMMA PartialLines ==
  ASSUME NEW S, NEW t \in Seq(S), Cut \in S, NEW p \in Partial(t)
  PROVE  Begins(S, t, p)
<1>1. Len(t) \in Nat /\ DOMAIN t = 1..Len(t)
  BY LenProperties
<1>2. PICK k \in 0..Len(t) : \/ p = SubSeq(t, 1, k)
                             \/ k >= 2 /\ p = [SubSeq(t, 1, k) EXCEPT ![k] = Cut]
  <2>1. PICK k \in Nat : \/ k \in 0..Len(t) /\ p = SubSeq(t, 1, k)
                         \/ k \in 2..Len(t) /\ p = [SubSeq(t, 1, k) EXCEPT ![k] = Cut]
    <3>1. CASE p \in {SubSeq(t, 1, k) : k \in 0..Len(t)}
      BY <1>1, <3>1
    <3>2. CASE p \in {[SubSeq(t, 1, k) EXCEPT ![k] = Cut] : k \in 2..Len(t)}
      BY <1>1, <3>2
    <3> QED  BY <3>1, <3>2 DEF Partial
  <2> QED  BY <1>1, <2>1
<1>3. PICK s : s = SubSeq(t, 1, k)
  OBVIOUS
<1>4. /\ s \in Seq(S) /\ Len(s) = k /\ k \in Nat /\ \A i \in 1..k : i \in 1..Len(t) /\ s[i] = t[i]
  BY <1>1, <1>3
<1>5. DOMAIN s = 1..k /\ s \in [1..k -> S]
  BY <1>4, LenProperties
<1>6. CASE p = s
  <2>1. ToSet(p) \subseteq ToSet(t)
    BY <1>1, <1>4, <1>5, <1>6 DEF ToSet
  <2>2. p # << >> => 1 \in 1..k
    BY <1>4, <1>6, EmptySeq
  <2> QED  BY <1>1, <1>4, <1>6, <2>1, <2>2 DEF Begins
<1>7. CASE k >= 2 /\ p = [s EXCEPT ![k] = Cut]
  <2>1. p \in [1..k -> S] /\ k \in 1..k /\ p[k] = Cut /\ \A i \in 1..k : i # k => p[i] = t[i]
    BY <1>4, <1>5, <1>7
  <2>2. p \in Seq(S)
    BY <1>4, <2>1, SeqDef
  <2>3. Len(p) = k /\ DOMAIN p = 1..k
    BY <1>4, <2>1, <2>2, LenProperties
  <2>4. ToSet(p) \subseteq ToSet(t) \cup {Cut}
    BY <1>1, <1>4, <2>1, <2>3 DEF ToSet
  <2>5. 1 \in 1..k /\ 1 # k
    BY <1>4, <1>7
  <2> QED  BY <1>1, <1>4, <2>1, <2>2, <2>3, <2>4, <2>5 DEF Begins
<1> QED  BY <1>2, <1>3, <1>6, <1>7

\* A start that writes its lines, or is killed before that is done, leaves all
\* of them, or a file with its first line.
LEMMA AppendedWhole ==
  ASSUME NEW S, NEW s \in Seq(S), NEW t \in Seq(S), NEW joined \in S, Cut \in S,
         t # << >>, FirstWhole(s, t[1]), joined # Cut, Cut \notin ToSet(t), t[1] # Cut,
         NEW u, u = Appended(s, t, joined)
  PROVE  ToSet(t) \subseteq ToSet(u) /\ ~ EndsCut(u) /\ u # << >>
<1>0. Behind(S, s, t, joined, u)
  BY AppendedLines
<1>1. Len(t) \in 1..Len(t) /\ DOMAIN t = 1..Len(t)
  BY LenProperties, EmptySeq
<1>2. t[Len(t)] # Cut
  BY <1>1 DEF ToSet
<1>3. u # << >> /\ ~ EndsCut(u)
  BY <1>0, <1>2 DEF Behind, EndsCut
<1>4. ToSet(t) \subseteq ToSet(u)
  BY <1>0 DEF Behind, FirstWhole
<1> QED  BY <1>3, <1>4

LEMMA AppendedPart ==
  ASSUME NEW S, NEW s \in Seq(S), NEW t \in Seq(S), NEW joined \in S, Cut \in S,
         t # << >>, FirstWhole(s, t[1]), joined # Cut, Cut \notin ToSet(t), t[1] # Cut,
         NEW p \in Partial(t), NEW u, u = Appended(s, p, joined)
  PROVE  /\ u \in Seq(S) /\ FirstWhole(u, t[1])
         /\ ToSet(u) \subseteq ToSet(s) \cup ToSet(t) \cup {Cut, joined}
         /\ Len(u) <= Len(s) + Len(t)
<1>0. Begins(S, t, p)
  BY PartialLines
<1>1. Behind(S, s, p, joined, u)
  BY <1>0, AppendedLines DEF Begins
<1>2. Len(s) \in Nat /\ Len(t) \in Nat /\ Len(p) \in Nat
  BY <1>0, LenProperties DEF Begins
<1>3. FirstWhole(u, t[1])
  <2>1. CASE p = << >>
    BY <1>1, <2>1 DEF Behind
  <2>2. CASE p # << >>
    <3>1. Len(p) \in 1..Len(p) /\ DOMAIN p = 1..Len(p)
      BY <1>0, <2>2, LenProperties, EmptySeq DEF Begins
    <3>2. 1 \in 1..Len(p) /\ t[1] \in ToSet(p)
      BY <1>0, <2>2, <3>1 DEF ToSet, Begins
    <3> QED  BY <1>1, <3>2 DEF Behind, FirstWhole
  <2> QED  BY <2>1, <2>2
<1>4. ToSet(u) \subseteq ToSet(s) \cup ToSet(t) \cup {Cut, joined}
  BY <1>0, <1>1 DEF Behind, Begins
<1> QED  BY <1>0, <1>1, <1>2, <1>3, <1>4 DEF Behind, Begins

LEMMA InitInv == Init => IInv
<1> SUFFICES ASSUME Init PROVE IInv
  OBVIOUS
<1>1. InStage(Preparing) /\ pc[0] = "lists"
  BY Numbers DEF Init, StartPC, InStage, Preparing
<1>2. TypeInv
  <2>1. pc \in [Ranks -> UNION Stages]
    BY DEF Init, StartPC, Stages, Preparing
  <2>2. left \in [Ranks -> SUBSET Int]
    BY DEF Init, Archives
  <2> QED  BY <2>1, <2>2 DEF Init, TypeInv
<1>3. OneStage
  BY <1>1 DEF OneStage, Stages
<1>4. Begun /\ ListsFull /\ Built
  BY DEF Init, Begun, FirstWhole, EndsCut, ListsFull, OfList, ToSet, Built
<1>5. AllNamed /\ TarSoFar /\ AllStored /\ Removed
  BY <1>1, Numbers DEF AllNamed, TarSoFar, AllStored, Removed, InStage, Preparing, Removing
<1> QED  BY <1>2, <1>3, <1>4, <1>5 DEF IInv

\* Before anything is removed, only the lists and the archives matter; and
\* before mpitar is called nothing of its list and of the tar.
LEMMA Elsewhere ==
  ASSUME NEW G \in {Preparing, Building, Packing}, InStage(G)'
  PROVE  /\ OneStage' /\ AllStored' /\ Removed'
         /\ pc'[0] \notin {"mpitar", "packing"} => AllNamed' /\ TarSoFar'
         /\ G # Packing => AllNamed' /\ TarSoFar'
<1>1. OneStage'
  BY DEF OneStage, Stages
<1>2. \A r \in Ranks : pc'[r] \notin Removing
  BY DEF InStage, Preparing, Building, Packing, Removing
<1>3. pc'[0] \notin {"mpitar", "packing"} => AllNamed' /\ TarSoFar'
  BY DEF AllNamed, TarSoFar
<1>4. G # Packing => pc'[0] \notin {"mpitar", "packing"}
  BY Numbers DEF InStage, Preparing, Building
<1> QED  BY <1>1, <1>2, <1>3, <1>4, Numbers DEF AllStored, Removed, InStage, Removing

\* A rank that is in a stage has all the others with it.
LEMMA SameStage ==
  ASSUME OneStage, NEW G \in Stages, NEW r \in Ranks, pc[r] \in G
  PROVE  InStage(G)
BY DEF OneStage, Stages, InStage, Preparing, Building, Packing, Removing

\* A rank that moves within its stage.
LEMMA StaysInStage ==
  ASSUME TypeInv, OneStage, NEW G \in Stages, NEW r \in Ranks, pc[r] \in G,
         NEW there \in G, pc' = [pc EXCEPT ![r] = there]
  PROVE  InStage(G)' /\ pc' \in [Ranks -> UNION Stages]
<1>1. InStage(G)
  BY SameStage
<1>2. InStage(G)'
  BY <1>1 DEF InStage, TypeInv
<1>3. there \in UNION Stages
  OBVIOUS
<1> QED  BY <1>2, <1>3 DEF TypeInv

\* The steps that write no file that matters.
LEMMA FilesKept ==
  ASSUME IInv, UNCHANGED <<tmp, gz, ptgzIdx>>,
         \A a \in Archives : AwaitsLines(a) => AwaitsLines(a)'
  PROVE  Begun' /\ ListsFull' /\ Built'
<1>1. Begun' /\ Built'
  BY DEF IInv, Begun, FirstWhole, EndsCut, Built, Complete, OfList, HasList
<1>2. ListsFull'
  BY DEF IInv, ListsFull, OfList, HasList
<1> QED  BY <1>1, <1>2

LEMMA WriteListInv ==
  ASSUME IInv, NEW a \in Archives, WriteList(a)
  PROVE  IInv'
<1>1. /\ tmp' = [tmp EXCEPT ![a] = Appended(@, ListLines(a), Torn)]
      /\ tmp \in [Archives -> Seq(Contents)] /\ left \in [Ranks -> SUBSET Int]
      /\ UNCHANGED <<pc, gz, ptgzIdx, tar>> /\ left' = [left EXCEPT ![0] = @ \ {a}]
      /\ pc[0] = "lists"
  BY DEF WriteList, IInv, TypeInv, tempVars, packVars
<1>2. PICK t \in Seq(Files) : t = ListLines(a) /\ ToSet(t) = ListOf(a, NFiles, T) /\ t # << >> /\ t[1] = a
  BY LinesOfArchive
<1>3. tmp'[a] = Appended(tmp[a], t, Torn) /\ \A b \in Archives : b # a => tmp'[b] = tmp[b]
  BY <1>1, <1>2
<1>4. /\ tmp[a] \in Seq(Contents) /\ t \in Seq(Contents) /\ Torn \in Contents /\ Cut \in Contents
      /\ Torn # Cut /\ Cut \notin ToSet(t) /\ a # Cut
  <2>1. \A S, R, s : s \in Seq(S) /\ S \subseteq R => s \in Seq(R)
    OBVIOUS
  <2>2. Cut \notin Files /\ Torn # Cut /\ Cut \notin Archives
    BY DEF Cut, Torn, Files, Archives
  <2>3. ToSet(t) \subseteq Files
    BY <1>2, LenProperties DEF ToSet
  <2> QED  BY <1>1, <1>2, <2>1, <2>2, <2>3 DEF Contents
<1>5. Behind(Contents, tmp[a], t, Torn, tmp'[a])
  BY <1>3, <1>4, AppendedLines
<1>6. ToSet(t) \subseteq ToSet(tmp'[a]) /\ ~ EndsCut(tmp'[a])
  <2>1. FirstWhole(tmp[a], t[1])
    BY <1>2 DEF IInv, Begun
  <2> QED  BY <1>2, <1>3, <1>4, <2>1, AppendedWhole
<1>7. TypeInv'
  BY <1>1, <1>3, <1>5 DEF IInv, TypeInv, WriteList, Behind
<1>8. OfList(a, tmp'[a]) /\ HasList(a, tmp'[a])
  <2>1. ToSet(tmp'[a]) \subseteq ToSet(tmp[a]) \cup ToSet(t) \cup {Torn}
    BY <1>5 DEF Behind
  <2> QED  BY <1>2, <1>6, <2>1 DEF IInv, ListsFull, OfList, HasList
<1>9. ListsFull'
  <2>1. \A b \in Archives : b # a => (AwaitsLines(b) => AwaitsLines(b)')
    BY <1>1, Numbers DEF AwaitsLines
  <2> QED  BY <1>3, <1>8, <2>1 DEF IInv, ListsFull, OfList, HasList
<1>10. Begun' /\ Built'
  <2>1. \A b \in Archives : FirstWhole(tmp'[b], b)
    BY <1>3, <1>6 DEF IInv, Begun, FirstWhole
  <2> QED  BY <1>1, <2>1 DEF IInv, Begun, FirstWhole, EndsCut, Built, Complete, OfList, HasList
<1>11. InStage(Preparing)'
  <2>1. InStage(Preparing)
    BY <1>1, SameStage, Numbers DEF IInv, Stages, Preparing
  <2> QED  BY <1>1, <2>1 DEF InStage
<1>12. Preparing # Packing
  BY DEF Preparing, Packing
<1> QED  BY <1>7, <1>9, <1>10, <1>11, <1>12, Elsewhere DEF IInv

\* The steps of a rank that touch no list and no archive.
LEMMA QuietInv ==
  ASSUME IInv, NEW r \in Ranks, Scatter(r) \/ WriteIndex(r) \/ EndBuild(r)
  PROVE  IInv'
<1>1. UNCHANGED <<left, tmp, gz, ptgzIdx, tar>>
  BY DEF Scatter, WriteIndex, EndBuild, tempVars, packVars
<1>2. PICK G \in {Preparing, Building} :
        pc[r] \in G /\ \E there \in G : pc' = [pc EXCEPT ![r] = there]
  <2>1. CASE Scatter(r)
    BY <2>1 DEF Scatter, EnterTurns, Preparing
  <2>2. CASE WriteIndex(r)
    BY <2>2 DEF WriteIndex, Preparing
  <2>3. CASE EndBuild(r)
    BY <2>3 DEF EndBuild, Building
  <2> QED  BY <2>1, <2>2, <2>3
<1>3. InStage(G)' /\ pc' \in [Ranks -> UNION Stages] /\ pc \in [Ranks -> UNION Stages]
  BY <1>2, StaysInStage DEF IInv, Stages, TypeInv
<1>4. TypeInv'
  BY <1>1, <1>3 DEF IInv, TypeInv
<1>5. ASSUME NEW a \in Archives, AwaitsLines(a) PROVE AwaitsLines(a)'
  <2>1. pc[0] = "lists" /\ a \in left[0]
    BY <1>5 DEF AwaitsLines
  <2>2. r # 0
    BY <2>1 DEF Scatter, WriteIndex, EndBuild
  <2>3. pc'[0] = pc[0]
    BY <1>2, <1>3, <2>2, Numbers
  <2> QED  BY <1>1, <2>1, <2>3 DEF AwaitsLines
<1>6. G # Packing
  BY DEF Preparing, Building, Packing
<1> QED  BY <1>1, <1>3, <1>4, <1>5, <1>6, FilesKept, Elsewhere DEF IInv

\* The barriers before the packing.
LEMMA BarrierInv ==
  ASSUME IInv, EndTurn \/ AllBuilt
  PROVE  IInv'
<1>1. UNCHANGED <<tmp, gz, ptgzIdx, tar>>
  BY DEF EndTurn, AllBuilt, tempVars, packVars
<1>2. pc \in [Ranks -> UNION Stages]
  BY DEF IInv, TypeInv
<1>3. \E G \in {Preparing, Building, Packing} :
        InStage(G)' /\ pc' \in [Ranks -> UNION Stages] /\ pc'[0] \notin {"mpitar", "packing"}
  <2>1. CASE EndTurn
    <3>1. CASE turn + 1 < N
      <4>1. InStage(Preparing)'
        BY <1>2, <2>1, <3>1 DEF EndTurn, InStage, Preparing
      <4>2. pc' \in [Ranks -> UNION Stages]
        BY <1>2, <2>1, <3>1 DEF EndTurn, Stages, Preparing
      <4> QED  BY <4>1, <4>2, Numbers DEF InStage, Preparing
    <3>2. CASE ~ (turn + 1 < N)
      <4>1. pc' = [r \in Ranks |-> "build"]
        BY <2>1, <3>2 DEF EndTurn
      <4> QED  BY <4>1, Numbers DEF InStage, Stages, Building
    <3> QED  BY <3>1, <3>2
  <2>2. CASE AllBuilt
    <3>1. pc' = [r \in Ranks |-> IF r = 0 THEN "list_archives" ELSE "mpitar"]
      BY <2>2 DEF AllBuilt
    <3> QED  BY <3>1, Numbers DEF InStage, Stages, Packing
  <2> QED  BY <2>1, <2>2
<1>4. left' \in [Ranks -> SUBSET Int]
  <2>1. \A r \in Ranks : ToBuild(r) \in SUBSET Int
    BY DEF ToBuild
  <2>2. CASE EndTurn
    BY <2>1, <2>2 DEF EndTurn, IInv, TypeInv
  <2>3. CASE AllBuilt
    BY <2>3 DEF AllBuilt, IInv, TypeInv
  <2> QED  BY <2>2, <2>3
<1>5. TypeInv'
  BY <1>1, <1>3, <1>4 DEF IInv, TypeInv
<1>6. \A a \in Archives : ~ AwaitsLines(a)
  BY Numbers DEF AwaitsLines, EndTurn, AllBuilt
<1> QED  BY <1>1, <1>3, <1>5, <1>6, FilesKept, Elsewhere DEF IInv

LEMMA BuildInv ==
  ASSUME IInv, NEW r \in Ranks, NEW a \in left[r], Build(r, a)
  PROVE  IInv'
<1>1. /\ UNCHANGED <<pc, tmp, ptgzIdx, tar>> /\ left' = [left EXCEPT ![r] = @ \ {a}]
      /\ gz \in [Archives -> Seq(Contents)] /\ tmp \in [Archives -> Seq(Contents)]
  BY DEF Build, tempVars, packVars, IInv, TypeInv
<1>2. InStage(Building)
  BY SameStage DEF IInv, Stages, Build, Building
<1>3. pc[0] # "lists"
  BY <1>2, Numbers DEF InStage, Building
<1>4. \/ UNCHANGED gz
      \/ a \in Archives /\ \E s \in Seq(Contents) : /\ gz' = [gz EXCEPT ![a] = s]
                                                    /\ s # << >> => Complete(a, s)
  <2>1. CASE a \in Archives /\ gz' = [gz EXCEPT ![a] = tmp[a]]
    <3>1. tmp[a] \in Seq(Contents)
      BY <1>1, <2>1
    <3>2. tmp[a] # << >> => Complete(a, tmp[a])
      BY <1>3, <2>1 DEF IInv, ListsFull, Complete, AwaitsLines
    <3> QED  BY <2>1, <3>1, <3>2
  <2>2. ASSUME a \in Fragile, NEW short \in Short(a), gz' = [gz EXCEPT ![a] = short]
        PROVE  a \in Archives /\ short \in Seq(Contents) /\ Complete(a, short)
    <3>1. a \in Archives /\ tmp[a] \in Seq(Contents)
      BY <1>1, <2>2, RunsAssumption
    <3>2. OfList(a, tmp[a])
      BY <3>1 DEF IInv, ListsFull
    <3>3. CASE short = <<Torn>>
      BY <2>2, <3>1, <3>3 DEF Contents, Complete, OfList, ToSet
    <3>4. ASSUME NEW k \in 0..Len(tmp[a]), short = SubSeq(tmp[a], 1, k)
          PROVE  short \in Seq(Contents) /\ OfList(a, short)
      <4>1. /\ short \in Seq(Contents) /\ Len(short) = k /\ k \in Nat
            /\ \A i \in 1..k : i \in 1..Len(tmp[a]) /\ short[i] = tmp[a][i]
        BY <3>1, <3>4
      <4>2. ToSet(short) \subseteq ToSet(tmp[a])
        BY <3>1, <4>1 DEF ToSet
      <4> QED  BY <3>2, <4>1, <4>2 DEF OfList
    <3> QED  BY <2>2, <3>1, <3>3, <3>4 DEF Short, Complete
  <2>3. CASE UNCHANGED gz
    BY <2>3
  <2>4. \/ UNCHANGED gz
        \/ a \in Archives /\ \E s \in Outcomes(a) : gz' = [gz EXCEPT ![a] = s]
    BY DEF Build
  <2>5. \A s \in Outcomes(a) : s = tmp[a] \/ (a \in Fragile /\ s \in Short(a))
    BY DEF Outcomes
  <2> QED  BY <2>1, <2>2, <2>3, <2>4, <2>5
<1>5. gz' \in [Archives -> Seq(Contents)] /\ Built'
  BY <1>1, <1>4 DEF IInv, Built, Complete, OfList, HasList
<1>6. TypeInv'
  BY <1>1, <1>5 DEF IInv, TypeInv
<1>7. ListsFull' /\ Begun'
  <2>1. \A b \in Archives : ~ AwaitsLines(b)
    BY <1>3 DEF AwaitsLines
  <2> QED  BY <1>1, <2>1 DEF IInv, ListsFull, OfList, HasList, Begun, FirstWhole, EndsCut
<1>8. InStage(Building)'
  BY <1>1, <1>2 DEF InStage
<1>9. Building # Packing
  BY DEF Building, Packing
<1> QED  BY <1>5, <1>6, <1>7, <1>8, <1>9, Elsewhere DEF IInv

\* A step of root on the way to the call of mpitar.
LEMMA RootMoves ==
  ASSUME IInv, NEW there \in Packing, pc[0] \in Packing, pc' = [pc EXCEPT ![0] = there]
  PROVE  /\ InStage(Packing)' /\ pc' \in [Ranks -> UNION Stages] /\ pc'[0] = there
         /\ \A a \in Archives : ~ AwaitsLines(a)
<1>1. InStage(Packing)' /\ pc' \in [Ranks -> UNION Stages] /\ pc \in [Ranks -> UNION Stages]
  BY Numbers, StaysInStage DEF IInv, Stages, TypeInv
<1> QED  BY <1>1, Numbers DEF AwaitsLines, Packing

LEMMA MakeScriptInv ==
  ASSUME IInv, MakeScript
  PROVE  IInv'
<1>1. UNCHANGED <<left, tmp, gz, ptgzIdx, tar>> /\ pc' = [pc EXCEPT ![0] = "close_index"]
  BY DEF MakeScript, packVars
<1>2. /\ InStage(Packing)' /\ pc' \in [Ranks -> UNION Stages] /\ pc'[0] = "close_index"
      /\ \A a \in Archives : ~ AwaitsLines(a)
  BY <1>1, RootMoves DEF MakeScript, Packing
<1>3. TypeInv'
  BY <1>1, <1>2 DEF IInv, TypeInv
<1> QED  BY <1>1, <1>2, <1>3, FilesKept, Elsewhere DEF IInv

\* Whatever earlier runs left in it, the list for mpitar has every name.
LEMMA NamesListed ==
  ASSUME IInv, NEW n \in JoinedArchives
  PROVE  /\ Behind(Names, ptgzIdx, IdxLines, n, Appended(ptgzIdx, IdxLines, n))
         /\ \A m \in 0..T + 2 : m \in ToSet(Appended(ptgzIdx, IdxLines, n))
         /\ ~ EndsCut(Appended(ptgzIdx, IdxLines, n))
<1>1. PICK u : u = Appended(ptgzIdx, IdxLines, n)
  OBVIOUS
<1>2. PICK t \in Seq(0..T + 2) : t = IdxLines /\ 0..T + 2 \subseteq ToSet(t) /\ t # << >> /\ t[1] = 0
  BY IdxLinesFacts
<1>3. /\ ptgzIdx \in Seq(Names) /\ t \in Seq(Names) /\ n \in Names /\ Cut \in Names
      /\ n # Cut /\ Cut \notin ToSet(t) /\ 0 # Cut
  <2>1. \A S, R, s : s \in Seq(S) /\ S \subseteq R => s \in Seq(R)
    OBVIOUS
  <2>2. Cut \notin 0..T + 2 /\ Torn # Cut /\ Archives \subseteq 0..T + 2
    BY Numbers DEF Cut, Torn, Archives
  <2>3. ToSet(t) \subseteq 0..T + 2
    <3>1. \A S : \A s \in Seq(S) : ToSet(s) \subseteq S
      BY LenProperties DEF ToSet
    <3> QED  BY <3>1
  <2>4. n \in {Torn} \cup Archives
    BY DEF JoinedArchives
  <2>5. n \in Names /\ n # Cut /\ Cut \in Names
    BY <2>2, <2>4 DEF Names
  <2>6. 0..T + 2 \subseteq Names
    BY DEF Names
  <2>7. t \in Seq(Names)
    BY <2>1, <2>6
  <2>8. ptgzIdx \in Seq(Names)
    BY DEF IInv, TypeInv
  <2> QED  BY <2>2, <2>3, <2>5, <2>7, <2>8 DEF Cut
<1>4. Behind(Names, ptgzIdx, t, n, u)
  BY <1>1, <1>2, <1>3, AppendedLines
<1>5. ToSet(t) \subseteq ToSet(u) /\ ~ EndsCut(u)
  <2>1. FirstWhole(ptgzIdx, t[1])
    BY <1>2 DEF IInv, Begun
  <2> QED  BY <1>1, <1>2, <1>3, <2>1, AppendedWhole
<1> QED  BY <1>1, <1>2, <1>4, <1>5

LEMMA CloseIndexInv ==
  ASSUME IInv, CloseIndex
  PROVE  IInv'
<1>1. /\ UNCHANGED <<left, tmp, gz, tar>> /\ pc' = [pc EXCEPT ![0] = "mpitar"]
      /\ pc[0] \in Packing /\ "mpitar" \in Packing
  BY DEF CloseIndex, packVars, Packing
<1>2. PICK n \in JoinedArchives : ptgzIdx' = Appended(ptgzIdx, IdxLines, n)
  BY DEF CloseIndex
<1>3. /\ ptgzIdx' \in Seq(Names) /\ \A m \in 0..T + 2 : m \in ToSet(ptgzIdx')
      /\ ~ EndsCut(ptgzIdx')
  BY <1>2, NamesListed DEF Behind
<1>4. /\ InStage(Packing)' /\ pc' \in [Ranks -> UNION Stages] /\ pc'[0] = "mpitar"
      /\ \A a \in Archives : ~ AwaitsLines(a)
  BY <1>1, RootMoves
<1>5. AllNamed' /\ TarSoFar'
  <2>1. DOMAIN ptgzIdx' = 1..Len(ptgzIdx')
    BY <1>3, LenProperties
  <2> QED  BY <1>3, <1>4, <2>1 DEF AllNamed, Named, ToSet, TarSoFar
<1>6. TypeInv'
  BY <1>1, <1>3, <1>4 DEF IInv, TypeInv
<1>7. Begun' /\ ListsFull' /\ Built'
  BY <1>1, <1>3, <1>4 DEF IInv, Begun, FirstWhole, EndsCut, ListsFull, OfList, HasList, Built, Complete
<1> QED  BY <1>4, <1>5, <1>6, <1>7, Elsewhere DEF IInv

\* mpitar takes a single rank for a mistake.
LEMMA RefusedInv ==
  ASSUME IInv, Refused
  PROVE  IInv'
<1>1. /\ UNCHANGED <<tmp, gz, ptgzIdx, tar>> /\ pc' = [r \in Ranks |-> "remove"] /\ N = 1
      /\ left' = [r \in Ranks |-> Block(r, N, T)] /\ pc[0] = "mpitar"
  BY DEF Refused, StartRemoval, tempVars, packVars
<1>2. InStage(Removing)' /\ pc' \in [Ranks -> UNION Stages]
  BY <1>1 DEF InStage, Stages, Removing
<1>3. TypeInv'
  BY <1>1, <1>2 DEF IInv, TypeInv, Block
<1>4. AllStored' /\ AllNamed' /\ TarSoFar' /\ OneStage'
  BY <1>1, <1>2, Numbers DEF AllStored, AllNamed, TarSoFar, OneStage, Stages
<1>5. Removed'
  BY <1>1, Numbers DEF Removed
<1>6. \A a \in Archives : ~ AwaitsLines(a)
  BY <1>1 DEF AwaitsLines
<1> QED  BY <1>1, <1>3, <1>4, <1>5, <1>6, FilesKept DEF IInv

LEMMA OpenTarInv ==
  ASSUME IInv, OpenTar
  PROVE  IInv'
<1>1. /\ UNCHANGED <<left, tmp, gz, ptgzIdx>> /\ tar' = << >> /\ Len(tar') = 0
      /\ pc' = [r \in Ranks |-> "packing"] /\ pc[0] = "mpitar"
  BY Numbers, EmptySeq DEF OpenTar, tempVars
<1>2. InStage(Packing)' /\ pc' \in [Ranks -> UNION Stages]
  BY <1>1 DEF InStage, Stages, Packing
<1>3. TypeInv'
  BY <1>1, <1>2, EmptySeq DEF IInv, TypeInv
<1>4. AllNamed'
  BY <1>1 DEF IInv, AllNamed, Named
<1>5. TarSoFar'
  <2>1. Len(ptgzIdx) \in Nat
    BY LenProperties DEF IInv, TypeInv
  <2> QED  BY <1>1, <2>1 DEF TarSoFar
<1>6. \A a \in Archives : ~ AwaitsLines(a)
  BY <1>1 DEF AwaitsLines
<1> QED  BY <1>1, <1>2, <1>3, <1>4, <1>5, <1>6, FilesKept, Elsewhere DEF IInv

\* The tar holds the first of the names, which exist, as they are.
LEMMA StoreMembersInv ==
  ASSUME IInv, StoreMembers
  PROVE  IInv'
<1>1. UNCHANGED <<left, tmp, gz, ptgzIdx, pc>> /\ \A r \in Ranks : pc[r] = "packing"
  BY DEF StoreMembers, rankVars, tempVars
<1>2. /\ ptgzIdx \in Seq(Names) /\ gz \in [Archives -> Seq(Contents)]
      /\ Len(ptgzIdx) \in Nat /\ Len(tar) \in Nat
  BY LenProperties DEF IInv, TypeInv
<1>3. PICK k \in Len(tar) + 1..Len(ptgzIdx) :
        (\A i \in 1..k : Exists(ptgzIdx[i])) /\ tar' = Packed(SubSeq(ptgzIdx, 1, k))
  BY DEF StoreMembers
<1>4. k \in Nat /\ k <= Len(ptgzIdx)
  BY <1>2, <1>3
<1>5. PICK s \in Seq(Names) : s = SubSeq(ptgzIdx, 1, k) /\ Len(s) = k /\ \A i \in 1..k : s[i] = ptgzIdx[i]
  <2>1. \A S : \A q \in Seq(S) : \A j \in 0..Len(q) :
          /\ SubSeq(q, 1, j) \in Seq(S) /\ Len(SubSeq(q, 1, j)) = j
          /\ \A i \in 1..j : SubSeq(q, 1, j)[i] = q[i]
    OBVIOUS
  <2>2. k \in 0..Len(ptgzIdx)
    BY <1>2, <1>4
  <2> QED  BY <1>2, <2>1, <2>2
<1>6. DOMAIN s = 1..k
  BY <1>5, LenProperties
<1>7. tar' = [i \in 1..k |-> Member(ptgzIdx[i])]
  <2>1. tar' = [i \in 1..k |-> Member(s[i])]
    BY <1>3, <1>5, <1>6 DEF Packed
  <2> QED  BY <1>5, <2>1
<1>8. \A i \in 1..k : Member(ptgzIdx[i]) \in [name : 0..T + 2, files : Seq(Contents)]
  BY <1>2, <1>3, EmptySeq DEF Member, Exists
<1>9. tar' \in Seq([name : 0..T + 2, files : Seq(Contents)]) /\ Len(tar') = k
  <2>1. tar' \in [1..k -> [name : 0..T + 2, files : Seq(Contents)]]
    BY <1>7, <1>8
  <2>2. \A S, n, t : n \in Nat /\ t \in [1..n -> S] => t \in Seq(S)
    BY SeqDef
  <2>3. tar' \in Seq([name : 0..T + 2, files : Seq(Contents)])
    BY <1>4, <2>1, <2>2
  <2> QED  BY <1>4, <2>1, <2>3, LenProperties
<1>10. TypeInv'
  BY <1>1, <1>9 DEF IInv, TypeInv
<1>11. AllNamed'
  BY <1>1 DEF IInv, AllNamed, Named
<1>12. TarSoFar'
  <2>1. \A n : Exists(n) => Exists(n)'
    BY <1>1 DEF Exists
  <2>2. \A n : Member(n)' = Member(n)
    BY <1>1 DEF Member
  <2>3. \A i \in 1..k : Exists(ptgzIdx[i])' /\ tar'[i] = Member(ptgzIdx[i])'
    BY <1>1, <1>3, <1>7, <2>1, <2>2
  <2> QED  BY <1>1, <1>4, <1>9, <2>3 DEF TarSoFar
<1>13. InStage(Packing)'
  BY <1>1 DEF InStage, Packing
<1>14. \A a \in Archives : ~ AwaitsLines(a)
  BY <1>1, Numbers DEF AwaitsLines
<1> QED  BY <1>1, <1>10, <1>11, <1>12, <1>13, <1>14, FilesKept, Elsewhere DEF IInv

\* All ranks stop: no file changes that matters.
LEMMA StoppedInv ==
  ASSUME IInv, NameMissing \/ IOExit
  PROVE  IInv'
<1>1. UNCHANGED <<pc, left, tmp, gz, nameIdx, ptgzIdx, script, tar>> /\ (tarIdx' = tarIdx \/ pc[0] = "packing")
  BY Numbers DEF NameMissing, IOExit, rankVars, tempVars, packVars
<1>2. TypeInv' /\ OneStage' /\ AllNamed'
  BY <1>1 DEF IInv, TypeInv, OneStage, InStage, AllNamed, Named
<1>3. TarSoFar'
  BY <1>1 DEF IInv, TarSoFar, Exists, Member
<1>4. AllStored'
  BY <1>1 DEF IInv, AllStored, InStage, Stored, StoredAsBuilt, Complete, OfList, HasList
<1>5. Removed'
  BY <1>1 DEF IInv, Removed, Gone
<1>6. \A a \in Archives : AwaitsLines(a) => AwaitsLines(a)'
  BY <1>1 DEF AwaitsLines
<1> QED  BY <1>1, <1>2, <1>3, <1>4, <1>5, <1>6, FilesKept DEF IInv

\* When mpitar returns it has stored what its list names, and all of that exists.
LEMMA PackedAll ==
  ASSUME IInv, CloseTar
  PROVE  AllStored'
<1>1. UNCHANGED <<tmp, gz, ptgzIdx, tar>> /\ pc[0] = "packing" /\ Len(tar) = Len(ptgzIdx)
  BY Numbers DEF CloseTar, tempVars, packVars
<1>2. /\ \A n \in 0..T + 2 : Named(n)
      /\ \A i \in 1..Len(tar) : Exists(ptgzIdx[i]) /\ tar[i] = Member(ptgzIdx[i])
  BY <1>1 DEF IInv, AllNamed, TarSoFar
<1>3. \A i \in 1..Len(tar) : /\ tar[i].name = ptgzIdx[i]
                             /\ ptgzIdx[i] \in Archives => tar[i].files = gz[ptgzIdx[i]] /\ gz[ptgzIdx[i]] # << >>
  <2>1. \A n : /\ Member(n).name = n
               /\ n \in Archives => Member(n).files = gz[n]
               /\ Exists(n) /\ n \in Archives => gz[n] # << >>
    BY DEF Member, Exists
  <2> TAKE i \in 1..Len(tar)
  <2>2. Exists(ptgzIdx[i]) /\ tar[i] = Member(ptgzIdx[i])
    BY <1>2
  <2> QED  BY <2>1, <2>2
<1>4. \A n \in 0..T + 2 : Stored(n)'
  BY <1>1, <1>2, <1>3 DEF Named, Stored
<1>5. \A i \in 1..Len(tar) : tar[i].name \in Archives => Complete(tar[i].name, tar[i].files)
  BY <1>3 DEF IInv, Built
<1>6. \A a \in Archives : StoredAsBuilt(a)'
  <2> TAKE a \in Archives
  <2>1. a \in 0..T + 2
    BY Numbers DEF Archives
  <2>2. PICK i \in 1..Len(tar) : ptgzIdx[i] = a
    BY <1>1, <1>2, <2>1 DEF Named
  <2> QED  BY <1>1, <1>3, <2>2 DEF StoredAsBuilt
<1> QED  BY <1>1, <1>4, <1>5, <1>6 DEF AllStored, Complete, OfList, HasList

LEMMA CloseTarInv ==
  ASSUME IInv, CloseTar
  PROVE  IInv'
<1>1. /\ UNCHANGED <<tmp, gz, ptgzIdx, tar>> /\ pc' = [r \in Ranks |-> "remove"]
      /\ left' = [r \in Ranks |-> Block(r, N, T)] /\ pc[0] = "packing"
  BY Numbers DEF CloseTar, StartRemoval, tempVars, packVars
<1>2. InStage(Removing)' /\ pc' \in [Ranks -> UNION Stages]
  BY <1>1 DEF InStage, Stages, Removing
<1>3. TypeInv'
  BY <1>1, <1>2 DEF IInv, TypeInv, Block
<1>4. AllNamed' /\ TarSoFar' /\ OneStage'
  BY <1>1, <1>2, Numbers DEF AllNamed, TarSoFar, OneStage, Stages
<1>5. Removed'
  BY <1>1, Numbers DEF Removed
<1>6. \A a \in Archives : ~ AwaitsLines(a)
  BY <1>1 DEF AwaitsLines
<1> QED  BY <1>1, <1>3, <1>4, <1>5, <1>6, PackedAll, FilesKept DEF IInv

LEMMA RemoveTempInv ==
  ASSUME IInv, NEW r \in Ranks, NEW a \in left[r], RemoveTemp(r, a)
  PROVE  IInv'
<1>1. /\ UNCHANGED <<pc, ptgzIdx, tar, nameIdx, script, tarIdx>>
      /\ left' = [left EXCEPT ![r] = @ \ {a}]
      /\ tmp' = [tmp EXCEPT ![a] = << >>] /\ gz' = [gz EXCEPT ![a] = << >>]
      /\ pc[r] = "remove"
  BY DEF RemoveTemp, tempVars, packVars
<1>2. a \in Archives
  <2>1. left[r] \subseteq Block(r, N, T)
    BY <1>1 DEF IInv, Removed
  <2> QED  BY <2>1, Numbers, BlockInRange DEF Archives, Ranks
<1>3. /\ tmp \in [Archives -> Seq(Contents)] /\ gz \in [Archives -> Seq(Contents)]
      /\ left \in [Ranks -> SUBSET Int]
  BY DEF IInv, TypeInv
<1>4. /\ Gone(a)' /\ \A b \in Archives : b # a => tmp'[b] = tmp[b] /\ gz'[b] = gz[b]
      /\ left'[r] = left[r] \ {a} /\ \A s \in Ranks : s # r => left'[s] = left[s]
  BY <1>1, <1>2, <1>3 DEF Gone
<1>5. TypeInv'
  BY <1>1, <1>2, <1>3, EmptySeq DEF IInv, TypeInv
<1>6. InStage(Removing)
  BY <1>1, SameStage DEF IInv, Stages, Removing
<1>7. ListsFull' /\ Built' /\ Begun'
  <2>1. \A b \in Archives : ~ AwaitsLines(b)
    BY <1>6, Numbers DEF AwaitsLines, InStage, Removing
  <2>2. OfList(a, << >>) /\ FirstWhole(<< >>, a)
    BY DEF OfList, ToSet, FirstWhole, EndsCut
  <2>3. ListsFull'
    BY <1>4, <2>1, <2>2 DEF IInv, ListsFull, Gone, OfList, HasList
  <2>4. Built'
    BY <1>4 DEF IInv, Built, Gone, Complete, OfList, HasList
  <2>5. Begun'
    BY <1>1, <1>4, <2>2 DEF IInv, Begun, Gone, FirstWhole, EndsCut
  <2> QED  BY <2>3, <2>4, <2>5
<1>8. AllNamed' /\ TarSoFar' /\ OneStage'
  BY <1>1, <1>6, Numbers DEF IInv, AllNamed, TarSoFar, OneStage, InStage, Removing
<1>9. AllStored'
  <2>1. \A b \in Archives : StoredAsBuilt(b) /\ b # a => StoredAsBuilt(b)'
    BY <1>1, <1>4 DEF StoredAsBuilt
  <2> QED  BY <1>1, <1>4, <1>6, <2>1 DEF IInv, AllStored, Gone, Stored, Complete, OfList, HasList
<1>10. Removed'
  <2>1. \A s \in Ranks : Block(s, N, T) \subseteq Archives
    BY Numbers, BlockInRange DEF Archives, Ranks
  <2>2. \A b \in Archives : Gone(b) => Gone(b)'
    BY <1>4 DEF Gone
  <2> QED  BY <1>1, <1>4, <2>1, <2>2 DEF IInv, Removed
<1> QED  BY <1>5, <1>7, <1>8, <1>9, <1>10 DEF IInv

LEMMA FinishInv ==
  ASSUME IInv, NEW r \in Ranks, Finish(r)
  PROVE  IInv'
<1>1. /\ UNCHANGED <<left, tmp, gz, tar>> /\ pc' = [pc EXCEPT ![r] = "done"]
      /\ pc[r] = "remove" /\ left[r] = {} /\ pc \in [Ranks -> UNION Stages]
  BY DEF Finish, IInv, TypeInv
<1>2. ptgzIdx' \in Seq(Names) /\ (ptgzIdx' = ptgzIdx \/ ptgzIdx' = << >>)
  BY EmptySeq DEF Finish, tempVars, IInv, TypeInv
<1>3. InStage(Removing) /\ InStage(Removing)' /\ pc' \in [Ranks -> UNION Stages]
  BY <1>1, SameStage, StaysInStage DEF IInv, Stages, Removing
<1>4. TypeInv'
  BY <1>1, <1>2, <1>3 DEF IInv, TypeInv
<1>5. ListsFull' /\ Built' /\ Begun'
  <2>1. \A a \in Archives : ~ AwaitsLines(a)
    BY <1>3, Numbers DEF AwaitsLines, InStage, Removing
  <2>2. ListsFull' /\ Built'
    BY <1>1, <2>1 DEF IInv, ListsFull, Built, Complete, OfList, HasList
  <2>3. Begun'
    BY <1>1, <1>2 DEF IInv, Begun, FirstWhole, EndsCut
  <2> QED  BY <2>2, <2>3
<1>6. OneStage'
  BY <1>3 DEF OneStage, Stages
<1>7. AllNamed' /\ TarSoFar'
  BY <1>3, Numbers DEF AllNamed, TarSoFar, InStage, Removing
<1>8. AllStored'
  BY <1>1, <1>3 DEF IInv, AllStored, Stored, StoredAsBuilt, Complete, OfList, HasList
<1>9. Removed'
  <2>1. \A s \in Ranks : pc'[s] = IF s = r THEN "done" ELSE pc[s]
    BY <1>1
  <2>2. \A b \in Block(r, N, T) : Gone(b)
    BY <1>1 DEF IInv, Removed
  <2>3. \A b : Gone(b) => Gone(b)'
    BY <1>1 DEF Gone
  <2>4. pc'[0] = "done" => nameIdx' = << >> /\ ptgzIdx' = << >> /\ ~ script' /\ ~ tarIdx'
    <3>1. CASE r = 0
      BY <3>1 DEF Finish
    <3>2. CASE r # 0
      BY <2>1, <3>2, Numbers DEF Finish, tempVars, IInv, Removed
    <3> QED  BY <3>1, <3>2
  <2> QED  BY <1>1, <2>1, <2>2, <2>3, <2>4 DEF IInv, Removed
<1> QED  BY <1>4, <1>5, <1>6, <1>7, <1>8, <1>9 DEF IInv

\* The lines of ptgz.idx that root has in its stream.
LEMMA OpenIndexFacts ==
  /\ OpenIndex \in Seq(0..T + 2) /\ Len(OpenIndex) <= T + 3
  /\ OpenIndex # << >> => OpenIndex[1] = 0 /\ pc[0] \in {"list_archives", "close_index"}
<1>1. PICK t \in Seq(0..T + 2) : t = IdxLines /\ Len(t) = T + 3 /\ t[1] = 0 /\ t # << >>
  BY IdxLinesFacts
<1>2. T \in Nat
  BY Numbers
<1>3. CASE pc[0] = "list_archives"
  <2>1. \A S : \A q \in Seq(S) : \A j \in 0..Len(q) :
          /\ SubSeq(q, 1, j) \in Seq(S) /\ Len(SubSeq(q, 1, j)) = j
          /\ \A i \in 1..j : SubSeq(q, 1, j)[i] = q[i]
    OBVIOUS
  <2>2. T + 1 \in 0..Len(t) /\ 1 \in 1..T + 1
    BY <1>1, <1>2
  <2>3. PICK u : u = SubSeq(t, 1, T + 1)
    OBVIOUS
  <2>4. u \in Seq(0..T + 2) /\ Len(u) = T + 1 /\ u[1] = t[1]
    BY <1>1, <2>1, <2>2, <2>3
  <2>5. OpenIndex = u
    BY <1>1, <1>3, <2>3 DEF OpenIndex
  <2> QED  BY <1>1, <1>2, <1>3, <2>4, <2>5
<1>4. CASE pc[0] = "close_index"
  <2>1. OpenIndex = t
    BY <1>1, <1>4 DEF OpenIndex
  <2> QED  BY <1>1, <1>2, <1>4, <2>1
<1>5. CASE pc[0] \notin {"list_archives", "close_index"}
  <2>1. OpenIndex = << >>
    BY <1>5 DEF OpenIndex
  <2> QED  BY <1>2, <2>1, EmptySeq
<1> QED  BY <1>3, <1>4, <1>5

\* A kill adds to ptgz.idx no more than one start does.
LEMMA IndexAfterKill ==
  ASSUME IInv, Rerun
  PROVE  /\ ptgzIdx' \in Seq(Names) /\ FirstWhole(ptgzIdx', 0)
         /\ Len(ptgzIdx') \in Nat /\ Len(ptgzIdx') <= Len(ptgzIdx) + (T + 3)
         /\ pc[0] \notin {"list_archives", "close_index"} => ptgzIdx' = ptgzIdx
<1>1. PICK t \in Seq(0..T + 2) : t = OpenIndex
  BY OpenIndexFacts
<1>2. \E part \in Partial(t) : \E n \in JoinedArchives : ptgzIdx' = Appended(ptgzIdx, part, n)
  BY <1>1 DEF Rerun
<1>3. PICK part \in Partial(t) : \E n \in JoinedArchives : ptgzIdx' = Appended(ptgzIdx, part, n)
  BY <1>2
<1>4. PICK n \in JoinedArchives : ptgzIdx' = Appended(ptgzIdx, part, n)
  BY <1>3
<1>5. T \in Nat /\ ptgzIdx \in Seq(Names) /\ Len(ptgzIdx) \in Nat /\ FirstWhole(ptgzIdx, 0)
  BY Numbers, LenProperties DEF IInv, TypeInv, Begun
<1>6. n \in Names /\ n # Cut /\ Cut \in Names /\ 0 # Cut
  <2>1. Torn # Cut /\ Archives \subseteq 0..T + 2 /\ Cut \notin Archives /\ 0 # Cut
    BY Numbers DEF Cut, Torn, Archives
  <2>2. n \in {Torn} \cup Archives
    BY DEF JoinedArchives
  <2> QED  BY <2>1, <2>2 DEF Names
<1>7. t \in Seq(Names) /\ Cut \notin ToSet(t)
  <2>1. \A S, R, s : s \in Seq(S) /\ S \subseteq R => s \in Seq(R)
    OBVIOUS
  <2>2. 0..T + 2 \subseteq Names /\ Cut \notin 0..T + 2
    BY <1>5 DEF Names, Cut
  <2>3. \A S : \A s \in Seq(S) : ToSet(s) \subseteq S
    BY LenProperties DEF ToSet
  <2>4. t \in Seq(Names)
    BY <2>1, <2>2
  <2>5. ToSet(t) \subseteq 0..T + 2
    BY <2>3
  <2> QED  BY <2>2, <2>4, <2>5
<1>8. CASE t = << >>
  <2>1. Begins(Names, t, part)
    BY <1>6, <1>7, PartialLines
  <2>2. part = << >>
    <3>1. part \in Seq(Names) /\ Len(part) <= Len(t) /\ Len(t) = 0
      BY <1>8, <2>1, EmptySeq DEF Begins
    <3>2. Len(part) \in Nat
      BY <3>1, LenProperties
    <3> QED  BY <3>1, <3>2, EmptySeq
  <2>3. Behind(Names, ptgzIdx, part, n, ptgzIdx')
    <3>1. part \in Seq(Names)
      BY <2>1 DEF Begins
    <3> QED  BY <1>4, <1>5, <1>6, <3>1, AppendedLines
  <2>4. ptgzIdx' = ptgzIdx
    BY <2>2, <2>3 DEF Behind
  <2> QED  BY <1>5, <2>4
<1>9. CASE t # << >>
  <2>1. t[1] = 0 /\ Len(t) <= T + 3 /\ Len(t) \in Nat /\ pc[0] \in {"list_archives", "close_index"}
    BY <1>1, <1>9, OpenIndexFacts, LenProperties
  <2>2. /\ ptgzIdx' \in Seq(Names) /\ FirstWhole(ptgzIdx', t[1])
        /\ Len(ptgzIdx') <= Len(ptgzIdx) + Len(t)
    BY <1>4, <1>5, <1>6, <1>7, <1>9, <2>1, AppendedPart
  <2>3. Len(ptgzIdx') \in Nat
    BY <2>2, LenProperties
  <2> QED  BY <1>5, <2>1, <2>2, <2>3
<1> QED  BY <1>8, <1>9

\* What a kill leaves of the lists: some of their lines, and the first is whole.
LEMMA ListsAfterKill ==
  ASSUME IInv, Rerun
  PROVE  /\ tmp' \in [Archives -> Seq(Contents)]
         /\ \A a \in Archives : FirstWhole(tmp'[a], a) /\ OfList(a, tmp'[a])
         /\ \A a \in Archives : a \notin OpenLists => tmp'[a] = tmp[a]
<1>1. tmp \in [Archives -> Seq(Contents)]
  BY DEF IInv, TypeInv
<1>2. PICK part \in [OpenLists -> UNION {Partial(ListLines(a)) : a \in OpenLists}] :
        /\ \A a \in OpenLists : part[a] \in Partial(ListLines(a))
        /\ tmp' = [a \in Archives |-> IF a \in OpenLists THEN Appended(tmp[a], part[a], Torn)
                                                        ELSE tmp[a]]
  BY DEF Rerun
<1>3. ASSUME NEW a \in Archives
      PROVE  tmp'[a] \in Seq(Contents) /\ FirstWhole(tmp'[a], a) /\ OfList(a, tmp'[a])
  <2>1. tmp[a] \in Seq(Contents) /\ FirstWhole(tmp[a], a) /\ OfList(a, tmp[a])
    BY <1>1 DEF IInv, Begun, ListsFull
  <2>2. CASE a \notin OpenLists
    BY <1>2, <2>1, <2>2
  <2>3. CASE a \in OpenLists
    <3>1. PICK t \in Seq(Files) : t = ListLines(a) /\ ToSet(t) = ListOf(a, NFiles, T) /\ t # << >> /\ t[1] = a
      BY LinesOfArchive
    <3>2. PICK p \in Partial(t) : tmp'[a] = Appended(tmp[a], p, Torn)
      BY <1>2, <2>3, <3>1
    <3>3. /\ t \in Seq(Contents) /\ Torn \in Contents /\ Cut \in Contents
          /\ Torn # Cut /\ Cut \notin ToSet(t) /\ a # Cut
      <4>1. \A S, R, s : s \in Seq(S) /\ S \subseteq R => s \in Seq(R)
        OBVIOUS
      <4>2. Cut \notin Files /\ Torn # Cut /\ Cut \notin Archives
        BY DEF Cut, Torn, Files, Archives
      <4>3. ToSet(t) \subseteq Files
        BY <3>1, LenProperties DEF ToSet
      <4> QED  BY <3>1, <4>1, <4>2, <4>3 DEF Contents
    <3>4. /\ tmp'[a] \in Seq(Contents) /\ FirstWhole(tmp'[a], t[1])
          /\ ToSet(tmp'[a]) \subseteq ToSet(tmp[a]) \cup ToSet(t) \cup {Cut, Torn}
      BY <2>1, <3>1, <3>2, <3>3, AppendedPart
    <3> QED  BY <2>1, <3>1, <3>4 DEF OfList
  <2> QED  BY <2>2, <2>3
<1>4. tmp' \in [Archives -> Seq(Contents)]
  <2>1. \E f : tmp' = [a \in Archives |-> f[a]]
    <3>1. tmp' = [a \in Archives |-> tmp'[a]]
      BY <1>2
    <3> QED  BY <3>1
  <2> QED  BY <1>3, <2>1
<1>5. \A a \in Archives : a \notin OpenLists => tmp'[a] = tmp[a]
  BY <1>2
<1> QED  BY <1>3, <1>4, <1>5

LEMMA RerunInv ==
  ASSUME IInv, Rerun
  PROVE  IInv'
<1>1. /\ UNCHANGED <<gz, tar>> /\ pc' = StartPC
      /\ left' = [r \in Ranks |-> IF r = 0 THEN Archives ELSE {}]
  BY DEF Rerun, packVars
<1>2. /\ InStage(Preparing)' /\ pc' \in [Ranks -> UNION Stages] /\ pc'[0] = "lists"
      /\ left' \in [Ranks -> SUBSET Int] /\ left'[0] = Archives
  BY <1>1, Numbers DEF StartPC, InStage, Stages, Preparing, Archives
<1>3. TypeInv'
  BY <1>1, <1>2, IndexAfterKill, ListsAfterKill DEF IInv, TypeInv
<1>4. ListsFull'
  BY <1>2, ListsAfterKill DEF ListsFull, OfList, AwaitsLines
<1>5. Begun'
  BY IndexAfterKill, ListsAfterKill DEF Begun, FirstWhole, EndsCut
<1>6. Built'
  BY <1>1 DEF IInv, Built, Complete, OfList, HasList
<1>7. Preparing # Packing
  BY DEF Preparing, Packing
<1> QED  BY <1>2, <1>3, <1>4, <1>5, <1>6, <1>7, Elsewhere DEF IInv
-----------------------------------------------------------------------------
LEMMA Preserved == ASSUME IInv, [Next]_vars PROVE IInv'
<1>1. CASE UNCHANGED vars
  <2>1. UNCHANGED <<pc, left, tmp, gz, nameIdx, ptgzIdx, script, tar, tarIdx>>
    BY <1>1 DEF vars, rankVars, tempVars, packVars
  <2>2. TypeInv' /\ OneStage' /\ AllNamed'
    BY <2>1 DEF IInv, TypeInv, OneStage, InStage, AllNamed, Named
  <2>3. TarSoFar'
    BY <2>1 DEF IInv, TarSoFar, Exists, Member
  <2>4. AllStored'
    BY <2>1 DEF IInv, AllStored, InStage, Stored, StoredAsBuilt, Complete, OfList, HasList
  <2>5. Removed'
    BY <2>1 DEF IInv, Removed, Gone
  <2>6. \A a \in Archives : AwaitsLines(a) => AwaitsLines(a)'
    BY <2>1 DEF AwaitsLines
  <2> QED  BY <2>1, <2>2, <2>3, <2>4, <2>5, <2>6, FilesKept DEF IInv
<1>2. CASE Together
  BY <1>2, WriteListInv, BarrierInv, MakeScriptInv, CloseIndexInv, RefusedInv, OpenTarInv,
     StoreMembersInv, StoppedInv, CloseTarInv DEF Together, Return
<1>3. CASE \E r \in Ranks : Rank(r)
  BY <1>3, QuietInv, BuildInv, RemoveTempInv, FinishInv DEF Rank
<1>4. CASE Rerun \/ IOExit
  BY <1>4, RerunInv, StoppedInv
<1> QED  BY <1>1, <1>2, <1>3, <1>4 DEF Next

LEMMA Inductive == Spec => []IInv
<1>1. IInv /\ [Next]_vars => IInv'
  BY Preserved
<1> QED  BY <1>1, InitInv, PTL DEF Spec

\* Every archive is in the block of some rank, which removes it.
LEMMA AllGone == ASSUME IInv, Done PROVE \A a \in Archives : Gone(a)
<1> TAKE a \in Archives
<1>1. PICK r \in Ranks : a \in Block(r, N, T)
  BY Numbers, BlockOwner DEF Archives, Ranks
<1> QED  BY <1>1 DEF IInv, Removed, Done

\* When all ranks have finished, no temporary file is left, however often the
\* program was ended and started again before (ptgz-mpi.cpp:488-533).
THEOREM NothingIsLeft == Spec => []NothingLeftOver
<1>1. IInv => NothingLeftOver
  BY AllGone, Numbers DEF IInv, Removed, Done, Gone, NothingLeftOver
<1> QED  BY <1>1, Inductive, PTL

\* A step of which a list does not become empty, or the removal of a list.
LEMMA EmptiedByRemoval ==
  ASSUME IInv, [Next]_vars, NEW a \in Archives, tmp[a] # << >>, tmp'[a] = << >>
  PROVE  \E r \in Ranks : \E b \in left[r] : RemoveTemp(r, b)
<1>1. tmp \in [Archives -> Seq(Contents)]
  BY DEF IInv, TypeInv
<1>2. tmp' # tmp
  OBVIOUS
<1>3. ASSUME NEW s \in Seq(Contents), NEW t \in Seq(Contents), s # << >>, Appended(s, t, Torn) = << >>
      PROVE  FALSE
  <2>1. Behind(Contents, s, t, Torn, << >>)
    BY <1>3, AppendedLines DEF Contents
  <2>2. t = << >>
    BY <2>1 DEF Behind
  <2> QED  BY <1>3, <2>1, <2>2 DEF Behind
<1>4. \A b \in Archives : ListLines(b) \in Seq(Contents)
  <2>1. \A S, R, s : s \in Seq(S) /\ S \subseteq R => s \in Seq(R)
    OBVIOUS
  <2> QED  BY <2>1, LinesOfArchive DEF Contents
<1>5. ASSUME NEW b \in Archives, WriteList(b) PROVE FALSE
  <2>1. tmp' = [tmp EXCEPT ![b] = Appended(@, ListLines(b), Torn)]
    BY <1>5 DEF WriteList
  <2>2. CASE a = b
    <3>1. tmp'[a] = Appended(tmp[a], ListLines(a), Torn)
      BY <1>1, <2>1, <2>2
    <3> QED  BY <1>1, <1>3, <1>4, <3>1
  <2>3. CASE a # b
    BY <1>1, <2>1, <2>3
  <2> QED  BY <2>2, <2>3
<1>6. CASE Rerun
  <2>1. PICK part \in [OpenLists -> UNION {Partial(ListLines(b)) : b \in OpenLists}] :
          /\ \A b \in OpenLists : part[b] \in Partial(ListLines(b))
          /\ tmp' = [b \in Archives |-> IF b \in OpenLists THEN Appended(tmp[b], part[b], Torn)
                                                          ELSE tmp[b]]
    BY <1>6 DEF Rerun
  <2>2. a \in OpenLists /\ tmp'[a] = Appended(tmp[a], part[a], Torn)
    BY <2>1
  <2>3. part[a] \in Seq(Contents)
    <3>1. part[a] \in Partial(ListLines(a)) /\ ListLines(a) \in Seq(Contents) /\ Cut \in Contents
      BY <1>4, <2>1, <2>2 DEF Contents
    <3>2. Begins(Contents, ListLines(a), part[a])
      BY <3>1, PartialLines
    <3> QED  BY <3>2 DEF Begins
  <2> QED  BY <1>1, <1>3, <2>2, <2>3
<1>7. CASE Together
  BY <1>2, <1>5, <1>7 DEF Together, Return, EndTurn, AllBuilt, MakeScript, CloseIndex, Refused, OpenTar,
     StoreMembers, NameMissing, CloseTar
<1>8. CASE IOExit \/ UNCHANGED vars
  BY <1>2, <1>8 DEF IOExit, vars
<1>9. CASE \E r \in Ranks : Rank(r)
  BY <1>2, <1>9 DEF Rank, Scatter, WriteIndex, EndBuild, Finish, Build
<1> QED  BY <1>6, <1>7, <1>8, <1>9 DEF Next

\* With more than one rank, a list and its archive are removed only once the
\* archive is in the tar, as it was built (ptgz-mpi.cpp:480-506).
THEOREM RemovesPackedOnly ==
  ASSUME N > 1
  PROVE  Spec => RemovedOnlyWhenPacked
<1>1. ASSUME IInv, [Next]_vars, NEW a \in Archives, tmp[a] # << >>, tmp'[a] = << >>
      PROVE  \E i \in DOMAIN tar : tar[i].name = a /\ tar[i].files = gz[a] /\ gz[a] # << >>
  <2>1. DOMAIN tar = 1..Len(tar)
    BY <1>1 DEF IInv, TypeInv
  <2>2. PICK r \in Ranks : \E b \in left[r] : RemoveTemp(r, b)
    BY <1>1, EmptiedByRemoval
  <2>3. InStage(Removing)
    BY <1>1, <2>2, SameStage DEF IInv, Stages, Removing, RemoveTemp
  <2>4. StoredAsBuilt(a)
    BY <1>1, <2>3 DEF IInv, AllStored
  <2> QED  BY <2>1, <2>4 DEF StoredAsBuilt
<1>2. IInv /\ [Next]_vars =>
        [ \A a \in Archives : tmp[a] # << >> /\ tmp'[a] = << >> =>
            \E i \in DOMAIN tar : tar[i].name = a /\ tar[i].files = gz[a] /\ gz[a] # << >> ]_vars
  BY <1>1
<1> QED  BY <1>2, Inductive, PTL DEF Spec, RemovedOnlyWhenPacked

\* With more than one rank, whatever the tar processes of the archives in
\* Fragile do, however often the program is started, and even when the ranks
\* disagree on the number of archives: if the ranks finish, every other file is
\* in exactly one archive of the tar, and the tar has all the names that the
\* extraction asks for (README.md:26, ptgz-mpi.cpp:401-486).
THEOREM TarIsComplete ==
  ASSUME N > 1
  PROVE  Spec => []ArchiveComplete
<1>1. ASSUME IInv, Done PROVE ArchiveComplete
  <2>1. InStage(Removing) /\ DOMAIN tar = 1..Len(tar)
    BY <1>1 DEF Done, InStage, Removing, IInv, TypeInv
  <2>2. \A n \in 0..T + 2 : Members(n) # {}
    <3> TAKE n \in 0..T + 2
    <3>1. PICK i \in 1..Len(tar) : tar[i].name = n
      BY <1>1, <2>1 DEF IInv, AllStored, Stored
    <3> QED  BY <2>1, <3>1 DEF Members
  <2>3. \A i \in 1..Len(tar) : tar[i].name \in Archives => Complete(tar[i].name, tar[i].files)
    BY <1>1, <2>1 DEF IInv, AllStored
  <2>4. ASSUME NEW f \in Sure PROVE \E a \in Archives : Holders(f) = {a}
    <3>1. \A a \in Archives : \A g : g \in ListOf(a, NFiles, T) <=> g \in Files /\ g % T = a
      BY Numbers, ListOfMembers DEF Archives, Files
    <3>2. f \in Files
      BY DEF Sure
    <3>3. PICK a \in Archives : f % T = a
      <4>1. f \in Nat /\ T \in Nat \ {0}
        BY <3>2, Numbers DEF Files
      <4> QED  BY <4>1, DivMod DEF Archives
    <3>4. a \notin Fragile /\ f \in ListOf(a, NFiles, T)
      BY <3>1, <3>2, <3>3 DEF Sure
    <3>5. \A b \in Holders(f) : b = a
      <4>1. f \notin {Torn, Cut}
        BY <3>2 DEF Files, Torn, Cut
      <4> QED  BY <2>1, <2>3, <3>1, <3>3, <4>1 DEF Holders, Complete, OfList
    <3>6. a \in Holders(f)
      <4>1. a \in 0..T + 2
        BY Numbers DEF Archives
      <4>2. PICK i \in 1..Len(tar) : tar[i].name = a
        BY <1>1, <2>1, <4>1 DEF IInv, AllStored, Stored
      <4>3. f \in ToSet(tar[i].files)
        BY <2>3, <3>4, <4>2 DEF Complete, HasList
      <4> QED  BY <2>1, <4>2, <4>3 DEF Holders
    <3>7. Holders(f) = {a}
      BY <3>5, <3>6
    <3> QED  BY <3>7
  <2> QED  BY <2>2, <2>4 DEF ArchiveComplete
<1>2. IInv => ArchiveComplete
  BY <1>1 DEF ArchiveComplete
<1> QED  BY <1>2, Inductive, PTL
-----------------------------------------------------------------------------
(* What FlattenSeq returns: induction over a length is a statement about the *)
(* set of the lengths for which it holds.                                    *)

\* f is what FlattenSeq computes of the elements of s, one after the other.
Flattens(f, s) ==
  f = [i \in 1..Len(s) |-> IF i = 1 THEN s[i] ELSE f[i - 1] \o s[i]]

LEMMA FlattenExists == ASSUME NEW S, NEW s \in Seq(S) PROVE \E f : Flattens(f, s)
<1> DEFINE P(n, f) == f = [i \in 1..n |-> IF i = 1 THEN s[i] ELSE f[i - 1] \o s[i]]
           K == {n \in Nat : \E f : P(n, f)}
<1>1. 0 \in K
  <2>1. P(0, << >>)
    OBVIOUS
  <2> QED  BY <2>1
<1>2. ASSUME NEW n \in K PROVE n + 1 \in K
  <2>1. PICK f : P(n, f)
    OBVIOUS
  <2>2. n \in Nat
    OBVIOUS
  <2> DEFINE last == IF n + 1 = 1 THEN s[n + 1] ELSE f[n] \o s[n + 1]
             g == [i \in 1..n + 1 |-> IF i = n + 1 THEN last ELSE f[i]]
  <2>3. \A i \in 1..n + 1 : g[i] = IF i = 1 THEN s[i] ELSE g[i - 1] \o s[i]
    <3> TAKE i \in 1..n + 1
    <3>1. CASE i = n + 1
      <4>1. i # 1 => i - 1 \in 1..n + 1 /\ i - 1 # n + 1 /\ i - 1 = n
        BY <2>2, <3>1
      <4>2. i # 1 => g[i - 1] = f[n]
        BY <4>1
      <4> QED  BY <3>1, <4>2
    <3>2. CASE i # n + 1
      <4>1. i \in 1..n /\ g[i] = f[i]
        BY <2>2, <3>2
      <4>2. i # 1 => i - 1 \in 1..n + 1 /\ i - 1 # n + 1
        BY <2>2, <3>2
      <4>3. i # 1 => g[i - 1] = f[i - 1]
        BY <4>2
      <4> QED  BY <2>1, <4>1, <4>3
    <3> QED  BY <3>1, <3>2
  <2>4. P(n + 1, g)
    BY <2>3
  <2> HIDE DEF P
  <2>5. n + 1 \in Nat /\ \E h : P(n + 1, h)
    BY <2>2, <2>4
  <2> QED  BY <2>5
<1>3. K = Nat
  <2> HIDE DEF P
  <2>1. K \in SUBSET Nat
    OBVIOUS
  <2> HIDE DEF K
  <2> QED  BY <1>1, <1>2, <2>1, Counting
<1>4. Len(s) \in K
  BY <1>3, LenProperties
<1> QED  BY <1>4 DEF Flattens

LEMMA FlattenedBy ==
  ASSUME NEW S, NEW s \in Seq(S), s # << >>
  PROVE  \E f : Flattens(f, s) /\ FlattenSeq(s) = f[Len(s)]
<1>1. \E f : Flattens(f, s)
  BY FlattenExists
<1>2. PICK f : f = CHOOSE g : Flattens(g, s)
  OBVIOUS
<1>3. Flattens(f, s)
  BY <1>1, <1>2
<1>4. Len(s) # 0
  BY EmptySeq
<1>5. FlattenSeq(s) = f[Len(s)]
  BY <1>2, <1>4 DEF FlattenSeq, Flattens
<1> QED  BY <1>3, <1>5

AgreeTo(m, s, t) == \A i \in 1..m : s[i] = t[i]

\* What is flattened of two sequences is the same as far as they are.
LEMMA FlattenPrefix ==
  ASSUME NEW s, NEW t, NEW f, NEW g, NEW m \in Nat, Len(s) \in Nat, Len(t) \in Nat,
         Flattens(f, s), Flattens(g, t), m <= Len(s), m <= Len(t),
         AgreeTo(m, s, t)
  PROVE  AgreeTo(m, f, g)
<1> DEFINE K == {n \in Nat : n \in 1..m => f[n] = g[n]}
<1>1. 0 \in K
  OBVIOUS
<1>2. ASSUME NEW n \in K PROVE n + 1 \in K
  <2> SUFFICES ASSUME n + 1 \in 1..m PROVE f[n + 1] = g[n + 1]
    OBVIOUS
  <2>1. /\ f[n + 1] = IF n + 1 = 1 THEN s[n + 1] ELSE f[(n + 1) - 1] \o s[n + 1]
        /\ g[n + 1] = IF n + 1 = 1 THEN t[n + 1] ELSE g[(n + 1) - 1] \o t[n + 1]
    <3>1. n + 1 \in 1..Len(s) /\ n + 1 \in 1..Len(t)
      OBVIOUS
    <3> QED  BY <3>1 DEF Flattens
  <2>2. (n + 1) - 1 = n /\ (n + 1 # 1 => n \in 1..m)
    OBVIOUS
  <2> QED  BY <2>1, <2>2 DEF AgreeTo
<1>3. K = Nat
  <2>1. K \in SUBSET Nat
    OBVIOUS
  <2> HIDE DEF K
  <2> QED  BY <1>1, <1>2, <2>1, Counting
<1> QED  BY <1>3 DEF AgreeTo

LEMMA FlattenType ==
  ASSUME NEW S, NEW s \in Seq(Seq(S)), NEW f, Flattens(f, s)
  PROVE  \A i \in 1..Len(s) : f[i] \in Seq(S)
<1> DEFINE K == {n \in Nat : n \in 1..Len(s) => f[n] \in Seq(S)}
<1>1. 0 \in K
  OBVIOUS
<1>2. ASSUME NEW n \in K PROVE n + 1 \in K
  <2> SUFFICES ASSUME n + 1 \in 1..Len(s) PROVE f[n + 1] \in Seq(S)
    OBVIOUS
  <2>1. f[n + 1] = IF n + 1 = 1 THEN s[n + 1] ELSE f[(n + 1) - 1] \o s[n + 1]
    BY DEF Flattens
  <2>2. (n + 1) - 1 = n /\ (n + 1 # 1 => n \in 1..Len(s))
    BY LenProperties
  <2>3. s[n + 1] \in Seq(S)
    OBVIOUS
  <2> QED  BY <2>1, <2>2, <2>3
<1>3. K = Nat
  <2>1. K \in SUBSET Nat
    OBVIOUS
  <2> HIDE DEF K
  <2> QED  BY <1>1, <1>2, <2>1, Counting
<1> QED  BY <1>3, LenProperties

LEMMA FlattenInSeq ==
  ASSUME NEW S, NEW s \in Seq(Seq(S))
  PROVE  FlattenSeq(s) \in Seq(S)
<1>1. CASE s = << >>
  BY <1>1 DEF FlattenSeq
<1>2. CASE s # << >>
  <2>1. PICK f : Flattens(f, s) /\ FlattenSeq(s) = f[Len(s)]
    BY <1>2, FlattenedBy
  <2>2. Len(s) \in 1..Len(s)
    BY <1>2, EmptySeq
  <2> QED  BY <2>1, <2>2, FlattenType
<1> QED  BY <1>1, <1>2

LEMMA FlattenConcat ==
  ASSUME NEW S, NEW s \in Seq(Seq(S)), NEW t \in Seq(Seq(S))
  PROVE  FlattenSeq(s \o t) = FlattenSeq(s) \o FlattenSeq(t)
<1>1. FlattenSeq(s) \in Seq(S) /\ FlattenSeq(t) \in Seq(S)
  BY FlattenInSeq
<1>2. FlattenSeq(<< >>) = << >>
  BY DEF FlattenSeq
<1>3. CASE s = << >>
  BY <1>1, <1>2, <1>3, ConcatEmptySeq
<1>4. CASE t = << >>
  BY <1>1, <1>2, <1>4, ConcatEmptySeq
<1>5. CASE s # << >> /\ t # << >>
  <2>1. PICK u \in Seq(Seq(S)) : u = s \o t
    BY ConcatProperties
  <2>2. PICK a \in Nat \ {0} : a = Len(s)
    BY <1>5, EmptySeq
  <2>3. PICK b \in Nat \ {0} : b = Len(t)
    BY <1>5, EmptySeq
  <2>4. Len(u) = a + b /\ \A i \in 1..a + b : u[i] = IF i <= a THEN s[i] ELSE t[i - a]
    BY <2>1, <2>2, <2>3, ConcatProperties
  <2>5. PICK f : Flattens(f, s) /\ FlattenSeq(s) = f[a]
    BY <1>5, <2>2, FlattenedBy
  <2>6. PICK g : Flattens(g, t) /\ FlattenSeq(t) = g[b]
    BY <1>5, <2>3, FlattenedBy
  <2>7. PICK h : Flattens(h, u) /\ FlattenSeq(u) = h[a + b]
    <3>1. u # << >>
      BY <2>4, EmptySeq
    <3> QED  BY <2>4, <3>1, FlattenedBy
  <2>8. PICK p \in Seq(S) : p = f[a]
    BY <1>1, <2>5
  <2>9. h[a] = p
    <3>1. AgreeTo(a, u, s)
      BY <2>4 DEF AgreeTo
    <3>2. Len(s) \in Nat /\ Len(u) \in Nat /\ a <= Len(s) /\ a <= Len(u) /\ a \in Nat
      BY <2>2, <2>4
    <3>3. AgreeTo(a, h, f)
      BY <2>5, <2>7, <3>1, <3>2, FlattenPrefix
    <3> QED  BY <2>8, <3>3 DEF AgreeTo
  <2>10. \A i \in 1..b : g[i] \in Seq(S) /\ t[i] \in Seq(S)
    BY <2>3, <2>6, FlattenType
  <2> DEFINE K == {n \in Nat : n \in 1..b => h[a + n] = p \o g[n]}
  <2>11. 0 \in K
    OBVIOUS
  <2>12. ASSUME NEW n \in K PROVE n + 1 \in K
    <3>1. n \in Nat /\ (n \in 1..b => h[a + n] = p \o g[n])
      OBVIOUS
    <3> HIDE DEF K
    <3>2. ASSUME n + 1 \in 1..b PROVE h[a + (n + 1)] = p \o g[n + 1]
      <4>1. PICK k \in 1..a + b : k = a + (n + 1) /\ k # 1 /\ k - 1 = a + n /\ k - a = n + 1 /\ ~ (k <= a)
        BY <3>1, <3>2
      <4>2. h[k] = h[a + n] \o u[k]
        BY <2>4, <2>7, <4>1 DEF Flattens
      <4>3. u[k] = t[n + 1]
        BY <2>4, <4>1
      <4>4. CASE n = 0
        <5>1. g[n + 1] = t[n + 1]
          BY <2>3, <2>6, <4>4 DEF Flattens
        <5>2. h[a + n] = p
          BY <2>9, <4>4
        <5> QED  BY <4>1, <4>2, <4>3, <5>1, <5>2
      <4>5. CASE n # 0
        <5>1. n \in 1..b /\ n + 1 # 1 /\ (n + 1) - 1 = n
          BY <3>1, <3>2, <4>5
        <5>2. g[n + 1] = g[n] \o t[n + 1]
          BY <2>3, <2>6, <3>2, <5>1 DEF Flattens
        <5>3. PICK x \in Seq(S), y \in Seq(S) : x = g[n] /\ y = t[n + 1]
          BY <2>10, <3>2, <5>1
        <5>4. (p \o x) \o y = p \o (x \o y)
          BY ConcatAssociative, SMTT(60)
        <5> QED  BY <3>1, <4>1, <4>2, <4>3, <5>1, <5>2, <5>3, <5>4
      <4> QED  BY <4>4, <4>5
    <3> QED  BY <3>1, <3>2 DEF K
  <2>13. K = Nat
    <3>1. K \in SUBSET Nat
      OBVIOUS
    <3> HIDE DEF K
    <3> QED  BY <2>11, <2>12, <3>1, Counting
  <2>14. h[a + b] = p \o g[b]
    <3>1. b \in Nat /\ b \in 1..b
      OBVIOUS
    <3>2. \A n \in K : n \in 1..b => h[a + n] = p \o g[n]
      OBVIOUS
    <3> HIDE DEF K
    <3> QED  BY <2>13, <3>1, <3>2
  <2> QED  BY <2>1, <2>5, <2>6, <2>7, <2>8, <2>14
<1> QED  BY <1>3, <1>4, <1>5
-----------------------------------------------------------------------------
(* The turns of the index, in the first run. *)

HeadLines(a) == << [header |-> a] >> \o [i \in DOMAIN ListLines(a) |-> [file |-> ListLines(a)[i]]]
Line         == [header : Archives] \cup [file : Files]
IndexUpTo(m) == FlattenSeq([k \in 1..m |-> HeadLines(k - 1)])

\* The archives in the blocks of the ranks before r.
Reach(r) == IF Start(r, N, T) < T THEN Start(r, N, T) ELSE T

InTurn ==
  /\ turn \in 0..N - 1
  /\ \A r \in Ranks : pc[r] = "index" => r = turn
  /\ turn # 0 => \A r \in Ranks : pc[r] \in {"index", "turn_end"}
  /\ nameIdx = IndexUpTo(IF pc[turn] = "turn_end" THEN Reach(turn + 1) ELSE Reach(turn))
  /\ \A a \in Archives : tmp[a] = IF pc[0] = "lists" /\ a \in left[0] THEN << >> ELSE ListLines(a)

IndexInv ==
  /\ runs \in Nat \ {0}
  /\ runs = 1 =>
       /\ InStage(Preparing) => InTurn
       /\ InStage(Building) \/ InStage(Packing) => nameIdx = IndexUpTo(T)
       /\ InStage(Removing) /\ pc[0] # "done" => nameIdx = IndexUpTo(T)

LEMMA HeadLinesType == ASSUME NEW a \in Archives PROVE HeadLines(a) \in Seq(Line)
<1>1. ListLines(a) \in Seq(Files)
  BY LinesOfArchive
<1>2. PICK n \in Nat : n = Len(ListLines(a)) /\ ListLines(a) \in [1..n -> Files]
  BY <1>1, LenProperties
<1>3. PICK f : f = [i \in DOMAIN ListLines(a) |-> [file |-> ListLines(a)[i]]]
  OBVIOUS
<1>4. f \in [1..n -> Line]
  BY <1>2, <1>3 DEF Line
<1>5. f \in Seq(Line)
  BY <1>4, SeqDef
<1>6. << [header |-> a] >> \in Seq(Line)
  BY DEF Line
<1> QED  BY <1>3, <1>5, <1>6, ConcatProperties DEF HeadLines

\* c more archives.
LEMMA IndexExtended ==
  ASSUME NEW m \in Nat, NEW c \in Nat, m + c <= T
  PROVE  IndexUpTo(m + c) = IndexUpTo(m) \o FlattenSeq([k \in 1..c |-> HeadLines(m + k - 1)])
<1> T \in Nat
  BY Numbers
<1>1. \A a \in 0..T - 1 : HeadLines(a) \in Seq(Line)
  BY HeadLinesType DEF Archives
<1>2. PICK s : s = [k \in 1..m |-> HeadLines(k - 1)]
  OBVIOUS
<1>3. PICK t : t = [k \in 1..c |-> HeadLines(m + k - 1)]
  OBVIOUS
<1>4. PICK u : u = [k \in 1..m + c |-> HeadLines(k - 1)]
  OBVIOUS
<1>5. /\ s \in [1..m -> Seq(Line)] /\ t \in [1..c -> Seq(Line)]
      /\ u \in [1..m + c -> Seq(Line)]
  <2>1. /\ \A k \in 1..m : k - 1 \in 0..T - 1
        /\ \A k \in 1..c : m + k - 1 \in 0..T - 1
        /\ \A k \in 1..m + c : k - 1 \in 0..T - 1
    OBVIOUS
  <2> QED  BY <1>1, <1>2, <1>3, <1>4, <2>1
<1>6. /\ s \in Seq(Seq(Line)) /\ t \in Seq(Seq(Line)) /\ u \in Seq(Seq(Line))
      /\ Len(s) = m /\ Len(t) = c /\ Len(u) = m + c
  <2>1. \A n \in Nat : \A f \in [1..n -> Seq(Line)] : f \in Seq(Seq(Line)) /\ Len(f) = n
    <3> TAKE n \in Nat
    <3> TAKE f \in [1..n -> Seq(Line)]
    <3>1. f \in Seq(Seq(Line))
      BY SeqDef
    <3> QED  BY <3>1, LenProperties
  <2>2. m + c \in Nat
    OBVIOUS
  <2> QED  BY <1>5, <2>1, <2>2
<1>7. u = s \o t
  <2>1. /\ s \o t \in Seq(Seq(Line)) /\ Len(s \o t) = m + c
        /\ \A i \in 1..m + c : (s \o t)[i] = IF i <= m THEN s[i] ELSE t[i - m]
    BY <1>6, ConcatProperties
  <2>2. ASSUME NEW i \in 1..m + c PROVE (s \o t)[i] = u[i]
    <3>1. CASE i <= m
      BY <1>2, <1>4, <2>1, <3>1
    <3>2. CASE ~ (i <= m)
      <4>1. i - m \in 1..c /\ m + (i - m) - 1 = i - 1
        BY <3>2
      <4> QED  BY <1>3, <1>4, <2>1, <3>2, <4>1
    <3> QED  BY <3>1, <3>2
  <2> QED  BY <1>6, <2>1, <2>2, SeqEqual
<1>8. FlattenSeq(u) = FlattenSeq(s) \o FlattenSeq(t)
  BY <1>6, <1>7, FlattenConcat
<1> QED  BY <1>2, <1>3, <1>4, <1>8 DEF IndexUpTo

\* The lines a rank adds in its turn.
LEMMA BlockAdded ==
  ASSUME NEW r \in Ranks
  PROVE  IndexUpTo(Reach(r + 1)) =
           IndexUpTo(Reach(r)) \o FlattenSeq([k \in 1..Count(r, N, T) |-> HeadLines(Start(r, N, T) + k - 1)])
<1>1. N \in Nat \ {0} /\ T \in Nat \ {0} /\ r \in Nat
  BY Numbers DEF Ranks
<1>2. PICK b \in Nat \ {0} : b = TarBlock(N, T)
  BY <1>1, CeilDivBounds DEF TarBlock
<1>3. PICK st \in Nat : st = r * b /\ (r + 1) * b = st + b
  <2>1. r * b \in Nat /\ (r + 1) * b = r * b + b
    BY <1>1
  <2> QED  BY <2>1
<1>4. /\ Start(r, N, T) = st /\ Start(r + 1, N, T) = st + b
      /\ Count(r, N, T) = IF st + b <= T THEN b ELSE T - st
  BY <1>1, <1>2, <1>3 DEF Start, Count
<1>5. CASE st < T
  <2>1. PICK c \in Nat : c = Count(r, N, T) /\ st + c <= T /\ Reach(r) = st /\ Reach(r + 1) = st + c
    BY <1>1, <1>4, <1>5 DEF Reach
  <2> QED  BY <1>4, <2>1, IndexExtended
<1>6. CASE ~ (st < T)
  <2>1. Reach(r) = T /\ Reach(r + 1) = T /\ Count(r, N, T) <= 0 /\ Count(r, N, T) \in Int
    BY <1>1, <1>4, <1>6 DEF Reach
  <2>2. 1..Count(r, N, T) = 1..0
    BY <2>1
  <2>3. [k \in 1..Count(r, N, T) |-> HeadLines(Start(r, N, T) + k - 1)] =
          [k \in 1..0 |-> HeadLines(T + k - 1)]
    BY <2>2
  <2>4. T + 0 = T /\ T + 0 <= T
    BY <1>1
  <2> QED  BY <1>1, <2>1, <2>3, <2>4, IndexExtended
<1> QED  BY <1>5, <1>6

LEMMA ReachEnds == Reach(0) = 0 /\ Reach(N) = T /\ IndexUpTo(0) = << >>
<1>1. N \in Nat \ {0} /\ T \in Nat \ {0}
  BY Numbers
<1>2. PICK b \in Nat \ {0} : b = TarBlock(N, T) /\ T <= N * b
  BY <1>1, CeilDivBounds DEF TarBlock
<1>3. Reach(0) = 0 /\ Reach(N) = T
  BY <1>1, <1>2 DEF Reach, Start
<1>4. IndexUpTo(0) = << >>
  <2>1. PICK f : f = [k \in 1..0 |-> HeadLines(k - 1)]
    OBVIOUS
  <2>2. f = << >> /\ Len(f) = 0
    BY <2>1
  <2> QED  BY <2>1, <2>2 DEF IndexUpTo, FlattenSeq
<1> QED  BY <1>3, <1>4

LEMMA IndexInit == Init => IndexInv
<1> SUFFICES ASSUME Init PROVE IndexInv
  OBVIOUS
<1>1. /\ runs = 1 /\ turn = 0 /\ nameIdx = << >> /\ pc[0] = "lists" /\ left[0] = Archives
      /\ \A r \in Ranks : pc[r] \in {"lists", "scatter"}
      /\ \A a \in Archives : tmp[a] = << >>
  BY Numbers DEF Init, StartPC
<1>2. InTurn
  BY <1>1, ReachEnds, RanksAssumption DEF InTurn
<1>3. ~ InStage(Building) /\ ~ InStage(Packing) /\ ~ InStage(Removing)
  BY <1>1, Numbers DEF InStage, Building, Packing, Removing
<1> QED  BY <1>1, <1>2, <1>3 DEF IndexInv

\* A step after the turns that keeps the index, or removes it at the end.
LEMMA IndexKept ==
  ASSUME IndexInv, NEW G \in {Building, Packing, Removing}, InStage(G), InStage(G)',
         runs' = runs, nameIdx' = nameIdx \/ pc'[0] = "done", pc[0] = "done" => pc'[0] = "done"
  PROVE  IndexInv'
<1>1. \A H \in Stages : InStage(H)' => H = G
  BY Numbers DEF Stages, InStage, Preparing, Building, Packing, Removing
<1>2. CASE nameIdx' = nameIdx
  <2>1. ~ InStage(Preparing)'
    BY <1>1, Numbers DEF InStage, Preparing, Building, Packing, Removing
  <2>2. runs = 1 /\ ~ (InStage(Removing) /\ pc[0] = "done") => nameIdx = IndexUpTo(T)
    BY DEF IndexInv
  <2>3. InStage(Building)' => InStage(Building)
    BY <1>1 DEF Stages
  <2>4. InStage(Packing)' => InStage(Packing)
    BY <1>1 DEF Stages
  <2>5. InStage(Building) \/ InStage(Packing) => ~ InStage(Removing)
    BY Numbers DEF InStage, Building, Packing, Removing
  <2> QED  BY <1>2, <2>1, <2>2, <2>3, <2>4, <2>5 DEF IndexInv
<1>3. CASE pc'[0] = "done"
  <2>1. G = Removing
    BY <1>3, Numbers DEF InStage, Building, Packing, Removing
  <2> QED  BY <1>1, <1>3, <2>1 DEF IndexInv, Stages, Preparing, Building, Packing, Removing
<1> QED  BY <1>2, <1>3

\* A step into the next stage.
LEMMA IndexPassedOn ==
  ASSUME IndexInv, runs = 1 => nameIdx' = IndexUpTo(T),
         NEW G \in {Building, Packing, Removing}, InStage(G)', runs' = runs
  PROVE  IndexInv'
<1>1. ~ InStage(Preparing)'
  BY Numbers DEF InStage, Preparing, Building, Packing, Removing
<1> QED  BY <1>1 DEF IndexInv

LEMMA IndexTogether ==
  ASSUME IInv, IndexInv, Together
  PROVE  IndexInv'
<1>1. runs' = runs
  BY DEF Together, Return, WriteList, EndTurn, AllBuilt, MakeScript, CloseIndex, Refused, OpenTar,
         StoreMembers, NameMissing, CloseTar, rankVars
<1>2. pc \in [Ranks -> UNION Stages] /\ tmp \in [Archives -> Seq(Contents)] /\ left \in [Ranks -> SUBSET Int]
  BY DEF IInv, TypeInv
<1>3. ASSUME NEW a \in Archives, WriteList(a) PROVE IndexInv'
  <2>1. /\ UNCHANGED <<pc, turn, nameIdx>> /\ pc[0] = "lists" /\ a \in left[0]
        /\ left' = [left EXCEPT ![0] = @ \ {a}] /\ tmp' = [tmp EXCEPT ![a] = Appended(@, ListLines(a), Torn)]
    BY <1>3 DEF WriteList, tempVars
  <2>2. InStage(Preparing)
    BY <2>1, SameStage, Numbers DEF IInv, Stages, Preparing
  <2>3. ~ InStage(Building)' /\ ~ InStage(Packing)' /\ ~ InStage(Removing)'
    BY <2>1, Numbers DEF InStage, Building, Packing, Removing
  <2>4. ASSUME runs = 1 PROVE InTurn'
    <3>1. InTurn
      BY <2>2, <2>4 DEF IndexInv
    <3>2. ASSUME NEW b \in Archives
          PROVE  tmp'[b] = IF b \in left'[0] THEN << >> ELSE ListLines(b)
      <4>1. tmp[b] = IF b \in left[0] THEN << >> ELSE ListLines(b)
        BY <2>1, <3>1 DEF InTurn
      <4>2. left'[0] = left[0] \ {a}
        BY <1>2, <2>1, Numbers
      <4>3. CASE b = a
        <5>1. tmp'[a] = Appended(<< >>, ListLines(a), Torn) /\ ListLines(a) \in Seq(Files)
          BY <1>2, <2>1, <4>1, <4>3, LinesOfArchive
        <5>2. tmp'[a] = << >> \o ListLines(a)
          BY <5>1 DEF Appended, EndsCut
        <5> QED  BY <4>2, <4>3, <5>1, <5>2, ConcatEmptySeq
      <4>4. CASE b # a
        BY <1>2, <2>1, <4>1, <4>2, <4>4
      <4> QED  BY <4>3, <4>4
    <3> QED  BY <2>1, <3>1, <3>2 DEF InTurn, Reach
  <2> QED  BY <1>1, <2>3, <2>4 DEF IndexInv
<1>4. CASE EndTurn
  <2>1. UNCHANGED <<tmp, nameIdx>> /\ turn' = turn + 1 /\ \A r \in Ranks : pc[r] = "turn_end"
    BY <1>4 DEF EndTurn, tempVars
  <2>2. InStage(Preparing)
    BY <2>1 DEF InStage, Preparing
  <2>3. ASSUME runs = 1
        PROVE  /\ InTurn /\ turn \in 0..N - 1 /\ nameIdx = IndexUpTo(Reach(turn + 1))
               /\ \A a \in Archives : tmp[a] = ListLines(a)
    <3>1. InTurn /\ turn \in 0..N - 1
      BY <2>2, <2>3 DEF IndexInv, InTurn
    <3>2. pc[turn] = "turn_end" /\ pc[0] = "turn_end"
      BY <2>1, <3>1, Numbers DEF Ranks
    <3> QED  BY <3>1, <3>2 DEF InTurn
  <2>4. CASE turn + 1 < N
    <3>1. pc' = [pc EXCEPT ![turn + 1] = "index"]
      BY <1>4, <2>4 DEF EndTurn
    <3>2. ~ InStage(Building)' /\ ~ InStage(Packing)' /\ ~ InStage(Removing)'
      BY <1>2, <2>1, <3>1, Numbers DEF InStage, Building, Packing, Removing
    <3>3. ASSUME runs = 1 PROVE InTurn'
      <4>1. turn + 1 \in Ranks /\ turn + 1 \in 0..N - 1 /\ turn + 1 # 0
        BY <2>3, <2>4, <3>3, Numbers DEF Ranks
      <4>2. pc'[turn + 1] = "index" /\ \A r \in Ranks : r # turn + 1 => pc'[r] = "turn_end"
        BY <1>2, <2>1, <3>1, <4>1
      <4>3. \A r \in Ranks : pc'[r] = "index" => r = turn'
        BY <2>1, <4>2
      <4>4. \A r \in Ranks : pc'[r] \in {"index", "turn_end"}
        BY <4>2
      <4>5. pc'[turn'] # "turn_end" /\ nameIdx' = IndexUpTo(Reach(turn'))
        BY <2>1, <2>3, <3>3, <4>2
      <4>6. \A a \in Archives : tmp'[a] = ListLines(a)
        BY <2>1, <2>3, <3>3
      <4>7. pc'[0] # "lists"
        BY <4>4, Numbers
      <4> QED  BY <2>1, <4>1, <4>3, <4>4, <4>5, <4>6, <4>7 DEF InTurn, Reach
    <3> QED  BY <1>1, <3>2, <3>3 DEF IndexInv
  <2>5. CASE ~ (turn + 1 < N)
    <3>1. pc' = [r \in Ranks |-> "build"]
      BY <1>4, <2>5 DEF EndTurn
    <3>2. InStage(Building)'
      BY <3>1 DEF InStage, Building
    <3>3. runs = 1 => turn + 1 = N
      BY <2>3, <2>5, Numbers
    <3>4. runs = 1 => nameIdx' = IndexUpTo(T)
      BY <2>1, <2>3, <3>3, ReachEnds
    <3> QED  BY <1>1, <3>2, <3>4, IndexPassedOn
  <2> QED  BY <2>4, <2>5
<1>5. CASE AllBuilt
  <2>1. UNCHANGED nameIdx /\ InStage(Building) /\ InStage(Packing)'
    BY <1>5 DEF AllBuilt, tempVars, InStage, Building, Packing
  <2>2. runs = 1 => nameIdx' = IndexUpTo(T)
    BY <2>1 DEF IndexInv
  <2> QED  BY <1>1, <2>1, <2>2, IndexPassedOn
<1>6. CASE MakeScript \/ CloseIndex
  <2>1. UNCHANGED nameIdx /\ pc[0] \in Packing /\ \E there \in Packing : pc' = [pc EXCEPT ![0] = there]
    BY <1>6 DEF MakeScript, CloseIndex, Packing
  <2>2. InStage(Packing) /\ InStage(Packing)'
    BY <2>1, Numbers, SameStage, StaysInStage DEF IInv, Stages, Packing
  <2>3. pc[0] # "done"
    BY <1>6 DEF MakeScript, CloseIndex
  <2> QED  BY <1>1, <2>1, <2>2, <2>3, IndexKept
<1>7. CASE Refused \/ OpenTar \/ StoreMembers \/ NameMissing \/ CloseTar
  <2>1. pc[0] \in {"mpitar", "packing"}
    BY <1>7, Numbers DEF Refused, OpenTar, StoreMembers, NameMissing, CloseTar
  <2>2. UNCHANGED nameIdx /\ InStage(Packing)
    <3>1. InStage(Packing)
      BY <2>1, Numbers, SameStage DEF IInv, Stages, Packing
    <3>2. UNCHANGED nameIdx
      BY <1>7 DEF Refused, OpenTar, StoreMembers, NameMissing, CloseTar, tempVars
    <3> QED  BY <3>1, <3>2
  <2>3. runs = 1 => nameIdx' = IndexUpTo(T)
    BY <2>2 DEF IndexInv
  <2>4. InStage(Packing)' \/ InStage(Removing)'
    BY <1>7, <2>2 DEF Refused, OpenTar, StoreMembers, NameMissing, CloseTar, StartRemoval, InStage,
                      Packing, Removing, rankVars
  <2> QED  BY <1>1, <2>3, <2>4, IndexPassedOn
<1> QED  BY <1>3, <1>4, <1>5, <1>6, <1>7 DEF Together, Return

LEMMA IndexRank ==
  ASSUME IInv, IndexInv, NEW r \in Ranks, Rank(r)
  PROVE  IndexInv'
<1>1. runs' = runs /\ turn' = turn
  BY DEF Rank, Scatter, WriteIndex, EndBuild, Finish, Build, RemoveTemp
<1>2. pc \in [Ranks -> UNION Stages]
  BY DEF IInv, TypeInv
<1>3. ASSUME NEW there \in {"index", "turn_end"}, pc[r] \in Preparing,
             pc' = [pc EXCEPT ![r] = there]
      PROVE  /\ InStage(Preparing) /\ pc'[r] = there
             /\ \A s \in Ranks : s # r => pc'[s] = pc[s]
             /\ ~ InStage(Building)' /\ ~ InStage(Packing)' /\ ~ InStage(Removing)'
  <2>1. InStage(Preparing) /\ InStage(Preparing)'
    BY <1>3, SameStage, StaysInStage DEF IInv, Stages, Preparing
  <2>2. ~ InStage(Building)' /\ ~ InStage(Packing)' /\ ~ InStage(Removing)'
    BY <2>1, Numbers DEF InStage, Preparing, Building, Packing, Removing
  <2> QED  BY <1>2, <1>3, <2>1, <2>2
<1>4. CASE Scatter(r)
  <2>1. /\ UNCHANGED <<left, tmp, nameIdx>> /\ pc[r] \in {"lists", "scatter"}
        /\ pc[0] = "lists" => left[0] = {}
    BY <1>4 DEF Scatter, tempVars
  <2>2. PICK there \in {"index", "turn_end"} :
          /\ pc' = [pc EXCEPT ![r] = there] /\ there = IF r = 0 THEN "index" ELSE "turn_end"
    BY <1>4 DEF Scatter, EnterTurns
  <2>3. pc[r] \in Preparing
    BY <2>1 DEF Preparing
  <2>4. ASSUME runs = 1 PROVE InTurn'
    <3>1. InTurn
      BY <1>3, <2>2, <2>3, <2>4 DEF IndexInv
    <3>2. turn = 0
      BY <2>1, <3>1 DEF InTurn
    <3>3. pc'[r] = there /\ \A s \in Ranks : s # r => pc'[s] = pc[s]
      BY <1>3, <2>2, <2>3
    <3>4. \A s \in Ranks : pc'[s] = "index" => s = 0
      BY <2>2, <3>1, <3>2, <3>3 DEF InTurn
    <3>5. pc'[0] # "turn_end" <=> pc[0] # "turn_end"
      BY <2>1, <2>2, <3>3, Numbers
    <3>6. nameIdx' = IndexUpTo(IF pc'[turn'] = "turn_end" THEN Reach(turn' + 1) ELSE Reach(turn'))
      BY <1>1, <2>1, <3>1, <3>2, <3>5 DEF InTurn
    <3>7. \A a \in Archives : tmp'[a] = IF pc'[0] = "lists" /\ a \in left'[0] THEN << >> ELSE ListLines(a)
      BY <2>1, <2>2, <3>1, <3>3, Numbers DEF InTurn
    <3> QED  BY <1>1, <3>1, <3>2, <3>4, <3>6, <3>7 DEF InTurn, Reach
  <2> QED  BY <1>1, <1>3, <2>2, <2>3, <2>4 DEF IndexInv
<1>5. CASE WriteIndex(r)
  <2>1. /\ UNCHANGED <<left, tmp>> /\ pc[r] = "index" /\ pc' = [pc EXCEPT ![r] = "turn_end"]
        /\ nameIdx' = nameIdx \o FlattenSeq([k \in 1..Count(r, N, T) |->
                                               IndexLines(Start(r, N, T) + k - 1)])
    BY <1>5 DEF WriteIndex
  <2>2. pc[r] \in Preparing
    BY <2>1 DEF Preparing
  <2>3. ASSUME runs = 1 PROVE InTurn'
    <3>1. InTurn
      BY <1>3, <2>1, <2>2, <2>3 DEF IndexInv
    <3>2. pc'[r] = "turn_end" /\ \A s \in Ranks : s # r => pc'[s] = pc[s]
      BY <1>3, <2>1, <2>2
    <3>3. turn = r /\ nameIdx = IndexUpTo(Reach(r))
      BY <2>1, <3>1 DEF InTurn
    <3>4. pc[0] # "lists" /\ pc'[0] # "lists"
      <4>1. CASE r = 0
        BY <2>1, <3>2, <4>1
      <4>2. CASE r # 0
        BY <3>1, <3>2, <3>3, <4>2, Numbers DEF InTurn
      <4> QED  BY <4>1, <4>2
    <3>5. \A a \in Archives : tmp[a] = ListLines(a)
      BY <3>1, <3>4 DEF InTurn
    <3>6. \A k \in 1..Count(r, N, T) :
            IndexLines(Start(r, N, T) + k - 1) = HeadLines(Start(r, N, T) + k - 1)
      <4> TAKE k \in 1..Count(r, N, T)
      <4>1. Start(r, N, T) + k - 1 \in Archives
        <5>1. Start(r, N, T) \in Int /\ Count(r, N, T) \in Int
          <6>1. TarBlock(N, T) \in Nat
            BY Numbers, CeilDivBounds DEF TarBlock
          <6> QED  BY <6>1, Numbers DEF Start, Count, Ranks
        <5>2. Start(r, N, T) + k - 1 \in Block(r, N, T)
          BY <5>1 DEF Block
        <5> QED  BY <5>2, Numbers, BlockInRange DEF Archives, Ranks
      <4> QED  BY <3>5, <4>1 DEF IndexLines, HeadLines
    <3>7. nameIdx' = IndexUpTo(Reach(r + 1))
      <4>1. [k \in 1..Count(r, N, T) |-> IndexLines(Start(r, N, T) + k - 1)] =
              [k \in 1..Count(r, N, T) |-> HeadLines(Start(r, N, T) + k - 1)]
        BY <3>6
      <4> QED  BY <2>1, <3>3, <4>1, BlockAdded
    <3>8. nameIdx' = IndexUpTo(IF pc'[turn'] = "turn_end" THEN Reach(turn' + 1) ELSE Reach(turn'))
      BY <1>1, <3>2, <3>3, <3>7
    <3>9. \A s \in Ranks : pc'[s] = "index" => s = turn'
      BY <1>1, <3>1, <3>2 DEF InTurn
    <3>10. turn' # 0 => \A s \in Ranks : pc'[s] \in {"index", "turn_end"}
      BY <1>1, <3>1, <3>2 DEF InTurn
    <3>11. turn' \in 0..N - 1 /\ \A a \in Archives : tmp'[a] = ListLines(a)
      BY <1>1, <2>1, <3>1, <3>5 DEF InTurn
    <3> QED  BY <3>4, <3>8, <3>9, <3>10, <3>11 DEF InTurn, Reach
  <2> QED  BY <1>1, <1>3, <2>1, <2>2, <2>3 DEF IndexInv
<1>6. CASE EndBuild(r)
  <2>1. UNCHANGED nameIdx /\ pc' = [pc EXCEPT ![r] = "built"] /\ pc[r] \in Building
    BY <1>6 DEF EndBuild, tempVars, Building
  <2>2. InStage(Building) /\ InStage(Building)'
    BY <2>1, SameStage, StaysInStage DEF IInv, Stages, Building
  <2>3. pc[0] # "done"
    BY <2>2, Numbers DEF InStage, Building
  <2> QED  BY <1>1, <2>1, <2>2, <2>3, IndexKept
<1>7. CASE Finish(r)
  <2>1. /\ pc' = [pc EXCEPT ![r] = "done"] /\ pc[r] \in Removing
        /\ r = 0 \/ UNCHANGED nameIdx
    BY <1>7 DEF Finish, tempVars, Removing
  <2>2. InStage(Removing) /\ InStage(Removing)'
    BY <2>1, SameStage, StaysInStage DEF IInv, Stages, Removing
  <2>3. (nameIdx' = nameIdx \/ pc'[0] = "done") /\ (pc[0] = "done" => pc'[0] = "done")
    BY <1>2, <2>1, Numbers
  <2> QED  BY <1>1, <2>2, <2>3, IndexKept
<1>8. ASSUME NEW a \in left[r], Build(r, a) \/ RemoveTemp(r, a) PROVE IndexInv'
  <2>1. UNCHANGED <<pc, nameIdx>>
    BY <1>8 DEF Build, RemoveTemp, tempVars
  <2>2. PICK G \in {Building, Removing} : pc[r] \in G
    BY <1>8 DEF Build, RemoveTemp, Building, Removing
  <2>3. InStage(G) /\ InStage(G)'
    <3>1. InStage(G)
      BY <2>2, SameStage DEF IInv, Stages
    <3> QED  BY <2>1, <3>1 DEF InStage
  <2> QED  BY <1>1, <2>1, <2>3, IndexKept
<1> QED  BY <1>4, <1>5, <1>6, <1>7, <1>8 DEF Rank

\* In the first run the index names every archive, in order, each with its
\* files: the ranks write their parts one after the other, and nothing is added
\* or lost at the borders of their blocks (ptgz-mpi.cpp:383-399).
THEOREM IndexIsComplete == Spec => []IndexListsArchives
<1>1. IInv /\ IndexInv /\ [Next]_vars => IndexInv'
  <2> SUFFICES ASSUME IInv, IndexInv, [Next]_vars PROVE IndexInv'
    OBVIOUS
  <2>1. CASE UNCHANGED vars
    <3>1. UNCHANGED <<pc, turn, left, runs, tmp, nameIdx>>
      BY <2>1 DEF vars, rankVars, tempVars
    <3> QED  BY <3>1 DEF IndexInv, InStage, InTurn, Reach
  <2>2. CASE Rerun
    <3>1. runs' = runs + 1 /\ runs \in Nat \ {0}
      BY <2>2 DEF Rerun, IndexInv
    <3> QED  BY <3>1 DEF IndexInv
  <2>3. CASE IOExit
    <3>1. UNCHANGED <<pc, turn, left, runs, tmp, nameIdx>>
      BY <2>3 DEF IOExit, rankVars, tempVars
    <3> QED  BY <3>1 DEF IndexInv, InStage, InTurn, Reach
  <2> QED  BY <2>1, <2>2, <2>3, IndexTogether, IndexRank DEF Next
<1>2. IInv /\ IndexInv => IndexListsArchives
  <2> SUFFICES ASSUME IInv, IndexInv, runs = 1,
                      pc[0] \in {"build", "built", "list_archives", "close_index",
                                 "mpitar", "packing", "remove"}
               PROVE  nameIdx = IndexUpTo(T)
    BY DEF IndexListsArchives, IndexUpTo, HeadLines
  <2>1. PICK G \in {Building, Packing, Removing} : pc[0] \in G
    BY DEF Building, Packing, Removing
  <2>2. InStage(G)
    BY <2>1, SameStage, Numbers DEF IInv, Stages
  <2> QED  BY <2>2 DEF IndexInv
<1> QED  BY <1>1, <1>2, IndexInit, Inductive, PTL DEF Spec
-----------------------------------------------------------------------------
(* The extraction that follows, of a tar whose index lists n archives: the  *)
(* invariant of ExtractionProofs, of the instance X(n) of Extraction.  The  *)
(* provers take no theorem through a parameterised instance: its steps are  *)
(* proved here, for n.                                                      *)

XRanks     == 0..NX - 1
XLines(n)  == 0..n - 1
XOwn(n, r) == Block(r, NX, n)
XBefore == {"index", "scatter", "extract", "endless"}
XAfter  == {"unpack", "check", "delete", "done", "crashed"}

XTypes(n) ==
  /\ xpc \in [XRanks -> XBefore \cup XAfter]
  /\ xleft \in [XRanks -> SUBSET XLines(n)]
  /\ xtar \in BOOLEAN /\ xgz \subseteq Archives /\ xout \subseteq Archives
  /\ xfails \in 0..MaxFails

\* Nobody starts before the index is read, and what is read is the whole index.
XCounted(n) ==
  /\ xpc[0] = "index" => \A r \in XRanks : xpc[r] \in {"index", "scatter"}
  /\ xpc[0] # "index" => xnum \in {n, 0 - 3}
  /\ \A r \in XRanks : xpc[r] \in {"extract"} \cup XAfter => xnum = n

\* The barrier keeps the ranks together, and root alone removes the tar.
XOneSide    == (\A r \in XRanks : xpc[r] \in XBefore) \/ (\A r \in XRanks : xpc[r] \in XAfter)
XTarRemoved == xtar <=> xpc[0] # "done"
XOwnWork(n) == \A r \in XRanks : xleft[r] \subseteq XOwn(n, r)

\* What has become of an archive of rank r.
XExtracted(n) ==
  \A r \in XRanks : \A a \in XOwn(n, r) \cap Archives :
    xpc[r] = "extract" /\ a \notin xleft[r] => a \in xgz
XPacked(n) ==
  \A r \in XRanks : \A a \in XOwn(n, r) \cap Archives :
    xpc[r] \in {"crashed", "unpack", "check"} => a \in xgz
XUnpacked(n) ==
  \A r \in XRanks : \A a \in XOwn(n, r) \cap Archives :
    /\ xpc[r] = "unpack" /\ a \notin xleft[r] => a \in xout \/ xfails = 1
    /\ xpc[r] = "check" => a \in xout \/ (xfails = 1 /\ a \in xleft[r])
    /\ xpc[r] \in {"delete", "done"} => a \in xout

XInv(n) ==
  /\ XTypes(n) /\ XCounted(n) /\ XOneSide /\ XTarRemoved /\ XOwnWork(n)
  /\ XExtracted(n) /\ XPacked(n) /\ XUnpacked(n)

\* At most one tar process fails, and none that takes an archive out.
FewFailures == "extract" \notin Failing /\ MaxFails <= 1

LEMMA XConstants ==
  ASSUME NEW n \in Listings
  PROVE  /\ NX \in Nat \ {0} /\ n \in Nat \ {0} /\ T \in Nat \ {0} /\ T <= n
         /\ 0 \in XRanks /\ Archives \subseteq XLines(n)
<1>1. T \in Nat \ {0} /\ NX \in Nat \ {0}
  BY Numbers, SystemAssumption
<1>2. n \in Nat \ {0} /\ T <= n
  BY <1>1 DEF Listings
<1> QED  BY <1>1, <1>2 DEF XRanks, Archives, XLines

\* What the instance takes from Partition and from its constants.
LEMMA XSame ==
  ASSUME NEW n \in Listings
  PROVE  /\ X(n)!Ranks = XRanks /\ X(n)!Archives = Archives
         /\ \A r \in XRanks : X(n)!Block(r, NX, n) = XOwn(n, r)
<1>1. X(n)!Ranks = XRanks /\ X(n)!Archives = Archives
  BY DEF X!Ranks, XRanks, X!Archives, Archives
<1>2. \A a, b : X(n)!CeilDiv(a, b) = CeilDiv(a, b)
  BY DEF CeilDiv, X!CeilDiv
<1>3. X(n)!TarBlock(NX, n) = TarBlock(NX, n)
  BY <1>2 DEF TarBlock, X!TarBlock
<1>4. \A r \in XRanks : X(n)!Start(r, NX, n) = Start(r, NX, n) /\ X(n)!Count(r, NX, n) = Count(r, NX, n)
  BY <1>3 DEF Start, X!Start, Count, X!Count
<1>5. \A r \in XRanks : X(n)!Block(r, NX, n) = XOwn(n, r)
  BY <1>4 DEF XOwn, Block, X!Block
<1> QED  BY <1>1, <1>5

\* The blocks lie within the lines of the index, and no two have one in common.
LEMMA XOwnLines == ASSUME NEW n \in Listings, NEW r \in XRanks PROVE XOwn(n, r) \subseteq XLines(n)
BY XConstants, BlockInRange DEF XOwn, XRanks, XLines

LEMMA XOneOwner ==
  ASSUME NEW n \in Listings, NEW a \in XLines(n)
  PROVE  \E r \in XRanks : a \in XOwn(n, r) /\ \A s \in XRanks : a \in XOwn(n, s) => s = r
<1>1. a \in 0..n - 1
  BY DEF XLines
<1>2. PICK r \in 0..NX - 1 : /\ a \in Block(r, NX, n)
                            /\ \A s \in (0..NX - 1) \ {r} : a \notin Block(s, NX, n)
  BY <1>1, XConstants, BlockOwner
<1> QED  BY <1>2 DEF XRanks, XOwn

LEMMA XInitHolds == ASSUME NEW n \in Listings, X(T)!Init PROVE XInv(n)
<1>1. XTypes(n)
  BY XConstants, SystemAssumption DEF X!Init, XTypes, X!Ranks, XRanks, XBefore
<1>2. XCounted(n) /\ XOneSide /\ XTarRemoved /\ XOwnWork(n)
  BY XConstants DEF X!Init, XCounted, XOneSide, XBefore, XAfter, XTarRemoved, XOwnWork, X!Ranks, XRanks
<1>3. XExtracted(n) /\ XPacked(n) /\ XUnpacked(n)
  BY DEF X!Init, XExtracted, XPacked, XUnpacked, X!Ranks, XRanks
<1> QED  BY <1>1, <1>2, <1>3 DEF XInv
-----------------------------------------------------------------------------
LEMMA XReadIndexKeeps ==
  ASSUME FewFailures, NEW n \in Listings, XInv(n), X(n)!ReadIndex
  PROVE  XInv(n)'
<1> USE DEF XInv, X!ReadIndex
<1>1. XTypes(n)'
  <2>1. xfails' \in 0..MaxFails
    BY SystemAssumption DEF XTypes, X!Fail
  <2>2. xpc' \in [XRanks -> XBefore \cup XAfter]
    BY DEF XTypes, XBefore
  <2>3. xnum' \in {0 - 3, 0, n}
    OBVIOUS
  <2> QED  BY <2>1, <2>2, <2>3 DEF XTypes
<1>2. xpc' = [xpc EXCEPT ![0] = "scatter"] /\ \A r \in XRanks : xpc[r] \in {"index", "scatter"}
  BY DEF XCounted
<1>3. \A r \in XRanks : xpc'[r] \in {"index", "scatter"}
  BY <1>2 DEF XTypes
<1>4. xpc'[0] = "scatter"
  BY <1>2, XConstants DEF XTypes
<1>5. xnum' \in {n, 0 - 3}
  OBVIOUS
<1>6. XCounted(n)'
  BY <1>3, <1>4, <1>5 DEF XCounted, XAfter
<1>7. XOneSide' /\ XTarRemoved'
  <2>1. XOneSide'
    BY <1>3 DEF XOneSide, XBefore
  <2>2. xtar' = xtar /\ xpc[0] # "done" /\ xpc'[0] # "done"
    BY <1>4
  <2> QED  BY <2>1, <2>2 DEF XTarRemoved
<1>8. XOwnWork(n)' /\ XExtracted(n)' /\ XPacked(n)' /\ XUnpacked(n)'
  BY <1>3 DEF XOwnWork, XExtracted, XPacked, XUnpacked
<1> QED  BY <1>1, <1>6, <1>7, <1>8

LEMMA XScatterKeeps ==
  ASSUME FewFailures, NEW n \in Listings, XInv(n), NEW r \in XRanks, X(n)!Scatter(r)
  PROVE  XInv(n)'
<1> USE DEF XInv, X!Scatter
<1>1. xnum \in {n, 0 - 3}
  BY DEF XCounted
<1>2. /\ xpc' = [xpc EXCEPT ![r] = xpc'[r]] /\ xpc[r] = "scatter"
      /\ \/ xpc'[r] = "endless" /\ xleft' = xleft
         \/ /\ xpc'[r] = "extract" /\ xnum = n
            /\ xleft' = [xleft EXCEPT ![r] = XOwn(n, r)]
  BY <1>1, XConstants, XSame DEF XTypes
<1>3. \A s \in XRanks : xpc[s] \in XBefore
  BY <1>2 DEF XOneSide, XAfter
<1>4. XTypes(n)'
  <2>1. xpc'[r] \in XBefore
    BY <1>2 DEF XBefore
  <2>2. xpc' \in [XRanks -> XBefore \cup XAfter]
    BY <1>2, <2>1 DEF XTypes
  <2>3. xleft' \in [XRanks -> SUBSET XLines(n)]
    BY <1>2, XOwnLines DEF XTypes
  <2> QED  BY <2>2, <2>3 DEF XTypes
<1>5. XCounted(n)'
  BY <1>1, <1>2, <1>3, XConstants DEF XCounted, XTypes, XBefore, XAfter
<1>6. XOneSide'
  BY <1>2, <1>3 DEF XOneSide, XTypes, XBefore
<1>7. XTarRemoved'
  <2>1. xtar' = xtar /\ xpc[0] # "done" /\ xpc'[0] # "done"
    BY <1>2, <1>3, XConstants DEF XTypes, XBefore
  <2> QED  BY <2>1 DEF XTarRemoved
<1>8. XOwnWork(n)'
  BY <1>2 DEF XOwnWork, XTypes
<1>9. XExtracted(n)'
  BY <1>2 DEF XExtracted, XTypes
<1>10. XPacked(n)' /\ XUnpacked(n)'
  BY <1>2 DEF XPacked, XUnpacked, XTypes
<1> QED  BY <1>4, <1>5, <1>6, <1>7, <1>8, <1>9, <1>10

LEMMA XExtractKeeps ==
  ASSUME FewFailures, NEW n \in Listings, XInv(n), NEW r \in XRanks, NEW a \in xleft[r], X(n)!Extract(r, a)
  PROVE  XInv(n)'
<1> USE DEF XInv, X!Extract
<1>1. \A s \in XRanks : xpc[s] \in XBefore
  BY DEF XOneSide, XAfter
<1>2. xtar
  BY <1>1, XConstants DEF XTarRemoved, XBefore
<1>3. xgz' = xgz \cup ({a} \cap Archives)
  BY <1>2, XSame DEF FewFailures, X!Fail
<1>4. xpc' = xpc /\ xtar' = xtar /\ xout' = xout /\ xnum' = xnum
  OBVIOUS
<1>5. xleft' = [xleft EXCEPT ![r] = @ \ {a}]
  OBVIOUS
<1>6. XTypes(n)'
  <2>1. xfails' \in 0..MaxFails
    BY SystemAssumption DEF X!Fail, XTypes
  <2>2. xgz' \subseteq Archives
    BY <1>3 DEF XTypes
  <2> QED  BY <1>4, <1>5, <2>1, <2>2 DEF XTypes
<1>7. XCounted(n)' /\ XOneSide' /\ XTarRemoved'
  BY <1>4 DEF XCounted, XOneSide, XTarRemoved
<1>8. XOwnWork(n)'
  BY <1>5 DEF XOwnWork, XTypes
<1>9. XExtracted(n)'
  BY <1>3, <1>4, <1>5 DEF XExtracted, XTypes
<1>10. XPacked(n)' /\ XUnpacked(n)'
  BY <1>1, <1>4 DEF XPacked, XUnpacked, XBefore
<1> QED  BY <1>6, <1>7, <1>8, <1>9, <1>10

LEMMA XEndExtractKeeps ==
  ASSUME FewFailures, NEW n \in Listings, XInv(n), X(n)!EndExtract
  PROVE  XInv(n)'
<1> USE DEF XInv, X!EndExtract
<1>0. \A r \in XRanks : xpc[r] = "extract" /\ xleft[r] = {}
  BY XSame
<1>1. xnum = n
  BY <1>0, XConstants DEF XCounted
<1>2. xleft' = [r \in XRanks |-> XOwn(n, r)] /\ \A r \in XRanks : xpc'[r] \in {"crashed", "unpack"}
  BY <1>1, XSame
<1>3. \A r \in XRanks : \A a \in XOwn(n, r) \cap Archives : a \in xgz
  BY <1>0 DEF XExtracted
<1>4. XTypes(n)'
  <2>1. xpc' = [r \in XRanks |-> xpc'[r]]
    BY XSame
  <2>2. xpc' \in [XRanks -> XBefore \cup XAfter]
    BY <1>2, <2>1 DEF XAfter
  <2>3. xleft' \in [XRanks -> SUBSET XLines(n)]
    BY <1>2, XOwnLines
  <2> QED  BY <2>2, <2>3 DEF XTypes
<1>5. XCounted(n)' /\ XOneSide'
  BY <1>1, <1>2, XConstants DEF XCounted, XOneSide, XAfter
<1>6. XTarRemoved'
  <2>1. xtar' = xtar /\ xpc[0] # "done" /\ xpc'[0] # "done"
    BY <1>2, XConstants
  <2> QED  BY <2>1 DEF XTarRemoved
<1>7. XOwnWork(n)' /\ XExtracted(n)' /\ XPacked(n)' /\ XUnpacked(n)'
  BY <1>2, <1>3 DEF XOwnWork, XExtracted, XPacked, XUnpacked
<1> QED  BY <1>4, <1>5, <1>6, <1>7

LEMMA XUnpackKeeps ==
  ASSUME FewFailures, NEW n \in Listings, XInv(n), NEW r \in XRanks, NEW a \in xleft[r], X(n)!Unpack(r, a)
  PROVE  XInv(n)'
<1> USE DEF XInv, X!Unpack
<1>1. xpc' = xpc /\ xtar' = xtar /\ xgz' = xgz /\ xnum' = xnum
  OBVIOUS
<1>2. xleft' = [xleft EXCEPT ![r] = @ \ {a}]
  OBVIOUS
<1>3. a \in XOwn(n, r)
  BY DEF XOwnWork
<1>4. XTypes(n)'
  <2>1. xfails' \in 0..MaxFails
    BY SystemAssumption DEF X!Fail, XTypes
  <2>2. xleft' \in [XRanks -> SUBSET XLines(n)] /\ xout' \subseteq Archives
    BY <1>2 DEF XTypes
  <2> QED  BY <1>1, <2>1, <2>2 DEF XTypes
<1>5. XCounted(n)' /\ XOneSide' /\ XTarRemoved'
  BY <1>1 DEF XCounted, XOneSide, XTarRemoved
<1>6. XOwnWork(n)' /\ XExtracted(n)' /\ XPacked(n)'
  BY <1>1, <1>2 DEF XOwnWork, XExtracted, XPacked, XTypes
<1>7. XUnpacked(n)'
  <2>1. \/ xout' = xout \cup ({a} \cap xgz) /\ xfails' = xfails
        \/ xout' = xout /\ xfails = 0 /\ xfails' = 1
    BY SystemAssumption DEF X!Fail, FewFailures, XTypes
  <2> SUFFICES ASSUME NEW s \in XRanks, NEW b \in XOwn(n, s) \cap Archives
               PROVE  /\ xpc[s] = "unpack" /\ b \notin xleft'[s] => b \in xout' \/ xfails' = 1
                      /\ xpc[s] = "check" => b \in xout' \/ (xfails' = 1 /\ b \in xleft'[s])
                      /\ xpc[s] \in {"delete", "done"} => b \in xout'
    BY <1>1 DEF XUnpacked
  <2>2. CASE s = r /\ b = a
    BY <1>2, <2>1, <2>2 DEF XPacked, XUnpacked, XTypes
  <2>3. CASE ~ (s = r /\ b = a)
    <3>1. b \in xleft'[s] <=> b \in xleft[s]
      BY <1>2, <2>3 DEF XTypes
    <3>2. (b \in xout => b \in xout') /\ (xfails = 1 => xfails' = 1)
      BY <2>1
    <3> QED  BY <3>1, <3>2 DEF XUnpacked
  <2> QED  BY <2>2, <2>3
<1> QED  BY <1>4, <1>5, <1>6, <1>7

LEMMA XDeleteKeeps ==
  ASSUME FewFailures, NEW n \in Listings, XInv(n), NEW r \in XRanks, NEW a \in xleft[r], X(n)!Delete(r, a)
  PROVE  XInv(n)'
<1> USE DEF XInv, X!Delete
<1>1. xpc' = xpc /\ xtar' = xtar /\ xout' = xout /\ xnum' = xnum /\ xfails' = xfails
  OBVIOUS
<1>2. xleft' = [xleft EXCEPT ![r] = @ \ {a}] /\ xgz' = xgz \ {a} /\ xpc[r] = "delete"
  OBVIOUS
<1>3. \A s \in XRanks \ {r} : a \notin XOwn(n, s)
  <2>1. a \in XOwn(n, r) /\ a \in XLines(n)
    BY XOwnLines DEF XOwnWork
  <2> QED  BY <2>1, XOneOwner
<1>4. XTypes(n)'
  BY <1>1, <1>2 DEF XTypes
<1>5. XCounted(n)' /\ XOneSide' /\ XTarRemoved'
  BY <1>1 DEF XCounted, XOneSide, XTarRemoved
<1>6. XOwnWork(n)'
  BY <1>2 DEF XOwnWork, XTypes
<1>7. XExtracted(n)'
  BY <1>1, <1>2, <1>3 DEF XExtracted, XTypes
<1>8. XPacked(n)'
  BY <1>1, <1>2, <1>3 DEF XPacked
<1>9. XUnpacked(n)'
  BY <1>1, <1>2, <1>3 DEF XUnpacked, XTypes
<1> QED  BY <1>4, <1>5, <1>6, <1>7, <1>8, <1>9

LEMMA XEndLoopKeeps ==
  ASSUME FewFailures, NEW n \in Listings, XInv(n), NEW r \in XRanks, X(n)!EndLoop(r)
  PROVE  XInv(n)'
<1> USE DEF XInv, X!EndLoop
<1>1. xgz' = xgz /\ xout' = xout /\ xnum' = xnum /\ xfails' = xfails
  OBVIOUS
<1>2. /\ xleft[r] = {} /\ xpc' = [xpc EXCEPT ![r] = xpc'[r]]
      /\ xleft' = [xleft EXCEPT ![r] = IF xpc[r] = "delete" THEN {} ELSE XOwn(n, r)]
      /\ \/ xpc[r] = "unpack" /\ xpc'[r] = "check"
         \/ xpc[r] = "check" /\ xpc'[r] = "delete"
         \/ xpc[r] = "delete" /\ xpc'[r] = "done"
  <2>1. xnum = n
    BY DEF XCounted, XAfter
  <2>2. xpc' = [xpc EXCEPT ![r] = X(n)!NextLoop(xpc[r])] /\ r \in DOMAIN xpc
    BY DEF XTypes
  <2>3. xpc'[r] = X(n)!NextLoop(xpc[r])
    BY <2>2
  <2>4. \/ xpc[r] = "unpack" /\ xpc'[r] = "check"
        \/ xpc[r] = "check" /\ xpc'[r] = "delete"
        \/ xpc[r] = "delete" /\ xpc'[r] = "done"
    BY <2>3 DEF X!NextLoop
  <2> QED  BY <2>1, <2>2, <2>3, <2>4, XSame
<1>3. \A s \in XRanks : xpc[s] \in XAfter
  BY <1>2 DEF XOneSide, XBefore
<1>4. XTypes(n)'
  <2>1. xpc'[r] \in XAfter
    BY <1>2 DEF XAfter
  <2>2. xpc' \in [XRanks -> XBefore \cup XAfter]
    BY <1>2, <2>1 DEF XTypes
  <2>3. xleft' \in [XRanks -> SUBSET XLines(n)]
    BY <1>2, XOwnLines DEF XTypes
  <2>4. xtar' \in BOOLEAN
    BY DEF XTypes
  <2> QED  BY <1>1, <2>2, <2>3, <2>4 DEF XTypes
<1>5. XCounted(n)' /\ XOneSide'
  BY <1>1, <1>2, <1>3, XConstants DEF XCounted, XOneSide, XTypes, XAfter
<1>6. XTarRemoved'
  <2>1. CASE r = 0
    <3>1. xtar
      BY <1>2, <2>1 DEF XTarRemoved
    <3>2. xtar' <=> xpc[r] # "delete"
      BY <2>1, <3>1
    <3>3. xpc[r] = "delete" <=> xpc'[r] = "done"
      BY <1>2
    <3> QED  BY <2>1, <3>2, <3>3 DEF XTarRemoved
  <2>2. CASE r # 0
    <3>1. xpc'[0] = xpc[0]
      BY <1>2, <2>2, XConstants DEF XTypes
    <3> QED  BY <2>2, <3>1 DEF XTarRemoved
  <2> QED  BY <2>1, <2>2
<1>7. XOwnWork(n)' /\ XExtracted(n)' /\ XPacked(n)'
  BY <1>1, <1>2 DEF XOwnWork, XExtracted, XPacked, XTypes
<1>8. XUnpacked(n)'
  BY <1>1, <1>2 DEF XUnpacked, XTypes
<1> QED  BY <1>4, <1>5, <1>6, <1>7, <1>8
-----------------------------------------------------------------------------
LEMMA XStepKeeps ==
  ASSUME FewFailures, NEW n \in Listings, XInv(n), [X(n)!Next]_xvars
  PROVE  XInv(n)'
<1>1. CASE UNCHANGED xvars
  BY <1>1 DEF xvars, XInv, XTypes, XCounted, XOneSide, XTarRemoved, XOwnWork, XExtracted,
              XPacked, XUnpacked
<1>2. CASE X(n)!ReadIndex
  BY <1>2, XReadIndexKeeps
<1>3. CASE X(n)!EndExtract
  BY <1>3, XEndExtractKeeps
<1>4. CASE \E r \in XRanks : X(n)!Rank(r)
  BY <1>4, XScatterKeeps, XExtractKeeps, XUnpackKeeps, XDeleteKeeps, XEndLoopKeeps DEF X!Rank
<1>5. \/ X(n)!ReadIndex \/ X(n)!EndExtract \/ UNCHANGED xvars
      \/ \E r \in XRanks : X(n)!Rank(r)
  <2>1. UNCHANGED X(n)!vars => UNCHANGED xvars
    BY DEF X!vars, xvars
  <2>2. X(n)!Next => \/ X(n)!ReadIndex \/ X(n)!EndExtract \/ UNCHANGED xvars
                     \/ \E r \in XRanks : X(n)!Rank(r)
    BY <2>1, XSame DEF X!Next
  <2> QED  BY <2>2
<1> QED  BY <1>1, <1>2, <1>3, <1>4, <1>5
-----------------------------------------------------------------------------
(* Backup: what of the files is packed, and what is restored.               *)

\* The archives that are in the tar or beside it.
Held == xgz \cup (IF xtar THEN Archives ELSE {})

\* With more than one rank the tar that mpitar leaves has all files, but for
\* those of a tar process that failed.
LEMMA TarHasAll ==
  ASSUME N > 1
  PROVE  IInv /\ InStage(Removing) => Content(Archives) = Sure
<1> SUFFICES ASSUME IInv, InStage(Removing), NEW f \in Sure PROVE f \in Content(Archives)
  BY DEF Content
<1>1. DOMAIN tar = 1..Len(tar)
  BY DEF IInv, TypeInv
<1>2. /\ \A n \in 0..T + 2 : Stored(n)
      /\ \A i \in 1..Len(tar) : tar[i].name \in Archives => Complete(tar[i].name, tar[i].files)
  BY DEF IInv, AllStored
<1>3. f \in Files
  BY DEF Sure
<1>4. PICK a \in Archives : f % T = a
  <2>1. f \in Nat /\ T \in Nat \ {0}
    BY <1>3, Numbers DEF Files
  <2> QED  BY <2>1, DivMod DEF Archives
<1>5. a \notin Fragile /\ f \in ListOf(a, NFiles, T)
  <2>1. f \in ListOf(a, NFiles, T)
    BY <1>3, <1>4, Numbers, ListOfMembers DEF Archives, Files
  <2> QED  BY <2>1 DEF Sure
<1>6. PICK i \in 1..Len(tar) : tar[i].name = a
  <2>1. a \in 0..T + 2
    BY Numbers DEF Archives
  <2> QED  BY <1>2, <2>1 DEF Stored
<1>7. f \in ToSet(tar[i].files)
  BY <1>2, <1>5, <1>6 DEF Complete, HasList
<1> QED  BY <1>1, <1>6, <1>7 DEF Content

\* A step of the extraction restores files of archives that are there, or
\* drops archives whose files are restored.
LEMMA RestoresOrDrops ==
  ASSUME FewFailures, NEW n \in Listings, XInv(n), X(n)!Next
  PROVE  \/ Held' = Held /\ xout \subseteq xout' /\ xout' \subseteq xout \cup Held
         \/ xout' = xout /\ Held' \subseteq Held /\ Held \ Held' \subseteq xout
<1>1. xgz \subseteq Archives /\ X(n)!Archives = Archives /\ X(n)!Ranks = XRanks
  BY XSame DEF XInv, XTypes
<1>2. CASE UNCHANGED <<xgz, xtar, xout>>
  BY <1>2 DEF Held
<1>3. ASSUME NEW r \in XRanks, NEW a \in xleft[r], X(n)!Extract(r, a)
      PROVE  Held' = Held /\ xout' = xout
  BY <1>1, <1>3 DEF X!Extract, Held
<1>4. ASSUME NEW r \in XRanks, NEW a \in xleft[r], X(n)!Unpack(r, a)
      PROVE  Held' = Held /\ xout \subseteq xout' /\ xout' \subseteq xout \cup Held
  BY <1>4 DEF X!Unpack, Held
<1>5. ASSUME NEW r \in XRanks, NEW a \in xleft[r], X(n)!Delete(r, a)
      PROVE  xout' = xout /\ Held' \subseteq Held /\ Held \ Held' \subseteq xout
  <2>1. xgz' = xgz \ {a} /\ xtar' = xtar /\ xout' = xout /\ xpc[r] = "delete"
    BY <1>5 DEF X!Delete
  <2>2. a \in xgz => a \in xout
    BY <1>1, <2>1 DEF XInv, XOwnWork, XUnpacked
  <2> QED  BY <2>1, <2>2 DEF Held
<1>6. ASSUME NEW r \in XRanks, X(n)!EndLoop(r)
      PROVE  xout' = xout /\ Held' \subseteq Held /\ Held \ Held' \subseteq xout
  <2>1. xgz' = xgz /\ xout' = xout /\ (xtar' = xtar \/ (xtar' = FALSE /\ xpc[0] = "delete"))
    BY <1>6 DEF X!EndLoop, XInv, XTypes
  <2>2. CASE xtar' = xtar
    BY <2>1, <2>2 DEF Held
  <2>3. CASE xtar' = FALSE /\ xpc[0] = "delete"
    <3>1. \A s \in XRanks : xpc[s] \in XAfter
      BY <2>3, XConstants DEF XInv, XOneSide, XBefore
    <3>2. \A a \in Archives : a \in xgz \/ a \in xout
      <4> TAKE a \in Archives
      <4>1. PICK s \in XRanks : a \in XOwn(n, s)
        BY XOneOwner, XConstants
      <4> QED  BY <3>1, <4>1 DEF XInv, XPacked, XUnpacked, XAfter
    <3> QED  BY <1>1, <2>1, <2>3, <3>2 DEF Held
  <2> QED  BY <2>1, <2>2, <2>3
<1>7. \/ UNCHANGED <<xgz, xtar, xout>>
      \/ \E r \in XRanks : X(n)!EndLoop(r)
      \/ \E r \in XRanks : \E a \in xleft[r] : X(n)!Extract(r, a) \/ X(n)!Unpack(r, a) \/ X(n)!Delete(r, a)
  <2>1. X(n)!ReadIndex \/ X(n)!EndExtract \/ UNCHANGED X(n)!vars => UNCHANGED <<xgz, xtar, xout>>
    BY DEF X!ReadIndex, X!EndExtract, X!vars
  <2>2. ASSUME NEW r \in XRanks, X(n)!Scatter(r) PROVE UNCHANGED <<xgz, xtar, xout>>
    BY <2>2 DEF X!Scatter
  <2>3. X(n)!ReadIndex \/ X(n)!EndExtract \/ UNCHANGED X(n)!vars \/ \E r \in XRanks : X(n)!Rank(r)
    BY <1>1 DEF X!Next
  <2> QED  BY <2>1, <2>2, <2>3 DEF X!Rank
<1> QED  BY <1>2, <1>3, <1>4, <1>5, <1>6, <1>7
-----------------------------------------------------------------------------
\* The invariant of both: while the compression runs no file of the extraction
\* has been touched, and after it the tar stays as it is.
SysInv ==
  /\ IInv
  /\ phase \in {"compress", "extract"}
  /\ phase = "compress" => X(T)!Init
  /\ phase = "extract" => \A n \in Listings : n = Len(tar) - 3 => XInv(n)

LEMMA SysInitInv == SysInit => SysInv
BY InitInv DEF SysInit, SysInv

LEMMA SysStepInv ==
  ASSUME FewFailures, SysInv, [SysNext]_sysVars
  PROVE  SysInv'
<1>1. CASE Compress
  <2>1. IInv' /\ UNCHANGED <<phase, xvars>> /\ phase = "compress" /\ X(T)!Init
    BY <1>1, Preserved DEF Compress, SysInv
  <2>2. (X(T)!Init)'
    BY <2>1 DEF X!Init, xvars, X!Ranks
  <2> QED  BY <2>1, <2>2 DEF SysInv
<1>2. CASE StartExtraction
  <2>1. UNCHANGED <<vars, xvars>> /\ phase' = "extract" /\ X(T)!Init
    BY <1>2 DEF StartExtraction, SysInv
  <2>2. IInv' /\ tar' = tar
    BY <2>1, Preserved DEF SysInv, vars, packVars
  <2>3. (X(T)!Init)'
    BY <2>1 DEF X!Init, xvars, X!Ranks
  <2>4. ASSUME NEW n \in Listings PROVE XInv(n)'
    <3>1. X(T)!Init => XInv(n)
      BY XInitHolds
    <3>2. XInv(n)
      BY <2>1, <3>1
    <3> QED  BY <2>1, <3>2 DEF xvars, XInv, XTypes, XCounted, XOneSide, XTarRemoved, XOwnWork,
                XExtracted, XPacked, XUnpacked
  <2> QED  BY <2>1, <2>2, <2>4 DEF SysInv
<1>3. CASE Extract
  <2>1. PICK n \in Listings : phase = "extract" /\ n = Len(tar) - 3 /\ X(n)!Next
    BY <1>3 DEF Extract, Listed
  <2>2. UNCHANGED <<phase, vars>> /\ IInv'
    BY <1>3, Preserved DEF Extract, SysInv
  <2>3. tar' = tar /\ phase' = phase
    BY <2>2 DEF vars, packVars
  <2>4. XInv(n)'
    BY <2>1, XStepKeeps DEF SysInv
  <2> QED  BY <2>1, <2>2, <2>3, <2>4 DEF SysInv
<1>4. CASE UNCHANGED sysVars
  <2>1. UNCHANGED <<phase, vars, xvars>> /\ IInv' /\ tar' = tar
    BY <1>4, Preserved DEF sysVars, SysInv, vars, packVars
  <2>2. X(T)!Init => (X(T)!Init)'
    BY <2>1 DEF X!Init, xvars, X!Ranks
  <2>3. ASSUME NEW n \in Listings, XInv(n) PROVE XInv(n)'
    BY <2>1, <2>3, XStepKeeps
  <2> QED  BY <2>1, <2>2, <2>3 DEF SysInv
<1> QED  BY <1>1, <1>2, <1>3, <1>4 DEF SysNext

\* What files of archives are packed depends on the tar alone, and grows with
\* the archives.
LEMMA ContentOf ==
  ASSUME NEW As, NEW f
  PROVE  f \in Content(As) <=> f \in Sure /\ \E i \in DOMAIN tar : tar[i].name \in As /\ f \in ToSet(tar[i].files)
BY DEF Content

LEMMA ContentGrows ==
  ASSUME NEW As, NEW Bs
  PROVE  /\ Content(As \cup Bs) = Content(As) \cup Content(Bs)
         /\ As \subseteq Bs => Content(As) \subseteq Content(Bs)
<1>1. \A f : f \in Content(As \cup Bs) <=> f \in Content(As) \/ f \in Content(Bs)
  BY ContentOf
<1>2. As \subseteq Bs => \A f : f \in Content(As) => f \in Content(Bs)
  BY ContentOf
<1> QED  BY <1>1, <1>2

LEMMA StepsOfBackup ==
  ASSUME N > 1, FewFailures, SysInv, [SysNext]_sysVars
  PROVE  [B!Pack \/ B!Close \/ B!Restore \/ B!Drop]_B!vars
<1>1. CASE Compress
  <2>1. phase = "compress" /\ phase' = phase /\ IInv /\ Next /\ UNCHANGED xvars /\ X(T)!Init
    BY <1>1 DEF Compress, SysInv
  <2>2. xgz = {} /\ xtar = TRUE /\ xout = {} /\ UNCHANGED <<xgz, xtar, xout>>
    BY <2>1 DEF X!Init, xvars
  <2>3. UNCHANGED Content(xout) /\ Content(xgz \cup (IF xtar THEN Archives ELSE {}))' \in SUBSET Sure
    BY <2>2 DEF Content
  <2> QED  BY <2>1, <2>3 DEF B!Pack
<1>2. CASE StartExtraction
  <2>1. phase = "compress" /\ phase' = "extract" /\ Done /\ UNCHANGED <<vars, xvars>> /\ X(T)!Init /\ IInv
    BY <1>2 DEF StartExtraction, SysInv
  <2>2. xgz = {} /\ xtar = TRUE /\ tar' = tar /\ UNCHANGED <<xgz, xtar, xout>>
    BY <2>1 DEF X!Init, xvars, vars, packVars
  <2>3. InStage(Removing)
    BY <2>1 DEF Done, InStage, Removing
  <2>4. Content(Archives) = Sure
    BY <2>1, <2>3, TarHasAll
  <2>5. Content(xgz \cup (IF xtar THEN Archives ELSE {})) = Sure
    BY <2>2, <2>4
  <2>6. UNCHANGED <<Content(xgz \cup (IF xtar THEN Archives ELSE {})), Content(xout)>>
    BY <2>2 DEF Content
  <2> QED  BY <2>1, <2>5, <2>6 DEF B!Close
<1>3. CASE Extract
  <2>1. PICK n \in Listings : phase = "extract" /\ n = Len(tar) - 3 /\ X(n)!Next
    BY <1>3 DEF Extract, Listed
  <2>2. UNCHANGED <<phase, vars>> /\ tar' = tar /\ XInv(n)
    BY <1>3, <2>1 DEF Extract, SysInv, vars, packVars
  <2>3. Content(xgz \cup (IF xtar THEN Archives ELSE {})) = Content(Held)
    BY DEF Held
  <2>4. /\ Content(xgz \cup (IF xtar THEN Archives ELSE {}))' = Content(Held')
        /\ Content(xout)' = Content(xout')
    BY <2>2 DEF Held, Content
  <2>5. CASE Held' = Held /\ xout \subseteq xout' /\ xout' \subseteq xout \cup Held
    <3>1. Content(xout) \subseteq Content(xout')
      BY <2>5, ContentGrows
    <3>2. Content(xout') \subseteq Content(xout \cup Held)
      BY <2>5, ContentGrows
    <3>3. Content(xout') \subseteq Content(xout) \cup Content(Held)
      BY <3>2, ContentGrows
    <3>4. \E S \in SUBSET Content(Held) : Content(xout') = Content(xout) \cup S
      <4>1. Content(xout') = Content(xout) \cup (Content(xout') \cap Content(Held))
        BY <3>1, <3>3
      <4> QED  BY <4>1
    <3>5. Content(Held') = Content(Held)
      BY <2>5
    <3>6. B!Restore
      BY <2>1, <2>2, <2>3, <2>4, <3>4, <3>5 DEF B!Restore
    <3> QED  BY <3>6
  <2>6. CASE xout' = xout /\ Held' \subseteq Held /\ Held \ Held' \subseteq xout
    <3>1. Held = Held' \cup (Held \ Held')
      BY <2>6
    <3>2. Content(Held) = Content(Held') \cup Content(Held \ Held')
      BY <3>1, ContentGrows
    <3>3. Content(Held \ Held') \subseteq Content(xout)
      BY <2>6, ContentGrows
    <3>4. \E S \in SUBSET Content(xout) : Content(Held') = Content(Held) \ S
      <4>1. Content(Held') = Content(Held) \ (Content(Held) \ Content(Held'))
        BY <3>2
      <4>2. Content(Held) \ Content(Held') \subseteq Content(xout)
        BY <3>2, <3>3
      <4> QED  BY <4>1, <4>2
    <3>5. Content(xout') = Content(xout)
      BY <2>6
    <3>6. B!Drop
      BY <2>1, <2>2, <2>3, <2>4, <3>4, <3>5 DEF B!Drop
    <3> QED  BY <3>6
  <2> QED  BY <2>1, <2>2, <2>5, <2>6, RestoresOrDrops
<1>4. CASE UNCHANGED sysVars
  <2>1. UNCHANGED <<phase, tar, xgz, xtar, xout>>
    BY <1>4 DEF sysVars, vars, packVars, xvars
  <2>2. UNCHANGED <<phase, Content(xgz \cup (IF xtar THEN Archives ELSE {})), Content(xout)>>
    BY <2>1 DEF Content
  <2> QED  BY <2>2 DEF B!vars
<1> QED  BY <1>1, <1>2, <1>3, <1>4 DEF SysNext

\* With more than one rank, wherever the compression was ended and started
\* again, and if at most one tar process of the extraction fails and none that
\* takes an archive out: a tar that the ranks have finished and that is handed
\* to the extraction has all the files, whatever was in it before, and the
\* extraction drops no file that is not restored (ptgz-mpi.cpp:437-535,
\* 617-711).
THEOREM NothingDroppedUnrestored ==
  ASSUME N > 1, FewFailures
  PROVE  SysSpec => BackupSpec
<1>1. SysInit => B!Init
  BY DEF SysInit, Init, B!Init, X!Init, Content
<1>2. SysInv /\ [SysNext]_sysVars => SysInv'
  BY SysStepInv
<1>3. SysInv /\ [SysNext]_sysVars => [B!Pack \/ B!Close \/ B!Restore \/ B!Drop]_B!vars
  BY StepsOfBackup
<1>4. SysInit => SysInv
  BY SysInitInv
<1> QED  BY <1>1, <1>2, <1>3, <1>4, PTL DEF SysSpec, BackupSpec, B!Spec
-----------------------------------------------------------------------------
(* The length of the index that the extraction reads.                       *)

\* Every start adds its names to ptgz.idx once, before mpitar, or a part of them.
Early == Preparing \cup Building \cup {"list_archives", "close_index"}
NoMore(len, k) == len <= k * (T + 3)
IndexBound ==
  /\ runs \in 1..MaxRuns
  /\ NoMore(Len(ptgzIdx), IF pc[0] \in Early THEN runs - 1 ELSE runs)
  /\ pc[0] \in {"mpitar", "packing"} => T + 3 <= Len(ptgzIdx)
  /\ N > 1 /\ InStage(Removing) => T + 3 <= Len(tar) /\ NoMore(Len(tar), MaxRuns)

\* More starts leave room for as many names more.
LEMMA NoMoreMonotone ==
  ASSUME NEW k \in Nat, NEW m \in Nat, k <= m
  PROVE  /\ k * (T + 3) <= m * (T + 3)
         /\ (k + 1) * (T + 3) = k * (T + 3) + (T + 3)
         /\ k * (T + 3) \in Nat /\ m * (T + 3) \in Nat
<1>1. PICK t \in Nat : t = T + 3
  BY Numbers
<1>2. PICK d \in Nat : m = k + d
  <2>1. m - k \in Nat /\ m = k + (m - k)
    OBVIOUS
  <2> QED  BY <2>1
<1>3. k * t \in Nat /\ d * t \in Nat /\ (k + d) * t = k * t + d * t /\ (k + 1) * t = k * t + t
  OBVIOUS
<1> QED  BY <1>1, <1>2, <1>3

LEMMA IndexBoundInit == Init => IndexBound
<1> SUFFICES ASSUME Init PROVE IndexBound
  OBVIOUS
<1>1. runs = 1 /\ Len(ptgzIdx) = 0 /\ pc[0] = "lists"
  BY Numbers, EmptySeq DEF Init, StartPC
<1>2. runs \in 1..MaxRuns
  BY <1>1, RunsAssumption
<1>3. NoMore(Len(ptgzIdx), runs - 1)
  <2>1. 0 * (T + 3) = 0 /\ runs - 1 = 0
    BY <1>1, Numbers
  <2> QED  BY <1>1, <2>1 DEF NoMore
<1>4. pc[0] \in Early /\ ~ InStage(Removing) /\ pc[0] \notin {"mpitar", "packing"}
  BY <1>1, Numbers DEF Early, Preparing, InStage, Removing
<1> QED  BY <1>2, <1>3, <1>4 DEF IndexBound

\* A step that leaves the index and the tar where they are.
LEMMA IndexBoundQuiet ==
  ASSUME IndexBound, UNCHANGED <<runs, ptgzIdx, tar>>,
         pc'[0] \in Early <=> pc[0] \in Early,
         pc'[0] \in {"mpitar", "packing"} => pc[0] \in {"mpitar", "packing"},
         InStage(Removing)' => InStage(Removing)
  PROVE  IndexBound'
<1>1. (pc'[0] \in Early) = (pc[0] \in Early)
  OBVIOUS
<1> QED  BY <1>1 DEF IndexBound, NoMore

LEMMA IndexBoundClosed ==
  ASSUME IInv, IndexBound, CloseIndex
  PROVE  IndexBound'
<1>1. PICK n \in JoinedArchives : ptgzIdx' = Appended(ptgzIdx, IdxLines, n)
  BY DEF CloseIndex
<1>2. /\ Len(ptgzIdx') \in Nat /\ Len(ptgzIdx') <= Len(ptgzIdx) + (T + 3) /\ T + 3 <= Len(ptgzIdx')
  <2>1. Behind(Names, ptgzIdx, IdxLines, n, ptgzIdx') /\ Len(IdxLines) = T + 3
    BY <1>1, NamesListed, IdxLinesFacts
  <2> QED  BY <2>1 DEF Behind
<1>3. /\ UNCHANGED <<runs, tar>> /\ pc'[0] = "mpitar" /\ pc[0] \in Early /\ InStage(Packing)'
  <2>1. /\ UNCHANGED <<runs, tar>> /\ pc' = [pc EXCEPT ![0] = "mpitar"] /\ pc[0] = "close_index"
        /\ pc[0] \in Packing /\ "mpitar" \in Packing
    BY DEF CloseIndex, packVars, Packing
  <2> QED  BY <2>1, RootMoves DEF Early
<1>4. runs \in Nat \ {0} /\ Len(ptgzIdx) \in Nat
  BY RunsAssumption, LenProperties DEF IndexBound, IInv, TypeInv
<1>5. NoMore(Len(ptgzIdx'), runs)
  <2>1. Len(ptgzIdx) <= (runs - 1) * (T + 3)
    BY <1>3 DEF IndexBound, NoMore
  <2>2. PICK k \in Nat : k = runs - 1 /\ k + 1 = runs
    BY <1>4
  <2>3. (k + 1) * (T + 3) = k * (T + 3) + (T + 3) /\ k * (T + 3) \in Nat
    BY NoMoreMonotone
  <2>4. PICK x \in Nat, y \in Nat : x = k * (T + 3) /\ y = T + 3
    BY <2>3, Numbers
  <2> QED  BY <1>2, <1>4, <2>1, <2>2, <2>3, <2>4 DEF NoMore
<1>6. pc'[0] \notin Early /\ ~ InStage(Removing)'
  BY <1>3, Numbers DEF Early, Preparing, Building, InStage, Removing
<1> QED  BY <1>2, <1>3, <1>5, <1>6 DEF IndexBound

LEMMA IndexBoundRemoval ==
  ASSUME IInv, IndexBound, Refused \/ CloseTar
  PROVE  IndexBound'
<1>1. /\ UNCHANGED <<runs, ptgzIdx, tar>> /\ pc'[0] = "remove" /\ pc[0] \in {"mpitar", "packing"}
      /\ N > 1 => Len(tar) = Len(ptgzIdx)
  BY Numbers DEF Refused, CloseTar, StartRemoval, tempVars, packVars
<1>2. pc[0] \notin Early /\ pc'[0] \notin Early
  BY <1>1 DEF Early, Preparing, Building
<1>3. NoMore(Len(ptgzIdx), runs) /\ T + 3 <= Len(ptgzIdx) /\ runs \in 1..MaxRuns
  BY <1>1, <1>2 DEF IndexBound
<1>4. NoMore(Len(ptgzIdx), MaxRuns)
  <2>1. runs \in Nat /\ MaxRuns \in Nat /\ runs <= MaxRuns /\ Len(ptgzIdx) \in Nat
    BY <1>3, RunsAssumption, LenProperties DEF IInv, TypeInv
  <2>2. PICK x \in Nat, y \in Nat : x = runs * (T + 3) /\ y = MaxRuns * (T + 3) /\ x <= y
    BY <2>1, NoMoreMonotone
  <2> QED  BY <1>3, <2>1, <2>2 DEF NoMore
<1> QED  BY <1>1, <1>2, <1>3, <1>4 DEF IndexBound, NoMore

LEMMA IndexBoundKept ==
  ASSUME IInv, IndexBound, [Next]_vars
  PROVE  IndexBound'
<1>1. CASE UNCHANGED vars \/ IOExit \/ NameMissing
  <2>1. UNCHANGED <<runs, ptgzIdx, tar, pc>>
    BY <1>1 DEF vars, IOExit, NameMissing, rankVars, tempVars, packVars
  <2> QED  BY <2>1, IndexBoundQuiet DEF InStage
<1>2. ASSUME NEW a \in Archives, WriteList(a) PROVE IndexBound'
  <2>1. UNCHANGED <<runs, ptgzIdx, tar, pc>>
    BY <1>2 DEF WriteList, tempVars, packVars
  <2> QED  BY <2>1, IndexBoundQuiet DEF InStage
<1>3. CASE EndTurn \/ AllBuilt \/ MakeScript
  <2>1. UNCHANGED <<runs, ptgzIdx, tar>> /\ pc[0] \in {"turn_end", "built", "list_archives"}
    BY <1>3, Numbers DEF EndTurn, AllBuilt, MakeScript, tempVars, packVars
  <2>2. pc'[0] \in {"turn_end", "index", "build", "list_archives", "close_index"}
    BY <1>3, <2>1, Numbers DEF EndTurn, AllBuilt, MakeScript, IInv, TypeInv
  <2>3. pc[0] \in Early /\ pc'[0] \in Early /\ pc'[0] \notin {"mpitar", "packing"}
    BY <2>1, <2>2 DEF Early, Preparing, Building
  <2>4. ~ InStage(Removing)'
    BY <2>2, Numbers DEF InStage, Removing
  <2> QED  BY <2>1, <2>3, <2>4, IndexBoundQuiet
<1>4. CASE OpenTar \/ StoreMembers
  <2>1. /\ UNCHANGED <<runs, ptgzIdx>> /\ pc[0] \in {"mpitar", "packing"} /\ pc'[0] = "packing"
    BY <1>4, Numbers DEF OpenTar, StoreMembers, rankVars, tempVars
  <2>2. pc[0] \notin Early /\ pc'[0] \notin Early /\ ~ InStage(Removing)'
    BY <2>1, Numbers DEF Early, Preparing, Building, InStage, Removing
  <2> QED  BY <2>1, <2>2 DEF IndexBound, NoMore
<1>5. CASE Together
  BY <1>1, <1>2, <1>3, <1>4, <1>5, IndexBoundClosed, IndexBoundRemoval DEF Together, Return
<1>6. ASSUME NEW r \in Ranks, Scatter(r) \/ WriteIndex(r) \/ EndBuild(r) PROVE IndexBound'
  <2>1. UNCHANGED <<runs, ptgzIdx, tar>>
    BY <1>6 DEF Scatter, WriteIndex, EndBuild, tempVars, packVars
  <2>2. PICK there \in Preparing \cup Building : pc' = [pc EXCEPT ![r] = there] /\ pc[r] \in Preparing \cup Building
    BY <1>6 DEF Scatter, EnterTurns, WriteIndex, EndBuild, Preparing, Building
  <2>3. /\ pc'[r] = there /\ \A s \in Ranks : s # r => pc'[s] = pc[s]
    BY <2>2 DEF IInv, TypeInv
  <2>4. (pc'[0] \in Early <=> pc[0] \in Early) /\ (pc'[0] \in {"mpitar", "packing"} => pc[0] \in {"mpitar", "packing"})
    BY <2>2, <2>3, Numbers DEF Early, Preparing, Building
  <2>5. ~ InStage(Removing)'
    BY <2>3 DEF InStage, Preparing, Building, Removing
  <2> QED  BY <2>1, <2>4, <2>5, IndexBoundQuiet
<1>7. ASSUME NEW r \in Ranks, NEW a \in left[r], Build(r, a) \/ RemoveTemp(r, a) PROVE IndexBound'
  <2>1. UNCHANGED <<runs, ptgzIdx, tar, pc>>
    BY <1>7 DEF Build, RemoveTemp, tempVars, packVars
  <2> QED  BY <2>1, IndexBoundQuiet DEF InStage
<1>8. ASSUME NEW r \in Ranks, Finish(r) PROVE IndexBound'
  <2>1. UNCHANGED <<runs, tar>> /\ pc' = [pc EXCEPT ![r] = "done"] /\ pc[r] = "remove"
    BY <1>8 DEF Finish
  <2>2. InStage(Removing) /\ InStage(Removing)'
    BY <2>1, SameStage, StaysInStage DEF IInv, Stages, Removing
  <2>3. pc[0] \notin Early /\ pc'[0] \notin Early /\ pc'[0] \notin {"mpitar", "packing"}
    BY <2>2, Numbers DEF InStage, Early, Preparing, Building, Removing
  <2>4. ptgzIdx' = ptgzIdx \/ Len(ptgzIdx') = 0
    BY <1>8, EmptySeq DEF Finish, tempVars
  <2>5. 0 <= runs * (T + 3)
    <3>1. runs \in Nat
      BY RunsAssumption DEF IndexBound
    <3>2. PICK x \in Nat : x = runs * (T + 3)
      BY <3>1, NoMoreMonotone
    <3> QED  BY <3>2
  <2> QED  BY <2>1, <2>2, <2>3, <2>4, <2>5 DEF IndexBound, NoMore
<1>9. CASE \E r \in Ranks : Rank(r)
  BY <1>6, <1>7, <1>8, <1>9 DEF Rank
<1>10. CASE Rerun
  <2>1. /\ runs \in 1..MaxRuns /\ runs < MaxRuns /\ runs' = runs + 1 /\ MaxRuns \in Nat
    BY <1>10, RunsAssumption DEF Rerun, IndexBound
  <2>2. runs' \in 1..MaxRuns /\ runs' - 1 = runs /\ runs \in Nat /\ runs - 1 \in Nat
    BY <2>1
  <2>3. pc'[0] = "lists"
    BY <1>10, Numbers DEF Rerun, StartPC
  <2>4. pc'[0] \in Early /\ ~ InStage(Removing)'
    BY <2>3, Numbers DEF Early, Preparing, InStage, Removing
  <2>5. NoMore(Len(ptgzIdx'), runs)
    <3>1. PICK k \in Nat : k = runs - 1 /\ k + 1 = runs /\ k <= runs
      BY <2>2
    <3>2. /\ k * (T + 3) <= runs * (T + 3) /\ (k + 1) * (T + 3) = k * (T + 3) + (T + 3)
          /\ k * (T + 3) \in Nat /\ runs * (T + 3) \in Nat
      BY <2>2, <3>1, NoMoreMonotone
    <3>3. PICK x \in Nat : x = k * (T + 3)
      BY <3>2
    <3>4. x <= runs * (T + 3) /\ runs * (T + 3) = x + (T + 3) /\ T \in Nat
      BY <3>1, <3>2, <3>3, Numbers
    <3>5. /\ Len(ptgzIdx') \in Nat /\ Len(ptgzIdx') <= Len(ptgzIdx) + (T + 3)
          /\ pc[0] \notin {"list_archives", "close_index"} => ptgzIdx' = ptgzIdx
      BY <1>10, IndexAfterKill
    <3>6. Len(ptgzIdx) \in Nat
      BY LenProperties DEF IInv, TypeInv
    <3>7. CASE pc[0] \in Early
      <4>1. Len(ptgzIdx) <= x
        BY <3>1, <3>3, <3>7 DEF IndexBound, NoMore
      <4> QED  BY <3>3, <3>4, <3>5, <3>6, <4>1 DEF NoMore
    <3>8. CASE pc[0] \notin Early
      <4>1. ptgzIdx' = ptgzIdx
        BY <3>5, <3>8 DEF Early
      <4>2. NoMore(Len(ptgzIdx), runs)
        BY <3>8 DEF IndexBound
      <4> QED  BY <4>1, <4>2
    <3> QED  BY <3>7, <3>8
  <2> QED  BY <2>2, <2>3, <2>4, <2>5 DEF IndexBound
<1> QED  BY <1>1, <1>5, <1>9, <1>10 DEF Next

\* The extraction is of what a compression left that has ended.
Handed == phase = "extract" => Done

LEMMA TarHandedOver == SysSpec => [](IInv /\ IndexBound /\ Handed)
<1> DEFINE J == IInv /\ IndexBound /\ Handed
<1>1. SysInit => J
  BY InitInv, IndexBoundInit DEF SysInit, Handed
<1>2. ASSUME J, [SysNext]_sysVars PROVE J'
  <2>1. [Next]_vars /\ (UNCHANGED vars \/ (phase = "compress" /\ phase' = phase))
    BY <1>2 DEF SysNext, Compress, StartExtraction, Extract, sysVars
  <2>2. IInv' /\ IndexBound'
    BY <1>2, <2>1, Preserved, IndexBoundKept
  <2>3. CASE phase = "compress" /\ phase' = phase
    BY <2>2, <2>3 DEF Handed
  <2>4. CASE UNCHANGED vars
    <3>1. Done => Done'
      BY <2>4 DEF vars, rankVars, Done
    <3>2. phase' = "extract" => phase = "extract" \/ Done
      BY <1>2 DEF SysNext, Compress, StartExtraction, Extract, sysVars
    <3> QED  BY <1>2, <2>2, <3>1, <3>2 DEF Handed
  <2> QED  BY <2>1, <2>3, <2>4
<1>3. J /\ [SysNext]_sysVars => J'
  BY <1>2
<1> QED  BY <1>1, <1>3, PTL DEF SysSpec

LEMMA IndexOfTar ==
  ASSUME N > 1, IInv, IndexBound, Handed, phase = "extract"
  PROVE  InStage(Removing) /\ \E n \in Listings : Listed(n)
<1>1. InStage(Removing)
  BY DEF Handed, Done, InStage, Removing
<1>2. T + 3 <= Len(tar) /\ Len(tar) <= MaxRuns * (T + 3) /\ Len(tar) \in Nat /\ T \in Nat
  BY <1>1, Numbers, LenProperties DEF IndexBound, NoMore, IInv, TypeInv
<1>3. PICK x \in Nat : x = MaxRuns * (T + 3)
  BY RunsAssumption, NoMoreMonotone
<1>4. Len(tar) - 3 \in T..x - 3
  BY <1>2, <1>3
<1>5. Len(tar) - 3 \in Listings
  BY <1>3, <1>4 DEF Listings
<1> QED  BY <1>1, <1>5 DEF Listed

\* With more than one rank, few failures and any number of restarts: when all
\* ranks of the extraction are done, every file that tar could pack is back
\* (ptgz-mpi.cpp:401-711).
THEOREM AllFilesReturn ==
  ASSUME N > 1, FewFailures
  PROVE  SysSpec => [](phase = "extract" /\ (\A r \in 0..NX - 1 : xpc[r] = "done") => Content(xout) = Sure)
<1>1. ASSUME IInv, IndexBound, Handed, SysInv, phase = "extract", \A r \in 0..NX - 1 : xpc[r] = "done"
      PROVE  Content(xout) = Sure
  <2>1. PICK n \in Listings : Listed(n)
    BY <1>1, IndexOfTar
  <2>2. XInv(n)
    BY <1>1, <2>1 DEF SysInv, Listed
  <2>3. \A a \in Archives : a \in xout
    <3> TAKE a \in Archives
    <3>1. PICK r \in XRanks : a \in XOwn(n, r)
      BY XOneOwner, XConstants
    <3> QED  BY <1>1, <2>2, <3>1 DEF XInv, XUnpacked, XRanks
  <2>4. xout = Archives
    BY <2>2, <2>3 DEF XInv, XTypes
  <2>5. InStage(Removing)
    BY <1>1, IndexOfTar
  <2> QED  BY <1>1, <2>4, <2>5, TarHasAll
<1>2. IInv /\ IndexBound /\ Handed /\ SysInv =>
        (phase = "extract" /\ (\A r \in 0..NX - 1 : xpc[r] = "done") => Content(xout) = Sure)
  BY <1>1
<1>3. SysInv /\ [SysNext]_sysVars => SysInv'
  BY SysStepInv
<1> QED  BY <1>2, <1>3, SysInitInv, TarHandedOver, PTL DEF SysSpec
=============================================================================

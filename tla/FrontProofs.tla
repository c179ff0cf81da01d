----------------------------- MODULE FrontProofs -----------------------------
(* What is proved of the front ends for every number of ranks, directory tree, *)
(* list and command line.                                                     *)
EXTENDS Front, SequenceTheorems, FunctionTheorems, FiniteSetTheorems, TLAPS

Arith == INSTANCE PartitionProofs

Places == {"help", "settings", "paths", "walk", "barrier", "compress", "extract",
           "exit", "undefined", "divided by zero", "mpitar"}
AllSettings == [extract : BOOLEAN, compress : BOOLEAN, keep : BOOLEAN, output : BOOLEAN,
                remote : BOOLEAN, directory : Strings, name : Strings]
Paths  == Seq(Strings)
Frames == [dir : Paths, rest : Seq(Strings), num : {0, 1}]

MainTypes ==
  /\ args \in Seq(Strings) /\ at \in [Ranks -> Places]
  /\ queue \in [Ranks -> Seq(Strings)] /\ instance \in [Ranks -> AllSettings]
  /\ walk \in Seq(Frames) /\ filePaths \in Seq(Paths)

\* What a rank has left and what it has set, after one option more.
Advance(q, s) ==
  LET f == Head(q)
  IN  << SubSeq(q, IF f \in {"-d", "-l"} THEN 3 ELSE 2, Len(q)),
         IF f \in Flags
         THEN [s EXCEPT !.extract = (@ \/ f = "-x"), !.compress = (@ \/ f = "-c"),
                        !.keep = (@ \/ f = "-k"), !.output = (@ \/ f = "-o")]
         ELSE IF f = "-d" THEN [s EXCEPT !.remote = TRUE, !.directory = q[2]]
         ELSE IF f = "-l" THEN s
         ELSE [s EXCEPT !.output = TRUE, !.name = f] >>

\* Where a rank leaves getSettings for.
LeftFor(r, p) ==
  /\ at' = [at EXCEPT ![r] = p] /\ p \in {"exit", "undefined", "paths", "barrier"}
  /\ p \in {"paths", "barrier"} => queue[r] = << >>
  /\ p = "paths" <=> r = 0 /\ p # "exit" /\ p # "undefined" /\ instance[r].compress
  /\ UNCHANGED <<queue, instance>>
Advances(r) ==
  /\ queue[r] # << >> /\ UNCHANGED at
  /\ Advance(queue[r], instance[r])[1] \in Seq(Strings)
  /\ Advance(queue[r], instance[r])[2] \in AllSettings
  /\ queue' = [queue EXCEPT ![r] = Advance(queue[r], instance[r])[1]]
  /\ instance' = [instance EXCEPT ![r] = Advance(queue[r], instance[r])[2]]

LEMMA Taken ==
  ASSUME NEW r \in Ranks, MainTypes, NEW n \in {1, 2}, NEW s \in AllSettings,
         Arguments(r, n), Take(r, n, s), Advance(queue[r], instance[r]) = <<SubSeq(queue[r], n + 1, Len(queue[r])), s>>
  PROVE  Advances(r) /\ UNCHANGED <<args, walk, filePaths, mpiVars>>
<1>1. PICK q \in Seq(Strings) : q = queue[r]
  BY DEF MainTypes
<1>2. PICK l \in Nat : l = Len(q) /\ l >= n
  BY <1>1 DEF Arguments
<1>3. q # << >>
  BY <1>2, EmptySeq
<1>4. SubSeq(q, n + 1, l) \in Seq(Strings)
  <2>1. n + 1 \in 1..l + 1 /\ l \in n + 1 - 1..l
    BY <1>2
  <2> QED  BY <1>1, <1>2, <2>1, SubSeqProperties
<1>5. Advance(queue[r], instance[r])[1] = SubSeq(q, n + 1, l) /\ Advance(queue[r], instance[r])[2] = s
  BY <1>1, <1>2
<1> QED  BY <1>1, <1>2, <1>3, <1>4, <1>5 DEF Take, Advances

LEMMA Reads ==
  ASSUME NEW r \in Ranks, MainTypes, GetSettings(r)
  PROVE  /\ at[r] = "settings" /\ UNCHANGED <<args, walk, filePaths, mpiVars>>
         /\ Advances(r) \/ \E p \in Places : LeftFor(r, p)
<1> PICK q \in Seq(Strings), s \in AllSettings : q = queue[r] /\ s = instance[r]
  BY DEF MainTypes
<1>1. CASE Flag(r)
  <2>1. CASE Leave(r, "exit")
    BY <1>1, <2>1 DEF Flag, Arguments, Leave, Move, LeftFor, Places
  <2> DEFINE t == [s EXCEPT !.extract = (@ \/ Head(q) = "-x"), !.compress = (@ \/ Head(q) = "-c"),
                            !.keep = (@ \/ Head(q) = "-k"), !.output = (@ \/ Head(q) = "-o")]
  <2>2. CASE Take(r, 1, t)
    <3>1. t \in AllSettings
      <4>1. PICK a \in BOOLEAN, b \in BOOLEAN, c \in BOOLEAN, d \in BOOLEAN :
              /\ a = (s.extract \/ Head(q) = "-x") /\ b = (s.compress \/ Head(q) = "-c")
              /\ c = (s.keep \/ Head(q) = "-k") /\ d = (s.output \/ Head(q) = "-o")
        OBVIOUS
      <4>2. t = [s EXCEPT !.extract = a, !.compress = b, !.keep = c, !.output = d]
        BY <4>1
      <4>3. [s EXCEPT !.extract = a, !.compress = b, !.keep = c, !.output = d] \in AllSettings
        BY DEF AllSettings
      <4> QED  BY <4>2, <4>3
    <3>2. Head(q) \in Flags /\ Head(q) \notin {"-d", "-l"}
      BY <1>1 DEF Flag, Flags
    <3>3. Advance(q, s) = <<SubSeq(q, 1 + 1, Len(q)), t>>
      BY <3>2 DEF Advance
    <3> HIDE DEF t
    <3>4. at[r] = "settings" /\ Arguments(r, 1)
      BY <1>1 DEF Flag, Arguments
    <3> QED  BY <2>2, <3>1, <3>3, <3>4, Taken
  <2> QED  BY <1>1, <2>1, <2>2 DEF Flag
<1>2. CASE NoValue(r)
  BY <1>2 DEF NoValue, Valued, Arguments, Leave, Move, LeftFor, Places
<1>3. CASE Directory(r)
  <2> DEFINE t == [s EXCEPT !.remote = TRUE, !.directory = q[2]]
  <2>1. Take(r, 2, t) /\ Arguments(r, 2) /\ Head(q) = "-d"
    BY <1>3 DEF Directory, Valued
  <2>2. t \in AllSettings
    <3>1. q[2] \in Strings
      BY <2>1 DEF Arguments
    <3> QED  BY <3>1 DEF AllSettings
  <2>3. Advance(q, s) = <<SubSeq(q, 2 + 1, Len(q)), t>>
    <3>1. Head(q) = "-d" /\ Head(q) \notin Flags /\ Head(q) \in {"-d", "-l"} /\ 2 + 1 = 3
      BY <2>1 DEF Flags
    <3> HIDE DEF t
    <3>2. t = [s EXCEPT !.remote = TRUE, !.directory = q[2]]
      BY DEF t
    <3> QED  BY <3>1, <3>2 DEF Advance
  <2> HIDE DEF t
  <2>4. at[r] = "settings"
    BY <2>1 DEF Arguments
  <2> QED  BY <2>1, <2>2, <2>3, <2>4, Taken
<1>4. CASE SetLevel(r)
  <2>1. CASE Leave(r, "exit")
    BY <1>4, <2>1 DEF SetLevel, Valued, Arguments, Leave, Move, LeftFor, Places
  <2>2. CASE Take(r, 2, s)
    <3>1. Arguments(r, 2) /\ Head(q) = "-l"
      BY <1>4 DEF SetLevel, Valued
    <3>2. Advance(q, s) = <<SubSeq(q, 2 + 1, Len(q)), s>>
      <4>1. Head(q) = "-l" /\ Head(q) \notin Flags /\ Head(q) # "-d" /\ Head(q) \in {"-d", "-l"} /\ 2 + 1 = 3
        BY <3>1 DEF Flags
      <4> QED  BY <4>1 DEF Advance
    <3>3. at[r] = "settings"
      BY <3>1 DEF Arguments
    <3> QED  BY <2>2, <3>1, <3>2, <3>3, Taken
  <2> QED  BY <1>4, <2>1, <2>2 DEF SetLevel
<1>5. CASE ArchiveName(r)
  <2>1. CASE Leave(r, "exit")
    BY <1>5, <2>1 DEF ArchiveName, Arguments, Leave, Move, LeftFor, Places
  <2> DEFINE t == [s EXCEPT !.output = TRUE, !.name = Head(q)]
  <2>2. CASE Take(r, 1, t)
    <3>1. Arguments(r, 1) /\ Head(q) \notin Flags \cup {"-d", "-l"}
      BY <1>5 DEF ArchiveName
    <3>2. t \in AllSettings
      <4>1. Head(q) \in Strings
        BY <3>1, EmptySeq DEF Arguments
      <4> QED  BY <4>1 DEF AllSettings
    <3>3. Advance(q, s) = <<SubSeq(q, 1 + 1, Len(q)), t>>
      <4>1. Head(q) \notin Flags /\ Head(q) # "-d" /\ Head(q) # "-l" /\ Head(q) \notin {"-d", "-l"} /\ 1 + 1 = 2
        BY <3>1
      <4> QED  BY <4>1 DEF Advance
    <3> HIDE DEF t
    <3>4. at[r] = "settings"
      BY <3>1 DEF Arguments
    <3> QED  BY <2>2, <3>1, <3>2, <3>3, <3>4, Taken
  <2> QED  BY <1>5, <2>1, <2>2 DEF ArchiveName
<1>6. CASE EndSettings(r)
  BY <1>6 DEF EndSettings, Leave, Move, LeftFor, Places
<1> QED  BY <1>1, <1>2, <1>3, <1>4, <1>5, <1>6 DEF GetSettings
-----------------------------------------------------------------------------
LEMMA FrontAndLast ==
  ASSUME NEW S, NEW s \in Seq(S), s # << >>
  PROVE  Front(s) \in Seq(S) /\ Last(s) \in S
<1>1. Len(s) \in Nat /\ Len(s) > 0
  BY EmptySeq
<1>2. Len(s) - 1 \in 0..Len(s) /\ 1 \in 1..Len(s) + 1 /\ Len(s) - 1 \in 1 - 1..Len(s)
  BY <1>1
<1>3. SubSeq(s, 1, Len(s) - 1) \in Seq(S)
  BY <1>2, SubSeqProperties
<1> QED  BY <1>1, <1>3 DEF Front, Last

LEMMA LastOf ==
  ASSUME NEW S, NEW s \in Seq(S), NEW e \in S
  PROVE  /\ Append(s, e) \in Seq(S) /\ Append(s, e) # << >>
         /\ Last(Append(s, e)) = e /\ Len(Append(s, e)) = Len(s) + 1
BY AppendProperties, LenProperties DEF Last

LEMMA CallType == ASSUME NEW p, Opens(p) PROVE p \in Paths /\ Call(p) \in Frames
BY TreeAssumption DEF Opens, Call, Frames, Paths

LEMMA TopType == ASSUME MainTypes PROVE Top \in Paths
<1>1. instance[0] \in AllSettings
  BY RanksAssumption DEF MainTypes
<1> QED  BY <1>1, RanksAssumption, AppendProperties DEF Top, AllSettings, Paths

\* The name read next, and the frame it is read from.
LEMMA NameRead ==
  ASSUME MainTypes, walk # << >>, Last(walk).rest # << >>
  PROVE  /\ Last(walk) \in Frames /\ Front(walk) \in Seq(Frames)
         /\ Head(Last(walk).rest) \in Strings
         /\ Append(Last(walk).dir, Head(Last(walk).rest)) \in Paths
         /\ Last(Append(Last(walk).dir, Head(Last(walk).rest))) = Head(Last(walk).rest)
         /\ \A n \in {0, 1} : [Last(walk) EXCEPT !.rest = Tail(@), !.num = n] \in Frames
<1>1. PICK w \in Frames : w = Last(walk) /\ Front(walk) \in Seq(Frames)
  BY FrontAndLast DEF MainTypes
<1>2. w.rest \in Seq(Strings) /\ w.dir \in Paths
  BY DEF Frames
<1>3. Head(w.rest) \in Strings /\ Tail(w.rest) \in Seq(Strings)
  BY <1>1, <1>2, HeadTailProperties
<1>4. Append(w.dir, Head(w.rest)) \in Paths /\ Last(Append(w.dir, Head(w.rest))) = Head(w.rest)
  BY <1>2, <1>3, LastOf DEF Paths
<1>5. \A n \in {0, 1} : [w EXCEPT !.rest = Tail(@), !.num = n] \in Frames
  BY <1>3 DEF Frames
<1> QED  BY <1>1, <1>3, <1>4, <1>5

\* What a step of the walk leaves: the frame, maybe a call under it, and the
\* paths listed.
LEMMA WalkStep ==
  ASSUME MainTypes, ReadName
  PROVE  \E w \in Frames, f \in Frames, n \in Strings :
           /\ at[0] = "walk" /\ walk # << >> /\ w = Last(walk) /\ w.rest # << >> /\ n = Head(w.rest)
           /\ UNCHANGED <<args, at, queue, instance, mpiVars>>
           /\ f.dir = w.dir /\ f.rest = Tail(w.rest) /\ f.num = IF n \in Dots THEN w.num ELSE 1
           /\ Append(Front(walk), f) \in Seq(Frames) /\ Append(w.dir, n) \in Paths
           /\ n \notin Dots /\ Enters(Append(w.dir, n)) =>
                /\ Call(Append(w.dir, n)) \in Frames
                /\ walk' = Append(Append(Front(walk), f), Call(Append(w.dir, n))) /\ filePaths' = filePaths
           /\ n \in Dots => walk' = Append(Front(walk), f) /\ filePaths' = filePaths
           /\ n \notin Dots /\ ~ Enters(Append(w.dir, n)) =>
                /\ walk' = Append(Front(walk), f) /\ filePaths' = Append(filePaths, Append(w.dir, n))
<1>1. at[0] = "walk" /\ walk # << >> /\ Last(walk).rest # << >>
  BY DEF ReadName
<1> PICK w \in Frames, n \in Strings : w = Last(walk) /\ n = Head(w.rest)
  BY <1>1, NameRead
<1>2. w.num \in {0, 1} /\ Front(walk) \in Seq(Frames)
  BY <1>1, NameRead DEF Frames
<1>3. PICK k \in {0, 1} : k = IF n \in Dots THEN w.num ELSE 1
  BY <1>2
<1>4. PICK f \in Frames : f = [w EXCEPT !.rest = Tail(@), !.num = k]
  BY <1>1, NameRead
<1>5. f.dir = w.dir /\ f.rest = Tail(w.rest) /\ f.num = k
  BY <1>4 DEF Frames
<1>6. PICK p \in Paths : p = Append(w.dir, n) /\ Last(p) = n
  BY <1>1, NameRead
<1>7. PICK v \in Seq(Frames) : v = Append(Front(walk), f)
  BY <1>2, LastOf
<1>8. filePaths \in Seq(Paths)
  BY DEF MainTypes
<1>9. n \in Dots => Walk(v, << >>)
  BY <1>1, <1>3, <1>4, <1>6, <1>7 DEF ReadName
<1>10. n \notin Dots => Walk(v \o (IF Enters(p) THEN <<Call(p)>> ELSE << >>), Listed(p))
  BY <1>1, <1>3, <1>4, <1>6, <1>7 DEF ReadName
<1>11. filePaths \o << >> = filePaths /\ v \o << >> = v /\ filePaths \o <<p>> = Append(filePaths, p)
  BY <1>7, <1>8, ConcatEmptySeq
<1>12. Enters(p) => Call(p) \in Frames /\ v \o <<Call(p)>> = Append(v, Call(p))
  BY <1>7, CallType DEF Enters
<1>13. UNCHANGED <<args, at, queue, instance, mpiVars>>
  BY <1>9, <1>10 DEF Walk
<1>14. n \in Dots => walk' = v /\ filePaths' = filePaths
  BY <1>9, <1>11 DEF Walk
<1>15. n \notin Dots /\ Enters(p) => walk' = Append(v, Call(p)) /\ filePaths' = filePaths
  BY <1>10, <1>11, <1>12 DEF Walk, Listed
<1>16. n \notin Dots /\ ~ Enters(p) => walk' = v /\ filePaths' = Append(filePaths, p)
  BY <1>10, <1>11 DEF Walk, Listed
<1>17. /\ at[0] = "walk" /\ walk # << >> /\ w = Last(walk) /\ w.rest # << >> /\ n = Head(w.rest)
       /\ f.dir = w.dir /\ f.rest = Tail(w.rest) /\ f.num = IF n \in Dots THEN w.num ELSE 1
  BY <1>1, <1>3, <1>5
<1> QED  BY <1>6, <1>7, <1>12, <1>13, <1>14, <1>15, <1>16, <1>17

LEMMA WalkReturn ==
  ASSUME MainTypes, ReturnPaths
  PROVE  \E w \in Frames :
           /\ at[0] = "walk" /\ walk # << >> /\ w = Last(walk) /\ w.rest = << >>
           /\ UNCHANGED <<args, at, queue, instance, mpiVars>>
           /\ walk' = Front(walk) /\ walk' \in Seq(Frames)
           /\ RootPath(w.dir) \in Paths
           /\ filePaths' = IF w.num = 0 THEN Append(filePaths, RootPath(w.dir)) ELSE filePaths
<1>1. PICK w \in Frames : w = Last(walk) /\ Front(walk) \in Seq(Frames)
  BY FrontAndLast DEF MainTypes, ReturnPaths
<1>2. w.dir \in Paths /\ filePaths \in Seq(Paths)
  BY DEF Frames, MainTypes
<1>3. PICK p \in Paths : p = RootPath(w.dir)
  <2>1. Blank \in Paths
    BY DEF Blank, Paths
  <2> QED  BY <1>2, <2>1 DEF RootPath
<1>4. filePaths \o << >> = filePaths /\ filePaths \o <<p>> = Append(filePaths, p)
  BY <1>2, ConcatEmptySeq
<1> QED  BY <1>1, <1>3, <1>4 DEF ReturnPaths, Walk
-----------------------------------------------------------------------------
\* Steps of mpitar, and stuttering, leave what ptgz keeps.
LEMMA MainStays ==
  ASSUME [Next]_vars, ~ Main
  PROVE  UNCHANGED mainVars
BY DEF Next, vars

LEMMA MpitarCalled ==
  ASSUME DivideFiles
  PROVE  /\ at[0] = "compress" /\ pc = "idle" /\ UNCHANGED <<args, queue, instance, walk, filePaths>>
         /\ \/ filePaths = << >> /\ at' = [r \in Ranks |-> "divided by zero"] /\ UNCHANGED mpiVars
            \/ filePaths # << >> /\ UNCHANGED at /\ CallMpitar
BY DEF DivideFiles, CallMpitar, mainVars

LEMMA TypesStep == ASSUME MainTypes, [Next]_vars PROVE MainTypes'
<1>1. CASE ~ Main
  BY <1>1, MainStays DEF MainTypes, mainVars
<1>2. CASE HelpCheck
  BY <1>2 DEF HelpCheck, Move, MainTypes, Places
<1>3. ASSUME NEW r \in Ranks, GetSettings(r) PROVE MainTypes'
  <2>1. UNCHANGED <<args, walk, filePaths>> /\ (Advances(r) \/ \E p \in Places : LeftFor(r, p))
    BY <1>3, Reads
  <2>2. CASE Advances(r)
    BY <2>1, <2>2 DEF Advances, MainTypes
  <2>3. CASE \E p \in Places : LeftFor(r, p)
    BY <2>1, <2>3 DEF LeftFor, MainTypes
  <2> QED  BY <2>1, <2>2, <2>3
<1>4. CASE GetPaths
  <2>1. Opens(Top) => <<Call(Top)>> \in Seq(Frames)
    BY CallType
  <2>2. walk' \in Seq(Frames)
    BY <1>4, <2>1 DEF GetPaths
  <2> QED  BY <1>4, <2>2 DEF GetPaths, Move, MainTypes, Places
<1>5. CASE ReadName
  <2>1. UNCHANGED <<args, at, queue, instance>>
    BY <1>5, WalkStep
  <2>2. walk' \in Seq(Frames) /\ filePaths' \in Seq(Paths)
    <3>1. PICK w \in Frames, f \in Frames, n \in Strings :
            /\ Append(Front(walk), f) \in Seq(Frames) /\ Append(w.dir, n) \in Paths
            /\ n \notin Dots /\ Enters(Append(w.dir, n)) =>
                 /\ Call(Append(w.dir, n)) \in Frames
                 /\ walk' = Append(Append(Front(walk), f), Call(Append(w.dir, n))) /\ filePaths' = filePaths
            /\ n \in Dots => walk' = Append(Front(walk), f) /\ filePaths' = filePaths
            /\ n \notin Dots /\ ~ Enters(Append(w.dir, n)) =>
                 /\ walk' = Append(Front(walk), f) /\ filePaths' = Append(filePaths, Append(w.dir, n))
      BY <1>5, WalkStep
    <3>2. filePaths \in Seq(Paths) /\ Append(filePaths, Append(w.dir, n)) \in Seq(Paths)
      BY <3>1, AppendProperties DEF MainTypes
    <3>3. Enters(Append(w.dir, n)) /\ n \notin Dots =>
            Append(Append(Front(walk), f), Call(Append(w.dir, n))) \in Seq(Frames)
      BY <3>1, AppendProperties
    <3> QED  BY <3>1, <3>2, <3>3
  <2> QED  BY <2>1, <2>2 DEF MainTypes
<1>6. CASE ReturnPaths
  <2>1. PICK w \in Frames :
           /\ UNCHANGED <<args, at, queue, instance>> /\ walk' \in Seq(Frames)
           /\ RootPath(w.dir) \in Paths
           /\ filePaths' = IF w.num = 0 THEN Append(filePaths, RootPath(w.dir)) ELSE filePaths
    BY <1>6, WalkReturn
  <2>2. filePaths \in Seq(Paths) /\ Append(filePaths, RootPath(w.dir)) \in Seq(Paths)
    <3>1. PICK p \in Paths : p = RootPath(w.dir)
      BY <2>1
    <3> QED  BY <3>1, AppendProperties DEF MainTypes
  <2> QED  BY <2>1, <2>2 DEF MainTypes
<1>7. CASE EndPaths
  BY <1>7 DEF EndPaths, Leave, Move, MainTypes, Places
<1>8. CASE Begin
  BY <1>8 DEF Begin, MainTypes, Places
<1>9. CASE DivideFiles
  BY <1>9, MpitarCalled DEF MainTypes, Places
<1> QED  BY <1>1, <1>2, <1>3, <1>4, <1>5, <1>6, <1>7, <1>8, <1>9 DEF Main

LEMMA InitTypes == Init => MainTypes
<1> SUFFICES ASSUME Init PROVE MainTypes
  OBVIOUS
<1>1. args \in Seq(Strings)
  <2>1. << >> \in Seq(Strings)
    OBVIOUS
  <2> QED  BY <2>1, LinesAssumption DEF Init
<1>2. Settings \in AllSettings
  <2>1. "" \in Strings
    BY RanksAssumption
  <2> QED  BY <2>1 DEF Settings, AllSettings
<1>3. at \in [Ranks -> Places]
  BY DEF Init, Places
<1>4. walk \in Seq(Frames) /\ filePaths \in Seq(Paths)
  BY DEF Init, MainInit
<1> QED  BY <1>1, <1>2, <1>3, <1>4 DEF Init, MainInit, MainTypes
-----------------------------------------------------------------------------
\* What the ranks have read of the arguments lies on one trail: all read the
\* same, one further than the other.
Trail(f, n) ==
  /\ f[1] = <<args, Settings>>
  /\ \A k \in 1..n - 1 : f[k][1] # << >> /\ f[k + 1] = Advance(f[k][1], f[k][2])
OnTrail(f, n, r) == \E k \in 1..n : f[k] = <<queue[r], instance[r]>>
OneTrail == \E n \in Nat \ {0} : \E f : Trail(f, n) /\ \A r \in Ranks : OnTrail(f, n, r)

HaveRead == \A r \in Ranks : at[r] \in {"paths", "walk", "barrier", "compress", "extract"} => queue[r] = << >>

BeginInv == MainTypes /\ OneTrail /\ HaveRead /\ AllBegin

\* Who has read all has the same settings.
LEMMA SameSettings ==
  ASSUME OneTrail, NEW r \in Ranks, NEW s \in Ranks, queue[r] = << >>, queue[s] = << >>
  PROVE  instance[r] = instance[s]
<1>1. PICK n \in Nat \ {0} : \E f : Trail(f, n) /\ \A q \in Ranks : OnTrail(f, n, q)
  BY DEF OneTrail
<1>2. PICK f : Trail(f, n) /\ \A q \in Ranks : OnTrail(f, n, q)
  BY <1>1
<1>3. ASSUME NEW q \in Ranks, queue[q] = << >> PROVE f[n] = <<queue[q], instance[q]>>
  <2>1. PICK k \in 1..n : f[k] = <<queue[q], instance[q]>>
    BY <1>2 DEF OnTrail
  <2>2. f[k][1] = << >>
    BY <1>3, <2>1
  <2>3. ~ k \in 1..n - 1
    BY <1>2, <2>2 DEF Trail
  <2> QED  BY <2>1, <2>3
<1>4. f[n] = <<queue[r], instance[r]>> /\ f[n] = <<queue[s], instance[s]>>
  BY <1>3
<1> QED  BY <1>4

LEMMA TrailGrows ==
  ASSUME OneTrail, MainTypes, NEW r \in Ranks, Advances(r), UNCHANGED args
  PROVE  OneTrail'
<1>1. PICK n \in Nat \ {0} : \E f : Trail(f, n) /\ \A q \in Ranks : OnTrail(f, n, q)
  BY DEF OneTrail
<1>2. PICK f : Trail(f, n) /\ \A q \in Ranks : OnTrail(f, n, q)
  BY <1>1
<1>3. PICK i \in 1..n : f[i] = <<queue[r], instance[r]>>
  BY <1>2 DEF OnTrail
<1> DEFINE next == Advance(queue[r], instance[r])
<1>4. <<queue'[r], instance'[r]>> = next
  <2>1. queue'[r] = next[1] /\ instance'[r] = next[2]
    BY DEF Advances, MainTypes
  <2>2. next = <<next[1], next[2]>>
    BY DEF Advance
  <2> HIDE DEF next
  <2> QED  BY <2>1, <2>2
<1>5. \A q \in Ranks : q # r => queue'[q] = queue[q] /\ instance'[q] = instance[q]
  BY DEF Advances, MainTypes
<1>6. f[i][1] # << >> /\ Advance(f[i][1], f[i][2]) = next
  BY <1>3 DEF Advances
<1> HIDE DEF next
<1>7. CASE i # n
  <2>1. i + 1 \in 1..n /\ f[i + 1] = next
    BY <1>2, <1>6, <1>7 DEF Trail
  <2>2. ASSUME NEW q \in Ranks PROVE OnTrail(f, n, q)'
    <3>1. CASE q = r
      BY <1>4, <2>1, <3>1 DEF OnTrail
    <3>2. CASE q # r
      BY <1>2, <1>5, <3>2 DEF OnTrail
    <3> QED  BY <3>1, <3>2
  <2>3. Trail(f, n)'
    BY <1>2 DEF Trail
  <2> QED  BY <2>2, <2>3 DEF OneTrail
<1>8. CASE i = n
  <2>0. PICK g : g = [k \in 1..n + 1 |-> IF k <= n THEN f[k] ELSE next]
    OBVIOUS
  <2>1. n + 1 \in Nat \ {0} /\ \A k \in 1..n : g[k] = f[k]
    BY <2>0
  <2>2. g[n + 1] = next /\ n + 1 \in 1..n + 1
    BY <2>0
  <2>3. Trail(g, n + 1)'
    <3>1. g[1] = <<args, Settings>>'
      BY <1>2, <2>1 DEF Trail
    <3>2. ASSUME NEW k \in 1..n + 1 - 1 PROVE g[k][1] # << >> /\ g[k + 1] = Advance(g[k][1], g[k][2])
      <4>1. CASE k = n
        BY <1>6, <1>8, <2>1, <2>2, <4>1
      <4>2. CASE k # n
        <5>1. k \in 1..n - 1 /\ k + 1 \in 1..n /\ k \in 1..n
          BY <4>2
        <5> QED  BY <1>2, <2>1, <5>1 DEF Trail
      <4> QED  BY <4>1, <4>2
    <3> QED  BY <3>1, <3>2 DEF Trail
  <2>4. ASSUME NEW q \in Ranks PROVE OnTrail(g, n + 1, q)'
    <3>1. CASE q = r
      BY <1>4, <2>2, <3>1 DEF OnTrail
    <3>2. CASE q # r
      <4>1. PICK k \in 1..n : f[k] = <<queue[q], instance[q]>>
        BY <1>2 DEF OnTrail
      <4>2. k \in 1..n + 1 /\ g[k] = <<queue'[q], instance'[q]>>
        BY <1>5, <2>1, <3>2, <4>1
      <4> QED  BY <4>2 DEF OnTrail
    <3> QED  BY <3>1, <3>2
  <2> QED  BY <2>1, <2>3, <2>4 DEF OneTrail
<1> QED  BY <1>7, <1>8

LEMMA TrailStays == ASSUME OneTrail, UNCHANGED <<args, queue, instance>> PROVE OneTrail'
BY DEF OneTrail, Trail, OnTrail

\* A step that lets no rank begin, nor go on with settings unread.
LEMMA NoneBegins ==
  ASSUME BeginInv, MainTypes', UNCHANGED <<args, queue, instance>>,
         \A r \in Ranks : at'[r] # at[r] => at'[r] \notin {"compress", "extract"} /\ at[r] \notin {"compress", "extract"}
                           /\ (at'[r] \in {"paths", "walk", "barrier"} => queue[r] = << >>)
  PROVE  BeginInv'
<1>1. OneTrail'
  BY TrailStays DEF BeginInv
<1>2. HaveRead'
  BY DEF BeginInv, HaveRead
<1>3. AllBegin'
  <2> SUFFICES ASSUME NEW r \in Ranks, NEW s \in Ranks, at'[r] \in {"compress", "extract"}
               PROVE  at'[s] = at'[r] /\ instance'[s] = instance'[r]
    BY DEF AllBegin
  <2>1. at[r] = at'[r]
    OBVIOUS
  <2>2. at[s] = at[r] /\ instance[s] = instance[r]
    BY <2>1 DEF BeginInv, AllBegin
  <2>3. at'[s] = at[s]
    BY <2>1, <2>2
  <2> QED  BY <2>1, <2>2, <2>3
<1> QED  BY <1>1, <1>2, <1>3 DEF BeginInv

LEMMA BeginNext == ASSUME BeginInv, [Next]_vars PROVE BeginInv'
<1>1. MainTypes /\ MainTypes'
  BY TypesStep DEF BeginInv
<1>2. CASE ~ Main
  <2>1. UNCHANGED <<args, queue, instance, at>>
    BY <1>2, MainStays DEF mainVars
  <2> QED  BY <1>1, <2>1, NoneBegins
<1>3. CASE HelpCheck
  <2>1. \A r \in Ranks : at'[r] # at[r] => at'[r] \in {"exit", "settings"} /\ at[r] = "help"
    BY <1>1, <1>3 DEF HelpCheck, Move, MainTypes
  <2>2. UNCHANGED <<args, queue, instance>>
    BY <1>3 DEF HelpCheck
  <2> QED  BY <1>1, <2>1, <2>2, NoneBegins
<1>4. ASSUME NEW r \in Ranks, GetSettings(r) PROVE BeginInv'
  <2>1. at[r] = "settings" /\ UNCHANGED args /\ (Advances(r) \/ \E p \in Places : LeftFor(r, p))
    BY <1>1, <1>4, Reads
  <2>2. CASE Advances(r)
    <3>1. OneTrail'
      BY <1>1, <2>1, <2>2, TrailGrows DEF BeginInv
    <3>2. UNCHANGED at /\ \A q \in Ranks : q # r => queue'[q] = queue[q] /\ instance'[q] = instance[q]
      BY <1>1, <2>2 DEF Advances, MainTypes
    <3>3. HaveRead'
      BY <2>1, <3>2 DEF BeginInv, HaveRead
    <3>4. AllBegin'
      <4> SUFFICES ASSUME NEW q \in Ranks, NEW s \in Ranks, at[q] \in {"compress", "extract"}
                   PROVE  at[s] = at[q] /\ instance'[s] = instance'[q]
        BY <3>2 DEF AllBegin
      <4>1. at[r] = at[q]
        BY DEF BeginInv, AllBegin
      <4> QED  BY <2>1, <4>1
    <3> QED  BY <1>1, <3>1, <3>3, <3>4 DEF BeginInv
  <2>3. CASE \E p \in Places : LeftFor(r, p)
    <3>1. PICK p \in Places : LeftFor(r, p)
      BY <2>3
    <3>2. /\ UNCHANGED <<args, queue, instance>>
          /\ \A q \in Ranks : at'[q] # at[q] =>
               /\ at'[q] \in {"exit", "undefined", "paths", "barrier"} /\ at[q] = "settings"
               /\ at'[q] \in {"paths", "barrier"} => queue[q] = << >>
      BY <1>1, <2>1, <3>1 DEF LeftFor, MainTypes
    <3> QED  BY <1>1, <3>2, NoneBegins
  <2> QED  BY <2>1, <2>2, <2>3
<1>5. CASE GetPaths \/ ReadName \/ ReturnPaths \/ EndPaths
  <2>1. /\ UNCHANGED <<args, queue, instance>>
        /\ \A q \in Ranks : at'[q] # at[q] => at'[q] \in {"walk", "barrier"} /\ at[q] \in {"paths", "walk"}
    <3>1. CASE GetPaths
      BY <1>1, <3>1 DEF GetPaths, Move, MainTypes
    <3>2. CASE ReadName
      BY <1>1, <3>2, WalkStep
    <3>3. CASE ReturnPaths
      BY <1>1, <3>3, WalkReturn
    <3>4. CASE EndPaths
      BY <1>1, <3>4 DEF EndPaths, Leave, Move, MainTypes
    <3> QED  BY <1>5, <3>1, <3>2, <3>3, <3>4
  <2>2. \A q \in Ranks : at[q] \in {"paths", "walk"} => queue[q] = << >>
    BY DEF BeginInv, HaveRead
  <2> QED  BY <1>1, <2>1, <2>2, NoneBegins
<1>6. CASE Begin
  <2>1. /\ \A r \in Ranks : at[r] = "barrier" /\ UNCHANGED <<args, queue, instance>>
        /\ \A r \in Ranks : at'[r] = IF instance[r].compress THEN "compress" ELSE "extract"
    BY <1>6 DEF Begin
  <2>2. \A r \in Ranks : queue[r] = << >>
    BY <2>1 DEF BeginInv, HaveRead
  <2>3. \A r, s \in Ranks : instance[r] = instance[s]
    BY <2>2, SameSettings DEF BeginInv
  <2>4. AllBegin'
    BY <2>1, <2>3, RanksAssumption DEF AllBegin
  <2>5. HaveRead'
    BY <2>1, <2>2, RanksAssumption DEF HaveRead
  <2>6. OneTrail'
    BY <2>1, RanksAssumption, TrailStays DEF BeginInv
  <2> QED  BY <1>1, <2>4, <2>5, <2>6 DEF BeginInv
<1>7. CASE DivideFiles
  <2>1. /\ at[0] = "compress" /\ UNCHANGED <<args, queue, instance>>
        /\ UNCHANGED at \/ at' = [r \in Ranks |-> "divided by zero"]
    BY <1>7, MpitarCalled DEF CallMpitar, mainVars
  <2>2. OneTrail'
    BY <2>1, TrailStays DEF BeginInv
  <2>3. HaveRead'
    BY <2>1 DEF BeginInv, HaveRead
  <2>4. AllBegin'
    BY <2>1 DEF BeginInv, AllBegin
  <2> QED  BY <1>1, <2>2, <2>3, <2>4 DEF BeginInv
<1> QED  BY <1>2, <1>3, <1>4, <1>5, <1>6, <1>7 DEF Main

LEMMA InitBegin == Init => BeginInv
<1> SUFFICES ASSUME Init PROVE BeginInv
  OBVIOUS
<1>1. OneTrail
  <2>1. PICK f : f = [k \in 1..1 |-> <<args, Settings>>]
    OBVIOUS
  <2>2. Trail(f, 1)
    BY <2>1 DEF Trail
  <2>3. \A r \in Ranks : OnTrail(f, 1, r)
    BY <2>1 DEF Init, MainInit, OnTrail
  <2>4. 1 \in Nat \ {0}
    OBVIOUS
  <2> QED  BY <2>2, <2>3, <2>4 DEF OneTrail
<1>2. \A r \in Ranks : at[r] \in {"help", "settings", "mpitar"}
  BY DEF Init
<1> QED  BY <1>1, <1>2, InitTypes DEF BeginInv, HaveRead, AllBegin

\* All ranks read the same arguments to the end before one of them compresses or
\* extracts, and then all do: although root alone looks for -h, and each rank
\* reads at its own pace.
THEOREM NoneBeginsAlone == Spec => []AllBegin
<1>1. BeginInv => AllBegin
  BY DEF BeginInv
<1> QED  BY <1>1, InitBegin, BeginNext, PTL DEF Spec
-----------------------------------------------------------------------------
\* Root lists nothing before it is asked to, and as long as nothing is listed the
\* innermost call has met no name.
Fruitful ==
  /\ at[0] \in {"help", "settings", "paths"} => filePaths = << >>
  /\ at[0] = "paths" => instance[0].compress
  /\ at[0] = "walk" => /\ instance[0].compress /\ Opens(Top)
                       /\ filePaths = << >> => walk # << >> /\ Last(walk).num = 0
  /\ at[0] \in {"barrier", "compress"} /\ instance[0].compress /\ Opens(Top) => filePaths # << >>
  /\ at[0] = "compress" => instance[0].compress
  /\ SomeFile

LEMMA FruitfulStays ==
  ASSUME Fruitful, at'[0] = at[0], UNCHANGED <<walk, filePaths>>,
         instance'[0] = instance[0] \/ at[0] \in {"help", "settings", "mpitar"}
  PROVE  Fruitful'
BY DEF Fruitful, SomeFile, Top, Opens

LEMMA FruitfulNext == ASSUME MainTypes, Fruitful, [Next]_vars PROVE Fruitful'
<1> 0 \in Ranks
  BY RanksAssumption
<1>1. CASE ~ Main
  <2>1. UNCHANGED <<at, instance, walk, filePaths>>
    BY <1>1, MainStays DEF mainVars
  <2> QED  BY <2>1, FruitfulStays
<1>2. CASE HelpCheck
  <2>1. at[0] = "help" /\ at'[0] \in {"exit", "settings"} /\ UNCHANGED filePaths
    BY <1>2 DEF HelpCheck, Move, MainTypes
  <2> QED  BY <2>1 DEF Fruitful, SomeFile
<1>3. ASSUME NEW r \in Ranks, GetSettings(r) PROVE Fruitful'
  <2>1. at[r] = "settings" /\ UNCHANGED <<walk, filePaths>> /\ (Advances(r) \/ \E p \in Places : LeftFor(r, p))
    BY <1>3, Reads
  <2>2. CASE Advances(r)
    <3>1. at' = at /\ (instance'[0] = instance[0] \/ r = 0)
      BY <2>2 DEF Advances, MainTypes
    <3> QED  BY <2>1, <3>1, FruitfulStays
  <2>3. CASE \E p \in Places : LeftFor(r, p)
    <3>1. PICK p \in Places : LeftFor(r, p)
      BY <2>3
    <3>2. instance' = instance /\ (r # 0 => at'[0] = at[0]) /\ (r = 0 => at'[0] = p)
      BY <3>1 DEF LeftFor, MainTypes
    <3>3. CASE r # 0
      BY <2>1, <3>2, <3>3, FruitfulStays
    <3>4. CASE r = 0
      <4>1. filePaths' = << >>
        BY <2>1, <3>4 DEF Fruitful
      <4>2. /\ p \in {"exit", "undefined", "paths", "barrier"}
            /\ p = "paths" => instance[0].compress
            /\ p = "barrier" => ~ instance[0].compress
        BY <3>1, <3>4 DEF LeftFor
      <4> QED  BY <3>2, <3>4, <4>1, <4>2 DEF Fruitful, SomeFile
    <3> QED  BY <3>3, <3>4
  <2> QED  BY <2>1, <2>2, <2>3
<1>4. CASE GetPaths
  <2>1. at[0] = "paths" /\ at'[0] = (IF Opens(Top) THEN "walk" ELSE "barrier") /\ instance' = instance
    BY <1>4 DEF GetPaths, Move, MainTypes
  <2>2. Top' = Top /\ (Opens(Top)' <=> Opens(Top))
    BY <2>1 DEF Top, Opens
  <2>3. Opens(Top) => walk' # << >> /\ Last(walk').num = 0
    <3>1. ASSUME Opens(Top) PROVE walk' = <<Call(Top)>>
      BY <1>4, <3>1 DEF GetPaths
    <3>2. Last(<<Call(Top)>>) = Call(Top) /\ Call(Top).num = 0
      BY DEF Last, Call
    <3> QED  BY <3>1, <3>2
  <2> QED  BY <2>1, <2>2, <2>3 DEF Fruitful, SomeFile
<1>5. CASE ReadName
  <2>1. PICK w \in Frames, f \in Frames, n \in Strings :
           /\ at[0] = "walk" /\ w = Last(walk)
           /\ UNCHANGED <<at, instance>>
           /\ f.num = IF n \in Dots THEN w.num ELSE 1
           /\ Append(Front(walk), f) \in Seq(Frames) /\ Append(w.dir, n) \in Paths
           /\ n \notin Dots /\ Enters(Append(w.dir, n)) =>
                /\ Call(Append(w.dir, n)) \in Frames
                /\ walk' = Append(Append(Front(walk), f), Call(Append(w.dir, n))) /\ filePaths' = filePaths
           /\ n \in Dots => walk' = Append(Front(walk), f) /\ filePaths' = filePaths
           /\ n \notin Dots /\ ~ Enters(Append(w.dir, n)) => filePaths' = Append(filePaths, Append(w.dir, n))
    BY <1>5, WalkStep
  <2>2. PICK p \in Paths : p = Append(w.dir, n)
    BY <2>1
  <2>3. Front(walk) \in Seq(Frames) /\ Append(Front(walk), f) # << >> /\ Last(Append(Front(walk), f)) = f
    <3>1. walk \in Seq(Frames) /\ walk # << >>
      BY <1>5 DEF MainTypes, ReadName
    <3>2. Front(walk) \in Seq(Frames)
      BY <3>1, FrontAndLast
    <3> QED  BY <3>2, LastOf
  <2>4. filePaths' = << >> => filePaths = << >> /\ walk' # << >> /\ Last(walk').num = 0
    <3>1. CASE n \in Dots
      <4>1. walk' = Append(Front(walk), f) /\ f.num = w.num /\ filePaths' = filePaths
        BY <2>1, <3>1
      <4> QED  BY <2>1, <2>3, <4>1 DEF Fruitful
    <3>2. CASE n \notin Dots /\ Enters(p)
      <4>1. PICK c \in Frames, v \in Seq(Frames) : c = Call(p) /\ v = Append(Front(walk), f)
        BY <2>1, <2>2, <3>2
      <4>2. walk' = Append(v, c) /\ filePaths' = filePaths /\ c.num = 0
        BY <2>1, <2>2, <3>2, <4>1 DEF Call
      <4> QED  BY <4>2, LastOf
    <3>3. CASE n \notin Dots /\ ~ Enters(p)
      <4>1. filePaths' = Append(filePaths, p) /\ filePaths \in Seq(Paths)
        BY <2>1, <2>2, <3>3 DEF MainTypes
      <4> QED  BY <4>1, LastOf
    <3> QED  BY <3>1, <3>2, <3>3
  <2>5. Opens(Top)' <=> Opens(Top)
    BY <2>1 DEF Top, Opens
  <2> QED  BY <2>1, <2>4, <2>5 DEF Fruitful, SomeFile
<1>6. CASE ReturnPaths
  <2>1. PICK w \in Frames :
           /\ at[0] = "walk" /\ w = Last(walk) /\ UNCHANGED <<at, instance>>
           /\ RootPath(w.dir) \in Paths
           /\ filePaths' = IF w.num = 0 THEN Append(filePaths, RootPath(w.dir)) ELSE filePaths
    BY <1>6, WalkReturn
  <2>2. filePaths' # << >>
    <3>1. CASE w.num = 0
      <4>1. filePaths \in Seq(Paths) /\ filePaths' = Append(filePaths, RootPath(w.dir))
        BY <2>1, <3>1 DEF MainTypes
      <4> QED  BY <4>1, LastOf
    <3>2. CASE w.num # 0
      BY <2>1, <3>2 DEF Fruitful
    <3> QED  BY <3>1, <3>2
  <2>3. Opens(Top)' <=> Opens(Top)
    BY <2>1 DEF Top, Opens
  <2> QED  BY <2>1, <2>2, <2>3 DEF Fruitful, SomeFile
<1>7. CASE EndPaths
  <2>1. at[0] = "walk" /\ walk = << >> /\ at'[0] = "barrier" /\ UNCHANGED <<instance, filePaths>>
    BY <1>7 DEF EndPaths, Leave, Move, MainTypes
  <2> QED  BY <2>1 DEF Fruitful, SomeFile
<1>8. CASE Begin
  <2>1. /\ at[0] = "barrier" /\ at'[0] = (IF instance[0].compress THEN "compress" ELSE "extract")
        /\ UNCHANGED <<instance, filePaths>>
    BY <1>8 DEF Begin
  <2>2. Opens(Top)' <=> Opens(Top)
    BY <2>1 DEF Top, Opens
  <2> QED  BY <2>1, <2>2 DEF Fruitful, SomeFile
<1>9. CASE DivideFiles
  <2>1. /\ at[0] = "compress" /\ UNCHANGED <<instance, walk, filePaths>>
        /\ at'[0] = at[0] \/ (filePaths = << >> /\ at'[0] = "divided by zero")
    BY <1>9, MpitarCalled DEF CallMpitar, mainVars
  <2>2. Opens(Top)' <=> Opens(Top)
    BY <2>1 DEF Top, Opens
  <2> QED  BY <2>1, <2>2 DEF Fruitful, SomeFile
<1> QED  BY <1>1, <1>2, <1>3, <1>4, <1>5, <1>6, <1>7, <1>8, <1>9 DEF Main

LEMMA InitFruitful == Init => Fruitful
<1>1. Init => at[0] \in {"help", "mpitar"} /\ filePaths = << >>
  BY RanksAssumption DEF Init, MainInit
<1> QED  BY <1>1 DEF Fruitful, SomeFile

LEMMA FruitfulHolds == Spec => [](MainTypes /\ Fruitful)
<1>1. Init => MainTypes /\ Fruitful
  BY InitTypes, InitFruitful
<1>2. MainTypes /\ Fruitful /\ [Next]_vars => (MainTypes /\ Fruitful)'
  BY TypesStep, FruitfulNext
<1> QED  BY <1>1, <1>2, PTL DEF Spec

\* A directory that opens has something to list, be it itself, so that the
\* division of the files is by more than none.
THEOREM FilesToDivide == Spec => []SomeFile
<1>1. MainTypes /\ Fruitful => SomeFile
  BY DEF Fruitful
<1> QED  BY <1>1, FruitfulHolds, PTL
-----------------------------------------------------------------------------
\* Mpitar, as compression() calls it, has read some of its three options, or
\* some lines of the index.
IndexArgv == <<[opt |-> "c"], [opt |-> "f", arg |-> TarName(instance[0].name)], [opt |-> "T", arg |-> Index]>>
IndexEntry == <<[kind |-> "list", name |-> Index]>>
Lined(k)  == [i \in 1..k |-> Listing[Index][i].text]
Rest(k)   == SubSeq(Listing[Index], k + 1, Len(Listing[Index]))

ReadingOptions ==
  /\ pc = "options" /\ argv = IndexArgv /\ optind \in 1..4
  /\ action = (IF optind = 1 THEN "invalid" ELSE "c")
  /\ tarfilename = (IF optind <= 2 THEN << >> ELSE TarName(instance[0].name))
  /\ entries = (IF optind <= 3 THEN << >> ELSE IndexEntry)
  /\ curr = 1 /\ done = FALSE /\ fh = << >> /\ dirs = << >> /\ given = << >>
ReadingIndex ==
  /\ pc = "files" /\ entries = IndexEntry /\ curr = 1 /\ done = FALSE /\ dirs = << >>
  /\ \E k \in 0..Len(Listing[Index]) :
       given = Lined(k) /\ (fh = <<Rest(k)>> \/ (k = 0 /\ fh = << >>))
IndexRead ==
  /\ pc \in {"files", "end"} /\ entries = IndexEntry /\ curr = 2 /\ done = FALSE /\ dirs = << >>
  /\ given = Lined(Len(Listing[Index]))

Packing ==
  at[0] # "mpitar" =>
    /\ pc = "idle" => FileInit /\ LineInit
    /\ at[0] # "compress" => pc = "idle"
    /\ pc # "idle" => ReadingOptions \/ ReadingIndex \/ IndexRead \/ pc = "exit"

LEMMA IndexIs == Listing[Index] \in Seq([text : Seq(Strings), nl : BOOLEAN]) /\ Index # << >>
BY TreeAssumption, IndexAssumption

\* The options are read one by one, and none is refused.
LEMMA OptionsStep ==
  ASSUME ReadingOptions, NextFile \/ Parse
  PROVE  instance' = instance => ReadingOptions' \/ ReadingIndex'
<1> PICK n : n = TarName(instance[0].name)
  OBVIOUS
<1>1. /\ pc = "options" /\ optind \in 1..4 /\ Len(argv) = 3 /\ argv[1].opt = "c" /\ n # << >>
      /\ argv[2].opt = "f" /\ argv[2].arg = n /\ argv[3].opt = "T" /\ argv[3].arg = Index
  BY DEF ReadingOptions, IndexArgv, TarName
<1> SUFFICES ASSUME instance' = instance PROVE ReadingOptions' \/ ReadingIndex'
  OBVIOUS
<1>2. TarName(instance[0].name)' = n /\ (argv' = argv => IndexArgv' = IndexArgv)
  BY DEF TarName, IndexArgv
<1>3. CASE optind = 1
  <2>1. Create
    BY <1>1, <1>3 DEF NextFile, ReadLine, CannotOpenList, ListFails, EntryDone, Argument, ReadDir, DirFails, CloseDir, EndFiles, Reading,
                      Parse, TarFile, AddEntry, Help, Unknown, EndOptions, Option
  <2>2. optind' = 2 /\ action' = "c" /\ UNCHANGED <<argv, pc, tarfilename, fileVars>>
    BY <1>3, <2>1 DEF Create, Shift
  <2> QED  BY <1>1, <1>2, <1>3, <2>2 DEF ReadingOptions, fileVars
<1>4. CASE optind = 2
  <2>1. TarFile
    BY <1>1, <1>4 DEF NextFile, ReadLine, CannotOpenList, ListFails, EntryDone, Argument, ReadDir, DirFails, CloseDir, EndFiles, Reading,
                      Parse, Create, AddEntry, Help, Unknown, EndOptions, Option
  <2>2. tarfilename = << >>
    BY <1>4 DEF ReadingOptions
  <2>3. optind' = 3 /\ tarfilename' = n /\ UNCHANGED <<argv, pc, action, fileVars>>
    BY <1>1, <1>4, <2>1, <2>2 DEF TarFile, Shift, Arg
  <2> QED  BY <1>1, <1>2, <1>4, <2>3 DEF ReadingOptions, fileVars
<1>5. CASE optind = 3
  <2>1. AddEntry /\ Option("T")
    BY <1>1, <1>5 DEF NextFile, ReadLine, CannotOpenList, ListFails, EntryDone, Argument, ReadDir, DirFails, CloseDir, EndFiles, Reading,
                      Parse, Create, TarFile, AddEntry, Help, Unknown, EndOptions, Option
  <2>2. entries' = Append(<< >>, [kind |-> "list", name |-> Index])
    BY <1>1, <1>5, <2>1 DEF AddEntry, Arg, ReadingOptions
  <2>3. Append(<< >>, [kind |-> "list", name |-> Index]) = IndexEntry
    BY DEF IndexEntry
  <2>4. optind' = 4 /\ UNCHANGED <<argv, pc, action, tarfilename, curr, done, fh, dirs, given>>
    BY <1>5, <2>1 DEF AddEntry, Shift
  <2> QED  BY <1>1, <1>2, <1>5, <2>2, <2>3, <2>4 DEF ReadingOptions
<1>6. CASE optind = 4
  <2>1. EndOptions
    BY <1>1, <1>6 DEF NextFile, ReadLine, CannotOpenList, ListFails, EntryDone, Argument, ReadDir, DirFails, CloseDir, EndFiles, Reading,
                      Parse, Create, TarFile, AddEntry, Help, Unknown, Option
  <2>2. action = "c" /\ tarfilename # << >>
    BY <1>1, <1>6 DEF ReadingOptions
  <2>3. pc' = "files" /\ UNCHANGED <<entries, curr, done, fh, dirs, given>>
    BY <2>1, <2>2 DEF EndOptions, Quit, fileVars
  <2>4. Lined(0) = << >> /\ 0 \in 0..Len(Listing[Index])
    BY IndexIs DEF Lined
  <2>5. entries = IndexEntry /\ curr = 1 /\ done = FALSE /\ fh = << >> /\ dirs = << >> /\ given = << >>
    BY <1>6 DEF ReadingOptions
  <2> QED  BY <2>3, <2>4, <2>5 DEF ReadingIndex
<1> QED  BY <1>1, <1>3, <1>4, <1>5, <1>6

\* One line more is read, or the index is read.
LEMMA IndexStep ==
  ASSUME ReadingIndex, NextFile \/ Parse
  PROVE  ReadingIndex' \/ IndexRead' \/ pc' = "exit"
<1>0. CASE ListFails
  BY <1>0 DEF ListFails, Exit
<1> SUFFICES ASSUME ~ ListFails PROVE ReadingIndex' \/ IndexRead'
  BY <1>0
<1> PICK R : R = [text : Seq(Strings), nl : BOOLEAN]
  OBVIOUS
<1> PICK s \in Seq(R) : s = Listing[Index]
  BY IndexIs
<1> PICK l \in Nat : l = Len(s)
  OBVIOUS
<1>1. PICK k \in 0..l : given = Lined(k) /\ (fh = <<Rest(k)>> \/ (k = 0 /\ fh = << >>))
  BY DEF ReadingIndex
<1>2. /\ pc = "files" /\ curr = 1 /\ Len(entries) = 1 /\ entries[1].kind = "list" /\ entries[1].name = Index
      /\ done = FALSE /\ dirs = << >> /\ entries = IndexEntry
  BY DEF ReadingIndex, IndexEntry
<1>3. ReadLine
  BY <1>2, IndexAssumption DEF NextFile, CannotOpenList, EntryDone, Argument, ReadDir, DirFails, CloseDir, EndFiles, Reading,
       Parse, Create, TarFile, AddEntry, Help, Unknown, EndOptions, Option, Name
<1>4. PICK rest : rest = IF fh = << >> THEN s ELSE fh[1]
  OBVIOUS
<1>5. /\ rest = << >> \/ Head(rest).text = Blank => NextEntry
      /\ ~ (rest = << >> \/ Head(rest).text = Blank) =>
           /\ done' = (Len(rest) = 1 /\ ~ Head(rest).nl) /\ fh' = IF done' THEN << >> ELSE <<Tail(rest)>>
           /\ Give(Head(rest).text) /\ UNCHANGED <<pc, dirs>>
  BY <1>2, <1>3, <1>4 DEF ReadLine, Name
<1>6. rest = SubSeq(s, k + 1, l)
  <2>1. CASE fh = << >>
    <3>1. k = 0 /\ rest = s
      BY <1>1, <1>4, <2>1
    <3> QED  BY <3>1
  <2>2. CASE fh # << >>
    BY <1>1, <1>4, <2>2 DEF Rest
  <2> QED  BY <2>1, <2>2
<1>7. /\ rest \in Seq(R) /\ Len(rest) = l - k
      /\ \A i \in 1..l - k : rest[i] = s[k + i]
  <2>1. PICK m \in Nat : m = k + 1 /\ l - m + 1 = l - k /\ (m <= l <=> k # l)
    OBVIOUS
  <2>2. \A i \in m..l : s[i] \in R
    <3> SUFFICES ASSUME NEW i \in m..l PROVE s[i] \in R
      OBVIOUS
    <3>1. i \in 1..Len(s)
      BY <2>1
    <3> QED  BY <3>1, ElementOfSeq
  <2>3. /\ SubSeq(s, m, l) \in Seq(R)
        /\ Len(SubSeq(s, m, l)) = IF m <= l THEN l - m + 1 ELSE 0
        /\ \A i \in 1..l - m + 1 : SubSeq(s, m, l)[i] = s[m + i - 1]
    BY <2>2, SubSeqProperties
  <2>4. \A i \in 1..l - k : m + i - 1 = k + i
    BY <2>1
  <2> QED  BY <1>6, <2>1, <2>3, <2>4
<1>8. CASE k = l
  <2>1. rest = << >>
    BY <1>7, <1>8
  <2>2. curr' = 2 /\ done' = FALSE /\ dirs' = << >> /\ UNCHANGED <<pc, entries, given>>
    BY <1>2, <1>5, <2>1 DEF NextEntry
  <2> QED  BY <1>1, <1>2, <1>8, <2>2 DEF IndexRead
<1>9. CASE k # l
  <2>1. k + 1 \in 1..l /\ k + 1 \in 0..l /\ 1 \in 1..l - k
    BY <1>9
  <2>2. rest # << >> /\ Head(rest) = s[k + 1]
    BY <1>7, <2>1
  <2>3. s[k + 1].text # Blank /\ s[k + 1].nl
    BY <2>1, IndexAssumption
  <2>4. done' = FALSE /\ fh' = <<Tail(rest)>> /\ given' = Append(given, s[k + 1].text) /\ UNCHANGED <<pc, dirs, entries, curr>>
    BY <1>5, <2>2, <2>3 DEF Give
  <2>5. Tail(rest) = SubSeq(s, k + 1 + 1, l)
    BY <1>6, <1>7, <2>1
  <2>6. Append(Lined(k), s[k + 1].text) = Lined(k + 1)
    BY <2>1 DEF Lined
  <2>7. given' = Lined(k + 1) /\ fh' = <<Rest(k + 1)>>
    BY <1>1, <2>4, <2>5, <2>6 DEF Rest
  <2> QED  BY <1>2, <2>1, <2>4, <2>7 DEF ReadingIndex
<1> QED  BY <1>8, <1>9

LEMMA ReadStep ==
  ASSUME IndexRead, NextFile \/ Parse
  PROVE  IndexRead'
<1>1. curr = 2 /\ Len(entries) = 1 /\ pc \in {"files", "end"} /\ done = FALSE
  BY DEF IndexRead, IndexEntry
<1>2. EndFiles
  BY <1>1 DEF NextFile, ReadLine, CannotOpenList, ListFails, EntryDone, Argument, ReadDir, DirFails, CloseDir, Reading,
       Parse, Create, TarFile, AddEntry, Help, Unknown, EndOptions, Option
<1> QED  BY <1>2 DEF EndFiles, fileVars, IndexRead

LEMMA PackingNext == ASSUME MainTypes, Packing, [Next]_vars PROVE Packing'
<1> 0 \in Ranks
  BY RanksAssumption
<1>1. CASE UNCHANGED mpiVars /\ instance'[0] = instance[0] /\ (at'[0] = at[0] \/ (at'[0] # "mpitar" /\ pc = "idle" /\ at[0] # "mpitar"))
  BY <1>1 DEF Packing, mpiVars, fileVars, lineVars, FileInit, LineInit, ReadingOptions, ReadingIndex, IndexRead, IndexArgv, TarName
<1>2. CASE at[0] \notin {"mpitar", "compress"} /\ at'[0] \notin {"mpitar"} /\ UNCHANGED mpiVars
  BY <1>2 DEF Packing, mpiVars, fileVars, lineVars, FileInit, LineInit
<1>3. CASE ~ Main
  <2>1. UNCHANGED <<at, instance>>
    BY <1>3, MainStays DEF mainVars
  <2>2. CASE UNCHANGED vars
    BY <1>1, <2>1, <2>2 DEF vars
  <2>3. CASE NextFile \/ Parse
    <3>1. pc # "idle"
      BY <2>3 DEF NextFile, ReadLine, CannotOpenList, ListFails, EntryDone, Argument, ReadDir, DirFails, CloseDir, EndFiles, Reading,
       Parse, Create, TarFile, AddEntry, Help, Unknown, EndOptions, Option
    <3>2. CASE at[0] = "mpitar"
      BY <2>1, <3>2 DEF Packing
    <3>3. CASE at[0] # "mpitar"
      <4>1. at[0] = "compress" /\ (ReadingOptions \/ ReadingIndex \/ IndexRead)
        <5>1. pc # "exit"
          BY <2>3 DEF NextFile, ReadLine, CannotOpenList, ListFails, EntryDone, Argument, ReadDir, DirFails, CloseDir, EndFiles, Reading,
             Parse, Create, TarFile, AddEntry, Help, Unknown, EndOptions, Option
        <5> QED  BY <3>1, <3>3, <5>1 DEF Packing
      <4>2. ReadingOptions' \/ ReadingIndex' \/ IndexRead' \/ pc' = "exit"
        BY <2>1, <2>3, <4>1, OptionsStep, IndexStep, ReadStep
      <4>3. pc' # "idle"
        BY <4>2 DEF ReadingOptions, ReadingIndex, IndexRead
      <4> QED  BY <2>1, <4>1, <4>2, <4>3 DEF Packing
    <3> QED  BY <3>2, <3>3
  <2> QED  BY <1>3, <2>2, <2>3 DEF Next
<1>4. CASE HelpCheck
  <2>1. at[0] = "help" /\ at'[0] \in {"exit", "settings"} /\ UNCHANGED mpiVars
    BY <1>4 DEF HelpCheck, Move, MainTypes
  <2> QED  BY <1>2, <2>1
<1>5. ASSUME NEW r \in Ranks, GetSettings(r) PROVE Packing'
  <2>1. at[r] = "settings" /\ UNCHANGED mpiVars /\ (Advances(r) \/ \E p \in Places : LeftFor(r, p))
    BY <1>5, Reads
  <2>2. r # 0 => at'[0] = at[0] /\ instance'[0] = instance[0]
    BY <2>1 DEF Advances, LeftFor, MainTypes
  <2>3. at'[r] \in {"settings", "exit", "undefined", "paths", "barrier"}
    BY <2>1 DEF Advances, LeftFor, MainTypes
  <2> QED  BY <1>1, <1>2, <2>1, <2>2, <2>3
<1>6. CASE GetPaths \/ ReadName \/ ReturnPaths \/ EndPaths
  <2>1. at[0] \in {"paths", "walk"} /\ at'[0] \in {"walk", "barrier"} /\ UNCHANGED mpiVars
    <3>1. CASE GetPaths
      BY <3>1 DEF GetPaths, Move, MainTypes
    <3>2. CASE ReadName
      BY <3>2, WalkStep
    <3>3. CASE ReturnPaths
      BY <3>3, WalkReturn
    <3>4. CASE EndPaths
      BY <3>4 DEF EndPaths, Leave, Move, MainTypes
    <3> QED  BY <1>6, <3>1, <3>2, <3>3, <3>4
  <2> QED  BY <1>2, <2>1
<1>7. CASE Begin
  BY <1>2, <1>7 DEF Begin
<1>8. CASE DivideFiles
  <2>1. at[0] = "compress" /\ pc = "idle" /\ UNCHANGED instance
    BY <1>8, MpitarCalled
  <2>2. CASE at' = [r \in Ranks |-> "divided by zero"] /\ UNCHANGED mpiVars
    BY <1>1, <2>1, <2>2
  <2>3. CASE UNCHANGED at /\ CallMpitar
    <3>1. FileInit /\ LineInit
      BY <2>1 DEF Packing
    <3>2. IndexArgv' = IndexArgv /\ argv' = IndexArgv /\ pc' = "options" /\ UNCHANGED <<fileVars, optind, action, tarfilename>>
      BY <2>1, <2>3 DEF CallMpitar, IndexArgv, TarName
    <3>3. ReadingOptions'
      BY <3>1, <3>2 DEF ReadingOptions, FileInit, LineInit, fileVars
    <3> QED  BY <2>1, <2>3, <3>2, <3>3 DEF Packing
  <2> QED  BY <1>8, <2>2, <2>3, MpitarCalled
<1> QED  BY <1>3, <1>4, <1>5, <1>6, <1>7, <1>8 DEF Main

LEMMA InitPacking == Init => Packing
BY RanksAssumption DEF Init, Packing

\* mpitar takes what compression() calls it with, and stores all of the index.
THEOREM PacksTheIndex == Spec => []IndexPacked
<1>1. Init => MainTypes /\ Packing
  BY InitTypes, InitPacking
<1>2. MainTypes /\ Packing /\ [Next]_vars => (MainTypes /\ Packing)'
  BY TypesStep, PackingNext
<1>3. MainTypes /\ Packing => IndexPacked
  <2> SUFFICES ASSUME Packing, at[0] = "compress"
               PROVE  pc # "refused" /\ (pc = "end" => given = [i \in DOMAIN Listing[Index] |-> Listing[Index][i].text])
    BY DEF IndexPacked
  <2>1. pc \in {"idle", "options", "files", "exit"} \/ IndexRead
    BY DEF Packing, ReadingOptions, ReadingIndex
  <2>2. DOMAIN Listing[Index] = 1..Len(Listing[Index])
    BY IndexIs
  <2> QED  BY <2>1, <2>2 DEF IndexRead, Lined
<1> QED  BY <1>1, <1>2, <1>3, PTL DEF Spec
-----------------------------------------------------------------------------
\* What Files computes, entry by entry.
Picked(f, a, n) ==
  f = [i \in 0..n |-> IF i = 0 THEN << >>
                      ELSE IF a[i].opt \in {"T", "1"} THEN Append(f[i - 1], a[i].arg) ELSE f[i - 1]]

LEMMA PickedExists ==
  ASSUME NEW a, NEW l \in Nat
  PROVE  \E f : Picked(f, a, l)
<1> DEFINE K == {n \in Nat : \E f : Picked(f, a, n)}
<1>1. 0 \in K
  <2>1. Picked([i \in 0..0 |-> << >>], a, 0)
    BY DEF Picked
  <2> QED  BY <2>1
<1>2. ASSUME NEW n \in K PROVE n + 1 \in K
  <2>1. PICK f : Picked(f, a, n)
    OBVIOUS
  <2>2. n \in Nat
    OBVIOUS
  <2> DEFINE last == IF a[n + 1].opt \in {"T", "1"} THEN Append(f[n], a[n + 1].arg) ELSE f[n]
             g    == [i \in 0..n + 1 |-> IF i = n + 1 THEN last ELSE f[i]]
  <2>3. g[n + 1] = last /\ \A i \in 0..n : g[i] = f[i] /\ i \in 0..n + 1
    BY <2>2
  <2>4. DOMAIN g = 0..n + 1 /\ g = [i \in 0..n + 1 |-> g[i]]
    OBVIOUS
  <2>5. \A i \in 0..n : f[i] = IF i = 0 THEN << >>
                        ELSE IF a[i].opt \in {"T", "1"} THEN Append(f[i - 1], a[i].arg) ELSE f[i - 1]
    BY <2>1 DEF Picked
  <2> HIDE DEF g
  <2>6. \A i \in 0..n + 1 : g[i] = IF i = 0 THEN << >>
                        ELSE IF a[i].opt \in {"T", "1"} THEN Append(g[i - 1], a[i].arg) ELSE g[i - 1]
    <3> TAKE i \in 0..n + 1
    <3>1. CASE i = n + 1
      <4>1. i # 0 /\ i - 1 = n /\ n \in 0..n
        BY <2>2, <3>1
      <4> QED  BY <2>3, <3>1, <4>1
    <3>2. CASE i # n + 1
      <4>1. i \in 0..n /\ (i # 0 => i - 1 \in 0..n)
        BY <2>2, <3>2
      <4> QED  BY <2>3, <2>5, <4>1
    <3> QED  BY <3>1, <3>2
  <2>7. Picked(g, a, n + 1)
    BY <2>4, <2>6 DEF Picked
  <2> QED  BY <2>2, <2>7
<1>3. K = Nat
  <2>1. K \in SUBSET Nat
    OBVIOUS
  <2> HIDE DEF K
  <2> QED  BY <1>1, <1>2, <2>1, Arith!Counting
<1> QED  BY <1>3

LEMMA FilesIs ==
  ASSUME argv \in Seq(Options)
  PROVE  /\ Files[0] = << >>
         /\ \A n \in 1..Len(argv) :
              Files[n] = IF argv[n].opt \in {"T", "1"} THEN Append(Files[n - 1], argv[n].arg) ELSE Files[n - 1]
<1>1. PICK l \in Nat : l = Len(argv)
  OBVIOUS
<1>2. Picked(Files, argv, l)
  <2>1. PICK f : Picked(f, argv, l)
    BY PickedExists
  <2> QED  BY <1>1, <2>1 DEF Files, Picked
<1>3. 0 \in 0..l /\ \A n \in 1..l : n \in 0..l /\ n # 0
  OBVIOUS
<1> QED  BY <1>1, <1>2, <1>3 DEF Picked

LEMMA FilesBegin ==
  ASSUME argv' \in Seq(Options)
  PROVE  Files'[0] = << >>
<1>1. PICK l \in Nat : l = Len(argv')
  OBVIOUS
<1>2. Picked(Files', argv', l)
  <2>1. PICK f : Picked(f, argv', l)
    BY PickedExists
  <2> QED  BY <1>1, <2>1 DEF Files, Picked
<1>3. 0 \in 0..l
  OBVIOUS
<1> QED  BY <1>1, <1>2, <1>3 DEF Picked

\* The options before optind are what the variables say.
EntryRecords == [kind : {"list", "arg"}, name : Seq(Strings)]
Seen(o)    == \E i \in 1..optind - 1 : argv[i].opt = o
EntryNames == [i \in DOMAIN entries |-> entries[i].name]
FileSeen ==
  IF tarfilename = << >>
  THEN ~ Seen("f")
  ELSE \E i \in 1..optind - 1 :
         /\ argv[i].opt = "f" /\ tarfilename = argv[i].arg
         /\ \A j \in 1..optind - 1 : argv[j].opt = "f" => j = i
Scanned ==
  /\ optind \in 1..Len(argv) + 1
  /\ action = IF Seen("c") THEN "c" ELSE "invalid"
  /\ ~ Seen("h") /\ ~ Seen("?")
  /\ FileSeen
  /\ EntryNames = Files[optind - 1]

ScanInv ==
  /\ argv \in Seq(Options) /\ entries \in Seq(EntryRecords)
  /\ pc \in {"idle", "options", "files", "end", "refused", "exit"}
  /\ pc = "idle" => LineInit /\ entries = << >>
  /\ pc = "options" => Scanned
  /\ pc \in {"files", "end", "refused", "exit"} =>
       /\ action = "c" <=> Has("c") # {} /\ Cardinality(Has("f")) = 1 /\ Has("h") \cup Has("?") = {}
       /\ action = "c" =>
            (\A i \in Has("f") : tarfilename = argv[i].arg) /\ EntryNames = Files[Len(argv)]

LEMMA OptionIs ==
  ASSUME ScanInv, NEW i \in 1..Len(argv)
  PROVE  /\ argv[i].opt \in {"c", "h", "?", "f", "T", "1"}
         /\ argv[i].opt \in {"f", "T", "1"} => argv[i].arg \in Seq(Strings) /\ argv[i].arg # << >>
<1>1. argv[i] \in Options
  BY ElementOfSeq DEF ScanInv
<1> QED  BY <1>1 DEF Options

LEMMA HasFinite == ASSUME ScanInv PROVE \A o : IsFiniteSet(Has(o))
<1>1. PICK l \in Nat : l = Len(argv) /\ DOMAIN argv = 1..l
  BY DEF ScanInv
<1>2. IsFiniteSet(1..l)
  BY FS_Interval
<1>3. \A o : Has(o) \in SUBSET (1..l)
  BY <1>1 DEF Has
<1> QED  BY <1>2, <1>3, FS_Subset

\* One option more.
LEMMA SeenNext ==
  ASSUME ScanInv, pc = "options", optind <= Len(argv), optind' = optind + 1, argv' = argv
  PROVE  /\ optind \in 1..Len(argv) /\ optind' \in 1..Len(argv') + 1 /\ optind' - 1 = optind
         /\ \A i : i \in 1..optind' - 1 <=> i \in 1..optind - 1 \/ i = optind
         /\ \A o : Seen(o)' <=> Seen(o) \/ argv[optind].opt = o
<1>1. PICK l \in Nat : l = Len(argv)
  BY DEF ScanInv
<1>2. PICK n \in 1..l : n = optind
  BY <1>1 DEF ScanInv, Scanned
<1>3. optind' - 1 = n /\ optind' = n + 1 /\ n + 1 \in 1..l + 1
  BY <1>2
<1>4. \A i : i \in 1..n <=> i \in 1..n - 1 \/ i = n
  BY <1>2
<1> QED  BY <1>1, <1>2, <1>3, <1>4 DEF Seen

LEMMA SameEntries ==
  ASSUME ScanInv, pc = "options", optind <= Len(argv), optind' = optind + 1, argv' = argv, entries' = entries,
         argv[optind].opt \notin {"T", "1"}
  PROVE  EntryNames' = Files'[optind' - 1]
<1>1. optind \in 1..Len(argv) /\ optind' - 1 = optind
  BY SeenNext
<1>2. Files' = Files
  BY DEF Files
<1>3. Files[optind] = Files[optind - 1]
  BY <1>1, FilesIs DEF ScanInv
<1> QED  BY <1>1, <1>2, <1>3 DEF ScanInv, Scanned, EntryNames

LEMMA CreateScan == ASSUME ScanInv, Create PROVE ScanInv'
<1>1. pc = "options" /\ optind <= Len(argv) /\ argv[optind].opt = "c" /\ optind' = optind + 1
  BY DEF Create, Option, Shift
<1>2. action' = "c" /\ UNCHANGED <<argv, pc, tarfilename, entries>>
  BY DEF Create, Shift, fileVars
<1>3. FileSeen' /\ Seen("c")' /\ ~ Seen("h")' /\ ~ Seen("?")'
  <2>1. Seen("c")' /\ (Seen("f")' <=> Seen("f")) /\ ~ Seen("h")' /\ ~ Seen("?")'
    BY <1>1, <1>2, SeenNext DEF ScanInv, Scanned
  <2>2. FileSeen'
    BY <1>1, <1>2, <2>1, SeenNext DEF ScanInv, Scanned, FileSeen
  <2> QED  BY <2>1, <2>2
<1>4. EntryNames' = Files'[optind' - 1] /\ optind' \in 1..Len(argv') + 1
  BY <1>1, <1>2, SameEntries, SeenNext
<1> QED  BY <1>1, <1>2, <1>3, <1>4 DEF ScanInv, Scanned

\* A second -f, an -h or an unknown option ends it, with nothing to create.
LEMMA QuitScan ==
  ASSUME ScanInv, pc = "options", NEW a \in {"e", "E"}, Quit(a),
         ~ (Has("c") # {} /\ Cardinality(Has("f")) = 1 /\ Has("h") \cup Has("?") = {})
  PROVE  ScanInv'
<1>1. action' = a /\ pc' \in {"end", "refused"} /\ UNCHANGED <<argv, entries>>
  BY DEF Quit, fileVars
<1>2. \A o : Has(o)' = Has(o)
  BY <1>1 DEF Has
<1>3. a # "c"
  OBVIOUS
<1> QED  BY <1>1, <1>2, <1>3 DEF ScanInv

LEMMA TarFileScan == ASSUME ScanInv, TarFile PROVE ScanInv'
<1>1. pc = "options" /\ optind <= Len(argv) /\ argv[optind].opt = "f"
  BY DEF TarFile, Option
<1>2. PICK n \in 1..Len(argv) : n = optind
  BY <1>1 DEF ScanInv, Scanned
<1>3. FileSeen
  BY <1>1 DEF ScanInv, Scanned
<1>4. CASE tarfilename # << >>
  <2>1. PICK i \in 1..n - 1 : argv[i].opt = "f"
    BY <1>2, <1>3, <1>4 DEF FileSeen
  <2>2. i # n /\ i \in 1..Len(argv)
    OBVIOUS
  <2>3. i \in Has("f") /\ n \in Has("f")
    <3>1. DOMAIN argv = 1..Len(argv)
      BY DEF ScanInv
    <3> QED  BY <1>1, <1>2, <2>1, <2>2, <3>1 DEF Has
  <2>4. Cardinality(Has("f")) # 1
    BY <2>2, <2>3, HasFinite, FS_Singleton
  <2>5. Quit("E")
    BY <1>4 DEF TarFile
  <2> QED  BY <1>1, <2>4, <2>5, QuitScan
<1>5. CASE tarfilename = << >>
  <2>1. tarfilename' = argv[optind].arg /\ optind' = optind + 1 /\ UNCHANGED <<argv, pc, action, entries>>
    BY <1>5 DEF TarFile, Shift, Arg, fileVars
  <2>2. tarfilename' # << >>
    BY <1>1, <1>2, <2>1, OptionIs
  <2>3. ~ Seen("f")
    BY <1>3, <1>5 DEF FileSeen
  <2>4. FileSeen'
    <3>1. \A j \in 1..optind' - 1 : argv'[j].opt = "f" => j = n
      BY <1>1, <1>2, <2>1, <2>3, SeenNext DEF Seen
    <3>2. n \in 1..optind' - 1
      BY <1>1, <1>2, <2>1, SeenNext
    <3> QED  BY <1>1, <1>2, <2>1, <2>2, <3>1, <3>2 DEF FileSeen
  <2>5. (Seen("c")' <=> Seen("c")) /\ ~ Seen("h")' /\ ~ Seen("?")'
    BY <1>1, <2>1, SeenNext DEF ScanInv, Scanned
  <2>6. EntryNames' = Files'[optind' - 1] /\ optind' \in 1..Len(argv') + 1
    BY <1>1, <2>1, SameEntries, SeenNext
  <2>7. action' = IF Seen("c")' THEN "c" ELSE "invalid"
    BY <1>1, <2>1, <2>5 DEF ScanInv, Scanned
  <2>8. Scanned'
    BY <2>4, <2>5, <2>6, <2>7 DEF Scanned
  <2> QED  BY <1>1, <2>1, <2>8 DEF ScanInv
<1> QED  BY <1>4, <1>5

LEMMA AddEntryScan == ASSUME ScanInv, AddEntry PROVE ScanInv'
<1>1. pc = "options" /\ optind <= Len(argv) /\ argv[optind].opt \in {"T", "1"}
  BY DEF AddEntry, Option
<1>2. PICK n \in 1..Len(argv) : n = optind
  BY <1>1 DEF ScanInv, Scanned
<1>3. PICK e \in EntryRecords : e.name = argv[n].arg /\ entries' = Append(entries, e)
  <2>1. PICK k \in {"list", "arg"} : k = IF Option("T") THEN "list" ELSE "arg"
    OBVIOUS
  <2>2. argv[n].arg \in Seq(Strings)
    BY <1>1, <1>2, OptionIs
  <2>3. [kind |-> k, name |-> argv[n].arg] \in EntryRecords
    BY <2>2 DEF EntryRecords
  <2> QED  BY <1>2, <2>1, <2>3 DEF AddEntry, Arg
<1>4. optind' = optind + 1 /\ UNCHANGED <<argv, pc, action, tarfilename>>
  BY DEF AddEntry, Shift
<1>5. entries' \in Seq(EntryRecords) /\ entries \in Seq(EntryRecords)
  BY <1>3 DEF ScanInv
<1>6. EntryNames' = Files'[optind' - 1]
  <2>1. Files' = Files /\ optind' - 1 = n
    BY <1>1, <1>2, <1>4, SeenNext DEF Files
  <2>2. Files[n] = Append(Files[n - 1], argv[n].arg)
    BY <1>1, <1>2, FilesIs DEF ScanInv
  <2>3. Files[n - 1] = EntryNames
    BY <1>1, <1>2 DEF ScanInv, Scanned
  <2>4. EntryNames' = Append(EntryNames, e.name)
    BY <1>3, <1>5 DEF EntryNames
  <2> QED  BY <1>3, <2>1, <2>2, <2>3, <2>4
<1>7. (Seen("c")' <=> Seen("c")) /\ (Seen("f")' <=> Seen("f")) /\ ~ Seen("h")' /\ ~ Seen("?")'
  BY <1>1, <1>4, SeenNext DEF ScanInv, Scanned
<1>8. FileSeen'
  BY <1>1, <1>4, <1>7, SeenNext DEF ScanInv, Scanned, FileSeen
<1>9. optind' \in 1..Len(argv') + 1 /\ action' = IF Seen("c")' THEN "c" ELSE "invalid"
  BY <1>1, <1>4, <1>7, SeenNext DEF ScanInv, Scanned
<1>10. Scanned'
  BY <1>6, <1>7, <1>8, <1>9 DEF Scanned
<1> QED  BY <1>1, <1>4, <1>5, <1>10 DEF ScanInv

LEMMA RefusedScan == ASSUME ScanInv, Help \/ Unknown PROVE ScanInv'
<1>1. PICK o \in {"h", "?"} : pc = "options" /\ optind <= Len(argv) /\ argv[optind].opt = o
  BY DEF Help, Unknown, Option
<1>2. optind \in DOMAIN argv
  BY <1>1 DEF ScanInv, Scanned
<1>3. Has("h") \cup Has("?") # {}
  BY <1>1, <1>2 DEF Has
<1> QED  BY <1>1, <1>3, QuitScan DEF Help, Unknown

LEMMA EndOptionsScan == ASSUME ScanInv, EndOptions PROVE ScanInv'
<1>1. pc = "options" /\ optind > Len(argv)
  BY DEF EndOptions
<1>2. PICK l \in Nat : l = Len(argv) /\ optind = l + 1 /\ optind - 1 = l /\ DOMAIN argv = 1..l
  BY <1>1 DEF ScanInv, Scanned
<1>3. \A o : Seen(o) <=> Has(o) # {}
  BY <1>2 DEF Seen, Has
<1>4. CASE action = "c" /\ tarfilename # << >>
  <2>1. PICK i \in 1..l : /\ argv[i].opt = "f" /\ tarfilename = argv[i].arg
                          /\ \A j \in 1..l : argv[j].opt = "f" => j = i
    BY <1>1, <1>2, <1>4 DEF ScanInv, Scanned, FileSeen
  <2>2. Has("f") = {i}
    BY <1>2, <2>1 DEF Has
  <2>3. Has("c") # {} /\ Cardinality(Has("f")) = 1 /\ Has("h") \cup Has("?") = {}
    BY <1>1, <1>3, <1>4, <2>2, FS_Singleton DEF ScanInv, Scanned
  <2>4. action' = "c" /\ pc' = "files" /\ UNCHANGED <<argv, tarfilename, entries>>
    BY <1>4 DEF EndOptions, Quit, fileVars
  <2>5. \A o : Has(o)' = Has(o)
    BY <2>4 DEF Has
  <2>6. EntryNames' = Files'[Len(argv')]
    BY <1>1, <1>2, <2>4 DEF ScanInv, Scanned, EntryNames, Files
  <2>7. \A k \in Has("f")' : tarfilename' = argv'[k].arg
    BY <2>1, <2>2, <2>4, <2>5
  <2> QED  BY <2>3, <2>4, <2>5, <2>6, <2>7 DEF ScanInv
<1>5. CASE action = "invalid" \/ tarfilename = << >>
  <2>1. Quit("E")
    BY <1>5 DEF EndOptions
  <2>2. Has("c") = {} \/ Has("f") = {}
    BY <1>1, <1>3, <1>5 DEF ScanInv, Scanned, FileSeen
  <2>3. Has("f") = {} => Cardinality(Has("f")) # 1
    BY FS_EmptySet
  <2> QED  BY <1>1, <2>1, <2>2, <2>3, QuitScan
<1>6. action \in {"c", "invalid"}
  BY <1>1 DEF ScanInv, Scanned
<1> QED  BY <1>4, <1>5, <1>6

LEMMA QuietScan ==
  ASSUME ScanInv, UNCHANGED <<entries, lineVars>>,
         pc' = pc \/ (pc = "files" /\ pc' \in {"end", "exit"})
  PROVE  ScanInv'
<1>1. UNCHANGED <<argv, optind, action, tarfilename>>
  BY DEF lineVars
<1>2. (\A o : Has(o)' = Has(o)) /\ (\A o : Seen(o)' <=> Seen(o)) /\ Files' = Files /\ EntryNames' = EntryNames
  BY <1>1 DEF Has, Seen, Files, EntryNames
<1>3. FileSeen' <=> FileSeen
  BY <1>1, <1>2 DEF FileSeen
<1>4. Scanned' <=> Scanned
  BY <1>1, <1>2, <1>3 DEF Scanned
<1>5. LineInit' <=> LineInit
  BY <1>1 DEF LineInit
<1> QED  BY <1>1, <1>2, <1>4, <1>5 DEF ScanInv

LEMMA NextFileKeeps ==
  ASSUME NextFile
  PROVE  UNCHANGED entries /\ pc = "files" /\ pc' \in {"files", "end", "exit"}
<1>1. CASE ReadLine
  BY <1>1 DEF ReadLine, Reading, NextEntry, Give
<1>2. CASE CannotOpenList
  BY <1>2 DEF CannotOpenList, Reading, Exit, fileVars
<1>3. CASE EntryDone
  BY <1>3 DEF EntryDone, NextEntry
<1>4. CASE Argument
  BY <1>4 DEF Argument, Reading, GiveAndOpen, Exit, Give, fileVars
<1>5. CASE ReadDir
  BY <1>5 DEF ReadDir, Reading, GiveAndOpen, Exit, Give, fileVars
<1>6. CASE CloseDir
  BY <1>6 DEF CloseDir, Reading, NextEntry
<1>7. CASE EndFiles
  BY <1>7 DEF EndFiles, fileVars
<1>8. CASE ListFails \/ DirFails
  BY <1>8 DEF ListFails, DirFails, Reading, Exit, fileVars
<1> QED  BY <1>1, <1>2, <1>3, <1>4, <1>5, <1>6, <1>7, <1>8 DEF NextFile

LEMMA ScanNext == ASSUME MainTypes, ScanInv, [Next]_vars PROVE ScanInv'
<1>1. CASE Parse /\ UNCHANGED mainVars
  BY <1>1, CreateScan, TarFileScan, AddEntryScan, RefusedScan, EndOptionsScan DEF Parse
<1>2. CASE NextFile /\ UNCHANGED lineVars
  BY <1>2, NextFileKeeps, QuietScan
<1>3. CASE UNCHANGED mpiVars
  BY <1>3, QuietScan DEF mpiVars, fileVars
<1>4. CASE DivideFiles
  <2>1. CASE UNCHANGED mpiVars
    BY <1>3, <2>1
  <2>2. CASE CallMpitar
    <3>1. pc = "idle" /\ LineInit /\ entries = << >>
      BY <1>4, MpitarCalled DEF ScanInv
    <3>2. /\ pc' = "options" /\ UNCHANGED <<optind, action, tarfilename, entries>>
          /\ argv' = <<[opt |-> "c"], [opt |-> "f", arg |-> TarName(instance[0].name)], [opt |-> "T", arg |-> Index]>>
      BY <2>2 DEF CallMpitar, fileVars
    <3>3. argv' \in Seq(Options)
      <4>1. instance[0].name \in Strings
        BY RanksAssumption DEF MainTypes, AllSettings
      <4>2. TarName(instance[0].name) \in Seq(Strings) \ {<< >>}
        <5>1. \A x \in Strings, y \in Strings : <<x, y>> \in Seq(Strings) /\ <<x, y>> # << >>
          OBVIOUS
        <5> QED  BY <4>1, <5>1, RanksAssumption DEF TarName
      <4>3. Index \in Seq(Strings) \ {<< >>}
        BY TreeAssumption, IndexAssumption
      <4>4. [opt |-> "c"] \in Options
        BY DEF Options
      <4>5. [opt |-> "f", arg |-> TarName(instance[0].name)] \in Options
        BY <4>2 DEF Options
      <4>6. [opt |-> "T", arg |-> Index] \in Options
        BY <4>3 DEF Options
      <4>7. \A x \in Options, y \in Options, z \in Options : <<x, y, z>> \in Seq(Options)
        OBVIOUS
      <4> QED  BY <3>2, <4>4, <4>5, <4>6, <4>7
    <3>4. optind' = 1 /\ action' = "invalid" /\ tarfilename' = << >> /\ entries' = << >>
      BY <3>1, <3>2 DEF LineInit
    <3>5. \A o : ~ Seen(o)'
      BY <3>4 DEF Seen
    <3>6. EntryNames' = Files'[optind' - 1]
      BY <3>3, <3>4, FilesBegin DEF EntryNames
    <3>7. optind' \in 1..Len(argv') + 1
      BY <3>3, <3>4
    <3>8. Scanned'
      BY <3>4, <3>5, <3>6, <3>7 DEF Scanned, FileSeen
    <3> QED  BY <3>2, <3>3, <3>4, <3>8 DEF ScanInv
  <2> QED  BY <1>4, <2>1, <2>2, MpitarCalled
<1>5. CASE Main
  <2>1. DivideFiles \/ UNCHANGED mpiVars
    <3>1. ASSUME NEW r \in Ranks, GetSettings(r) PROVE UNCHANGED mpiVars
      BY <3>1, Reads
    <3>2. ReadName => UNCHANGED mpiVars
      BY WalkStep
    <3> QED  BY <1>5, <3>1, <3>2 DEF Main, HelpCheck, GetPaths, ReturnPaths, EndPaths, Begin, Walk, Leave
  <2> QED  BY <1>3, <1>4, <2>1
<1>6. CASE UNCHANGED vars
  BY <1>3, <1>6 DEF vars
<1> QED  BY <1>1, <1>2, <1>5, <1>6 DEF Next

LEMMA InitScan == Init => ScanInv
<1> SUFFICES ASSUME Init PROVE ScanInv
  OBVIOUS
<1>1. argv \in Seq(Options)
  <2>1. << >> \in Seq(Options)
    OBVIOUS
  <2> QED  BY <2>1, LinesAssumption DEF Init
<1>2. optind = 1 /\ LineInit /\ action = "invalid" /\ tarfilename = << >> /\ entries = << >> /\ pc \in {"idle", "options"}
  BY DEF Init, LineInit, FileInit
<1>3. EntryNames = Files[optind - 1]
  BY <1>1, <1>2, FilesIs DEF EntryNames
<1>4. \A o : ~ Seen(o)
  BY <1>2 DEF Seen
<1>5. optind \in 1..Len(argv) + 1
  BY <1>1, <1>2
<1>6. Scanned
  BY <1>2, <1>3, <1>4, <1>5 DEF Scanned, FileSeen
<1> QED  BY <1>1, <1>2, <1>6 DEF ScanInv

\* mpitar's options are read alike in any order: an archive is created if there
\* is -c, one -f and nothing unknown, of the lists and arguments in their order.
THEOREM AnyOrderOfOptions == Spec => []OptionsInAnyOrder
<1>1. Init => MainTypes /\ ScanInv
  BY InitTypes, InitScan
<1>2. MainTypes /\ ScanInv /\ [Next]_vars => (MainTypes /\ ScanInv)'
  BY TypesStep, ScanNext
<1>3. ScanInv => OptionsInAnyOrder
  BY DEF ScanInv, OptionsInAnyOrder, EntryNames
<1> QED  BY <1>1, <1>2, <1>3, PTL DEF Spec
-----------------------------------------------------------------------------
(* The listing of the files below a directory t.                             *)

Pre(p, q)     == Len(p) <= Len(q) /\ \A i \in 1..Len(p) : q[i] = p[i]
In(t, p)      == p = t \/ p \in DOMAIN Dir \ (Links \cup Unread)
Reached(t, p) ==
  /\ Pre(t, p)
  /\ \A n \in Len(t)..Len(p) - 1 : In(t, SubSeq(p, 1, n)) /\ p[n + 1] \in Names(SubSeq(p, 1, n))
LeavesAt(t)   == {p \in AllPaths : Reached(t, p) /\ (In(t, p) => Names(p) = {})}

LEMMA DirType ==
  ASSUME NEW p \in DOMAIN Dir
  PROVE  p \in Paths /\ Dir[p] \in Seq(Strings) /\ Names(p) \subseteq Strings
BY TreeAssumption DEF Names, ToSet, Paths

LEMMA AllPathsType == AllPaths \subseteq Paths
<1>1. Cwd \in Paths /\ DOMAIN Dir \subseteq Paths
  BY RanksAssumption, TreeAssumption DEF Paths
<1>2. ASSUME NEW p \in DOMAIN Dir, NEW n \in Names(p) PROVE Append(p, n) \in Paths
  BY DirType, AppendProperties DEF Paths
<1>3. ASSUME NEW q \in AllPaths PROVE q \in Paths
  <2>1. q \in {Cwd} \cup DOMAIN Dir \/ \E p \in DOMAIN Dir : \E n \in Names(p) : q = Append(p, n)
    BY DEF AllPaths
  <2> QED  BY <1>1, <1>2, <2>1
<1> QED  BY <1>3

LEMMA InitialPart ==
  ASSUME NEW q \in Paths, NEW n \in 0..Len(q)
  PROVE  SubSeq(q, 1, n) \in Paths /\ Len(SubSeq(q, 1, n)) = n /\ \A i \in 1..n : SubSeq(q, 1, n)[i] = q[i]
<1>1. \A i \in 1..n : q[i] \in Strings
  BY DEF Paths
<1>2. n \in Nat
  BY DEF Paths
<1>3. /\ SubSeq(q, 1, n) \in Seq(Strings)
      /\ Len(SubSeq(q, 1, n)) = IF 1 <= n THEN n - 1 + 1 ELSE 0
      /\ \A i \in 1..n - 1 + 1 : SubSeq(q, 1, n)[i] = q[1 + i - 1]
  BY <1>1, <1>2, SubSeqProperties
<1> QED  BY <1>2, <1>3 DEF Paths

LEMMA SamePath ==
  ASSUME NEW p \in Paths, NEW q \in Paths, Len(p) = Len(q), \A i \in 1..Len(p) : q[i] = p[i]
  PROVE  p = q
BY SeqEqual DEF Paths

LEMMA PrefixIs ==
  ASSUME NEW p \in Paths, NEW q \in Paths
  PROVE  /\ IsPrefix(p, q) <=> Pre(p, q)
         /\ Pre(p, q) => SubSeq(q, 1, Len(p)) = p
         /\ Pre(p, q) /\ Len(p) = Len(q) => p = q
<1>1. PICK l \in Nat, m \in Nat : l = Len(p) /\ m = Len(q)
  BY DEF Paths
<1>2. SubSeq(p, 1, l) = p
  <2>1. l \in 0..Len(p)
    BY <1>1
  <2>2. SubSeq(p, 1, l) \in Paths /\ Len(SubSeq(p, 1, l)) = l /\ \A i \in 1..l : SubSeq(p, 1, l)[i] = p[i]
    BY <2>1, InitialPart
  <2> QED  BY <1>1, <2>2, SamePath
<1>3. ASSUME l <= m PROVE SubSeq(q, 1, l) \in Paths /\ Len(SubSeq(q, 1, l)) = l /\ \A i \in 1..l : SubSeq(q, 1, l)[i] = q[i]
  <2>1. l \in 0..Len(q)
    BY <1>1, <1>3
  <2> QED  BY <2>1, InitialPart
<1>4. Pre(p, q) => SubSeq(q, 1, l) = p
  BY <1>1, <1>3, SamePath DEF Pre
<1>5. IsPrefix(p, q) => Pre(p, q)
  BY <1>1, <1>2, <1>3 DEF IsPrefix, Pre
<1>6. Pre(p, q) => IsPrefix(p, q)
  BY <1>1, <1>2, <1>4 DEF IsPrefix, Pre
<1>7. Pre(p, q) /\ l = m => p = q
  BY <1>1, SamePath DEF Pre
<1> QED  BY <1>1, <1>4, <1>5, <1>6, <1>7

LEMMA LeavesAre == ASSUME MainTypes PROVE Leaves = LeavesAt(Top)
<1>1. Top \in Paths
  BY TopType
<1>2. \A p \in AllPaths : IsPrefix(Top, p) <=> Pre(Top, p)
  BY <1>1, AllPathsType, PrefixIs
<1>3. \A p : Entered(p) <=> In(Top, p)
  BY DEF Entered, In
<1> QED  BY <1>2, <1>3 DEF Leaves, LeavesAt, Reached

\* A name further.
LEMMA ReachedStep ==
  ASSUME NEW t \in Paths, NEW d \in DOMAIN Dir, Reached(t, d), In(t, d), NEW n \in Names(d)
  PROVE  /\ Append(d, n) \in AllPaths /\ Append(d, n) \in Paths /\ Reached(t, Append(d, n))
         /\ Append(d, n) # t /\ Pre(d, Append(d, n))
         /\ Len(Append(d, n)) = Len(d) + 1 /\ Append(d, n)[Len(d) + 1] = n
<1> PICK p : p = Append(d, n)
  OBVIOUS
<1>1. d \in Paths /\ n \in Strings
  BY DirType
<1>2. PICK l \in Nat, m \in Nat : l = Len(d) /\ m = Len(t) /\ m <= l
  BY <1>1 DEF Reached, Pre, Paths
<1>3. p \in Paths /\ Len(p) = l + 1 /\ p[l + 1] = n /\ \A i \in 1..l : p[i] = d[i]
  BY <1>1, <1>2, AppendProperties DEF Paths
<1>4. p \in AllPaths
  BY DEF AllPaths
<1>5. Pre(d, p)
  BY <1>2, <1>3 DEF Pre
<1>6. Pre(t, p)
  BY <1>2, <1>3 DEF Reached, Pre
<1>7. ASSUME NEW k \in m..l + 1 - 1 PROVE In(t, SubSeq(p, 1, k)) /\ p[k + 1] \in Names(SubSeq(p, 1, k))
  <2>1. CASE k = l
    <3>1. SubSeq(p, 1, k) = d
      BY <1>1, <1>2, <1>3, <1>5, <2>1, PrefixIs
    <3> QED  BY <1>3, <2>1, <3>1
  <2>2. CASE k # l
    <3>1. k \in 0..l + 1 /\ k \in 0..l /\ k \in m..l - 1 /\ k + 1 \in 1..l
      BY <1>2, <2>2
    <3>2. SubSeq(p, 1, k) = SubSeq(d, 1, k)
      <4>1. SubSeq(p, 1, k) \in Paths /\ Len(SubSeq(p, 1, k)) = k /\ \A i \in 1..k : SubSeq(p, 1, k)[i] = p[i]
        BY <1>3, <3>1, InitialPart
      <4>2. SubSeq(d, 1, k) \in Paths /\ Len(SubSeq(d, 1, k)) = k /\ \A i \in 1..k : SubSeq(d, 1, k)[i] = d[i]
        BY <1>1, <1>2, <3>1, InitialPart
      <4>3. \A i \in 1..k : i \in 1..l
        BY <3>1
      <4> QED  BY <1>3, <4>1, <4>2, <4>3, SamePath
    <3> QED  BY <1>2, <1>3, <3>1, <3>2 DEF Reached
  <2> QED  BY <2>1, <2>2
<1>8. Reached(t, p)
  BY <1>2, <1>3, <1>6, <1>7 DEF Reached
<1>9. p # t
  BY <1>2, <1>3
<1> QED  BY <1>2, <1>3, <1>4, <1>5, <1>8, <1>9

\* What is reached through a directory is reached through one of its names.
LEMMA ReachedThrough ==
  ASSUME NEW t \in Paths, NEW p \in Paths, NEW q \in Paths, Reached(t, q), Pre(t, p), Pre(p, q), p # q
  PROVE  In(t, p) /\ \E n \in Names(p) : n \in Strings /\ Pre(Append(p, n), q)
<1>1. PICK l \in Nat, m \in Nat, k \in Nat : l = Len(p) /\ m = Len(t) /\ k = Len(q)
  BY DEF Paths
<1>2. m <= l /\ l < k
  BY <1>1, PrefixIs DEF Pre
<1>3. l \in m..k - 1 /\ l + 1 \in 1..k
  BY <1>2
<1>4. SubSeq(q, 1, l) = p
  BY <1>1, PrefixIs
<1>5. In(t, p) /\ q[l + 1] \in Names(p)
  BY <1>1, <1>3, <1>4 DEF Reached
<1>6. PICK n \in Strings : n = q[l + 1]
  BY <1>1, <1>3 DEF Paths
<1>7. Len(Append(p, n)) = l + 1 /\ \A i \in 1..l + 1 : Append(p, n)[i] = IF i <= l THEN p[i] ELSE n
  BY <1>1, AppendProperties DEF Paths
<1>8. Pre(Append(p, n), q)
  BY <1>1, <1>2, <1>6, <1>7 DEF Pre
<1> QED  BY <1>5, <1>6, <1>8

LEMMA PreAppend ==
  ASSUME NEW d \in Paths, NEW n \in Strings, NEW q \in Paths
  PROVE  Pre(Append(d, n), q) <=> Pre(d, q) /\ Len(d) < Len(q) /\ q[Len(d) + 1] = n
<1>1. PICK l \in Nat, k \in Nat : l = Len(d) /\ k = Len(q)
  BY DEF Paths
<1>2. Len(Append(d, n)) = l + 1 /\ Append(d, n)[l + 1] = n /\ \A i \in 1..l : Append(d, n)[i] = d[i]
  BY <1>1, AppendProperties DEF Paths
<1>3. \A i : i \in 1..l + 1 <=> i \in 1..l \/ i = l + 1
  OBVIOUS
<1> QED  BY <1>1, <1>2, <1>3 DEF Pre

\* What a call of getPaths has before it: the names it has not read, and its own
\* directory if it meets none.
Ahead(f, q) ==
  \/ \E j \in 1..Len(f.rest) : f.rest[j] \notin Dots /\ Pre(Append(f.dir, f.rest[j]), q)
  \/ q = f.dir /\ Names(q) = {}
Coming(s, q) == \E i \in 1..Len(s) : Ahead(s[i], q)

\* A call under way: of a directory that is entered, whose names it has read to
\* some place.
CallOK(t, f) ==
  /\ f.dir \in DOMAIN Dir /\ In(t, f.dir) /\ Reached(t, f.dir)
  /\ \A j \in 1..Len(f.rest) : f.rest[j] \in ToSet(Dir[f.dir])
  /\ \A i, j \in 1..Len(f.rest) : f.rest[i] = f.rest[j] => i = j
  /\ f.num = 0 => \A n \in Names(f.dir) : \E j \in 1..Len(f.rest) : f.rest[j] = n
  /\ f.num # 0 => Names(f.dir) # {}

\* Call f has made call g, or one that has: the name it went into is read.
Above(f, g) ==
  /\ Pre(f.dir, g.dir) /\ Len(f.dir) < Len(g.dir)
  /\ \A j \in 1..Len(f.rest) : f.rest[j] # g.dir[Len(f.dir) + 1]

Calls(t, s) ==
  /\ \A i \in 1..Len(s) : CallOK(t, s[i])
  /\ \A i, k \in 1..Len(s) : i < k => Above(s[i], s[k])

LEMMA Innermost ==
  ASSUME NEW s \in Seq(Frames), s # << >>
  PROVE  s = Append(Front(s), Last(s)) /\ Front(s) \in Seq(Frames) /\ Last(s) \in Frames
<1>1. Front(s) \in Seq(Frames) /\ Last(s) \in Frames
  BY FrontAndLast
<1>2. PICK l \in Nat : l + 1 = Len(s)
  <2>1. Len(s) \in Nat /\ Len(s) > 0
    BY EmptySeq
  <2>2. Len(s) - 1 \in Nat /\ Len(s) - 1 + 1 = Len(s)
    BY <2>1
  <2> QED  BY <2>2
<1>3. Len(Front(s)) = l /\ \A i \in 1..l : Front(s)[i] = s[i]
  <2>1. Len(s) - 1 = l /\ \A i \in 1..l : i \in 1..Len(s)
    BY <1>2
  <2>2. \A i \in 1..l : s[i] \in Frames
    BY <2>1, ElementOfSeq
  <2>3. /\ Len(SubSeq(s, 1, l)) = IF 1 <= l THEN l - 1 + 1 ELSE 0
        /\ \A i \in 1..l - 1 + 1 : SubSeq(s, 1, l)[i] = s[1 + i - 1]
    BY <2>2, SubSeqProperties
  <2> QED  BY <2>1, <2>3 DEF Front
<1>4. PICK v \in Seq(Frames) : v = Front(s)
  BY <1>1
<1>5. PICK w \in Frames : w = Last(s)
  BY <1>1
<1>6. Append(v, w) \in Seq(Frames) /\ Len(Append(v, w)) = l + 1 /\ Append(v, w)[l + 1] = w
      /\ \A i \in 1..l : Append(v, w)[i] = v[i]
  BY <1>3, <1>4, AppendProperties
<1>7. \A i \in 1..l + 1 : Append(v, w)[i] = s[i]
  <2> TAKE i \in 1..l + 1
  <2>1. CASE i = l + 1
    BY <1>2, <1>5, <1>6, <2>1 DEF Last
  <2>2. CASE i # l + 1
    <3>1. i \in 1..l
      BY <2>2
    <3> QED  BY <1>3, <1>4, <1>6, <3>1
  <2> QED  BY <2>1, <2>2
<1>8. Append(v, w) = s
  BY <1>2, <1>6, <1>7, SeqEqual
<1> QED  BY <1>1, <1>4, <1>5, <1>8

LEMMA CallsAppend ==
  ASSUME NEW t, NEW v \in Seq(Frames), NEW f \in Frames
  PROVE  /\ Calls(t, Append(v, f)) <=> Calls(t, v) /\ CallOK(t, f) /\ \A i \in 1..Len(v) : Above(v[i], f)
         /\ \A q : Coming(Append(v, f), q) <=> Coming(v, q) \/ Ahead(f, q)
<1>1. PICK l \in Nat : l = Len(v)
  OBVIOUS
<1>2. PICK s : s = Append(v, f)
  OBVIOUS
<1>3. Len(s) = l + 1 /\ s[l + 1] = f /\ \A i \in 1..l : s[i] = v[i]
  BY <1>1, <1>2, AppendProperties
<1>4. \A i : i \in 1..l + 1 <=> i \in 1..l \/ i = l + 1
  BY <1>1
<1>5. \A i \in 1..l : i < l + 1 /\ ~ (l + 1 < i)
  BY <1>1
<1>6. (\A i, k \in 1..l + 1 : i < k => Above(s[i], s[k])) <=>
        (\A i, k \in 1..l : i < k => Above(v[i], v[k])) /\ \A i \in 1..l : Above(v[i], f)
  BY <1>3, <1>4, <1>5
<1>7. (\A i \in 1..l + 1 : CallOK(t, s[i])) <=> (\A i \in 1..l : CallOK(t, v[i])) /\ CallOK(t, f)
  BY <1>3, <1>4
<1>8. \A q : (\E i \in 1..l + 1 : Ahead(s[i], q)) <=> (\E i \in 1..l : Ahead(v[i], q)) \/ Ahead(f, q)
  BY <1>3, <1>4
<1> QED  BY <1>1, <1>2, <1>3, <1>6, <1>7, <1>8 DEF Calls, Coming

\* What is below a call is not before the calls above it.
LEMMA NotAhead ==
  ASSUME NEW f \in Frames, NEW g \in Frames, Above(f, g), NEW q \in Paths, Pre(g.dir, q),
         f.dir \in Paths, g.dir \in Paths, f.rest \in Seq(Strings)
  PROVE  ~ Ahead(f, q)
<1>0. Len(f.dir) \in Nat /\ Len(g.dir) \in Nat /\ Len(q) \in Nat
  BY DEF Paths
<1>1. PICK l \in Nat, m \in Nat, k \in Nat : l = Len(f.dir) /\ m = Len(g.dir) /\ k = Len(q) /\ l < m /\ m <= k
  BY <1>0 DEF Above, Pre
<1>2. q[l + 1] = g.dir[l + 1]
  <2>1. l + 1 \in 1..m
    BY <1>1
  <2> QED  BY <1>1, <2>1 DEF Pre
<1>3. q # f.dir
  BY <1>1
<1>4. ASSUME NEW j \in 1..Len(f.rest), Pre(Append(f.dir, f.rest[j]), q) PROVE FALSE
  <2>1. f.rest[j] \in Strings
    BY ElementOfSeq
  <2>2. q[l + 1] = f.rest[j]
    BY <1>1, <1>4, <2>1, PreAppend
  <2> QED  BY <1>1, <1>2, <2>2 DEF Above
<1> QED  BY <1>3, <1>4 DEF Ahead

LEMMA FrameParts ==
  ASSUME NEW f \in Frames
  PROVE  f.dir \in Paths /\ f.rest \in Seq(Strings) /\ f.num \in {0, 1}
BY DEF Frames

LEMMA NoneAhead ==
  ASSUME NEW v \in Seq(Frames), NEW g \in Frames, \A i \in 1..Len(v) : Above(v[i], g),
         NEW q \in Paths, Pre(g.dir, q)
  PROVE  ~ Coming(v, q)
<1> SUFFICES ASSUME NEW i \in 1..Len(v) PROVE ~ Ahead(v[i], q)
  BY DEF Coming
<1>1. PICK f \in Frames : f = v[i]
  BY ElementOfSeq
<1> QED  BY <1>1, NotAhead, FrameParts

LEMMA FirstAndOthers ==
  ASSUME NEW S, NEW s \in Seq(S), s # << >>
  PROVE  /\ Tail(s) \in Seq(S) /\ Len(s) = Len(Tail(s)) + 1 /\ Head(s) \in S /\ s[1] = Head(s)
         /\ \A j \in 1..Len(Tail(s)) : Tail(s)[j] = s[j + 1]
         /\ \A j : j \in 1..Len(s) <=> j = 1 \/ \E k \in 1..Len(Tail(s)) : j = k + 1
<1>1. Len(s) \in Nat /\ Len(s) > 0
  BY EmptySeq
<1>2. Tail(s) \in Seq(S) /\ Head(s) \in S /\ Len(Tail(s)) = Len(s) - 1
  BY <1>1, HeadTailProperties
<1>3. PICK l \in Nat : l = Len(Tail(s)) /\ l + 1 = Len(s)
  <2>1. Len(s) - 1 \in Nat /\ Len(s) - 1 + 1 = Len(s)
    BY <1>1
  <2> QED  BY <1>2, <2>1
<1>4. \A j \in 1..l : Tail(s)[j] = s[j + 1]
  BY <1>2, <1>3, HeadTailProperties
<1>5. \A j : j \in 1..l + 1 <=> j = 1 \/ \E k \in 1..l : j = k + 1
  <2> TAKE j
  <2>1. ASSUME j \in 1..l + 1, j # 1 PROVE \E k \in 1..l : j = k + 1
    <3>1. j - 1 \in 1..l /\ j = j - 1 + 1
      BY <2>1
    <3> QED  BY <3>1
  <2>2. \A k \in 1..l : k + 1 \in 1..l + 1
    OBVIOUS
  <2> QED  BY <2>1, <2>2
<1>6. s[1] = Head(s)
  BY <1>1
<1> QED  BY <1>2, <1>3, <1>4, <1>5, <1>6

\* One name is read.
LEMMA CallRead ==
  ASSUME NEW t, NEW w \in Frames, NEW f \in Frames, CallOK(t, w), w.rest # << >>, NEW n, n = Head(w.rest),
         f.dir = w.dir, f.rest = Tail(w.rest), f.num = IF n \in Dots THEN w.num ELSE 1
  PROVE  /\ CallOK(t, f) /\ n \in ToSet(Dir[w.dir]) /\ \A j \in 1..Len(f.rest) : f.rest[j] # n
         /\ \A q : Ahead(w, q) <=> Ahead(f, q) \/ (n \notin Dots /\ Pre(Append(w.dir, n), q))
<1>1. PICK r \in Seq(Strings), s \in Seq(Strings) : r = w.rest /\ s = f.rest /\ r # << >> /\ s = Tail(r) /\ n = Head(r)
  BY FrameParts
<1>2. PICK l \in Nat : l = Len(s)
  OBVIOUS
<1>3. /\ Len(r) = l + 1 /\ r[1] = n /\ \A j \in 1..l : s[j] = r[j + 1]
      /\ \A j : j \in 1..l + 1 <=> j = 1 \/ \E k \in 1..l : j = k + 1
  BY <1>1, <1>2, FirstAndOthers
<1>4. \A j \in 1..l : j + 1 \in 1..l + 1 /\ j + 1 # 1
  BY <1>2
<1>5. 1 \in 1..l + 1
  BY <1>2
<1>6. /\ \A j \in 1..l + 1 : r[j] \in ToSet(Dir[w.dir])
      /\ \A i, j \in 1..l + 1 : r[i] = r[j] => i = j
      /\ w.num = 0 => \A m \in Names(w.dir) : \E j \in 1..l + 1 : r[j] = m
      /\ w.num # 0 => Names(w.dir) # {}
      /\ w.dir \in DOMAIN Dir /\ In(t, w.dir) /\ Reached(t, w.dir)
  BY <1>1, <1>3 DEF CallOK
<1>7. \A j \in 1..l : s[j] # n
  BY <1>3, <1>4, <1>5, <1>6
<1>8. \A j \in 1..l : s[j] \in ToSet(Dir[w.dir])
  BY <1>3, <1>4, <1>6
<1>9. \A i, j \in 1..l : s[i] = s[j] => i = j
  <2> SUFFICES ASSUME NEW i \in 1..l, NEW j \in 1..l, s[i] = s[j] PROVE i = j
    OBVIOUS
  <2>1. i + 1 = j + 1
    BY <1>3, <1>4, <1>6
  <2> QED  BY <2>1
<1>10. n \in ToSet(Dir[w.dir])
  BY <1>3, <1>5, <1>6
<1>11. f.num = 0 => \A m \in Names(w.dir) : \E j \in 1..l : s[j] = m
  <2> SUFFICES ASSUME f.num = 0, NEW m \in Names(w.dir) PROVE \E j \in 1..l : s[j] = m
    OBVIOUS
  <2>1. n \in Dots /\ w.num = 0
    OBVIOUS
  <2>2. m \notin Dots
    BY DEF Names
  <2>3. PICK j \in 1..l + 1 : r[j] = m
    BY <1>6, <2>1
  <2>4. j # 1
    BY <1>3, <2>1, <2>2, <2>3
  <2>5. PICK k \in 1..l : j = k + 1
    BY <1>3, <2>3, <2>4
  <2> QED  BY <1>3, <2>3, <2>5
<1>12. f.num # 0 => Names(w.dir) # {}
  <2>1. CASE n \in Dots
    BY <1>6, <2>1
  <2>2. CASE n \notin Dots
    BY <1>10, <2>2 DEF Names
  <2> QED  BY <2>1, <2>2
<1>13. CallOK(t, f)
  BY <1>1, <1>2, <1>6, <1>8, <1>9, <1>11, <1>12 DEF CallOK
<1>14. ASSUME NEW q PROVE Ahead(w, q) <=> Ahead(f, q) \/ (n \notin Dots /\ Pre(Append(w.dir, n), q))
  <2> DEFINE P(x) == x \notin Dots /\ Pre(Append(w.dir, x), q)
  <2>1. (\E j \in 1..l + 1 : P(r[j])) <=> P(n) \/ \E j \in 1..l : P(s[j])
    <3> HIDE DEF P
    <3>1. ASSUME NEW j \in 1..l + 1, P(r[j]) PROVE P(n) \/ \E k \in 1..l : P(s[k])
      <4>1. CASE j = 1
        BY <1>3, <3>1, <4>1
      <4>2. CASE j # 1
        <5>1. PICK k \in 1..l : j = k + 1
          BY <1>3, <4>2
        <5> QED  BY <1>3, <3>1, <5>1
      <4> QED  BY <4>1, <4>2
    <3>2. ASSUME NEW j \in 1..l, P(s[j]) PROVE \E k \in 1..l + 1 : P(r[k])
      BY <1>3, <1>4, <3>2
    <3>3. P(n) => \E k \in 1..l + 1 : P(r[k])
      BY <1>3, <1>5
    <3> QED  BY <3>1, <3>2, <3>3
  <2> QED  BY <1>1, <1>2, <1>3, <2>1 DEF Ahead
<1> QED  BY <1>1, <1>2, <1>7, <1>10, <1>13, <1>14

\* A call has all below its directory before it.
LEMMA CallNew ==
  ASSUME NEW t \in Paths, NEW p \in DOMAIN Dir, In(t, p), Reached(t, p), NEW c \in Frames, c = Call(p)
  PROVE  /\ CallOK(t, c)
         /\ \A q \in LeavesAt(t) : Ahead(c, q) <=> Pre(p, q)
<1>1. c.dir = p /\ c.rest = Dir[p] /\ c.num = 0
  BY DEF Call
<1>2. p \in Paths /\ Dir[p] \in Seq(Strings)
  BY DirType
<1>3. PICK s \in Seq(Strings) : s = Dir[p] /\ DOMAIN s = 1..Len(s)
  BY <1>2
<1>4. \A n \in Names(p) : n \notin Dots /\ \E j \in 1..Len(s) : s[j] = n
  BY <1>3 DEF Names, ToSet
<1>5. CallOK(t, c)
  <2>1. \A j \in 1..Len(s) : s[j] \in ToSet(Dir[p])
    BY <1>3 DEF ToSet
  <2>2. \A i, j \in 1..Len(s) : s[i] = s[j] => i = j
    BY <1>3, NamesAssumption
  <2> QED  BY <1>1, <1>3, <1>4, <2>1, <2>2 DEF CallOK
<1>6. ASSUME NEW q \in LeavesAt(t), Pre(p, q) PROVE Ahead(c, q)
  <2>1. q \in Paths /\ Reached(t, q) /\ (In(t, q) => Names(q) = {}) /\ Pre(t, p)
    BY AllPathsType DEF LeavesAt, Reached
  <2>2. CASE p = q
    BY <1>1, <2>1, <2>2 DEF Ahead
  <2>3. CASE p # q
    <3>1. PICK n \in Names(p) : n \in Strings /\ Pre(Append(p, n), q)
      BY <1>2, <1>6, <2>1, <2>3, ReachedThrough
    <3> QED  BY <1>1, <1>3, <1>4, <3>1 DEF Ahead
  <2> QED  BY <2>2, <2>3
<1>7. ASSUME NEW q \in LeavesAt(t), Ahead(c, q) PROVE Pre(p, q)
  <2>1. q \in Paths
    BY AllPathsType DEF LeavesAt
  <2>2. CASE q = p
    BY <1>2, <2>2 DEF Pre, Paths
  <2>3. CASE q # p
    <3>1. PICK j \in 1..Len(s) : Pre(Append(p, s[j]), q)
      BY <1>1, <1>3, <1>7, <2>3 DEF Ahead
    <3>2. s[j] \in Strings
      BY ElementOfSeq
    <3> QED  BY <1>2, <2>1, <3>1, <3>2, PreAppend
  <2> QED  BY <2>2, <2>3
<1> QED  BY <1>5, <1>6, <1>7

LEMMA AboveCalled ==
  ASSUME NEW f \in Frames, NEW g \in Frames, Above(f, g), NEW n \in Strings, NEW c \in Frames, c.dir = Append(g.dir, n)
  PROVE  Above(f, c)
<1>1. PICK d \in Paths, e \in Paths : d = f.dir /\ e = g.dir
  BY FrameParts
<1>2. PICK k \in Nat, l \in Nat : k = Len(d) /\ l = Len(e)
  BY DEF Paths
<1>3. k < l /\ (\A i \in 1..k : e[i] = d[i]) /\ \A j \in 1..Len(f.rest) : f.rest[j] # e[k + 1]
  BY <1>1, <1>2 DEF Above, Pre
<1>4. Len(Append(e, n)) = l + 1 /\ \A i \in 1..l : Append(e, n)[i] = e[i]
  BY <1>2, AppendProperties DEF Paths
<1>5. k + 1 \in 1..l /\ \A i \in 1..k : i \in 1..l
  BY <1>3
<1> QED  BY <1>1, <1>2, <1>3, <1>4, <1>5 DEF Above, Pre

\* What is listed is listed once, and is all that no call has before it.
Complete(t, s, paths) ==
  /\ Calls(t, s)
  /\ ToSet(paths) \subseteq LeavesAt(t)
  /\ \A q \in LeavesAt(t) : q \in ToSet(paths) <=> ~ Coming(s, q)
  /\ \A i, j \in 1..Len(paths) : paths[i] = paths[j] => i = j

LEMMA OnePathMore ==
  ASSUME NEW paths \in Seq(Paths), NEW p \in Paths, p \notin ToSet(paths),
         \A i, j \in 1..Len(paths) : paths[i] = paths[j] => i = j
  PROVE  /\ ToSet(Append(paths, p)) = ToSet(paths) \cup {p}
         /\ \A i, j \in 1..Len(Append(paths, p)) : Append(paths, p)[i] = Append(paths, p)[j] => i = j
<1>1. PICK l \in Nat : l = Len(paths) /\ DOMAIN paths = 1..l
  OBVIOUS
<1>2. PICK s \in Seq(Paths) : s = Append(paths, p)
  BY AppendProperties
<1>3. Len(s) = l + 1 /\ s[l + 1] = p /\ (\A i \in 1..l : s[i] = paths[i]) /\ DOMAIN s = 1..l + 1
  BY <1>1, <1>2, AppendProperties
<1>4. \A i : i \in 1..l + 1 <=> i \in 1..l \/ i = l + 1
  BY <1>1
<1>5. ToSet(s) = ToSet(paths) \cup {p}
  BY <1>1, <1>3, <1>4 DEF ToSet
<1>6. \A i \in 1..l : paths[i] # p
  BY <1>1 DEF ToSet
<1>7. \A i, j \in 1..l + 1 : s[i] = s[j] => i = j
  BY <1>1, <1>3, <1>4, <1>6
<1> QED  BY <1>2, <1>3, <1>5, <1>7

LEMMA LeavesType == \A t : LeavesAt(t) \subseteq Paths
BY AllPathsType DEF LeavesAt

LEMMA DotStep ==
  ASSUME NEW t, NEW v \in Seq(Frames), NEW w \in Frames, NEW f \in Frames, NEW paths,
         Complete(t, Append(v, w), paths), w.rest # << >>, Head(w.rest) \in Dots,
         f.dir = w.dir, f.rest = Tail(w.rest), f.num = w.num
  PROVE  Complete(t, Append(v, f), paths)
<1>1. Calls(t, v) /\ CallOK(t, w) /\ \A i \in 1..Len(v) : Above(v[i], w)
  BY CallsAppend DEF Complete
<1>2. CallOK(t, f) /\ \A q : Ahead(w, q) <=> Ahead(f, q)
  BY <1>1, CallRead
<1>3. \A i \in 1..Len(v) : Above(v[i], f)
  BY <1>1 DEF Above
<1>4. Calls(t, Append(v, f))
  BY <1>1, <1>2, <1>3, CallsAppend
<1>5. \A q : Coming(Append(v, f), q) <=> Coming(Append(v, w), q)
  BY <1>2, CallsAppend
<1> QED  BY <1>4, <1>5 DEF Complete

\* Path p is the name read on the way from calls r to calls s.
Named(t, r, s, p) ==
  /\ p \in AllPaths /\ Reached(t, p) /\ p # t
  /\ Calls(t, s) /\ ~ Coming(s, p)
  /\ \A q : Coming(r, q) <=> Coming(s, q) \/ Pre(p, q)
  /\ \A i \in 1..Len(s) : \A c \in Frames : c.dir = p => Above(s[i], c)

\* The name read is of a directory that is entered, or of a file.
LEMMA NameStep ==
  ASSUME NEW t \in Paths, NEW v \in Seq(Frames), NEW w \in Frames, NEW f \in Frames, NEW n \in Strings,
         NEW p, p = Append(w.dir, n),
         Calls(t, Append(v, w)), w.rest # << >>, n = Head(w.rest), n \notin Dots,
         f.dir = w.dir, f.rest = Tail(w.rest), f.num = 1
  PROVE  Named(t, Append(v, w), Append(v, f), p)
<1>1. Calls(t, v) /\ CallOK(t, w) /\ \A i \in 1..Len(v) : Above(v[i], w)
  BY CallsAppend
<1>2. /\ CallOK(t, f) /\ n \in ToSet(Dir[w.dir]) /\ \A j \in 1..Len(f.rest) : f.rest[j] # n
      /\ \A q : Ahead(w, q) <=> Ahead(f, q) \/ Pre(p, q)
  BY <1>1, CallRead
<1>3. \A i \in 1..Len(v) : Above(v[i], f)
  BY <1>1 DEF Above
<1>4. Calls(t, Append(v, f))
  BY <1>1, <1>2, <1>3, CallsAppend
<1>5. n \in Names(w.dir)
  BY <1>2 DEF Names
<1>6. w.dir \in DOMAIN Dir /\ In(t, w.dir) /\ Reached(t, w.dir)
  BY <1>1 DEF CallOK
<1>7. /\ p \in AllPaths /\ p \in Paths /\ Reached(t, p) /\ p # t /\ Pre(w.dir, p)
      /\ Len(p) = Len(w.dir) + 1 /\ p[Len(w.dir) + 1] = n
  BY <1>5, <1>6, ReachedStep
<1>8. \A q : Coming(Append(v, w), q) <=> Coming(Append(v, f), q) \/ Pre(p, q)
  BY <1>2, CallsAppend
<1>9. ~ Coming(v, p)
  BY <1>3, <1>7, NoneAhead
<1>10. ~ Ahead(f, p)
  <2>1. p # f.dir
    BY <1>7, FrameParts DEF Paths
  <2>2. ASSUME NEW j \in 1..Len(f.rest), Pre(Append(f.dir, f.rest[j]), p) PROVE FALSE
    <3>1. PICK x \in Strings, d \in Paths : x = f.rest[j] /\ d = f.dir
      BY FrameParts, ElementOfSeq
    <3>2. PICK q \in Paths : q = p
      BY <1>7
    <3>3. Pre(Append(d, x), q)
      BY <2>2, <3>1, <3>2
    <3>4. q[Len(d) + 1] = x
      BY <3>3, PreAppend
    <3>5. d = w.dir
      BY <3>1
    <3> QED  BY <1>2, <1>7, <3>1, <3>2, <3>4, <3>5
  <2> QED  BY <2>1, <2>2 DEF Ahead
<1>11. ~ Coming(Append(v, f), p)
  BY <1>9, <1>10, CallsAppend
<1>12. ASSUME NEW c \in Frames, c.dir = p PROVE \A i \in 1..Len(v) : Above(v[i], c)
  <2> TAKE i \in 1..Len(v)
  <2>1. PICK g \in Frames : g = v[i]
    BY ElementOfSeq
  <2> QED  BY <1>1, <1>12, <2>1, AboveCalled
<1>13. ASSUME NEW c \in Frames, c.dir = p PROVE Above(f, c)
  <2>1. Len(w.dir) \in Nat
    BY FrameParts DEF Paths
  <2> QED  BY <1>2, <1>7, <1>13, <2>1 DEF Above
<1>14. PICK l \in Nat : l = Len(v)
  OBVIOUS
<1>15. /\ Len(Append(v, f)) = l + 1 /\ Append(v, f)[l + 1] = f
       /\ \A i \in 1..l : Append(v, f)[i] = v[i]
  BY <1>14, AppendProperties
<1>16. \A i : i \in 1..l + 1 <=> i \in 1..l \/ i = l + 1
  BY <1>14
<1>17. \A i \in 1..Len(Append(v, f)) : \A c \in Frames : c.dir = p => Above(Append(v, f)[i], c)
  BY <1>12, <1>13, <1>14, <1>15, <1>16
<1> QED  BY <1>4, <1>7, <1>8, <1>11, <1>17 DEF Named

LEMMA ReadComplete ==
  ASSUME MainTypes, ReadName, Complete(Top, walk, filePaths)
  PROVE  Complete(Top, walk', filePaths')
<1> PICK t \in Paths : t = Top
  BY TopType
<1>1. PICK w \in Frames, f \in Frames, n \in Strings :
           /\ walk # << >> /\ w = Last(walk) /\ w.rest # << >> /\ n = Head(w.rest)
           /\ f.dir = w.dir /\ f.rest = Tail(w.rest) /\ f.num = IF n \in Dots THEN w.num ELSE 1
           /\ Append(w.dir, n) \in Paths
           /\ n \notin Dots /\ Enters(Append(w.dir, n)) =>
                /\ Call(Append(w.dir, n)) \in Frames
                /\ walk' = Append(Append(Front(walk), f), Call(Append(w.dir, n))) /\ filePaths' = filePaths
           /\ n \in Dots => walk' = Append(Front(walk), f) /\ filePaths' = filePaths
           /\ n \notin Dots /\ ~ Enters(Append(w.dir, n)) =>
                /\ walk' = Append(Front(walk), f) /\ filePaths' = Append(filePaths, Append(w.dir, n))
  BY WalkStep
<1>2. PICK v \in Seq(Frames) : v = Front(walk) /\ walk = Append(v, w)
  BY <1>1, Innermost DEF MainTypes
<1>3. PICK p \in Paths : p = Append(w.dir, n)
  BY <1>1
<1>4. Complete(t, Append(v, w), filePaths)
  BY <1>2
<1>5. CASE n \in Dots
  BY <1>1, <1>2, <1>4, <1>5, DotStep
<1>6. CASE n \notin Dots
  <2>1. Calls(t, Append(v, w)) /\ f.num = 1
    BY <1>1, <1>4, <1>6 DEF Complete
  <2>2. PICK u \in Seq(Frames) : u = Append(v, f)
    BY AppendProperties
  <2>a. p = Append(w.dir, n) /\ w.rest # << >> /\ n = Head(w.rest) /\ n \notin Dots /\ f.dir = w.dir /\ f.rest = Tail(w.rest)
    BY <1>1, <1>3, <1>6
  <2>b. Named(t, Append(v, w), Append(v, f), p)
    BY <2>1, <2>a, NameStep
  <2>3. /\ p \in AllPaths /\ Reached(t, p) /\ p # t /\ Calls(t, u) /\ ~ Coming(u, p)
        /\ \A q : Coming(Append(v, w), q) <=> Coming(u, q) \/ Pre(p, q)
        /\ \A i \in 1..Len(u) : \A c \in Frames : c.dir = p => Above(u[i], c)
    BY <2>2, <2>b DEF Named
  <2>4. Enters(p) <=> In(t, p)
    BY <2>3 DEF Enters, Opens, In
  <2>5. CASE Enters(p)
    <3>1. PICK c \in Frames : c = Call(p)
      BY <1>1, <1>3, <1>6, <2>5
    <3>2. walk' = Append(u, c) /\ filePaths' = filePaths
      BY <1>1, <1>2, <1>3, <1>6, <2>2, <2>5, <3>1
    <3>3. p \in DOMAIN Dir
      BY <2>5 DEF Enters, Opens
    <3>4. CallOK(t, c) /\ \A q \in LeavesAt(t) : Ahead(c, q) <=> Pre(p, q)
      BY <2>3, <2>4, <2>5, <3>1, <3>3, CallNew
    <3>5. \A i \in 1..Len(u) : Above(u[i], c)
      BY <2>3, <3>1 DEF Call
    <3>6. Calls(t, Append(u, c))
      BY <2>3, <3>4, <3>5, CallsAppend
    <3>7. \A q \in LeavesAt(t) : Coming(Append(u, c), q) <=> Coming(Append(v, w), q)
      BY <2>3, <3>4, CallsAppend
    <3> QED  BY <1>4, <3>2, <3>6, <3>7 DEF Complete
  <2>6. CASE ~ Enters(p)
    <3>1. walk' = u /\ filePaths' = Append(filePaths, p)
      BY <1>1, <1>2, <1>3, <1>6, <2>2, <2>6
    <3>2. p \in LeavesAt(t)
      BY <2>3, <2>4, <2>6 DEF LeavesAt
    <3>3. Pre(p, p)
      BY DEF Pre, Paths
    <3>4. p \notin ToSet(filePaths)
      BY <1>4, <2>3, <3>2, <3>3 DEF Complete
    <3>5. filePaths \in Seq(Paths)
      BY DEF MainTypes
    <3>6. /\ ToSet(Append(filePaths, p)) = ToSet(filePaths) \cup {p}
          /\ \A i, j \in 1..Len(Append(filePaths, p)) : Append(filePaths, p)[i] = Append(filePaths, p)[j] => i = j
      BY <1>4, <3>4, <3>5, OnePathMore DEF Complete
    <3>7. ASSUME NEW q \in LeavesAt(t) PROVE q \in ToSet(Append(filePaths, p)) <=> ~ Coming(u, q)
      <4>1. CASE q = p
        BY <2>3, <3>6, <4>1
      <4>2. CASE q # p
        <5>1. ~ Pre(p, q)
          <6> SUFFICES ASSUME Pre(p, q) PROVE FALSE
            OBVIOUS
          <6>1. q \in Paths /\ Reached(t, q) /\ Pre(t, p)
            BY <2>3, LeavesType DEF LeavesAt, Reached
          <6>2. In(t, p)
            BY <4>2, <6>1, ReachedThrough
          <6> QED  BY <2>4, <2>6, <6>2
        <5> QED  BY <1>4, <2>3, <3>6, <4>2, <5>1 DEF Complete
      <4> QED  BY <4>1, <4>2
    <3>8. ToSet(Append(filePaths, p)) \subseteq LeavesAt(t)
      BY <1>4, <3>2, <3>6 DEF Complete
    <3> QED  BY <2>3, <3>1, <3>6, <3>7, <3>8 DEF Complete
  <2> QED  BY <2>5, <2>6
<1> QED  BY <1>5, <1>6

\* The current directory, to be archived itself, has nothing in it.
Bare == Names(Top) = {} /\ ~ instance[0].remote

LEMMA ReturnComplete ==
  ASSUME MainTypes, ReturnPaths, ~ Bare, Complete(Top, walk, filePaths)
  PROVE  Complete(Top, walk', filePaths')
<1> PICK t \in Paths : t = Top
  BY TopType
<1>1. PICK w \in Frames :
           /\ walk # << >> /\ w = Last(walk) /\ w.rest = << >> /\ walk' = Front(walk)
           /\ filePaths' = IF w.num = 0 THEN Append(filePaths, RootPath(w.dir)) ELSE filePaths
  BY WalkReturn
<1>2. PICK v \in Seq(Frames) : v = Front(walk) /\ walk = Append(v, w)
  BY <1>1, Innermost DEF MainTypes
<1>3. Complete(t, Append(v, w), filePaths)
  BY <1>2
<1>4. Calls(t, v) /\ CallOK(t, w) /\ \A i \in 1..Len(v) : Above(v[i], w)
  BY <1>3, CallsAppend DEF Complete
<1>5. \A q : Ahead(w, q) <=> q = w.dir /\ Names(q) = {}
  BY <1>1 DEF Ahead
<1>6. PICK d \in Paths : d = w.dir
  BY FrameParts
<1>7. \A q : Coming(Append(v, w), q) <=> Coming(v, q) \/ Ahead(w, q)
  BY CallsAppend
<1>8. CASE w.num # 0
  <2>1. Names(d) # {}
    BY <1>4, <1>6, <1>8 DEF CallOK
  <2>2. \A q : Coming(Append(v, w), q) <=> Coming(v, q)
    BY <1>5, <1>6, <1>7, <2>1
  <2> QED  BY <1>1, <1>2, <1>3, <1>4, <1>8, <2>2 DEF Complete
<1>9. CASE w.num = 0
  <2>1. Names(d) = {}
    BY <1>1, <1>4, <1>6, <1>9 DEF CallOK
  <2>2. d \in DOMAIN Dir /\ Reached(t, d)
    BY <1>4, <1>6 DEF CallOK
  <2>3. d \in LeavesAt(t)
    BY <2>1, <2>2 DEF LeavesAt, AllPaths
  <2>4. Pre(d, d)
    BY DEF Pre, Paths
  <2>5. ~ Coming(v, d)
    BY <1>4, <1>6, <2>4, NoneAhead
  <2>6. \A q : Coming(Append(v, w), q) <=> Coming(v, q) \/ q = d
    BY <1>5, <1>6, <1>7, <2>1
  <2>7. d \notin ToSet(filePaths)
    BY <1>3, <2>3, <2>6 DEF Complete
  <2>8. filePaths \in Seq(Paths)
    BY DEF MainTypes
  <2>9. /\ ToSet(Append(filePaths, d)) = ToSet(filePaths) \cup {d}
        /\ \A i, j \in 1..Len(Append(filePaths, d)) : Append(filePaths, d)[i] = Append(filePaths, d)[j] => i = j
    BY <1>3, <2>7, <2>8, OnePathMore DEF Complete
  <2>10. \A q \in LeavesAt(t) : q \in ToSet(Append(filePaths, d)) <=> ~ Coming(v, q)
    BY <1>3, <2>5, <2>6, <2>9 DEF Complete
  <2>11. ToSet(Append(filePaths, d)) \subseteq LeavesAt(t)
    BY <1>3, <2>3, <2>9 DEF Complete
  <2>12. RootPath(d) = d
    BY <2>1 DEF Bare, RootPath, Top
  <2>13. walk' = v /\ filePaths' = Append(filePaths, d)
    BY <1>1, <1>2, <1>6, <1>9, <2>12
  <2> QED  BY <1>4, <2>9, <2>10, <2>11, <2>13 DEF Complete
<1> QED  BY <1>8, <1>9

\* During the walk the list is complete but for what the calls have before them,
\* and when it is over it is complete.  Of a bare directory one call is made,
\* that reads no name.
BareCall(t, ws) ==
  \E w \in Frames : ws = <<w>> /\ w.dir = t /\ w.num = 0 /\ \A i \in 1..Len(w.rest) : w.rest[i] \in Dots
SoFar(t, ws, ps) ==
  IF Bare
  THEN (BareCall(t, ws) /\ ps = << >>) \/ (ws = << >> /\ ps = <<Blank>>)
  ELSE Complete(t, ws, ps)
ListInv ==
  /\ at[0] = "walk" => SoFar(Top, walk, filePaths)
  /\ at[0] \in {"barrier", "compress"} /\ instance[0].compress /\ Opens(Top) => SoFar(Top, << >>, filePaths)

LEMMA OneFrame ==
  ASSUME NEW w \in Frames, walk = <<w>>
  PROVE  Last(walk) = w /\ Front(walk) = << >> /\ walk # << >>
<1>1. Len(walk) = 1 /\ walk[1] = w
  OBVIOUS
<1>2. Front(walk) = SubSeq(walk, 1, 0)
  BY <1>1 DEF Front
<1>3. SubSeq(walk, 1, 0) = << >>
  <2>1. walk \in Seq(Frames)
    OBVIOUS
  <2> QED  BY <2>1, SubSeqEmpty
<1> QED  BY <1>1, <1>2, <1>3 DEF Last

\* A walk through a bare directory reads dots and returns.
LEMMA BareRead ==
  ASSUME MainTypes, ReadName, NEW t, BareCall(t, walk), filePaths = << >>
  PROVE  BareCall(t, walk') /\ filePaths' = << >>
<1>1. PICK g \in Frames : walk = <<g>> /\ g.dir = t /\ g.num = 0 /\ \A i \in 1..Len(g.rest) : g.rest[i] \in Dots
  BY DEF BareCall
<1>2. PICK w \in Frames, f \in Frames, n \in Strings :
           /\ w = Last(walk) /\ w.rest # << >> /\ n = Head(w.rest)
           /\ f.dir = w.dir /\ f.rest = Tail(w.rest) /\ f.num = IF n \in Dots THEN w.num ELSE 1
           /\ n \in Dots => walk' = Append(Front(walk), f) /\ filePaths' = filePaths
  BY WalkStep
<1>3. w = g /\ Front(walk) = << >>
  BY <1>1, <1>2, OneFrame
<1>4. PICK r \in Seq(Strings) : r = w.rest /\ r # << >>
  BY <1>2, FrameParts
<1>5. Head(r) = r[1] /\ 1 \in 1..Len(r) /\ \A j \in 1..Len(Tail(r)) : Tail(r)[j] = r[j + 1] /\ j + 1 \in 1..Len(r)
  BY <1>4, FirstAndOthers
<1>6. n \in Dots
  BY <1>1, <1>2, <1>3, <1>4, <1>5
<1>7. walk' = <<f>> /\ filePaths' = << >>
  <2>1. Append(<< >>, f) = <<f>>
    OBVIOUS
  <2> QED  BY <1>2, <1>3, <1>6, <2>1
<1>8. f.dir = t /\ f.num = 0
  BY <1>1, <1>2, <1>3, <1>6
<1>9. \A j \in 1..Len(f.rest) : f.rest[j] \in Dots
  <2>1. f.rest = Tail(r) /\ \A i \in 1..Len(r) : r[i] \in Dots
    BY <1>1, <1>2, <1>3, <1>4
  <2> QED  BY <1>5, <2>1
<1> QED  BY <1>7, <1>8, <1>9 DEF BareCall

LEMMA BareReturn ==
  ASSUME MainTypes, ReturnPaths, Bare, BareCall(Top, walk), filePaths = << >>
  PROVE  walk' = << >> /\ filePaths' = <<Blank>>
<1>1. PICK g \in Frames : walk = <<g>> /\ g.dir = Top /\ g.num = 0
  BY DEF BareCall
<1>2. PICK w \in Frames :
           /\ w = Last(walk) /\ walk' = Front(walk)
           /\ filePaths' = IF w.num = 0 THEN Append(filePaths, RootPath(w.dir)) ELSE filePaths
  BY WalkReturn
<1>3. w = g /\ Front(walk) = << >>
  BY <1>1, <1>2, OneFrame
<1>4. RootPath(Top) = Blank
  BY DEF Bare, RootPath, Top
<1>5. Append(<< >>, Blank) = <<Blank>>
  OBVIOUS
<1> QED  BY <1>1, <1>2, <1>3, <1>4, <1>5

LEMMA BareFirst ==
  ASSUME Opens(Top), Bare
  PROVE  BareCall(Top, <<Call(Top)>>)
<1>1. PICK c \in Frames : c = Call(Top) /\ c.dir = Top /\ c.num = 0 /\ c.rest = Dir[Top]
  <2>1. Call(Top) \in Frames
    BY CallType
  <2>2. Call(Top).dir = Top /\ Call(Top).num = 0 /\ Call(Top).rest = Dir[Top]
    BY DEF Call
  <2> QED  BY <2>1, <2>2
<1>2. \A i \in 1..Len(Dir[Top]) : Dir[Top][i] \in Dots
  <2> TAKE i \in 1..Len(Dir[Top])
  <2>1. DOMAIN Dir[Top] = 1..Len(Dir[Top])
    BY DirType DEF Opens
  <2>2. Dir[Top][i] \in ToSet(Dir[Top])
    BY <2>1 DEF ToSet
  <2> QED  BY <2>2 DEF Bare, Names
<1> QED  BY <1>1, <1>2 DEF BareCall

LEMMA ListedStays ==
  ASSUME ListInv, at'[0] = at[0], UNCHANGED <<walk, filePaths>>,
         instance'[0] = instance[0] \/ at[0] \in {"help", "settings", "mpitar"}
  PROVE  ListInv'
<1>1. CASE instance'[0] = instance[0]
  <2>1. Top' = Top /\ (Bare' <=> Bare)
    BY <1>1 DEF Top, Bare
  <2> QED  BY <1>1, <2>1 DEF ListInv, Opens, Complete, SoFar
<1>2. CASE at[0] \in {"help", "settings", "mpitar"}
  BY <1>2 DEF ListInv
<1> QED  BY <1>1, <1>2

LEMMA FirstCall ==
  ASSUME MainTypes, Opens(Top)
  PROVE  Complete(Top, <<Call(Top)>>, << >>)
<1> PICK t \in Paths : t = Top
  BY TopType
<1> PICK c \in Frames : c = Call(t)
  BY CallType
<1>1. t \in DOMAIN Dir /\ In(t, t)
  BY DEF Opens, In
<1>2. Pre(t, t) /\ Reached(t, t)
  <2>1. PICK l \in Nat : l = Len(t)
    BY DEF Paths
  <2>2. Pre(t, t)
    BY <2>1 DEF Pre
  <2>3. l..l - 1 = {}
    OBVIOUS
  <2> QED  BY <2>1, <2>2, <2>3 DEF Reached
<1>3. CallOK(t, c) /\ \A q \in LeavesAt(t) : Ahead(c, q) <=> Pre(t, q)
  BY <1>1, <1>2, CallNew
<1>4. \A q \in LeavesAt(t) : Pre(t, q)
  BY DEF LeavesAt, Reached
<1>5. << >> \in Seq(Frames) /\ Len(<< >>) = 0 /\ 1..0 = {} /\ Append(<< >>, c) = <<c>>
  OBVIOUS
<1> PICK v \in Seq(Frames) : v = << >>
  BY <1>5
<1> PICK u : u = <<c>>
  OBVIOUS
<1>6. 1..Len(v) = {} /\ Append(v, c) = u
  BY <1>5
<1>7. Calls(t, v)
  BY <1>6 DEF Calls
<1>8. Calls(t, u) /\ \A q : Coming(u, q) <=> Coming(v, q) \/ Ahead(c, q)
  <2>1. CallOK(t, c) /\ \A i \in 1..Len(v) : Above(v[i], c)
    BY <1>3, <1>6
  <2>2. Calls(t, Append(v, c)) /\ \A q : Coming(Append(v, c), q) <=> Coming(v, q) \/ Ahead(c, q)
    BY <1>7, <2>1, CallsAppend
  <2> QED  BY <1>6, <2>2
<1>10. \A q : ~ Coming(v, q)
  BY <1>6 DEF Coming
<1>9. ToSet(<< >>) = {} /\ 1..Len(<< >>) = {}
  BY DEF ToSet
<1> QED  BY <1>3, <1>4, <1>8, <1>9, <1>10 DEF Complete

LEMMA ListedNext == ASSUME MainTypes, Fruitful, ListInv, [Next]_vars PROVE ListInv'
<1> 0 \in Ranks
  BY RanksAssumption
<1>1. CASE ~ Main
  <2>1. UNCHANGED <<at, instance, walk, filePaths>>
    BY <1>1, MainStays DEF mainVars
  <2> QED  BY <2>1, ListedStays
<1>2. CASE HelpCheck
  <2>1. at'[0] \in {"exit", "settings"}
    BY <1>2 DEF HelpCheck, Move, MainTypes
  <2> QED  BY <2>1 DEF ListInv
<1>3. ASSUME NEW r \in Ranks, GetSettings(r) PROVE ListInv'
  <2>1. at[r] = "settings" /\ UNCHANGED <<walk, filePaths>> /\ (Advances(r) \/ \E p \in Places : LeftFor(r, p))
    BY <1>3, Reads
  <2>2. CASE Advances(r)
    <3>1. at' = at /\ (instance'[0] = instance[0] \/ r = 0)
      BY <2>2 DEF Advances, MainTypes
    <3> QED  BY <2>1, <3>1, ListedStays
  <2>3. CASE \E p \in Places : LeftFor(r, p)
    <3>1. PICK p \in Places : LeftFor(r, p)
      BY <2>3
    <3>2. instance' = instance /\ (r # 0 => at'[0] = at[0]) /\ (r = 0 => at'[0] = p)
      BY <3>1 DEF LeftFor, MainTypes
    <3>3. CASE r # 0
      BY <2>1, <3>2, <3>3, ListedStays
    <3>4. CASE r = 0
      <4>1. /\ p \in {"exit", "undefined", "paths", "barrier"}
            /\ p = "barrier" => ~ instance[0].compress
        BY <3>1, <3>4 DEF LeftFor
      <4> QED  BY <3>2, <3>4, <4>1 DEF ListInv
    <3> QED  BY <3>3, <3>4
  <2> QED  BY <2>1, <2>2, <2>3
<1>4. CASE GetPaths
  <2>1. /\ at[0] = "paths" /\ at'[0] = (IF Opens(Top) THEN "walk" ELSE "barrier")
        /\ UNCHANGED <<instance, filePaths>>
        /\ Opens(Top) => walk' = <<Call(Top)>>
    BY <1>4 DEF GetPaths, Move, MainTypes
  <2>2. Top' = Top /\ (Opens(Top)' <=> Opens(Top)) /\ (Bare' <=> Bare)
    BY <2>1 DEF Top, Opens, Bare
  <2>3. filePaths' = << >>
    BY <2>1 DEF Fruitful
  <2>4. CASE Opens(Top)
    <3>1. Complete(Top, <<Call(Top)>>, << >>)
      BY <2>4, FirstCall
    <3>2. Bare => BareCall(Top, <<Call(Top)>>)
      BY <2>4, BareFirst
    <3>3. SoFar(Top, walk', filePaths')
      BY <2>1, <2>3, <2>4, <3>1, <3>2 DEF SoFar
    <3> QED  BY <2>1, <2>2, <2>4, <3>3 DEF ListInv, SoFar
  <2>5. CASE ~ Opens(Top)
    BY <2>1, <2>2, <2>5 DEF ListInv, SoFar
  <2> QED  BY <2>4, <2>5
<1>5. CASE ReadName
  <2>1. at[0] = "walk" /\ UNCHANGED <<at, instance>>
    BY <1>5, WalkStep
  <2>2. Top' = Top /\ (Bare' <=> Bare)
    BY <2>1 DEF Top, Bare
  <2>3. SoFar(Top, walk, filePaths) /\ walk # << >>
    BY <1>5, <2>1 DEF ListInv, ReadName
  <2>4. SoFar(Top, walk', filePaths')
    <3>1. CASE Bare
      BY <1>5, <2>3, <3>1, BareRead DEF SoFar
    <3>2. CASE ~ Bare
      BY <1>5, <2>3, <3>2, ReadComplete DEF SoFar
    <3> QED  BY <3>1, <3>2
  <2> QED  BY <2>1, <2>2, <2>4 DEF ListInv, SoFar
<1>6. CASE ReturnPaths
  <2>1. at[0] = "walk" /\ UNCHANGED <<at, instance>>
    BY <1>6, WalkReturn
  <2>2. Top' = Top /\ (Bare' <=> Bare)
    BY <2>1 DEF Top, Bare
  <2>3. SoFar(Top, walk, filePaths) /\ walk # << >>
    BY <1>6, <2>1 DEF ListInv, ReturnPaths
  <2>4. SoFar(Top, walk', filePaths')
    <3>1. CASE Bare
      BY <1>6, <2>3, <3>1, BareReturn DEF SoFar
    <3>2. CASE ~ Bare
      BY <1>6, <2>3, <3>2, ReturnComplete DEF SoFar
    <3> QED  BY <3>1, <3>2
  <2> QED  BY <2>1, <2>2, <2>4 DEF ListInv, SoFar
<1>7. CASE EndPaths
  <2>1. at[0] = "walk" /\ walk = << >> /\ at'[0] = "barrier" /\ UNCHANGED <<instance, filePaths>>
    BY <1>7 DEF EndPaths, Leave, Move, MainTypes
  <2>2. Top' = Top /\ (Bare' <=> Bare)
    BY <2>1 DEF Top, Bare
  <2>3. SoFar(Top, << >>, filePaths')
    BY <2>1 DEF ListInv
  <2> QED  BY <2>1, <2>2, <2>3 DEF ListInv, SoFar
<1>8. CASE Begin
  <2>1. /\ at[0] = "barrier" /\ at'[0] = (IF instance[0].compress THEN "compress" ELSE "extract")
        /\ UNCHANGED <<instance, filePaths>>
    BY <1>8 DEF Begin
  <2>2. Top' = Top /\ (Opens(Top)' <=> Opens(Top)) /\ (Bare' <=> Bare)
    BY <2>1 DEF Top, Opens, Bare
  <2> QED  BY <2>1, <2>2 DEF ListInv, SoFar
<1>9. CASE DivideFiles
  <2>1. /\ at[0] = "compress" /\ UNCHANGED <<instance, walk, filePaths>>
        /\ at'[0] \in {at[0], "divided by zero"}
    BY <1>9, MpitarCalled DEF CallMpitar, mainVars
  <2>2. Top' = Top /\ (Opens(Top)' <=> Opens(Top)) /\ (Bare' <=> Bare)
    BY <2>1 DEF Top, Opens, Bare
  <2> QED  BY <2>1, <2>2 DEF ListInv, SoFar
<1> QED  BY <1>1, <1>2, <1>3, <1>4, <1>5, <1>6, <1>7, <1>8, <1>9 DEF Main

LEMMA AsManyAsDifferent ==
  ASSUME NEW S, NEW s \in Seq(S), \A i, j \in 1..Len(s) : s[i] = s[j] => i = j
  PROVE  Len(s) = Cardinality(ToSet(s))
<1>1. PICK n \in Nat : n = Len(s) /\ DOMAIN s = 1..n
  OBVIOUS
<1>2. s \in [1..n -> ToSet(s)] /\ \A q \in ToSet(s) : \E i \in 1..n : s[i] = q
  BY <1>1 DEF ToSet
<1>3. s \in Bijection(1..n, ToSet(s))
  BY <1>1, <1>2, Fun_IsBij
<1>4. ExistsBijection(1..n, ToSet(s))
  BY <1>3 DEF ExistsBijection
<1> QED  BY <1>1, <1>4, FS_CountingElements

LEMMA AllListedOnce == ASSUME MainTypes, ListInv PROVE ListedOnce
<1> SUFFICES ASSUME at[0] \in {"barrier", "compress"}, instance[0].compress, Opens(Top)
             PROVE  IF Bare THEN filePaths = <<Blank>>
                    ELSE ToSet(filePaths) = Leaves /\ Len(filePaths) = Cardinality(Leaves)
  BY DEF ListedOnce, Bare
<1>0. SoFar(Top, << >>, filePaths)
  BY DEF ListInv
<1>a. CASE Bare
  BY <1>0, <1>a DEF SoFar, BareCall
<1> SUFFICES ASSUME ~ Bare PROVE ToSet(filePaths) = Leaves /\ Len(filePaths) = Cardinality(Leaves)
  BY <1>a
<1>1. Complete(Top, << >>, filePaths)
  BY <1>0 DEF SoFar
<1>2. \A q : ~ Coming(<< >>, q)
  BY DEF Coming
<1>3. ToSet(filePaths) = LeavesAt(Top)
  BY <1>1, <1>2 DEF Complete
<1>4. Len(filePaths) = Cardinality(ToSet(filePaths))
  <2>1. filePaths \in Seq(Paths) /\ \A i, j \in 1..Len(filePaths) : filePaths[i] = filePaths[j] => i = j
    BY <1>1 DEF Complete, MainTypes
  <2> QED  BY <2>1, AsManyAsDifferent
<1> QED  BY <1>3, <1>4, LeavesAre

\* Whatever the tree, getPaths lists every file below the directory once and
\* nothing else, but of an empty current directory an empty name.
THEOREM ListsAllOnce == Spec => []ListedOnce
<1>1. Init => MainTypes /\ Fruitful /\ ListInv
  <2>1. Init => at[0] \in {"help", "mpitar"}
    BY RanksAssumption DEF Init
  <2> QED  BY <2>1, InitTypes, InitFruitful DEF ListInv
<1>2. MainTypes /\ Fruitful /\ ListInv /\ [Next]_vars => (MainTypes /\ Fruitful /\ ListInv)'
  BY TypesStep, FruitfulNext, ListedNext
<1>3. MainTypes /\ Fruitful /\ ListInv => ListedOnce
  BY AllListedOnce
<1> QED  BY <1>1, <1>2, <1>3, PTL DEF Spec
-----------------------------------------------------------------------------
(* The stream of names.  First what FlattenSeq computes.                      *)

Flattens(s, f) == f = [i \in 1..Len(s) |-> IF i = 1 THEN s[i] ELSE f[i - 1] \o s[i]]

LEMMA FlattenExists ==
  ASSUME NEW s, Len(s) \in Nat
  PROVE  \E f : Flattens(s, f)
<1> DEFINE Def(f, n) == f = [i \in 1..n |-> IF i = 1 THEN s[i] ELSE f[i - 1] \o s[i]]
           K == {n \in Nat : \E f : Def(f, n)}
<1>1. 0 \in K
  <2>1. Def([i \in 1..0 |-> << >>], 0)
    OBVIOUS
  <2> HIDE DEF Def
  <2> QED  BY <2>1
<1>2. ASSUME NEW n \in K PROVE n + 1 \in K
  <2>1. n \in Nat
    OBVIOUS
  <2>2. PICK f : Def(f, n)
    OBVIOUS
  <2>3. PICK last : last = IF n + 1 = 1 THEN s[n + 1] ELSE f[n] \o s[n + 1]
    OBVIOUS
  <2>4. PICK g : g = [i \in 1..n + 1 |-> IF i = n + 1 THEN last ELSE f[i]]
    OBVIOUS
  <2>5. ASSUME NEW i \in 1..n + 1
        PROVE  g[i] = IF i = 1 THEN s[i] ELSE g[i - 1] \o s[i]
    <3>1. CASE i = n + 1
      <4>1. i # 1 => i - 1 = n /\ i - 1 \in 1..n + 1 /\ i - 1 # n + 1
        BY <2>1, <3>1
      <4>2. g[i] = last /\ (i # 1 => g[i - 1] = f[n])
        BY <2>4, <3>1, <4>1
      <4> QED  BY <2>3, <3>1, <4>1, <4>2
    <3>2. CASE i # n + 1
      <4>1. i \in 1..n /\ (i # 1 => i - 1 \in 1..n + 1 /\ i - 1 # n + 1)
        BY <2>1, <3>2
      <4>2. g[i] = f[i] /\ (i # 1 => g[i - 1] = f[i - 1])
        BY <2>4, <3>2, <4>1
      <4>3. f[i] = IF i = 1 THEN s[i] ELSE f[i - 1] \o s[i]
        BY <2>2, <4>1
      <4> QED  BY <4>2, <4>3
    <3> QED  BY <3>1, <3>2
  <2>6. g = [i \in 1..n + 1 |-> IF i = 1 THEN s[i] ELSE g[i - 1] \o s[i]]
    <3>1. DOMAIN g = 1..n + 1 /\ g = [i \in DOMAIN g |-> g[i]]
      BY <2>4
    <3> QED  BY <2>5, <3>1
  <2>7. Def(g, n + 1)
    BY <2>6
  <2> HIDE DEF Def
  <2> QED  BY <2>1, <2>7
<1>3. K = Nat
  <2>1. K \in SUBSET Nat
    OBVIOUS
  <2> HIDE DEF K
  <2> QED  BY <1>1, <1>2, <2>1, Arith!Counting
<1> QED  BY <1>3 DEF Flattens

LEMMA FlattenNone == FlattenSeq(<< >>) = << >>
BY DEF FlattenSeq

\* From the left, one sequence after the other.
Adding(S, s, f) ==
  /\ f[1] = s[1] /\ f[1] \in Seq(S)
  /\ \A i, j \in 1..Len(s) : j = i + 1 => f[j] = f[i] \o s[j]
  /\ \A i \in 1..Len(s) : f[i] \in Seq(S)

LEMMA FlattenIs ==
  ASSUME NEW S, NEW s \in Seq(Seq(S)), s # << >>
  PROVE  \E f : Adding(S, s, f) /\ FlattenSeq(s) = f[Len(s)]
<1>1. Len(s) \in Nat /\ Len(s) # 0 /\ \A i \in 1..Len(s) : s[i] \in Seq(S)
  BY EmptySeq
<1>2. PICK f : Flattens(s, f) /\ FlattenSeq(s) = f[Len(s)]
  <2>1. \E f : Flattens(s, f)
    BY <1>1, FlattenExists
  <2>2. PICK f : f = CHOOSE g : Flattens(s, g)
    OBVIOUS
  <2>3. Flattens(s, f)
    BY <2>1, <2>2
  <2>4. FlattenSeq(s) = f[Len(s)]
    BY <1>1, <2>2 DEF FlattenSeq, Flattens
  <2> QED  BY <2>3, <2>4
<1>3. f[1] = s[1] /\ f[1] \in Seq(S)
  <2>1. 1 \in 1..Len(s)
    BY <1>1
  <2> QED  BY <1>1, <1>2, <2>1 DEF Flattens
<1>4. ASSUME NEW i \in 1..Len(s), NEW j \in 1..Len(s), j = i + 1
      PROVE  f[j] = f[i] \o s[j]
  <2>1. j # 1 /\ j - 1 = i
    BY <1>1, <1>4
  <2> QED  BY <1>2, <2>1 DEF Flattens
<1> DEFINE K == {n \in Nat : n + 1 <= Len(s) => f[n + 1] \in Seq(S)}
<1>5. 0 \in K
  BY <1>3
<1>6. ASSUME NEW n \in K PROVE n + 1 \in K
  <2> SUFFICES ASSUME (n + 1) + 1 <= Len(s) PROVE f[(n + 1) + 1] \in Seq(S)
    OBVIOUS
  <2>1. n + 1 \in 1..Len(s) /\ (n + 1) + 1 \in 1..Len(s) /\ f[n + 1] \in Seq(S)
    BY <1>1
  <2>2. f[(n + 1) + 1] = f[n + 1] \o s[(n + 1) + 1]
    BY <1>4, <2>1
  <2>3. s[(n + 1) + 1] \in Seq(S)
    BY <1>1, <2>1
  <2> QED  BY <2>1, <2>2, <2>3, ConcatProperties
<1>7. K = Nat
  <2>1. K \in SUBSET Nat
    OBVIOUS
  <2> HIDE DEF K
  <2> QED  BY <1>5, <1>6, <2>1, Arith!Counting
<1>8. ASSUME NEW i \in 1..Len(s) PROVE f[i] \in Seq(S)
  <2>1. i - 1 \in Nat /\ (i - 1) + 1 = i /\ i <= Len(s)
    BY <1>1
  <2>2. i - 1 \in K
    <3> HIDE DEF K
    <3> QED  BY <1>7, <2>1
  <2> QED  BY <2>1, <2>2
<1>9. Adding(S, s, f)
  BY <1>3, <1>4, <1>8 DEF Adding
<1> QED  BY <1>2, <1>9

LEMMA FlattenType ==
  ASSUME NEW S, NEW s \in Seq(Seq(S))
  PROVE  FlattenSeq(s) \in Seq(S)
<1>1. CASE s = << >>
  BY <1>1, FlattenNone, EmptySeq
<1>2. CASE s # << >>
  <2>1. PICK f : Adding(S, s, f) /\ FlattenSeq(s) = f[Len(s)]
    BY <1>2, FlattenIs
  <2>2. Len(s) \in 1..Len(s)
    BY <1>2, EmptySeq
  <2> QED  BY <2>1, <2>2 DEF Adding
<1> QED  BY <1>1, <1>2

Regroups(S) == \A u \in Seq(S), v \in Seq(S), w \in Seq(S) : (u \o v) \o w = u \o (v \o w)

LEMMA Regrouped ==
  ASSUME NEW S
  PROVE  Regroups(S)
<1> SUFFICES ASSUME NEW u \in Seq(S), NEW v \in Seq(S), NEW w \in Seq(S)
             PROVE  (u \o v) \o w = u \o (v \o w)
  BY DEF Regroups
<1> QED  BY ConcatAssociative

LEMMA FlattenFirst ==
  ASSUME NEW S, NEW s \in Seq(Seq(S)), s # << >>
  PROVE  FlattenSeq(s) = Head(s) \o FlattenSeq(Tail(s))
<1>1. PICK t : t = Tail(s)
  OBVIOUS
<1>2. /\ t \in Seq(Seq(S)) /\ Len(t) = Len(s) - 1 /\ Head(s) = s[1] /\ Head(s) \in Seq(S)
      /\ \A i \in 1..Len(t) : t[i] = s[i + 1]
  BY <1>1, HeadTailProperties
<1>3. Len(s) \in Nat /\ Len(s) # 0
  BY EmptySeq
<1>4. PICK f : Adding(S, s, f) /\ FlattenSeq(s) = f[Len(s)]
  BY FlattenIs
<1>5. PICK h : h = Head(s) /\ h = s[1] /\ h \in Seq(S)
  BY <1>2
<1>6. CASE t = << >>
  <2>1. Len(s) = 1
    <3>1. Len(t) = 0
      BY <1>6
    <3> QED  BY <1>2, <1>3, <3>1
  <2>2. FlattenSeq(s) = h
    BY <1>4, <1>5, <2>1 DEF Adding
  <2>3. FlattenSeq(t) = << >>
    BY <1>6, FlattenNone
  <2>4. h \o << >> = h
    BY <1>5, ConcatEmptySeq
  <2> QED  BY <1>1, <1>5, <2>2, <2>3, <2>4
<1>7. CASE t # << >>
  <2>1. PICK g : Adding(S, t, g) /\ FlattenSeq(t) = g[Len(t)]
    BY <1>2, <1>7, FlattenIs
  <2>2. PICK m : m = Len(t) /\ m \in Nat /\ m # 0 /\ Len(s) = m + 1
    <3>1. Len(t) \in Nat /\ Len(t) # 0
      BY <1>2, <1>7, EmptySeq
    <3> QED  BY <1>2, <1>3, <3>1
  <2> DEFINE P(n) == n + 1 <= m => f[n + 2] = h \o g[n + 1]
             K == {n \in Nat : P(n)}
  <2>3. P(0)
    <3>1. 1 \in 1..Len(s) /\ 2 \in 1..Len(s) /\ 1 \in 1..Len(t) /\ 2 = 1 + 1
      BY <2>2
    <3>2. f[2] = f[1] \o s[2]
      BY <1>4, <3>1 DEF Adding
    <3>3. f[1] = s[1] /\ g[1] = t[1]
      BY <1>4, <2>1 DEF Adding
    <3>4. t[1] = s[2]
      BY <1>2, <3>1
    <3>5. f[2] = h \o g[1]
      BY <1>5, <3>2, <3>3, <3>4
    <3>6. 0 + 2 = 2 /\ 0 + 1 = 1
      OBVIOUS
    <3> QED  BY <3>5, <3>6
  <2>4. ASSUME NEW n \in Nat, P(n) PROVE P(n + 1)
    <3> SUFFICES ASSUME (n + 1) + 1 <= m PROVE f[(n + 1) + 2] = h \o g[(n + 1) + 1]
      OBVIOUS
    <3>1. PICK a, b, c : a = n + 1 /\ b = n + 2 /\ c = n + 3
      OBVIOUS
    <3>2. /\ (n + 1) + 1 = b /\ (n + 1) + 2 = c /\ b = a + 1 /\ c = b + 1
          /\ a \in 1..Len(t) /\ b \in 1..Len(t) /\ b \in 1..Len(s) /\ c \in 1..Len(s)
      BY <2>2, <3>1
    <3>3. f[b] = h \o g[a]
      <4>1. n + 1 <= m
        BY <2>2
      <4>2. f[n + 2] = h \o g[n + 1]
        BY <2>4, <4>1
      <4> QED  BY <3>1, <4>2
    <3>4. f[c] = f[b] \o s[c]
      BY <1>4, <3>2 DEF Adding
    <3>5. g[b] = g[a] \o t[b]
      BY <2>1, <3>2 DEF Adding
    <3>6. t[b] = s[c] /\ t[b] \in Seq(S)
      BY <1>2, <3>2
    <3>7. g[a] \in Seq(S)
      BY <2>1, <3>2 DEF Adding
    <3>8. PICK y, z : y = g[a] /\ z = s[c]
      OBVIOUS
    <3>9. (h \o y) \o z = h \o (y \o z)
      <4>1. h \in Seq(S) /\ y \in Seq(S) /\ z \in Seq(S)
        BY <1>5, <3>6, <3>7, <3>8
      <4>2. Regroups(S)
        BY Regrouped
      <4> QED  BY <4>1, <4>2 DEF Regroups
    <3> QED  BY <3>2, <3>3, <3>4, <3>5, <3>6, <3>8, <3>9
  <2>5. K = Nat
    <3> HIDE DEF P
    <3>1. K \in SUBSET Nat /\ 0 \in K /\ \A n \in K : n + 1 \in K
      BY <2>3, <2>4
    <3> HIDE DEF K
    <3> QED  BY <3>1, Arith!Counting
  <2>6. m - 1 \in Nat /\ (m - 1) + 1 = m /\ (m - 1) + 2 = Len(s) /\ m <= m
    BY <2>2
  <2>7. P(m - 1)
    <3> HIDE DEF P
    <3> QED  BY <2>5, <2>6
  <2>8. f[Len(s)] = h \o g[m]
    BY <2>6, <2>7
  <2> QED  BY <1>1, <1>4, <1>5, <2>1, <2>2, <2>8
<1> QED  BY <1>6, <1>7
-----------------------------------------------------------------------------
(* The names that lists and directories stand for.                           *)

\* The lines of a list before the first blank one.
LineRecords == [text : Seq(Strings), nl : BOOLEAN]
TextsOf(ls) ==
  LET blanks == {i \in DOMAIN ls : ls[i].text = Blank}
      n == IF blanks = {} THEN Len(ls) ELSE CHOOSE i \in blanks : \A j \in blanks : i <= j
  IN  [i \in 1..IF blanks = {} THEN n ELSE n - 1 |-> ls[i].text]
Unblank(ls, n) ==
  /\ n \in 0..Len(ls) /\ \A i \in 1..n : ls[i].text # Blank
  /\ n < Len(ls) => ls[n + 1].text = Blank

LEMMA LeastOf ==
  ASSUME NEW B \in SUBSET Nat, B # {}
  PROVE  \E i \in B : \A j \in B : i <= j
<1> SUFFICES ASSUME \A i \in B : \E j \in B : ~ (i <= j) PROVE FALSE
  OBVIOUS
<1> DEFINE K == {n \in Nat : \A i \in B : n < i}
<1>1. 0 \in K
  <2>1. ASSUME NEW i \in B PROVE 0 < i
    <3>1. PICK j \in B : ~ (i <= j)
      OBVIOUS
    <3> QED  BY <3>1
  <2> QED  BY <2>1
<1>2. ASSUME NEW n \in K PROVE n + 1 \in K
  <2>1. n \in Nat /\ \A i \in B : n < i
    OBVIOUS
  <2>2. ASSUME NEW i \in B PROVE n + 1 < i
    <3>1. PICK j \in B : ~ (i <= j)
      OBVIOUS
    <3>2. i \in Nat /\ j \in Nat /\ n < j
      BY <2>1
    <3> QED  BY <2>1, <3>1, <3>2
  <2> QED  BY <2>1, <2>2
<1>3. K = Nat
  <2>1. K \in SUBSET Nat
    OBVIOUS
  <2> HIDE DEF K
  <2> QED  BY <1>1, <1>2, <2>1, Arith!Counting
<1>4. PICK i \in B : TRUE
  OBVIOUS
<1>5. i \in K
  <2> HIDE DEF K
  <2> QED  BY <1>3, <1>4
<1> QED  BY <1>4, <1>5

LEMMA TextsAre ==
  ASSUME NEW ls \in Seq(LineRecords)
  PROVE  \E n : Unblank(ls, n) /\ TextsOf(ls) = [i \in 1..n |-> ls[i].text]
<1>1. PICK bs : bs = {i \in DOMAIN ls : ls[i].text = Blank}
  OBVIOUS
<1>2. Len(ls) \in Nat /\ DOMAIN ls = 1..Len(ls)
  OBVIOUS
<1>3. CASE bs = {}
  <2>1. Unblank(ls, Len(ls))
    BY <1>1, <1>2, <1>3 DEF Unblank
  <2>2. TextsOf(ls) = [i \in 1..Len(ls) |-> ls[i].text]
    BY <1>1, <1>3 DEF TextsOf
  <2> QED  BY <2>1, <2>2
<1>4. CASE bs # {}
  <2>1. bs \in SUBSET Nat
    BY <1>1, <1>2
  <2>2. \E i \in bs : \A j \in bs : i <= j
    BY <1>4, <2>1, LeastOf
  <2>3. PICK m : m = CHOOSE i \in bs : \A j \in bs : i <= j
    OBVIOUS
  <2>4. m \in bs /\ \A j \in bs : m <= j
    BY <2>2, <2>3
  <2>5. m \in 1..Len(ls) /\ ls[m].text = Blank
    BY <1>1, <1>2, <2>4
  <2>6. PICK n : n = m - 1 /\ n \in 0..Len(ls) /\ n < Len(ls) /\ n + 1 = m
    BY <1>2, <2>5
  <2>7. ASSUME NEW i \in 1..n PROVE ls[i].text # Blank
    <3>1. i \in 1..Len(ls) /\ ~ (m <= i)
      BY <1>2, <2>5, <2>6
    <3> QED  BY <1>1, <1>2, <2>4, <3>1
  <2>8. Unblank(ls, n)
    BY <2>5, <2>6, <2>7 DEF Unblank
  <2>9. TextsOf(ls) = [i \in 1..n |-> ls[i].text]
    BY <1>1, <1>4, <2>3, <2>6 DEF TextsOf
  <2> QED  BY <2>8, <2>9
<1> QED  BY <1>3, <1>4

LEMMA TextsType ==
  ASSUME NEW ls \in Seq(LineRecords)
  PROVE  TextsOf(ls) \in Seq(Paths)
<1>1. PICK n : Unblank(ls, n) /\ TextsOf(ls) = [i \in 1..n |-> ls[i].text]
  BY TextsAre
<1>2. n \in Nat /\ \A i \in 1..n : i \in 1..Len(ls)
  BY <1>1 DEF Unblank
<1>3. \A i \in 1..n : ls[i].text \in Paths
  <2>1. \A i \in 1..Len(ls) : ls[i] \in LineRecords
    OBVIOUS
  <2> QED  BY <1>2, <2>1 DEF LineRecords, Paths
<1> QED  BY <1>1, <1>2, <1>3

LEMMA NoTexts ==
  ASSUME NEW ls \in Seq(LineRecords), ls = << >> \/ Head(ls).text = Blank
  PROVE  TextsOf(ls) = << >>
<1>1. PICK n : Unblank(ls, n) /\ TextsOf(ls) = [i \in 1..n |-> ls[i].text]
  BY TextsAre
<1>2. n = 0
  <2>1. CASE ls = << >>
    BY <1>1, <2>1 DEF Unblank
  <2>2. CASE ls # << >>
    <3>1. Head(ls) = ls[1]
      BY <2>2
    <3>2. n # 0 => 1 \in 1..n
      BY <1>1 DEF Unblank
    <3> QED  BY <1>1, <2>2, <3>1, <3>2 DEF Unblank
  <2> QED  BY <2>1, <2>2
<1> QED  BY <1>1, <1>2

LEMMA FirstText ==
  ASSUME NEW ls \in Seq(LineRecords), ls # << >>, Head(ls).text # Blank
  PROVE  TextsOf(ls) = << Head(ls).text >> \o TextsOf(Tail(ls))
<1>1. PICK t : t = Tail(ls)
  OBVIOUS
<1>2. /\ t \in Seq(LineRecords) /\ Len(t) = Len(ls) - 1 /\ Head(ls) = ls[1] /\ Head(ls) \in LineRecords
      /\ \A i \in 1..Len(t) : t[i] = ls[i + 1]
  BY <1>1, HeadTailProperties
<1>3. Len(ls) \in Nat /\ Len(ls) # 0
  BY EmptySeq
<1>4. PICK n : Unblank(ls, n) /\ TextsOf(ls) = [i \in 1..n |-> ls[i].text]
  BY TextsAre
<1>5. PICK m : Unblank(t, m) /\ TextsOf(t) = [i \in 1..m |-> t[i].text]
  BY <1>2, TextsAre
<1>6. n \in Nat /\ m \in Nat /\ n <= Len(ls) /\ m + 1 <= Len(ls)
  BY <1>2, <1>3, <1>4, <1>5 DEF Unblank
<1>7. n # 0
  <2>1. n = 0 => ls[1].text = Blank
    BY <1>3, <1>4 DEF Unblank
  <2> QED  BY <1>2, <2>1
<1>8. n = m + 1
  <2>1. ~ (m + 1 < n)
    <3> SUFFICES ASSUME m + 1 < n PROVE FALSE
      OBVIOUS
    <3>1. m < Len(t) /\ m + 1 \in 1..Len(t) /\ (m + 1) + 1 \in 1..n
      BY <1>2, <1>3, <1>6
    <3>2. t[m + 1].text = Blank
      BY <1>5, <3>1 DEF Unblank
    <3>3. ls[(m + 1) + 1].text # Blank
      BY <1>4, <3>1 DEF Unblank
    <3> QED  BY <1>2, <3>1, <3>2, <3>3
  <2>2. ~ (n < m + 1)
    <3> SUFFICES ASSUME n < m + 1 PROVE FALSE
      OBVIOUS
    <3>1. n < Len(ls) /\ n \in 1..m /\ n \in 1..Len(t)
      BY <1>2, <1>3, <1>6, <1>7
    <3>2. ls[n + 1].text = Blank
      BY <1>4, <3>1 DEF Unblank
    <3>3. t[n].text # Blank
      BY <1>5, <3>1 DEF Unblank
    <3> QED  BY <1>2, <3>1, <3>2, <3>3
  <2> QED  BY <1>6, <2>1, <2>2
<1>9. PICK h, r, s : h = << Head(ls).text >> /\ r = TextsOf(t) /\ s = TextsOf(ls)
  OBVIOUS
<1>10. r \in Seq(Paths) /\ s \in Seq(Paths) /\ Len(r) = m /\ Len(s) = n
  BY <1>2, <1>4, <1>5, <1>6, <1>9, TextsType
<1>11. h \in Seq(Paths) /\ Len(h) = 1 /\ h[1] = ls[1].text
  <2>1. Head(ls).text \in Paths
    BY <1>2 DEF LineRecords, Paths
  <2> QED  BY <1>2, <1>9, <2>1
<1>12. PICK c : c = h \o r
  OBVIOUS
<1>13. /\ c \in Seq(Paths) /\ Len(c) = Len(h) + Len(r)
       /\ \A i \in 1..Len(h) + Len(r) : c[i] = IF i <= Len(h) THEN h[i] ELSE r[i - Len(h)]
  BY <1>10, <1>11, <1>12, ConcatProperties
<1>14. ASSUME NEW i \in 1..n PROVE c[i] = s[i]
  <2>1. s[i] = ls[i].text
    BY <1>4, <1>9
  <2>2. i \in 1..Len(h) + Len(r)
    BY <1>6, <1>8, <1>10, <1>11
  <2>3. CASE i = 1
    BY <1>11, <1>13, <2>1, <2>2, <2>3
  <2>4. CASE i # 1
    <3>1. PICK k : k = i - 1 /\ k \in 1..m /\ k + 1 = i /\ ~ (i <= 1)
      BY <1>6, <1>8, <2>4
    <3>2. c[i] = r[k]
      BY <1>11, <1>13, <2>2, <3>1
    <3>3. r[k] = t[k].text
      BY <1>5, <1>9, <3>1
    <3>4. k \in 1..Len(t)
      BY <1>5, <3>1 DEF Unblank
    <3> QED  BY <1>2, <2>1, <3>1, <3>2, <3>3, <3>4
  <2> QED  BY <2>3, <2>4
<1>15. Len(c) = Len(s)
  BY <1>6, <1>8, <1>10, <1>11, <1>13
<1>16. c = s
  BY <1>10, <1>13, <1>14, <1>15, SeqEqual
<1> QED  BY <1>1, <1>9, <1>12, <1>16

\* What Tree gives for a directory, if T is what it gives for those below it
\* and those in flat are not looked into.
ItemBut(flat, T, p, n) ==
  LET q == Append(p, n)
  IN  CASE n \in Dots -> << >>
        [] n \notin Dots /\ q \in Directories /\ p \notin flat -> T[q]
        [] OTHER -> <<q>>
ItemsBut(flat, T, p) == FlattenSeq([i \in DOMAIN Dir[p] |-> ItemBut(flat, T, p, Dir[p][i])])
IsTree(flat, T, Ps) == T = [p \in Ps |-> <<p>> \o ItemsBut(flat, T, p)]
Agree(f, g, p) == \A n \in Strings : Append(p, n) \in Directories => g[Append(p, n)] = f[Append(p, n)]

LEMMA SameItems ==
  ASSUME NEW flat, NEW p \in DOMAIN Dir, NEW f, NEW g, Agree(f, g, p)
  PROVE  ItemsBut(flat, g, p) = ItemsBut(flat, f, p)
<1>1. ASSUME NEW i \in DOMAIN Dir[p] PROVE ItemBut(flat, g, p, Dir[p][i]) = ItemBut(flat, f, p, Dir[p][i])
  <2>1. Dir[p][i] \in Strings
    BY DirType
  <2> QED  BY <2>1 DEF Agree, ItemBut
<1> QED  BY <1>1 DEF ItemsBut

\* How deep a directory can be.
Deepest(d) == d \in Nat /\ \A p \in DOMAIN Dir : Len(p) <= d
Under(d, n) == {p \in Directories : Len(p) + n > d}

LEMMA DepthIs == \E d : Deepest(d)
<1>1. PICK d \in {0} \cup {Len(p) : p \in DOMAIN Dir} : \A p \in DOMAIN Dir : Len(p) <= d
  BY DepthAssumption
<1>2. \A p \in DOMAIN Dir : Len(p) \in Nat
  BY DirType DEF Paths
<1> QED  BY <1>1, <1>2 DEF Deepest

LEMMA BelowUnder ==
  ASSUME NEW d, NEW k \in Nat, Deepest(d), NEW p \in Under(d, k + 1), NEW n \in Strings,
         Append(p, n) \in Directories
  PROVE  Append(p, n) \in Under(d, k)
<1>1. p \in Paths /\ Len(p) + (k + 1) > d /\ d \in Nat
  BY DirType DEF Under, Deepest, Directories
<1>2. Len(p) \in Nat /\ Len(Append(p, n)) = Len(p) + 1
  BY <1>1, AppendProperties DEF Paths
<1> QED  BY <1>1, <1>2 DEF Under

LEMMA TreeExists == ASSUME NEW flat PROVE \E T : IsTree(flat, T, Directories)
<1>1. PICK d : Deepest(d)
  BY DepthIs
<1>2. d \in Nat /\ \A p \in Directories : Len(p) \in Nat /\ Len(p) <= d
  BY <1>1, DirType DEF Deepest, Directories, Paths
<1> DEFINE K == {n \in Nat : \E T : IsTree(flat, T, Under(d, n))}
<1>3. 0 \in K
  <2>1. Under(d, 0) = {}
    BY <1>2 DEF Under
  <2>2. IsTree(flat, [p \in {} |-> << >>], Under(d, 0))
    BY <2>1 DEF IsTree
  <2> QED  BY <2>2
<1>4. ASSUME NEW n \in K PROVE n + 1 \in K
  <2>1. n \in Nat
    OBVIOUS
  <2>2. PICK f : IsTree(flat, f, Under(d, n))
    OBVIOUS
  <2>3. PICK Ps, Qs : Ps = Under(d, n) /\ Qs = Under(d, n + 1)
    OBVIOUS
  <2>4. Ps \subseteq Qs /\ Qs \subseteq Directories
    BY <1>2, <2>1, <2>3 DEF Under
  <2>5. PICK g : g = [p \in Qs |-> IF p \in Ps THEN f[p] ELSE <<p>> \o ItemsBut(flat, f, p)]
    OBVIOUS
  <2>6. ASSUME NEW p \in Qs PROVE g[p] = <<p>> \o ItemsBut(flat, g, p)
    <3>1. g[p] = <<p>> \o ItemsBut(flat, f, p)
      BY <2>2, <2>3, <2>5 DEF IsTree
    <3>2. Agree(f, g, p)
      <4> SUFFICES ASSUME NEW x \in Strings, Append(p, x) \in Directories
                   PROVE  g[Append(p, x)] = f[Append(p, x)]
        BY DEF Agree
      <4>1. Append(p, x) \in Ps
        BY <1>1, <2>1, <2>3, BelowUnder
      <4> QED  BY <2>4, <2>5, <4>1
    <3>3. p \in DOMAIN Dir
      BY <2>4 DEF Directories
    <3> QED  BY <3>1, <3>2, <3>3, SameItems
  <2>7. g = [p \in Qs |-> <<p>> \o ItemsBut(flat, g, p)]
    <3>1. DOMAIN g = Qs /\ g = [p \in DOMAIN g |-> g[p]]
      BY <2>5
    <3> QED  BY <2>6, <3>1
  <2>8. IsTree(flat, g, Under(d, n + 1))
    BY <2>3, <2>7 DEF IsTree
  <2> QED  BY <2>1, <2>8
<1>5. K = Nat
  <2>1. K \in SUBSET Nat
    OBVIOUS
  <2> HIDE DEF K
  <2> QED  BY <1>3, <1>4, <2>1, Arith!Counting
<1>6. Under(d, d + 1) = Directories
  BY <1>2 DEF Under
<1>7. d + 1 \in K
  <2> HIDE DEF K
  <2> QED  BY <1>2, <1>5
<1> QED  BY <1>6, <1>7

LEMMA TreeIsTree == ASSUME NEW flat PROVE IsTree(flat, TreeBut(flat), Directories)
<1>1. PICK T : IsTree(flat, T, Directories)
  BY TreeExists
<1>2. T = [p \in Directories |->
            <<p>> \o FlattenSeq([i \in DOMAIN Dir[p] |->
              LET q == Append(p, Dir[p][i])
              IN  CASE Dir[p][i] \in Dots -> << >>
                    [] Dir[p][i] \notin Dots /\ q \in Directories /\ p \notin flat -> T[q]
                    [] OTHER -> <<q>>])]
  BY <1>1 DEF IsTree, ItemsBut, ItemBut
<1>3. TreeBut(flat) = [p \in Directories |->
            <<p>> \o FlattenSeq([i \in DOMAIN Dir[p] |->
              LET q == Append(p, Dir[p][i])
              IN  CASE Dir[p][i] \in Dots -> << >>
                    [] Dir[p][i] \notin Dots /\ q \in Directories /\ p \notin flat -> TreeBut(flat)[q]
                    [] OTHER -> <<q>>])]
  BY <1>2 DEF TreeBut
<1> QED  BY <1>3 DEF IsTree, ItemsBut, ItemBut

\* Of what readdir has left in directory p.
Tree == TreeBut(Untyped)
Below(p) == IF p \in Directories THEN Tree[p] ELSE <<p>>
ItemIn(T, p, n) == ItemBut(Untyped, T, p, n)
Items(p, ns) == FlattenSeq([i \in DOMAIN ns |-> ItemIn(Tree, p, ns[i])])

LEMMA ItemsType ==
  ASSUME NEW p \in Paths, NEW ns \in Seq(Strings), \A n \in Strings : ItemIn(Tree, p, n) \in Seq(Paths)
  PROVE  /\ [i \in DOMAIN ns |-> ItemIn(Tree, p, ns[i])] \in Seq(Seq(Paths))
         /\ Items(p, ns) \in Seq(Paths)
<1>1. \A i \in 1..Len(ns) : ItemIn(Tree, p, ns[i]) \in Seq(Paths)
  OBVIOUS
<1>2. DOMAIN ns = 1..Len(ns) /\ Len(ns) \in Nat
  OBVIOUS
<1>3. [i \in DOMAIN ns |-> ItemIn(Tree, p, ns[i])] \in Seq(Seq(Paths))
  BY <1>1, <1>2
<1> QED  BY <1>3, FlattenType DEF Items

LEMMA ItemType ==
  ASSUME NEW p \in Paths, NEW n \in Strings,
         Append(p, n) \in Directories => Tree[Append(p, n)] \in Seq(Paths)
  PROVE  ItemIn(Tree, p, n) \in Seq(Paths)
<1>1. PICK q : q = Append(p, n)
  OBVIOUS
<1>2. q \in Paths
  BY <1>1, AppendProperties DEF Paths
<1>3. << >> \in Seq(Paths) /\ <<q>> \in Seq(Paths)
  BY <1>2
<1> QED  BY <1>1, <1>3 DEF ItemIn, ItemBut

LEMMA TreeType ==
  \A p \in Directories : Tree[p] \in Seq(Paths) /\ Tree[p] = <<p>> \o Items(p, Dir[p])
<1>1. PICK d : Deepest(d)
  BY DepthIs
<1>2. d \in Nat /\ \A p \in Directories : p \in Paths /\ Dir[p] \in Seq(Strings) /\ Len(p) \in Nat /\ Len(p) <= d
  BY <1>1, DirType DEF Deepest, Directories, Paths
<1>3. \A p \in Directories : Tree[p] = <<p>> \o Items(p, Dir[p])
  BY TreeIsTree DEF IsTree, ItemsBut, Items, ItemIn, Tree
<1> DEFINE K == {n \in Nat : \A p \in Under(d, n) : Tree[p] \in Seq(Paths)}
<1>4. 0 \in K
  BY <1>2 DEF Under
<1>5. ASSUME NEW n \in K PROVE n + 1 \in K
  <2>1. n \in Nat /\ \A p \in Under(d, n) : Tree[p] \in Seq(Paths)
    OBVIOUS
  <2>2. ASSUME NEW p \in Under(d, n + 1) PROVE Tree[p] \in Seq(Paths)
    <3>1. p \in Directories /\ p \in Paths /\ Dir[p] \in Seq(Strings)
      BY <1>2 DEF Under
    <3>2. \A x \in Strings : ItemIn(Tree, p, x) \in Seq(Paths)
      <4> TAKE x \in Strings
      <4>1. Append(p, x) \in Directories => Tree[Append(p, x)] \in Seq(Paths)
        BY <1>1, <2>1, BelowUnder
      <4> QED  BY <3>1, <4>1, ItemType
    <3>3. Items(p, Dir[p]) \in Seq(Paths)
      BY <3>1, <3>2, ItemsType
    <3>4. <<p>> \in Seq(Paths)
      BY <3>1
    <3> QED  BY <1>3, <3>1, <3>3, <3>4, ConcatProperties
  <2> QED  BY <2>1, <2>2
<1>6. K = Nat
  <2>1. K \in SUBSET Nat
    OBVIOUS
  <2> HIDE DEF K
  <2> QED  BY <1>4, <1>5, <2>1, Arith!Counting
<1>7. Under(d, d + 1) = Directories
  BY <1>2 DEF Under
<1>8. d + 1 \in K
  <2> HIDE DEF K
  <2> QED  BY <1>2, <1>6
<1> QED  BY <1>3, <1>7, <1>8

LEMMA ItemsOf ==
  ASSUME NEW p \in Paths, NEW ns \in Seq(Strings)
  PROVE  /\ \A n \in Strings : ItemIn(Tree, p, n) \in Seq(Paths)
         /\ Items(p, ns) \in Seq(Paths)
<1>1. \A n \in Strings : ItemIn(Tree, p, n) \in Seq(Paths)
  BY ItemType, TreeType
<1> QED  BY <1>1, ItemsType

LEMMA NoItems == ASSUME NEW p PROVE Items(p, << >>) = << >>
<1>1. PICK n, s : n = << >> /\ s = [i \in DOMAIN n |-> ItemIn(Tree, p, n[i])]
  OBVIOUS
<1>2. s = << >>
  BY <1>1
<1> QED  BY <1>1, <1>2, FlattenNone DEF Items

LEMMA FirstItem ==
  ASSUME NEW p \in Paths, NEW ns \in Seq(Strings), ns # << >>
  PROVE  Items(p, ns) = ItemIn(Tree, p, Head(ns)) \o Items(p, Tail(ns))
<1>1. PICK t : t = Tail(ns)
  OBVIOUS
<1>2. /\ t \in Seq(Strings) /\ Len(t) = Len(ns) - 1 /\ Head(ns) = ns[1]
      /\ \A i \in 1..Len(t) : t[i] = ns[i + 1]
  BY <1>1, HeadTailProperties
<1>3. Len(ns) \in Nat /\ Len(ns) # 0 /\ DOMAIN ns = 1..Len(ns) /\ DOMAIN t = 1..Len(t)
  BY <1>2, EmptySeq
<1>4. PICK s, u : /\ s = [i \in DOMAIN ns |-> ItemIn(Tree, p, ns[i])]
                  /\ u = [i \in DOMAIN t |-> ItemIn(Tree, p, t[i])]
  OBVIOUS
<1>5. s \in Seq(Seq(Paths)) /\ u \in Seq(Seq(Paths))
  BY <1>2, <1>4, ItemsOf, ItemsType
<1>6. Len(s) = Len(ns) /\ Len(u) = Len(t) /\ s # << >>
  BY <1>2, <1>3, <1>4
<1>7. Head(s) = ItemIn(Tree, p, Head(ns))
  BY <1>2, <1>3, <1>4, <1>6
<1>8. /\ Tail(s) \in Seq(Seq(Paths)) /\ Len(Tail(s)) = Len(s) - 1
      /\ \A i \in 1..Len(Tail(s)) : Tail(s)[i] = s[i + 1]
  BY <1>5, <1>6, HeadTailProperties
<1>9. Tail(s) = u
  <2>1. PICK v : v = Tail(s)
    OBVIOUS
  <2>2. Len(v) = Len(u)
    BY <1>2, <1>6, <1>8, <2>1
  <2>3. ASSUME NEW i \in 1..Len(v) PROVE v[i] = u[i]
    <3>1. i \in 1..Len(t) /\ i + 1 \in 1..Len(ns)
      BY <1>2, <1>3, <1>6, <2>2
    <3>2. v[i] = s[i + 1]
      BY <1>8, <2>1
    <3>3. s[i + 1] = ItemIn(Tree, p, ns[i + 1]) /\ u[i] = ItemIn(Tree, p, t[i])
      BY <1>3, <1>4, <3>1
    <3> QED  BY <1>2, <3>1, <3>2, <3>3
  <2> QED  BY <1>5, <1>8, <2>1, <2>2, <2>3, SeqEqual
<1>10. FlattenSeq(s) = Head(s) \o FlattenSeq(Tail(s))
  BY <1>5, <1>6, FlattenFirst
<1> QED  BY <1>1, <1>4, <1>7, <1>9, <1>10 DEF Items
-----------------------------------------------------------------------------
(* What nextfile() has returned and what it is to return.                    *)

\* The lines of a list before the first blank one, and what the code returns of
\* all lists and arguments.
Texts(l) == TextsOf(Listing[l])
Stream == FlattenSeq([i \in DOMAIN entries |->
            IF entries[i].kind = "list" THEN Texts(entries[i].name) ELSE Below(entries[i].name)])

\* What nextfile() is to return: of an entry, and of those from the kth on.
Part(e) == IF e.kind = "list" THEN TextsOf(Listing[e.name]) ELSE Below(e.name)
Later(es, k) == FlattenSeq([i \in 1..Len(es) - k + 1 |-> Part(es[k + i - 1])])
Entries(es) ==
  es \in Seq(EntryRecords) /\ \A i \in 1..Len(es) : es[i].kind = "list" => es[i].name \in DOMAIN Listing

LEMMA PartType ==
  ASSUME NEW es, Entries(es), NEW i \in 1..Len(es)
  PROVE  Part(es[i]) \in Seq(Paths)
<1>1. es[i] \in EntryRecords /\ (es[i].kind = "list" => es[i].name \in DOMAIN Listing)
  BY DEF Entries
<1>2. PICK p \in Paths : p = es[i].name
  BY <1>1 DEF EntryRecords, Paths
<1>3. CASE es[i].kind = "list"
  <2>1. Listing[es[i].name] \in Seq(LineRecords)
    BY <1>1, <1>3, TreeAssumption DEF LineRecords
  <2> QED  BY <1>3, <2>1, TextsType DEF Part
<1>4. CASE es[i].kind # "list"
  <2>1. <<p>> \in Seq(Paths)
    OBVIOUS
  <2>2. Below(p) \in Seq(Paths)
    BY <2>1, TreeType DEF Below
  <2> QED  BY <1>2, <1>4, <2>2 DEF Part
<1> QED  BY <1>3, <1>4

LEMMA LaterType ==
  ASSUME NEW es, Entries(es), NEW k \in 1..Len(es) + 1
  PROVE  /\ [i \in 1..Len(es) - k + 1 |-> Part(es[k + i - 1])] \in Seq(Seq(Paths))
         /\ Later(es, k) \in Seq(Paths)
<1>1. Len(es) \in Nat /\ Len(es) - k + 1 \in Nat
  BY DEF Entries
<1>2. ASSUME NEW i \in 1..Len(es) - k + 1 PROVE Part(es[k + i - 1]) \in Seq(Paths)
  <2>1. k + i - 1 \in 1..Len(es)
    BY <1>1
  <2> QED  BY <2>1, PartType
<1>3. [i \in 1..Len(es) - k + 1 |-> Part(es[k + i - 1])] \in Seq(Seq(Paths))
  BY <1>1, <1>2
<1> QED  BY <1>3, FlattenType DEF Later

LEMMA LaterNone ==
  ASSUME NEW es, Entries(es)
  PROVE  Later(es, Len(es) + 1) = << >>
<1>1. PICK s : s = [i \in 1..Len(es) - (Len(es) + 1) + 1 |-> Part(es[(Len(es) + 1) + i - 1])]
  OBVIOUS
<1>2. Len(es) \in Nat
  BY DEF Entries
<1>3. 1..Len(es) - (Len(es) + 1) + 1 = {}
  BY <1>2
<1>4. s = << >>
  BY <1>1, <1>3
<1> QED  BY <1>1, <1>4, FlattenNone DEF Later

LEMMA LaterFirst ==
  ASSUME NEW es, Entries(es), NEW k \in 1..Len(es)
  PROVE  Later(es, k) = Part(es[k]) \o Later(es, k + 1)
<1>1. Len(es) \in Nat /\ k \in 1..Len(es) + 1 /\ k + 1 \in 1..Len(es) + 1
  BY DEF Entries
<1>2. PICK s, t : /\ s = [i \in 1..Len(es) - k + 1 |-> Part(es[k + i - 1])]
                  /\ t = [i \in 1..Len(es) - (k + 1) + 1 |-> Part(es[(k + 1) + i - 1])]
  OBVIOUS
<1>3. s \in Seq(Seq(Paths)) /\ t \in Seq(Seq(Paths))
  BY <1>1, <1>2, LaterType
<1>4. PICK m : m = Len(es) - k /\ m \in Nat /\ Len(es) - k + 1 = m + 1 /\ Len(es) - (k + 1) + 1 = m
  BY <1>1
<1>5. Len(s) = m + 1 /\ Len(t) = m
  BY <1>2, <1>4
<1>6. s # << >>
  BY <1>4, <1>5
<1>7. Head(s) = Part(es[k])
  <2>1. 1 \in 1..m + 1 /\ k + 1 - 1 = k
    BY <1>1, <1>4
  <2>2. Head(s) = s[1]
    BY <1>3, <1>6
  <2> QED  BY <1>2, <1>4, <2>1, <2>2
<1>8. PICK u : u = Tail(s)
  OBVIOUS
<1>9. u \in Seq(Seq(Paths)) /\ Len(u) = Len(s) - 1 /\ \A i \in 1..Len(u) : u[i] = s[i + 1]
  BY <1>3, <1>6, <1>8, HeadTailProperties
<1>10. Len(u) = Len(t)
  BY <1>4, <1>5, <1>9
<1>11. ASSUME NEW i \in 1..Len(u) PROVE u[i] = t[i]
  <2>1. i \in 1..m /\ i + 1 \in 1..m + 1 /\ k + (i + 1) - 1 = (k + 1) + i - 1
    BY <1>1, <1>4, <1>5, <1>10
  <2>2. s[i + 1] = Part(es[k + (i + 1) - 1]) /\ t[i] = Part(es[(k + 1) + i - 1])
    BY <1>2, <1>4, <2>1
  <2> QED  BY <1>9, <2>1, <2>2
<1>12. u = t
  BY <1>3, <1>9, <1>10, <1>11, SeqEqual
<1>13. FlattenSeq(s) = Head(s) \o FlattenSeq(Tail(s))
  BY <1>3, <1>6, FlattenFirst
<1> QED  BY <1>2, <1>7, <1>8, <1>12, <1>13 DEF Later

LEMMA StreamIs ==
  ASSUME Entries(entries)
  PROVE  Stream = Later(entries, 1) /\ Stream \in Seq(Paths)
<1>1. Len(entries) \in Nat /\ DOMAIN entries = 1..Len(entries)
  BY DEF Entries
<1>2. PICK m : m = Len(entries) /\ m \in Nat /\ Len(entries) - 1 + 1 = m
  BY <1>1
<1>3. PICK s, t : /\ s = [i \in DOMAIN entries |->
                            IF entries[i].kind = "list" THEN Texts(entries[i].name) ELSE Below(entries[i].name)]
                  /\ t = [i \in 1..Len(entries) - 1 + 1 |-> Part(entries[1 + i - 1])]
  OBVIOUS
<1>4. ASSUME NEW i \in 1..m PROVE s[i] = t[i]
  <2>1. 1 + i - 1 = i
    BY <1>2
  <2>2. t[i] = Part(entries[i])
    BY <1>2, <1>3, <2>1
  <2>3. s[i] = IF entries[i].kind = "list" THEN Texts(entries[i].name) ELSE Below(entries[i].name)
    BY <1>1, <1>2, <1>3
  <2>4. Texts(entries[i].name) = TextsOf(Listing[entries[i].name])
    BY DEF Texts
  <2> QED  BY <2>2, <2>3, <2>4 DEF Part
<1>5. s = t
  <2>1. s = [i \in 1..m |-> s[i]] /\ t = [i \in 1..m |-> t[i]]
    BY <1>1, <1>2, <1>3
  <2> QED  BY <1>4, <2>1
<1>6. Stream = Later(entries, 1)
  BY <1>3, <1>5 DEF Stream, Later
<1>7. 1 \in 1..Len(entries) + 1
  BY <1>1
<1> QED  BY <1>6, <1>7, LaterType

\* What the directories of an argument that are being read still have, from the
\* innermost one out.
Outwards(ds, st, w) ==
  /\ w[0] = << >> /\ \A k \in 0..Len(ds) : w[k] \in Seq(Paths)
  /\ \A k, l \in 0..Len(ds) : k = l + 1 => w[k] = Items(ds[k], st[k]) \o w[l]
Stacked(ds, st, r) == \E w : Outwards(ds, st, w) /\ r = w[Len(ds)]

LEMMA StackedNone == Stacked(<< >>, << >>, << >>)
<1>1. PICK w : w = [k \in {0} |-> << >>]
  OBVIOUS
<1>2. PICK z : z = << >> /\ Len(z) = 0
  OBVIOUS
<1>3. << >> \in Seq(Paths) /\ 0..0 = {0}
  OBVIOUS
<1>4. w[0] = << >> /\ \A k \in 0..0 : w[k] \in Seq(Paths)
  BY <1>1, <1>3
<1>5. \A k, l \in 0..0 : k # l + 1
  OBVIOUS
<1>6. Outwards(z, z, w) /\ w[Len(z)] = z
  BY <1>2, <1>4, <1>5 DEF Outwards
<1> QED  BY <1>2, <1>6 DEF Stacked

LEMMA StackedType ==
  ASSUME NEW ds \in Seq(Directories), NEW st, NEW r, Stacked(ds, st, r)
  PROVE  r \in Seq(Paths)
<1>1. Len(ds) \in 0..Len(ds)
  OBVIOUS
<1> QED  BY <1>1 DEF Stacked, Outwards

LEMMA StackedPush ==
  ASSUME NEW ds \in Seq(Directories), NEW st \in Seq(Seq(Strings)), Len(st) = Len(ds),
         NEW p \in Directories, NEW ns \in Seq(Strings), NEW r, Stacked(ds, st, r)
  PROVE  Stacked(Append(ds, p), Append(st, ns), Items(p, ns) \o r)
<1>1. PICK n \in Nat : n = Len(ds) /\ n = Len(st)
  OBVIOUS
<1>2. PICK v : Outwards(ds, st, v) /\ r = v[n]
  BY <1>1 DEF Stacked
<1>3. PICK a : a = Items(p, ns) \o r
  OBVIOUS
<1>4. a \in Seq(Paths)
  <2>1. Items(p, ns) \in Seq(Paths)
    BY ItemsOf, DirType DEF Directories
  <2> QED  BY <1>3, <2>1, StackedType, ConcatProperties
<1>5. PICK w : w = [k \in 0..n + 1 |-> IF k = n + 1 THEN a ELSE v[k]]
  OBVIOUS
<1>6. PICK es, ts : es = Append(ds, p) /\ ts = Append(st, ns)
  OBVIOUS
<1>7. /\ Len(es) = n + 1 /\ es[n + 1] = p /\ ts[n + 1] = ns
      /\ \A k \in 1..n : es[k] = ds[k] /\ ts[k] = st[k]
  BY <1>1, <1>6, AppendProperties
<1>8. w[n + 1] = a /\ \A k \in 0..n : w[k] = v[k] /\ v[k] \in Seq(Paths)
  <2>1. n + 1 \in 0..n + 1 /\ \A k \in 0..n : k \in 0..n + 1 /\ k # n + 1
    BY <1>1
  <2> QED  BY <1>1, <1>2, <1>5, <2>1 DEF Outwards
<1>9. \A k \in 0..n + 1 : k = n + 1 \/ k \in 0..n
  BY <1>1
<1>10. \A k \in 0..n + 1 : w[k] \in Seq(Paths)
  BY <1>4, <1>8, <1>9
<1>11. w[0] = << >>
  <2>1. 0 \in 0..n
    BY <1>1
  <2> QED  BY <1>2, <1>8, <2>1 DEF Outwards
<1>12. ASSUME NEW k \in 0..n + 1, NEW l \in 0..n + 1, k = l + 1
       PROVE  w[k] = Items(es[k], ts[k]) \o w[l]
  <2>1. l \in 0..n
    BY <1>1, <1>12
  <2>2. CASE k = n + 1
    <3>1. l = n
      BY <1>1, <1>12, <2>1, <2>2
    <3> QED  BY <1>2, <1>3, <1>7, <1>8, <2>1, <2>2, <3>1
  <2>3. CASE k # n + 1
    <3>1. k \in 0..n /\ k \in 1..n
      <4>1. n \in Nat /\ l \in Nat /\ k = l + 1 /\ k <= n + 1
        BY <1>12, <2>1
      <4> QED  BY <2>3, <4>1
    <3>2. v[k] = Items(ds[k], st[k]) \o v[l]
      <4>1. \A x, y \in 0..n : x = y + 1 => v[x] = Items(ds[x], st[x]) \o v[y]
        BY <1>1, <1>2 DEF Outwards
      <4> QED  BY <1>12, <2>1, <3>1, <4>1
    <3> QED  BY <1>7, <1>8, <2>1, <3>1, <3>2
  <2> QED  BY <2>2, <2>3
<1>13. Outwards(es, ts, w)
  BY <1>7, <1>10, <1>11, <1>12 DEF Outwards
<1>14. Stacked(es, ts, a)
  BY <1>7, <1>8, <1>13 DEF Stacked
<1> QED  BY <1>3, <1>6, <1>14

\* The innermost directory, the ones around it, and what all of them have.
Innermosts(ds, st, r, es, ts, p, ns, q) ==
  /\ es \in Seq(Directories) /\ ts \in Seq(Seq(Strings)) /\ Len(es) = Len(ts) /\ Len(ds) = Len(es) + 1
  /\ p \in Directories /\ ns \in Seq(Strings) /\ q \in Seq(Paths)
  /\ es = Front(ds) /\ ts = Front(st) /\ p = Last(ds) /\ ns = Last(st)
  /\ Stacked(es, ts, q) /\ r = Items(p, ns) \o q

LEMMA StackedTop ==
  ASSUME NEW ds \in Seq(Directories), NEW st \in Seq(Seq(Strings)), Len(st) = Len(ds), ds # << >>,
         NEW r, Stacked(ds, st, r)
  PROVE  \E es, ts, p, ns, q : Innermosts(ds, st, r, es, ts, p, ns, q)
<1>1. PICK n \in Nat : Len(ds) = n + 1 /\ Len(st) = n + 1 /\ st # << >>
  <2>1. Len(ds) \in Nat /\ Len(ds) # 0
    BY EmptySeq
  <2>2. Len(ds) - 1 \in Nat /\ Len(ds) = (Len(ds) - 1) + 1
    BY <2>1
  <2>3. st # << >>
    BY <2>1
  <2> QED  BY <2>2, <2>3
<1>2. PICK w : Outwards(ds, st, w) /\ r = w[n + 1]
  BY <1>1 DEF Stacked
<1>3. PICK es, ts, p, ns : es = Front(ds) /\ ts = Front(st) /\ p = Last(ds) /\ ns = Last(st)
  OBVIOUS
<1>4. es \in Seq(Directories) /\ ts \in Seq(Seq(Strings)) /\ p \in Directories /\ ns \in Seq(Strings)
  BY <1>1, <1>3, FrontAndLast
<1>5. p = ds[n + 1] /\ ns = st[n + 1]
  BY <1>1, <1>3 DEF Last
<1>6. Len(es) = n /\ \A i \in 1..n : es[i] = ds[i]
  <2>1. es = SubSeq(ds, 1, n)
    BY <1>1, <1>3 DEF Front
  <2>2. \A i \in 1..n : ds[i] \in Directories
    BY <1>1
  <2> QED  BY <1>1, <2>1, <2>2, SubSeqProperties
<1>7. Len(ts) = n /\ \A i \in 1..n : ts[i] = st[i]
  <2>1. ts = SubSeq(st, 1, n)
    BY <1>1, <1>3 DEF Front
  <2>2. \A i \in 1..n : st[i] \in Seq(Strings)
    BY <1>1
  <2> QED  BY <1>1, <2>1, <2>2, SubSeqProperties
<1>8. /\ \A k \in 0..n + 1 : w[k] \in Seq(Paths)
      /\ w[0] = << >>
      /\ \A k, l \in 0..n + 1 : k = l + 1 => w[k] = Items(ds[k], st[k]) \o w[l]
  BY <1>1, <1>2 DEF Outwards
<1>9. n \in 0..n + 1 /\ n + 1 \in 0..n + 1 /\ \A k \in 0..n : k \in 0..n + 1
  BY <1>1
<1>10. ASSUME NEW k \in 0..n, NEW l \in 0..n, k = l + 1
       PROVE  w[k] = Items(es[k], ts[k]) \o w[l]
  <2>1. k \in 1..n
    BY <1>10
  <2> QED  BY <1>6, <1>7, <1>8, <1>9, <1>10, <2>1
<1>11. Outwards(es, ts, w)
  BY <1>6, <1>8, <1>9, <1>10 DEF Outwards
<1>12. Stacked(es, ts, w[n])
  BY <1>6, <1>11 DEF Stacked
<1>13. r = Items(p, ns) \o w[n] /\ w[n] \in Seq(Paths)
  BY <1>2, <1>5, <1>8, <1>9
<1>14. Innermosts(ds, st, r, es, ts, p, ns, w[n])
  BY <1>1, <1>3, <1>4, <1>6, <1>7, <1>12, <1>13 DEF Innermosts
<1> QED  BY <1>14

\* One name is returned, of those to come.
LEMMA GiveOne ==
  ASSUME NEW g \in Seq(Paths), NEW x \in Paths, NEW r \in Seq(Paths), NEW l \in Seq(Paths)
  PROVE  g \o ((<<x>> \o r) \o l) = Append(g, x) \o (r \o l)
<1>1. PICK o : o = <<x>>
  OBVIOUS
<1>2. o \in Seq(Paths) /\ Append(g, x) = g \o o
  BY <1>1, AppendIsConcat
<1>3. g \in Seq(Paths) /\ r \in Seq(Paths) /\ l \in Seq(Paths) /\ Regroups(Paths)
  BY Regrouped
<1>4. PICK m \in Seq(Paths) : m = r \o l
  <2>1. r \o l \in Seq(Paths)
    BY ConcatProperties
  <2> QED  BY <2>1
<1>5. (o \o r) \o l = o \o m
  BY ONLY <1>2, <1>3, <1>4 DEF Regroups
<1>6. g \o (o \o m) = (g \o o) \o m
  <2>1. m \in Seq(Paths)
    OBVIOUS
  <2> QED  BY ONLY <1>2, <1>3, <2>1 DEF Regroups
<1> QED  BY <1>1, <1>2, <1>4, <1>5, <1>6

LEMMA BeginsWith ==
  ASSUME NEW S, NEW g \in Seq(S), NEW r \in Seq(S)
  PROVE  IsPrefix(g, g \o r)
<1>1. PICK t : t = g \o r
  OBVIOUS
<1>2. PICK m, n \in Nat : m = Len(g) /\ n = Len(t)
  <2>1. Len(g) \in Nat /\ Len(t) \in Nat
    BY <1>1, ConcatProperties
  <2> QED  BY <2>1
<1>3. t \in Seq(S) /\ m <= n /\ \A i \in 1..m : t[i] = g[i]
  <2>1. t \in Seq(S) /\ n = m + Len(r) /\ Len(r) \in Nat
    BY <1>1, <1>2, ConcatProperties
  <2>2. ASSUME NEW i \in 1..m PROVE t[i] = g[i]
    <3>1. i \in 1..Len(g) + Len(r) /\ i <= Len(g)
      BY <1>2, <2>1
    <3> QED  BY <1>1, <3>1, ConcatProperties
  <2> QED  BY <2>1, <2>2
<1>4. PICK u : u = SubSeq(t, 1, m)
  OBVIOUS
<1>5. u \in Seq(S) /\ Len(u) = m /\ \A i \in 1..m : u[i] = t[i]
  <2>1. \A i \in 1..m : t[i] \in S
    BY <1>2, <1>3
  <2> QED  BY <1>2, <1>4, <2>1, SubSeqProperties
<1>6. u = g
  BY <1>2, <1>3, <1>5, SeqEqual
<1>7. SubSeq(g, 1, Len(g)) = g
  BY SubSeqFull
<1> QED  BY <1>1, <1>2, <1>3, <1>4, <1>6, <1>7 DEF IsPrefix

\* What is left of the entry that is read.
Remains(e, d, f, ds, st, r) ==
  /\ d => r = << >>
  /\ ~ d /\ e.kind = "list" => r = TextsOf(IF f = << >> THEN Listing[e.name] ELSE f[1])
  /\ ~ d /\ e.kind # "list" => IF ds = << >> THEN r = Below(e.name) ELSE Stacked(ds, st, r)
ToCome(es, c, d, f, ds, st, g) ==
  IF c > Len(es) THEN g = Later(es, 1)
  ELSE \E r \in Seq(Paths) : Remains(es[c], d, f, ds, st, r) /\ g \o (r \o Later(es, c + 1)) = Later(es, 1)
OpenFiles(es, c, d, f, ds, st) ==
  /\ c \in 1..Len(es) + 1 /\ d \in BOOLEAN
  /\ f = << >> \/ \E ls \in Seq(LineRecords) : f = <<ls>>
  /\ ds \in Seq(Directories) /\ st \in Seq(Seq(Strings)) /\ Len(st) = Len(ds)
  /\ d => ds = << >>
  /\ c <= Len(es) /\ es[c].kind = "list" => ds = << >>
InFiles(es, c, d, f, ds, st, g) ==
  Entries(es) /\ g \in Seq(Paths) /\ OpenFiles(es, c, d, f, ds, st) /\ ToCome(es, c, d, f, ds, st, g)

LEMMA AtEntry ==
  ASSUME NEW es, Entries(es), NEW c \in 1..Len(es) + 1, NEW g \in Seq(Paths), g \o Later(es, c) = Later(es, 1)
  PROVE  InFiles(es, c, FALSE, << >>, << >>, << >>, g)
<1>1. Len(es) \in Nat
  BY DEF Entries
<1>2. OpenFiles(es, c, FALSE, << >>, << >>, << >>)
  BY DEF OpenFiles
<1> SUFFICES ToCome(es, c, FALSE, << >>, << >>, << >>, g)
  BY <1>2 DEF InFiles
<1>3. CASE c = Len(es) + 1
  <2>1. Later(es, c) = << >> /\ g \o << >> = g
    BY <1>3, LaterNone, ConcatEmptySeq
  <2>2. c > Len(es)
    BY <1>1, <1>3
  <2> QED  BY <2>1, <2>2 DEF ToCome
<1>4. CASE c # Len(es) + 1
  <2>1. c \in 1..Len(es) /\ ~ (c > Len(es))
    BY <1>1, <1>4
  <2>2. Part(es[c]) \in Seq(Paths) /\ Later(es, c) = Part(es[c]) \o Later(es, c + 1)
    BY <2>1, PartType, LaterFirst
  <2>3. Remains(es[c], FALSE, << >>, << >>, << >>, Part(es[c]))
    BY DEF Remains, Part
  <2> QED  BY <2>1, <2>2, <2>3 DEF ToCome
<1> QED  BY <1>3, <1>4

\* Nothing is left of the entry.
LEMMA NextOne ==
  ASSUME NEW es, Entries(es), NEW c \in 1..Len(es), NEW g \in Seq(Paths),
         g \o (<< >> \o Later(es, c + 1)) = Later(es, 1)
  PROVE  InFiles(es, c + 1, FALSE, << >>, << >>, << >>, g)
<1>1. c + 1 \in 1..Len(es) + 1
  BY DEF Entries
<1>2. << >> \o Later(es, c + 1) = Later(es, c + 1)
  BY <1>1, LaterType, ConcatEmptySeq
<1> QED  BY <1>1, <1>2, AtEntry

\* A name is returned of what is left, and r of it still is.
LEMMA NameGiven ==
  ASSUME NEW es, Entries(es), NEW c \in 1..Len(es), NEW g \in Seq(Paths), NEW x \in Paths, NEW r \in Seq(Paths),
         g \o ((<<x>> \o r) \o Later(es, c + 1)) = Later(es, 1),
         NEW d, NEW f, NEW ds, NEW st, OpenFiles(es, c, d, f, ds, st), Remains(es[c], d, f, ds, st, r)
  PROVE  InFiles(es, c, d, f, ds, st, Append(g, x))
<1>1. Len(es) \in Nat /\ c + 1 \in 1..Len(es) + 1 /\ ~ (c > Len(es))
  BY DEF Entries
<1>2. Later(es, c + 1) \in Seq(Paths)
  BY <1>1, LaterType
<1>3. Append(g, x) \in Seq(Paths)
  BY AppendProperties
<1>4. Append(g, x) \o (r \o Later(es, c + 1)) = Later(es, 1)
  BY <1>2, GiveOne
<1>5. ToCome(es, c, d, f, ds, st, Append(g, x))
  BY <1>1, <1>4 DEF ToCome
<1> QED  BY <1>3, <1>5 DEF InFiles

\* While the files are read, what was returned and what is to come are the stream.
FilesInv == pc = "files" => InFiles(entries, curr, done, fh, dirs, dirstack, given)

\* The entry being read, and what is left of it.
LEMMA EntryRead ==
  ASSUME FilesInv, pc = "files", curr <= Len(entries)
  PROVE  /\ Entries(entries) /\ given \in Seq(Paths) /\ OpenFiles(entries, curr, done, fh, dirs, dirstack)
         /\ curr \in 1..Len(entries) /\ curr + 1 \in 1..Len(entries) + 1 /\ ~ (curr > Len(entries))
         /\ entries[curr] \in EntryRecords /\ Name \in Paths
         /\ entries[curr].kind = "list" => Listing[Name] \in Seq(LineRecords)
         /\ \E r \in Seq(Paths) : /\ Remains(entries[curr], done, fh, dirs, dirstack, r)
                                  /\ given \o (r \o Later(entries, curr + 1)) = Later(entries, 1)
<1>1. InFiles(entries, curr, done, fh, dirs, dirstack, given)
  BY DEF FilesInv
<1>2. Entries(entries) /\ given \in Seq(Paths) /\ OpenFiles(entries, curr, done, fh, dirs, dirstack)
      /\ ToCome(entries, curr, done, fh, dirs, dirstack, given)
  BY <1>1 DEF InFiles
<1>3. Len(entries) \in Nat /\ curr \in 1..Len(entries) + 1
  BY <1>2 DEF Entries, OpenFiles
<1>4. curr \in 1..Len(entries) /\ curr + 1 \in 1..Len(entries) + 1 /\ ~ (curr > Len(entries))
  BY <1>3
<1>5. entries[curr] \in EntryRecords /\ Name \in Paths
  <2>1. entries \in Seq(EntryRecords)
    BY <1>2 DEF Entries
  <2>2. entries[curr] \in EntryRecords
    BY <1>4, <2>1, ElementOfSeq
  <2> QED  BY <2>2 DEF EntryRecords, Name, Paths
<1>6. entries[curr].kind = "list" => Listing[Name] \in Seq(LineRecords)
  BY <1>2, <1>4, TreeAssumption DEF Entries, Name, LineRecords
<1>7. \E r \in Seq(Paths) : /\ Remains(entries[curr], done, fh, dirs, dirstack, r)
                            /\ given \o (r \o Later(entries, curr + 1)) = Later(entries, 1)
  BY <1>2, <1>4 DEF ToCome
<1> QED  BY <1>2, <1>4, <1>5, <1>6, <1>7

LEMMA EntryAfter ==
  ASSUME FilesInv, pc = "files", curr <= Len(entries), NextEntry,
         Remains(entries[curr], done, fh, dirs, dirstack, << >>),
         given \o (<< >> \o Later(entries, curr + 1)) = Later(entries, 1)
  PROVE  FilesInv'
<1>1. Entries(entries) /\ given \in Seq(Paths) /\ curr \in 1..Len(entries)
  BY EntryRead
<1>2. InFiles(entries, curr + 1, FALSE, << >>, << >>, << >>, given)
  BY <1>1, NextOne
<1> QED  BY <1>2 DEF FilesInv, NextEntry

LEMMA ReadLineFiles == ASSUME FilesInv, ReadLine PROVE FilesInv'
<1>1. pc = "files" /\ curr <= Len(entries) /\ entries[curr].kind = "list" /\ ~ done
  BY DEF ReadLine, Reading
<1>2. /\ Entries(entries) /\ given \in Seq(Paths) /\ OpenFiles(entries, curr, done, fh, dirs, dirstack)
      /\ curr \in 1..Len(entries) /\ Listing[Name] \in Seq(LineRecords)
  BY <1>1, EntryRead
<1>3. PICK r \in Seq(Paths) : /\ Remains(entries[curr], done, fh, dirs, dirstack, r)
                              /\ given \o (r \o Later(entries, curr + 1)) = Later(entries, 1)
  BY <1>1, EntryRead
<1>4. PICK ls : ls = IF fh = << >> THEN Listing[Name] ELSE fh[1]
  OBVIOUS
<1>5. ls \in Seq(LineRecords)
  <2>1. CASE fh = << >>
    BY <1>2, <1>4, <2>1
  <2>2. CASE fh # << >>
    <3>1. PICK ms \in Seq(LineRecords) : fh = <<ms>>
      BY <1>2, <2>2 DEF OpenFiles
    <3> QED  BY <1>4, <2>2, <3>1
  <2> QED  BY <2>1, <2>2
<1>6. r = TextsOf(ls)
  BY <1>1, <1>3, <1>4 DEF Remains, Name
<1>7. CASE ls = << >> \/ Head(ls).text = Blank
  <2>1. r = << >>
    BY <1>5, <1>6, <1>7, NoTexts
  <2>2. NextEntry
    BY <1>4, <1>7 DEF ReadLine
  <2> QED  BY <1>1, <1>3, <2>1, <2>2, EntryAfter
<1>8. CASE ~ (ls = << >> \/ Head(ls).text = Blank)
  <2>1. /\ done' = (Len(ls) = 1 /\ ~ Head(ls).nl)
        /\ fh' = IF done' THEN << >> ELSE <<Tail(ls)>>
        /\ given' = Append(given, Head(ls).text)
        /\ UNCHANGED <<pc, dirs, dirstack, entries, curr>>
    BY <1>4, <1>8 DEF ReadLine, Give
  <2>2. PICK x : x = Head(ls).text
    OBVIOUS
  <2>3. Head(ls) \in LineRecords /\ Tail(ls) \in Seq(LineRecords) /\ Len(Tail(ls)) = Len(ls) - 1
    BY <1>5, <1>8, HeadTailProperties
  <2>4. x \in Paths
    BY <2>2, <2>3 DEF LineRecords, Paths
  <2>5. PICK t : t = Tail(ls)
    OBVIOUS
  <2>6. PICK q : q = TextsOf(t) /\ q \in Seq(Paths)
    BY <2>3, <2>5, TextsType
  <2>7. r = <<x>> \o q
    BY <1>5, <1>6, <1>8, <2>2, <2>5, <2>6, FirstText
  <2>8. done' => q = << >>
    <3> SUFFICES ASSUME done' PROVE q = << >>
      OBVIOUS
    <3>1. Len(ls) = 1
      BY <2>1, Zenon
    <3>2. Len(t) = 0
      BY <2>3, <2>5, <3>1
    <3>3. t = << >>
      BY <2>3, <2>5, <3>2
    <3> QED  BY <2>3, <2>5, <2>6, <3>3, NoTexts
  <2>9. ~ done' => fh' = <<t>> /\ fh' # << >> /\ fh'[1] = t
    BY <2>1, <2>5
  <2>10. Remains(entries[curr], done', fh', dirs, dirstack, q)
    BY <1>1, <2>6, <2>8, <2>9 DEF Remains
  <2>11. OpenFiles(entries, curr, done', fh', dirs, dirstack)
    <3>1. done' \in BOOLEAN
      BY <2>1
    <3>2. dirs = << >>
      BY <1>1, <1>2 DEF OpenFiles
    <3>3. fh' = << >> \/ \E ms \in Seq(LineRecords) : fh' = <<ms>>
      BY <2>1, <2>3
    <3> QED  BY <1>2, <3>1, <3>2, <3>3 DEF OpenFiles
  <2>12. InFiles(entries, curr, done', fh', dirs, dirstack, Append(given, x))
    BY <1>2, <1>3, <2>4, <2>6, <2>7, <2>10, <2>11, NameGiven
  <2> QED  BY <2>1, <2>2, <2>12 DEF FilesInv
<1> QED  BY <1>7, <1>8

\* A failure leaves what was returned as it is.
LEMMA ExitFiles == ASSUME Exit PROVE FilesInv' /\ given' = given /\ entries' = entries
BY DEF Exit, FilesInv, fileVars

\* An argument, or a name in it, is returned and opened: r is what is left
\* without what is below it.
LEMMA OpenedFiles ==
  ASSUME FilesInv, pc = "files", curr <= Len(entries), entries[curr].kind # "list", ~ done,
         NEW fn \in Paths, NEW isDir \in BOOLEAN, isDir => fn \in Directories,
         NEW under \in Seq(Directories), NEW rests \in Seq(Seq(Strings)), Len(rests) = Len(under),
         NEW q \in Seq(Paths), Stacked(under, rests, q),
         NEW below, below = (IF isDir THEN Tree[fn] ELSE <<fn>>),
         given \o ((below \o q) \o Later(entries, curr + 1)) = Later(entries, 1),
         GiveAndOpen(fn, isDir, under, rests)
  PROVE  FilesInv'
<1>1. CASE Exit
  BY <1>1, ExitFiles
<1>2. CASE ~ Exit
  <2>1. /\ given' = Append(given, fn) /\ UNCHANGED <<entries, curr, pc, fh>>
        /\ dirs' = IF isDir THEN Append(under, fn) ELSE under
        /\ dirstack' = IF isDir THEN Append(rests, Dir[fn]) ELSE rests
        /\ done' = (dirs' = << >>)
    BY <1>2 DEF GiveAndOpen, Give
  <2>2. /\ Entries(entries) /\ given \in Seq(Paths) /\ OpenFiles(entries, curr, done, fh, dirs, dirstack)
        /\ curr \in 1..Len(entries)
    BY EntryRead
  <2>3. PICK e \in EntryRecords : e = entries[curr]
    BY EntryRead
  <2>4. PICK ds, st : ds = dirs' /\ st = dirstack'
    OBVIOUS
  <2>5. done' = (ds = << >>) /\ done' \in BOOLEAN
    BY <2>1, <2>4
  <2>6. isDir => Dir[fn] \in Seq(Strings)
    BY DirType DEF Directories
  <2>7. ds \in Seq(Directories) /\ st \in Seq(Seq(Strings)) /\ Len(st) = Len(ds)
    <3>1. CASE isDir
      <4>1. ds = Append(under, fn) /\ st = Append(rests, Dir[fn])
        BY <2>1, <2>4, <3>1
      <4> QED  BY <2>6, <3>1, <4>1, AppendProperties
    <3>2. CASE ~ isDir
      BY <2>1, <2>4, <3>2
    <3> QED  BY <3>1, <3>2
  <2>8. OpenFiles(entries, curr, done', fh, ds, st)
    BY <2>2, <2>5, <2>7 DEF OpenFiles
  <2>9. \E r \in Seq(Paths) : Stacked(ds, st, r) /\ below \o q = <<fn>> \o r
    <3>1. CASE isDir
      <4>1. ds = Append(under, fn) /\ st = Append(rests, Dir[fn])
        BY <2>1, <2>4, <3>1
      <4>2. PICK i : i = Items(fn, Dir[fn])
        OBVIOUS
      <4>3. i \in Seq(Paths)
        BY <2>6, <3>1, <4>2, ItemsOf
      <4>4. below = <<fn>> \o i
        BY <3>1, <4>2, TreeType
      <4>5. PICK r : r = i \o q /\ r \in Seq(Paths)
        BY <4>3, ConcatProperties
      <4>6. Stacked(ds, st, r)
        BY <2>6, <3>1, <4>1, <4>2, <4>5, StackedPush
      <4>7. below \o q = <<fn>> \o r
        <5>1. PICK o : o = <<fn>> /\ o \in Seq(Paths)
          <6>1. <<fn>> \in Seq(Paths)
            OBVIOUS
          <6> QED  BY <6>1
        <5>2. (o \o i) \o q = o \o (i \o q)
          BY <4>3, <5>1, Regrouped DEF Regroups
        <5> QED  BY <4>4, <4>5, <5>1, <5>2
      <4> QED  BY <4>5, <4>6, <4>7
    <3>2. CASE ~ isDir
      BY <2>1, <2>4, <3>2
    <3> QED  BY <3>1, <3>2
  <2>10. PICK r \in Seq(Paths) : Stacked(ds, st, r) /\ below \o q = <<fn>> \o r
    BY <2>9
  <2>11. ds = << >> => r = << >>
    <3> SUFFICES ASSUME ds = << >> PROVE r = << >>
      OBVIOUS
    <3>1. PICK w : Outwards(ds, st, w) /\ r = w[Len(ds)]
      BY <2>10 DEF Stacked
    <3>2. Len(ds) = 0
      OBVIOUS
    <3> QED  BY <3>1, <3>2 DEF Outwards
  <2>12. Remains(e, done', fh, ds, st, r)
    BY <2>3, <2>5, <2>10, <2>11 DEF Remains
  <2>13. InFiles(entries, curr, done', fh, ds, st, Append(given, fn))
    BY <2>2, <2>3, <2>8, <2>10, <2>12, NameGiven
  <2> QED  BY <2>1, <2>4, <2>13 DEF FilesInv
<1> QED  BY <1>1, <1>2

LEMMA ArgumentFiles == ASSUME FilesInv, Argument PROVE FilesInv'
<1>1. /\ pc = "files" /\ curr <= Len(entries) /\ entries[curr].kind = "arg" /\ ~ done /\ dirs = << >>
      /\ GiveAndOpen(Name, Name \in DOMAIN Dir \ Links, << >>, << >>)
  BY DEF Argument, Reading
<1>2. PICK p \in Paths : p = Name
  BY <1>1, EntryRead
<1>3. PICK r \in Seq(Paths) : /\ Remains(entries[curr], done, fh, dirs, dirstack, r)
                              /\ given \o (r \o Later(entries, curr + 1)) = Later(entries, 1)
  BY <1>1, EntryRead
<1>4. r = Below(p)
  BY <1>1, <1>2, <1>3 DEF Remains, Name
<1>5. PICK b \in BOOLEAN : b <=> p \in Directories
  <2>1. CASE p \in Directories
    BY <2>1
  <2>2. CASE p \notin Directories
    BY <2>2
  <2> QED  BY <2>1, <2>2
<1>6. r = IF b THEN Tree[p] ELSE <<p>>
  BY <1>4, <1>5 DEF Below
<1>7. r \o << >> = r
  BY ConcatEmptySeq
<1>8. PICK z : z = << >> /\ z \in Seq(Paths) /\ z \in Seq(Directories) /\ z \in Seq(Seq(Strings)) /\ Len(z) = 0
  <2>1. /\ << >> \in Seq(Paths) /\ << >> \in Seq(Directories) /\ << >> \in Seq(Seq(Strings))
        /\ Len(<< >>) = 0
    BY EmptySeq
  <2> QED  BY <2>1
<1>9. Stacked(z, z, z)
  BY <1>8, StackedNone
<1>10. GiveAndOpen(p, b, z, z)
  <2>1. b <=> Name \in DOMAIN Dir \ Links
    BY <1>2, <1>5 DEF Directories
  <2> QED  BY <1>1, <1>2, <1>8, <2>1 DEF GiveAndOpen
<1>11. given \o ((r \o z) \o Later(entries, curr + 1)) = Later(entries, 1)
  BY <1>3, <1>7, <1>8
<1>12. entries[curr].kind # "list"
  BY <1>1
<1> QED  BY <1>1, <1>5, <1>6, <1>8, <1>9, <1>10, <1>11, <1>12, OpenedFiles

\* Of the entry is left what the directories being read have.
LEMMA InDirectory ==
  ASSUME FilesInv, Reading("arg"), dirs # << >>
  PROVE  /\ pc = "files" /\ curr <= Len(entries) /\ entries[curr].kind # "list" /\ ~ done
         /\ \E r \in Seq(Paths), es \in Seq(Directories), ts \in Seq(Seq(Strings)), p \in Directories,
               ns \in Seq(Strings), q \in Seq(Paths) :
              /\ given \o (r \o Later(entries, curr + 1)) = Later(entries, 1)
              /\ Innermosts(dirs, dirstack, r, es, ts, p, ns, q)
<1>1. pc = "files" /\ curr <= Len(entries) /\ entries[curr].kind = "arg"
  BY DEF Reading
<1>2. OpenFiles(entries, curr, done, fh, dirs, dirstack)
  BY <1>1, EntryRead
<1>3. PICK r \in Seq(Paths) : /\ Remains(entries[curr], done, fh, dirs, dirstack, r)
                              /\ given \o (r \o Later(entries, curr + 1)) = Later(entries, 1)
  BY <1>1, EntryRead
<1>4. ~ done /\ dirs \in Seq(Directories) /\ dirstack \in Seq(Seq(Strings)) /\ Len(dirstack) = Len(dirs)
  BY <1>2 DEF OpenFiles
<1>5. entries[curr].kind # "list"
  BY <1>1
<1>6. Stacked(dirs, dirstack, r)
  BY <1>3, <1>4, <1>5 DEF Remains
<1>7. PICK es, ts, p, ns, q : Innermosts(dirs, dirstack, r, es, ts, p, ns, q)
  BY <1>4, <1>6, StackedTop
<1>8. es \in Seq(Directories) /\ ts \in Seq(Seq(Strings)) /\ p \in Directories /\ ns \in Seq(Strings) /\ q \in Seq(Paths)
  BY <1>7 DEF Innermosts
<1> QED  BY <1>1, <1>3, <1>4, <1>5, <1>7, <1>8

\* Of the directories the outer ones, and the innermost one with less.
LEMMA DirectoryLeft ==
  ASSUME NEW ds \in Seq(Directories), NEW st, NEW r, NEW es, NEW ts, NEW p, NEW ns \in Seq(Strings), NEW q, NEW ms \in Seq(Strings),
         ds # << >>, Innermosts(ds, st, r, es, ts, p, ns, q)
  PROVE  /\ Append(es, p) = ds /\ Append(ts, ms) \in Seq(Seq(Strings)) /\ Len(Append(ts, ms)) = Len(ds)
         /\ Stacked(ds, Append(ts, ms), Items(p, ms) \o q)
<1>1. /\ es \in Seq(Directories) /\ ts \in Seq(Seq(Strings)) /\ Len(es) = Len(ts) /\ Len(ds) = Len(es) + 1
      /\ p \in Directories /\ es = Front(ds) /\ p = Last(ds) /\ Stacked(es, ts, q)
  BY DEF Innermosts
<1>2. Append(es, p) = ds
  <2>1. PICK n \in Nat : n = Len(es) /\ Len(ds) = n + 1
    BY <1>1
  <2>2. PICK fs : fs = Append(es, p)
    OBVIOUS
  <2>3. fs \in Seq(Directories) /\ Len(fs) = n + 1 /\ fs[n + 1] = p /\ \A i \in 1..n : fs[i] = es[i]
    BY <1>1, <2>1, <2>2, AppendProperties
  <2>4. \A i \in 1..n : es[i] = ds[i]
    <3>1. es = SubSeq(ds, 1, n)
      BY <1>1, <2>1 DEF Front
    <3>2. \A i \in 1..n : ds[i] \in Directories
      BY <2>1
    <3> QED  BY <2>1, <3>1, <3>2, SubSeqProperties
  <2>5. ds[n + 1] = p
    BY <1>1, <2>1 DEF Last
  <2>6. ASSUME NEW i \in 1..Len(fs) PROVE fs[i] = ds[i]
    <3>1. i \in 1..n \/ i = n + 1
      BY <2>1, <2>3
    <3> QED  BY <2>3, <2>4, <2>5, <3>1
  <2>7. fs = ds
    BY <2>1, <2>3, <2>6, SeqEqual
  <2> QED  BY <2>2, <2>7
<1>3. Append(ts, ms) \in Seq(Seq(Strings)) /\ Len(Append(ts, ms)) = Len(ds)
  BY <1>1, AppendProperties
<1>4. Stacked(Append(es, p), Append(ts, ms), Items(p, ms) \o q)
  BY <1>1, StackedPush
<1> QED  BY <1>2, <1>3, <1>4

LEMMA ReadDirFiles == ASSUME FilesInv, ReadDir PROVE FilesInv'
<1>1. Reading("arg") /\ dirs # << >> /\ Last(dirstack) # << >>
  BY DEF ReadDir
<1>2. pc = "files" /\ curr <= Len(entries) /\ entries[curr].kind # "list" /\ ~ done
  BY <1>1, InDirectory
<1>3. PICK r \in Seq(Paths), es \in Seq(Directories), ts \in Seq(Seq(Strings)), p \in Directories,
           ns \in Seq(Strings), q \in Seq(Paths) :
             /\ given \o (r \o Later(entries, curr + 1)) = Later(entries, 1)
             /\ Innermosts(dirs, dirstack, r, es, ts, p, ns, q)
  BY <1>1, InDirectory
<1>4. p = Last(dirs) /\ ns = Last(dirstack) /\ ts = Front(dirstack) /\ r = Items(p, ns) \o q /\ ns # << >>
  BY <1>1, <1>3 DEF Innermosts
<1>5. /\ Entries(entries) /\ given \in Seq(Paths) /\ OpenFiles(entries, curr, done, fh, dirs, dirstack)
      /\ curr \in 1..Len(entries) /\ curr + 1 \in 1..Len(entries) + 1 /\ ~ (curr > Len(entries))
  BY <1>2, EntryRead
<1>6. dirs \in Seq(Directories)
  BY <1>5 DEF OpenFiles
<1>7. p \in Paths /\ p \in DOMAIN Dir
  BY DirType DEF Directories
<1>8. PICK x, ms : x = Head(ns) /\ ms = Tail(ns) /\ x \in Strings /\ ms \in Seq(Strings)
  BY <1>4, HeadTailProperties
<1>9. PICK fn : fn = Append(p, x) /\ fn \in Paths /\ Last(fn) = x
  BY <1>7, <1>8, LastOf DEF Paths
<1>10. PICK left : left = Append(ts, ms)
  OBVIOUS
<1>11. PICK s : s = Items(p, ms) \o q
  OBVIOUS
<1>12. left \in Seq(Seq(Strings)) /\ Len(left) = Len(dirs) /\ Stacked(dirs, left, s)
  <2>1. Innermosts(dirs, dirstack, r, es, ts, p, ns, q)
    BY <1>3
  <2>2. /\ Append(ts, ms) \in Seq(Seq(Strings)) /\ Len(Append(ts, ms)) = Len(dirs)
        /\ Stacked(dirs, Append(ts, ms), Items(p, ms) \o q)
    <3>1. dirs # << >> /\ ms \in Seq(Strings)
      BY <1>1, <1>8
    <3> QED  BY <1>6, <2>1, <3>1, DirectoryLeft
  <2> QED  BY <1>10, <1>11, <2>2
<1>13. s \in Seq(Paths)
  BY <1>6, <1>12, StackedType
<1>14. PICK it : it = ItemIn(Tree, p, x) /\ it \in Seq(Paths)
  BY <1>7, <1>8, ItemsOf
<1>15. r = it \o s
  <2>1. Items(p, ns) = it \o Items(p, ms)
    BY <1>4, <1>7, <1>8, <1>14, FirstItem
  <2>2. PICK i : i = Items(p, ms) /\ i \in Seq(Paths)
    BY <1>7, <1>8, ItemsOf
  <2>3. (it \o i) \o q = it \o (i \o q)
    <3>1. Regroups(Paths)
      BY Regrouped
    <3> QED  BY <1>14, <2>2, <3>1 DEF Regroups
  <2> QED  BY <1>4, <1>11, <2>1, <2>2, <2>3
<1>16. CASE x \in Dots
  <2>1. dirstack' = left /\ UNCHANGED <<pc, entries, curr, done, fh, dirs, given>>
    BY <1>4, <1>8, <1>9, <1>10, <1>16 DEF ReadDir
  <2>2. it = << >>
    BY <1>14, <1>16 DEF ItemIn, ItemBut
  <2>3. r = s
    BY <1>13, <1>15, <2>2, ConcatEmptySeq
  <2>4. OpenFiles(entries, curr, done, fh, dirs, left)
    BY <1>5, <1>12 DEF OpenFiles
  <2>5. Remains(entries[curr], done, fh, dirs, left, s)
    BY <1>1, <1>2, <1>12 DEF Remains
  <2>6. ToCome(entries, curr, done, fh, dirs, left, given)
    BY <1>3, <1>5, <1>13, <2>3, <2>5 DEF ToCome
  <2>7. InFiles(entries, curr, done, fh, dirs, left, given)
    BY <1>5, <2>4, <2>6 DEF InFiles
  <2> QED  BY <2>1, <2>7 DEF FilesInv
<1>17. CASE x \notin Dots
  <2>1. GiveAndOpen(fn, fn \in DOMAIN Dir \ Links /\ p \notin Untyped, dirs, left)
    BY <1>4, <1>8, <1>9, <1>10, <1>17 DEF ReadDir
  <2>2. PICK b \in BOOLEAN : b <=> fn \in Directories /\ p \notin Untyped
    <3>1. CASE fn \in Directories /\ p \notin Untyped
      BY <3>1
    <3>2. CASE ~ (fn \in Directories /\ p \notin Untyped)
      BY <3>2
    <3> QED  BY <3>1, <3>2
  <2>3. GiveAndOpen(fn, b, dirs, left)
    <3>1. b <=> fn \in DOMAIN Dir \ Links /\ p \notin Untyped
      BY <2>2 DEF Directories
    <3> QED  BY <2>1, <3>1 DEF GiveAndOpen
  <2>4. it = IF b THEN Tree[fn] ELSE <<fn>>
    BY <1>9, <1>14, <1>17, <2>2 DEF ItemIn, ItemBut
  <2>5. given \o ((it \o s) \o Later(entries, curr + 1)) = Later(entries, 1)
    BY <1>3, <1>15
  <2> QED  BY <1>2, <1>6, <1>9, <1>12, <1>13, <2>2, <2>3, <2>4, <2>5, OpenedFiles
<1> QED  BY <1>16, <1>17

LEMMA CloseDirFiles == ASSUME FilesInv, CloseDir PROVE FilesInv'
<1>1. Reading("arg") /\ dirs # << >> /\ Last(dirstack) = << >>
  BY DEF CloseDir
<1>2. pc = "files" /\ curr <= Len(entries) /\ entries[curr].kind # "list" /\ ~ done
  BY <1>1, InDirectory
<1>3. PICK r \in Seq(Paths), es \in Seq(Directories), ts \in Seq(Seq(Strings)), p \in Directories,
           ns \in Seq(Strings), q \in Seq(Paths) :
             /\ given \o (r \o Later(entries, curr + 1)) = Later(entries, 1)
             /\ Innermosts(dirs, dirstack, r, es, ts, p, ns, q)
  BY <1>1, InDirectory
<1>4. /\ es = Front(dirs) /\ ts = Front(dirstack) /\ ns = << >> /\ r = Items(p, ns) \o q
      /\ Stacked(es, ts, q) /\ Len(es) = Len(ts) /\ Len(dirs) = Len(es) + 1
  BY <1>1, <1>3 DEF Innermosts
<1>5. r = q
  <2>1. Items(p, ns) = << >>
    BY <1>4, NoItems
  <2> QED  BY <1>4, <2>1, ConcatEmptySeq
<1>6. /\ Entries(entries) /\ given \in Seq(Paths) /\ OpenFiles(entries, curr, done, fh, dirs, dirstack)
      /\ curr \in 1..Len(entries) /\ ~ (curr > Len(entries))
  BY <1>2, EntryRead
<1>7. CASE Len(dirs) = 1
  <2>1. NextEntry
    BY <1>7 DEF CloseDir
  <2>2. Len(es) = 0
    <3>1. Len(es) \in Nat /\ Len(es) + 1 = 1
      BY <1>4, <1>7, LenProperties
    <3> QED  BY <3>1
  <2>3. q = << >>
    <3>1. PICK w : Outwards(es, ts, w) /\ q = w[Len(es)]
      BY <1>4 DEF Stacked
    <3> QED  BY <2>2, <3>1 DEF Outwards
  <2>4. given \o (<< >> \o Later(entries, curr + 1)) = Later(entries, 1)
    BY <1>3, <1>5, <2>3
  <2>5. InFiles(entries, curr + 1, FALSE, << >>, << >>, << >>, given)
    BY <1>6, <2>4, NextOne
  <2> QED  BY <2>1, <2>5 DEF FilesInv, NextEntry
<1>8. CASE Len(dirs) # 1
  <2>1. dirs' = es /\ dirstack' = ts /\ UNCHANGED <<pc, entries, curr, done, fh, given>>
    BY <1>4, <1>8 DEF CloseDir
  <2>2. es # << >>
    <3>1. Len(es) # 0
      BY <1>4, <1>8
    <3> QED  BY <3>1, EmptySeq
  <2>3. OpenFiles(entries, curr, done, fh, es, ts)
    BY <1>2, <1>4, <1>6 DEF OpenFiles
  <2>4. Remains(entries[curr], done, fh, es, ts, q)
    BY <1>2, <1>4, <2>2 DEF Remains
  <2>5. ToCome(entries, curr, done, fh, es, ts, given)
    BY <1>3, <1>5, <1>6, <2>4 DEF ToCome
  <2>6. InFiles(entries, curr, done, fh, es, ts, given)
    BY <1>6, <2>3, <2>5 DEF InFiles
  <2> QED  BY <2>1, <2>6 DEF FilesInv
<1> QED  BY <1>7, <1>8

LEMMA EntryDoneFiles == ASSUME FilesInv, EntryDone PROVE FilesInv'
<1>1. pc = "files" /\ curr <= Len(entries) /\ done /\ NextEntry
  BY DEF EntryDone
<1>2. PICK r \in Seq(Paths) : /\ Remains(entries[curr], done, fh, dirs, dirstack, r)
                              /\ given \o (r \o Later(entries, curr + 1)) = Later(entries, 1)
  BY <1>1, EntryRead
<1>3. r = << >>
  BY <1>1, <1>2 DEF Remains
<1> QED  BY <1>1, <1>2, <1>3, EntryAfter

LEMMA NextFileFiles == ASSUME FilesInv, NextFile PROVE FilesInv'
<1>1. CannotOpenList \/ ListFails \/ DirFails => FilesInv'
  BY ExitFiles DEF CannotOpenList, ListFails, DirFails
<1>2. EndFiles => FilesInv'
  BY DEF EndFiles, FilesInv
<1> QED  BY <1>1, <1>2, ReadLineFiles, EntryDoneFiles, ArgumentFiles, ReadDirFiles, CloseDirFiles DEF NextFile

\* Before the files are read nothing is returned; afterwards all of the stream,
\* or, after a failure, the beginning of it.
StreamInv ==
  /\ \A i \in 1..Len(argv) : argv[i].opt = "T" => argv[i].arg \in DOMAIN Listing
  /\ Entries(entries) /\ given \in Seq(Paths)
  /\ pc \in {"idle", "options"} => curr = 1 /\ done = FALSE /\ fh = << >> /\ dirs = << >> /\ dirstack = << >>
  /\ pc \in {"idle", "options", "refused"} => given = << >>
  /\ FilesInv
  /\ pc = "end" => given = Later(entries, 1) \/ (given = << >> /\ action # "c")
  /\ pc = "exit" => \E r \in Seq(Paths) : given \o r = Later(entries, 1)

LEMMA StreamStays ==
  ASSUME StreamInv, UNCHANGED <<pc, fileVars, argv, action>>
  PROVE  StreamInv'
BY DEF StreamInv, FilesInv, fileVars

LEMMA QuitStream ==
  ASSUME StreamInv, pc = "options", NEW a \in {"c", "e", "E"}, Quit(a)
  PROVE  StreamInv'
<1>1. UNCHANGED <<argv, entries, curr, done, fh, dirs, dirstack, given>> /\ action' = a
  BY DEF Quit, fileVars
<1>2. given = << >> /\ curr = 1 /\ done = FALSE /\ fh = << >> /\ dirs = << >> /\ dirstack = << >> /\ Entries(entries)
  BY DEF StreamInv
<1>3. CASE a = "c"
  <2>1. pc' = "files"
    BY <1>3 DEF Quit
  <2>2. Len(entries) \in Nat /\ 1 \in 1..Len(entries) + 1
    BY <1>2 DEF Entries
  <2>3. << >> \o Later(entries, 1) = Later(entries, 1)
    BY <1>2, <2>2, LaterType, ConcatEmptySeq
  <2>4. << >> \in Seq(Paths)
    BY EmptySeq
  <2>5. InFiles(entries, 1, FALSE, << >>, << >>, << >>, << >>)
    BY <1>2, <2>2, <2>3, <2>4, AtEntry
  <2>6. FilesInv'
    BY <1>1, <1>2, <2>1, <2>5 DEF FilesInv
  <2> QED  BY <1>1, <2>1, <2>6 DEF StreamInv
<1>4. CASE a # "c"
  <2>1. pc' = IF a = "e" THEN "end" ELSE "refused"
    BY <1>4 DEF Quit
  <2>2. FilesInv'
    BY <2>1 DEF FilesInv
  <2> QED  BY <1>1, <1>2, <1>4, <2>1, <2>2 DEF StreamInv
<1> QED  BY <1>3, <1>4

LEMMA AddEntryStream == ASSUME ScanInv, StreamInv, AddEntry PROVE StreamInv'
<1>1. /\ pc = "options" /\ optind <= Len(argv) /\ argv[optind].opt \in {"T", "1"}
      /\ entries' = Append(entries, [kind |-> IF argv[optind].opt = "T" THEN "list" ELSE "arg", name |-> argv[optind].arg])
      /\ UNCHANGED <<argv, pc, action, curr, done, fh, dirs, dirstack, given>>
  BY DEF AddEntry, Option, Arg, Shift
<1>2. optind \in 1..Len(argv)
  BY <1>1 DEF ScanInv, Scanned
<1>3. argv[optind].arg \in Seq(Strings) /\ (argv[optind].opt = "T" => argv[optind].arg \in DOMAIN Listing)
  BY <1>1, <1>2, OptionIs DEF StreamInv
<1>4. PICK k : k = IF argv[optind].opt = "T" THEN "list" ELSE "arg"
  OBVIOUS
<1>5. PICK e : e = [kind |-> k, name |-> argv[optind].arg]
  OBVIOUS
<1>6. e \in EntryRecords /\ (e.kind = "list" => e.name \in DOMAIN Listing)
  BY <1>3, <1>4, <1>5 DEF EntryRecords
<1>7. PICK es : es = Append(entries, e)
  OBVIOUS
<1>8. entries \in Seq(EntryRecords) /\ \A i \in 1..Len(entries) : entries[i].kind = "list" => entries[i].name \in DOMAIN Listing
  BY DEF StreamInv, Entries
<1>9. /\ es \in Seq(EntryRecords) /\ Len(es) = Len(entries) + 1 /\ es[Len(entries) + 1] = e
      /\ \A i \in 1..Len(entries) : es[i] = entries[i]
  BY <1>6, <1>7, <1>8, AppendProperties
<1>10. \A i \in 1..Len(es) : i \in 1..Len(entries) \/ i = Len(entries) + 1
  BY <1>8, <1>9
<1>11. Entries(es)
  BY <1>6, <1>8, <1>9, <1>10 DEF Entries
<1>12. entries' = es
  BY <1>1, <1>4, <1>5, <1>7
<1>13. FilesInv'
  BY <1>1 DEF FilesInv
<1> QED  BY <1>1, <1>11, <1>12, <1>13 DEF StreamInv

LEMMA ParseStream == ASSUME ScanInv, StreamInv, Parse PROVE StreamInv'
<1>1. CASE Create
  <2>1. pc = "options" /\ UNCHANGED <<pc, fileVars, argv>>
    BY <1>1 DEF Create, Option, Shift
  <2>2. FilesInv'
    BY <2>1 DEF FilesInv
  <2>3. UNCHANGED <<entries, curr, done, fh, dirs, dirstack, given>>
    BY <2>1 DEF fileVars
  <2> QED  BY <2>1, <2>2, <2>3 DEF StreamInv
<1>2. CASE TarFile
  <2>1. CASE Quit("E")
    BY <1>2, <2>1, QuitStream DEF TarFile, Option
  <2>2. CASE ~ Quit("E")
    <3>1. UNCHANGED <<pc, fileVars, argv, action>>
      BY <1>2, <2>2 DEF TarFile, Shift
    <3> QED  BY <3>1, StreamStays
  <2> QED  BY <2>1, <2>2
<1>3. CASE Help
  BY <1>3, QuitStream DEF Help, Option
<1>4. CASE Unknown
  BY <1>4, QuitStream DEF Unknown, Option
<1>5. CASE EndOptions
  <2>1. pc = "options" /\ action \in {"c", "invalid"}
    BY <1>5 DEF EndOptions, ScanInv, Scanned
  <2>2. PICK a : a = IF action = "invalid" \/ tarfilename = << >> THEN "E" ELSE action
    OBVIOUS
  <2>3. a \in {"c", "e", "E"} /\ Quit(a)
    BY <1>5, <2>1, <2>2 DEF EndOptions
  <2> QED  BY <2>1, <2>3, QuitStream
<1> QED  BY <1>1, <1>2, <1>3, <1>4, <1>5, AddEntryStream DEF Parse

\* How reading the files ends.
LEMMA NextFileEnds ==
  ASSUME NextFile
  PROVE  pc' = "files" \/ (UNCHANGED given /\ (pc' = "end" => curr > Len(entries)))
<1>1. Exit => pc' = "exit" /\ UNCHANGED given
  BY DEF Exit, fileVars
<1>2. CASE ReadLine
  BY <1>2 DEF ReadLine, Reading, NextEntry
<1>3. CASE CannotOpenList
  BY <1>1, <1>3 DEF CannotOpenList
<1>4. CASE EntryDone
  BY <1>4 DEF EntryDone, NextEntry
<1>5. CASE Argument
  BY <1>1, <1>5 DEF Argument, Reading, GiveAndOpen
<1>6. CASE ReadDir
  BY <1>1, <1>6 DEF ReadDir, Reading, GiveAndOpen
<1>7. CASE CloseDir
  BY <1>7 DEF CloseDir, Reading, NextEntry
<1>8. CASE EndFiles
  BY <1>8 DEF EndFiles, fileVars
<1>9. CASE ListFails \/ DirFails
  BY <1>1, <1>9 DEF ListFails, DirFails
<1> QED  BY <1>2, <1>3, <1>4, <1>5, <1>6, <1>7, <1>8, <1>9 DEF NextFile

LEMMA FilesStream == ASSUME StreamInv, NextFile, UNCHANGED lineVars PROVE StreamInv'
<1>1. UNCHANGED <<entries, argv, action>> /\ pc = "files" /\ pc' \in {"files", "end", "exit"}
  BY NextFileKeeps DEF lineVars
<1>2. FilesInv'
  BY NextFileFiles DEF StreamInv
<1>3. InFiles(entries, curr, done, fh, dirs, dirstack, given)
  BY <1>1 DEF StreamInv, FilesInv
<1>4. CASE pc' = "files"
  <2>1. given' \in Seq(Paths)
    BY <1>2, <1>4 DEF FilesInv, InFiles
  <2> QED  BY <1>1, <1>2, <1>4, <2>1 DEF StreamInv
<1>5. CASE pc' # "files"
  <2>1. UNCHANGED given /\ (pc' = "end" => curr > Len(entries))
    BY <1>5, NextFileEnds
  <2>2. pc' = "end" => given = Later(entries, 1)
    BY <1>3, <2>1 DEF InFiles, ToCome
  <2>3. \E r \in Seq(Paths) : given \o r = Later(entries, 1)
    <3>1. CASE curr > Len(entries)
      <4>1. given = Later(entries, 1) /\ given \in Seq(Paths)
        BY <1>3, <3>1 DEF InFiles, ToCome
      <4>2. given \o << >> = given
        BY <4>1, ConcatEmptySeq
      <4>3. << >> \in Seq(Paths)
        BY EmptySeq
      <4> QED  BY <4>1, <4>2, <4>3
    <3>2. CASE ~ (curr > Len(entries))
      <4>1. /\ Entries(entries) /\ OpenFiles(entries, curr, done, fh, dirs, dirstack)
            /\ ToCome(entries, curr, done, fh, dirs, dirstack, given)
        BY <1>3 DEF InFiles
      <4>2. curr + 1 \in 1..Len(entries) + 1
        BY <3>2, <4>1 DEF OpenFiles, Entries
      <4>3. PICK r \in Seq(Paths) : given \o (r \o Later(entries, curr + 1)) = Later(entries, 1)
        BY <3>2, <4>1 DEF ToCome
      <4>4. r \o Later(entries, curr + 1) \in Seq(Paths)
        BY <4>1, <4>2, LaterType, ConcatProperties
      <4> QED  BY <4>3, <4>4
    <3> QED  BY <3>1, <3>2
  <2> QED  BY <1>1, <1>2, <1>5, <2>1, <2>2, <2>3 DEF StreamInv
<1> QED  BY <1>4, <1>5

LEMMA CallStream == ASSUME ScanInv, StreamInv, DivideFiles PROVE StreamInv'
<1>1. CASE UNCHANGED mpiVars
  BY <1>1, StreamStays DEF mpiVars, lineVars
<1>2. CASE CallMpitar
  <2>1. pc = "idle"
    BY MpitarCalled
  <2>2. /\ pc' = "options" /\ UNCHANGED <<fileVars, action>>
        /\ argv' = <<[opt |-> "c"], [opt |-> "f", arg |-> TarName(instance[0].name)], [opt |-> "T", arg |-> Index]>>
    BY <1>2 DEF CallMpitar
  <2>3. UNCHANGED <<entries, curr, done, fh, dirs, dirstack, given>>
    BY <2>2 DEF fileVars
  <2>4. \A i \in 1..Len(argv') : argv'[i].opt = "T" => argv'[i].arg \in DOMAIN Listing
    BY <2>2, IndexAssumption
  <2>5. FilesInv'
    BY <2>2 DEF FilesInv
  <2> QED  BY <2>1, <2>2, <2>3, <2>4, <2>5 DEF StreamInv
<1> QED  BY <1>1, <1>2, MpitarCalled

LEMMA StreamNext == ASSUME MainTypes, ScanInv, StreamInv, [Next]_vars PROVE StreamInv'
<1>1. CASE Parse
  BY <1>1, ParseStream
<1>2. CASE NextFile /\ UNCHANGED lineVars
  BY <1>2, FilesStream
<1>3. CASE UNCHANGED mpiVars
  BY <1>3, StreamStays DEF mpiVars, lineVars
<1>4. CASE Main
  <2>1. DivideFiles \/ UNCHANGED mpiVars
    <3>1. ASSUME NEW r \in Ranks, GetSettings(r) PROVE UNCHANGED mpiVars
      BY <3>1, Reads
    <3>2. ReadName => UNCHANGED mpiVars
      BY WalkStep
    <3> QED  BY <1>4, <3>1, <3>2 DEF Main, HelpCheck, GetPaths, ReturnPaths, EndPaths, Begin, Walk, Leave
  <2> QED  BY <1>3, <2>1, CallStream
<1>5. CASE UNCHANGED vars
  BY <1>3, <1>5 DEF vars
<1> QED  BY <1>1, <1>2, <1>4, <1>5 DEF Next

LEMMA InitStream == Init => StreamInv
<1> SUFFICES ASSUME Init PROVE StreamInv
  OBVIOUS
<1>1. /\ pc \in {"idle", "options"} /\ entries = << >> /\ curr = 1 /\ done = FALSE
      /\ fh = << >> /\ dirs = << >> /\ dirstack = << >> /\ given = << >>
  BY DEF Init, FileInit
<1>2. \A i \in 1..Len(argv) : argv[i].opt = "T" => argv[i].arg \in DOMAIN Listing
  <2>1. CASE argv = << >>
    BY <2>1
  <2>2. CASE argv \in Lines
    <3>1. DOMAIN argv = 1..Len(argv)
      BY <2>2, LinesAssumption
    <3> QED  BY <2>2, <3>1, ListsAssumption
  <2> QED  BY <2>1, <2>2 DEF Init
<1>3. Entries(entries)
  BY <1>1 DEF Entries
<1>4. given \in Seq(Paths)
  BY <1>1, EmptySeq
<1>5. FilesInv
  BY <1>1 DEF FilesInv
<1> QED  BY <1>1, <1>2, <1>3, <1>4, <1>5 DEF StreamInv

LEMMA StreamHolds ==
  ASSUME ScanInv, StreamInv
  PROVE  IsPrefix(given, Stream) /\ (pc = "end" /\ action = "c" => given = Stream)
<1>1. Stream = Later(entries, 1) /\ Stream \in Seq(Paths) /\ given \in Seq(Paths)
  BY StreamIs DEF StreamInv
<1>2. ASSUME given = << >> PROVE \E r \in Seq(Paths) : given \o r = Stream
  BY <1>1, <1>2, ConcatEmptySeq
<1>3. ASSUME given = Stream PROVE \E r \in Seq(Paths) : given \o r = Stream
  <2>1. given \o << >> = Stream /\ << >> \in Seq(Paths)
    BY <1>1, <1>3, ConcatEmptySeq, EmptySeq
  <2> QED  BY <2>1
<1>4. \E r \in Seq(Paths) : given \o r = Stream
  <2>1. CASE pc \in {"idle", "options", "refused"}
    BY <1>2, <2>1 DEF StreamInv
  <2>2. CASE pc = "files"
    <3>1. InFiles(entries, curr, done, fh, dirs, dirstack, given)
      BY <2>2 DEF StreamInv, FilesInv
    <3>2. /\ Entries(entries) /\ OpenFiles(entries, curr, done, fh, dirs, dirstack)
          /\ ToCome(entries, curr, done, fh, dirs, dirstack, given)
      BY <3>1 DEF InFiles
    <3>3. CASE curr > Len(entries)
      BY <1>1, <1>3, <3>2, <3>3 DEF ToCome
    <3>4. CASE ~ (curr > Len(entries))
      <4>1. curr + 1 \in 1..Len(entries) + 1
        BY <3>2, <3>4 DEF OpenFiles, Entries
      <4>2. PICK r \in Seq(Paths) : given \o (r \o Later(entries, curr + 1)) = Later(entries, 1)
        BY <3>2, <3>4 DEF ToCome
      <4>3. r \o Later(entries, curr + 1) \in Seq(Paths)
        BY <3>2, <4>1, LaterType, ConcatProperties
      <4> QED  BY <1>1, <4>2, <4>3
    <3> QED  BY <3>3, <3>4
  <2>3. CASE pc = "end"
    BY <1>1, <1>2, <1>3, <2>3 DEF StreamInv
  <2>4. CASE pc = "exit"
    BY <1>1, <2>4 DEF StreamInv
  <2> QED  BY <2>1, <2>2, <2>3, <2>4 DEF ScanInv
<1>5. IsPrefix(given, Stream)
  <2>1. PICK r \in Seq(Paths) : given \o r = Stream
    BY <1>4
  <2> QED  BY <1>1, <2>1, BeginsWith
<1>6. pc = "end" /\ action = "c" => given = Stream
  BY <1>1 DEF StreamInv
<1> QED  BY <1>5, <1>6

-----------------------------------------------------------------------------
(* Where the lists are plain and d_type tells, that is what tar stores.      *)

Joins(ls, J) == J = [n \in 0..Len(ls) |->
                      IF n = 0 THEN << >>
                      ELSE IF ls[n].text = Blank THEN J[n - 1]
                      ELSE IF n > 1 /\ ~ ls[n - 1].nl THEN Append(Front(J[n - 1]), Last(J[n - 1]) \o ls[n].text)
                      ELSE Append(J[n - 1], ls[n].text)]

\* The names of the first n lines.
NamesOf(ls, n) == [i \in 1..n |-> ls[i].text]
AllPlain(ls) == \A i \in 1..Len(ls) : ls[i].text # Blank /\ (i < Len(ls) => ls[i].nl)

LEMMA PlainJoins ==
  ASSUME NEW ls \in Seq(LineRecords), AllPlain(ls)
  PROVE  Joins(ls, [n \in 0..Len(ls) |-> NamesOf(ls, n)])
<1>1. PICK l \in Nat : l = Len(ls)
  OBVIOUS
<1>2. PICK J : J = [n \in 0..l |-> NamesOf(ls, n)]
  OBVIOUS
<1>3. ASSUME NEW n \in 0..l
      PROVE  J[n] = IF n = 0 THEN << >>
                    ELSE IF ls[n].text = Blank THEN J[n - 1]
                    ELSE IF n > 1 /\ ~ ls[n - 1].nl THEN Append(Front(J[n - 1]), Last(J[n - 1]) \o ls[n].text)
                    ELSE Append(J[n - 1], ls[n].text)
  <2>1. CASE n = 0
    BY <1>2, <2>1 DEF NamesOf
  <2>2. CASE n # 0
    <3>1. n \in 1..l /\ n - 1 \in 0..l /\ n - 1 \in Nat /\ (n > 1 => n - 1 \in 1..l /\ n - 1 < l)
      BY <2>2
    <3>2. ls[n].text # Blank /\ ~ (n > 1 /\ ~ ls[n - 1].nl)
      BY <1>1, <3>1 DEF AllPlain
    <3>3. J[n] = NamesOf(ls, n) /\ J[n - 1] = NamesOf(ls, n - 1)
      BY <1>2, <3>1
    <3>4. Append(NamesOf(ls, n - 1), ls[n].text) = NamesOf(ls, n)
      BY <3>1 DEF NamesOf
    <3> QED  BY <2>2, <3>2, <3>3, <3>4
  <2> QED  BY <2>1, <2>2
<1>4. J = [n \in 0..l |->
             IF n = 0 THEN << >>
             ELSE IF ls[n].text = Blank THEN J[n - 1]
             ELSE IF n > 1 /\ ~ ls[n - 1].nl THEN Append(Front(J[n - 1]), Last(J[n - 1]) \o ls[n].text)
             ELSE Append(J[n - 1], ls[n].text)]
  <2>1. DOMAIN J = 0..l /\ J = [n \in DOMAIN J |-> J[n]]
    BY <1>2
  <2> QED  BY <1>3, <2>1
<1> QED  BY <1>1, <1>2, <1>4 DEF Joins

\* There is only one such function, so it is the one Joined chooses.
LEMMA JoinsOnce ==
  ASSUME NEW ls \in Seq(LineRecords), NEW f, NEW g, Joins(ls, f), Joins(ls, g)
  PROVE  f[Len(ls)] = g[Len(ls)]
<1>1. PICK l \in Nat : l = Len(ls)
  OBVIOUS
<1> DEFINE K == {n \in Nat : n <= l => f[n] = g[n]}
<1>2. 0 \in K
  <2>1. 0 \in 0..l
    OBVIOUS
  <2>2. f[0] = << >> /\ g[0] = << >>
    BY <1>1, <2>1 DEF Joins
  <2> QED  BY <2>2
<1>3. ASSUME NEW n \in K PROVE n + 1 \in K
  <2>1. n \in Nat /\ (n <= l => f[n] = g[n])
    OBVIOUS
  <2>2. ASSUME n + 1 <= l PROVE f[n + 1] = g[n + 1]
    <3>1. n + 1 \in 0..l /\ n + 1 # 0 /\ (n + 1) - 1 = n /\ n <= l
      BY <2>1, <2>2
    <3>2. PICK m : m = n + 1
      OBVIOUS
    <3>3. m \in 0..l /\ m # 0 /\ m - 1 = n /\ f[n] = g[n]
      BY <2>1, <3>1, <3>2
    <3>4. f[m] = g[m]
      <4>1. f[m] = IF ls[m].text = Blank THEN f[n]
                   ELSE IF m > 1 /\ ~ ls[n].nl THEN Append(Front(f[n]), Last(f[n]) \o ls[m].text)
                   ELSE Append(f[n], ls[m].text)
        BY <1>1, <3>3 DEF Joins
      <4>2. g[m] = IF ls[m].text = Blank THEN g[n]
                   ELSE IF m > 1 /\ ~ ls[n].nl THEN Append(Front(g[n]), Last(g[n]) \o ls[m].text)
                   ELSE Append(g[n], ls[m].text)
        BY <1>1, <3>3 DEF Joins
      <4> QED  BY <3>3, <4>1, <4>2
    <3> QED  BY <3>2, <3>4
  <2> QED  BY <2>1, <2>2
<1>4. K = Nat
  <2>1. K \in SUBSET Nat
    OBVIOUS
  <2> HIDE DEF K
  <2> QED  BY <1>2, <1>3, <2>1, Arith!Counting
<1>5. l \in K
  <2> HIDE DEF K
  <2> QED  BY <1>4
<1> QED  BY <1>1, <1>5

LEMMA PlainJoined ==
  ASSUME NEW ls \in Seq(LineRecords), AllPlain(ls)
  PROVE  Joined(ls) = NamesOf(ls, Len(ls))
<1>1. PICK g : g = [n \in 0..Len(ls) |-> NamesOf(ls, n)]
  OBVIOUS
<1>2. Joins(ls, g)
  BY <1>1, PlainJoins
<1>3. PICK f : f = CHOOSE J : Joins(ls, J)
  OBVIOUS
<1>4. Joins(ls, f)
  BY <1>2, <1>3
<1>5. Joined(ls) = f[Len(ls)]
  BY <1>3 DEF Joined, Joins
<1>6. f[Len(ls)] = g[Len(ls)]
  BY <1>2, <1>4, JoinsOnce
<1>7. Len(ls) \in 0..Len(ls)
  OBVIOUS
<1> QED  BY <1>1, <1>5, <1>6, <1>7

LEMMA PlainTexts ==
  ASSUME NEW ls \in Seq(LineRecords), AllPlain(ls)
  PROVE  TextsOf(ls) = NamesOf(ls, Len(ls))
<1>1. PICK n : Unblank(ls, n) /\ TextsOf(ls) = [i \in 1..n |-> ls[i].text]
  BY TextsAre
<1>2. n = Len(ls)
  <2>1. n \in 0..Len(ls) /\ Len(ls) \in Nat /\ (n < Len(ls) => ls[n + 1].text = Blank)
    BY <1>1 DEF Unblank
  <2>2. n < Len(ls) => n + 1 \in 1..Len(ls)
    BY <2>1
  <2> QED  BY <2>1, <2>2 DEF AllPlain
<1> QED  BY <1>1, <1>2 DEF NamesOf

LEMMA FlattenSingles ==
  ASSUME NEW S, NEW s \in Seq(S)
  PROVE  FlattenSeq([k \in DOMAIN s |-> <<s[k]>>]) = s
<1>1. PICK l \in Nat : l = Len(s) /\ DOMAIN s = 1..l
  OBVIOUS
<1>2. PICK t : t = [k \in 1..l |-> <<s[k]>>]
  OBVIOUS
<1>3. CASE l = 0
  <2>1. t = << >> /\ s = << >>
    BY <1>1, <1>2, <1>3
  <2> QED  BY <1>1, <1>2, <2>1, FlattenNone
<1>4. CASE l # 0
  <2>1. t \in Seq(Seq(S)) /\ Len(t) = l /\ t # << >>
    <3>1. \A k \in 1..l : <<s[k]>> \in Seq(S)
      BY <1>1
    <3> QED  BY <1>2, <1>4, <3>1
  <2>2. PICK f : Adding(S, t, f) /\ FlattenSeq(t) = f[l]
    BY <2>1, FlattenIs
  <2> DEFINE K == {n \in Nat : n + 1 <= l => f[n + 1] = [i \in 1..n + 1 |-> s[i]]}
  <2>3. 0 \in K
    <3>1. 1 \in 1..l
      BY <1>4
    <3>2. f[1] = <<s[1]>>
      BY <1>2, <2>1, <2>2, <3>1 DEF Adding
    <3>3. [i \in 1..1 |-> s[i]] = <<s[1]>>
      OBVIOUS
    <3>4. 0 + 1 = 1
      OBVIOUS
    <3> QED  BY <3>2, <3>3, <3>4
  <2>4. ASSUME NEW n \in K PROVE n + 1 \in K
    <3>1. n \in Nat /\ (n + 1 <= l => f[n + 1] = [i \in 1..n + 1 |-> s[i]])
      OBVIOUS
    <3>2. PICK a, b : a = n + 1 /\ b = a + 1
      OBVIOUS
    <3>3. ASSUME b <= l PROVE f[b] = [i \in 1..b |-> s[i]]
      <4>0. n \in Nat
        OBVIOUS
      <4>1. a \in 1..l /\ b \in 1..l /\ n + 1 <= l
        BY <3>2, <3>3, <4>0
      <4>2. f[b] = f[a] \o <<s[b]>>
        <5>1. a \in 1..Len(t) /\ b \in 1..Len(t) /\ t[b] = <<s[b]>>
          BY <1>2, <2>1, <4>1
        <5>2. f[b] = f[a] \o t[b]
          BY <2>2, <3>2, <5>1 DEF Adding
        <5> QED  BY <5>1, <5>2
      <4>3. PICK r \in Seq(S) : r = [i \in 1..a |-> s[i]]
        <5>1. PICK q : q = [i \in 1..a |-> s[i]]
          OBVIOUS
        <5>2. \A i \in 1..a : s[i] \in S
          BY <1>1, <4>1
        <5>3. q \in [1..a -> S] /\ a \in Nat
          BY <4>1, <5>1, <5>2
        <5>4. q \in Seq(S)
          BY <5>3, SeqDef
        <5> QED  BY <5>1, <5>4
      <4>4. r \o <<s[b]>> = [i \in 1..b |-> s[i]]
        <5>1. Len(r) = a /\ r \o <<s[b]>> = Append(r, s[b])
          BY <4>1, <4>3
        <5>2. Append(r, s[b]) = [i \in 1..b |-> s[i]]
          BY <3>2, <4>1, <4>3, <5>1
        <5> QED  BY <5>1, <5>2
      <4> QED  BY <3>1, <3>2, <4>1, <4>2, <4>3, <4>4
    <3> QED  BY <3>1, <3>2, <3>3
  <2>5. K = Nat
    <3>1. K \in SUBSET Nat
      OBVIOUS
    <3> HIDE DEF K
    <3> QED  BY <2>3, <2>4, <3>1, Arith!Counting
  <2>6. l - 1 \in K /\ (l - 1) + 1 = l
    <3> HIDE DEF K
    <3> QED  BY <1>4, <2>5
  <2>7. f[l] = [i \in 1..l |-> s[i]]
    BY <2>6
  <2>8. s = [i \in 1..l |-> s[i]]
    BY <1>1
  <2> QED  BY <1>1, <1>2, <2>2, <2>7, <2>8
<1> QED  BY <1>3, <1>4

LEMMA PlainList ==
  ASSUME NEW e \in DOMAIN Listing, Plain(e)
  PROVE  Gathered(Joined(Listing[e])) = Texts(e)
<1>1. PICK ls \in Seq(LineRecords) : ls = Listing[e]
  BY TreeAssumption DEF LineRecords
<1>2. PICK l \in Nat : l = Len(ls) /\ DOMAIN ls = 1..l
  OBVIOUS
<1>3. AllPlain(ls) /\ \A i \in 1..l : ls[i].text \notin Directories /\ ls[i].text \in Paths
  <2>1. \A i \in 1..l : ls[i] \in LineRecords
    BY <1>2
  <2>2. \A i \in 1..l : ls[i].text \in Paths
    BY <2>1 DEF LineRecords, Paths
  <2>3. \A i \in 1..l : ls[i].text # Blank /\ (i < l => ls[i].nl) /\ ls[i].text \notin Directories
    BY <1>1, <1>2 DEF Plain
  <2> QED  BY <1>2, <2>2, <2>3 DEF AllPlain
<1>4. PICK s \in Seq(Paths) : s = NamesOf(ls, l)
  <2>1. PICK q : q = [i \in 1..l |-> ls[i].text]
    OBVIOUS
  <2>2. q \in [1..l -> Paths]
    BY <1>3, <2>1
  <2>3. q \in Seq(Paths)
    BY <2>2, SeqDef
  <2> QED  BY <2>1, <2>3 DEF NamesOf
<1>5. Joined(ls) = s /\ TextsOf(ls) = s
  BY <1>2, <1>3, <1>4, PlainJoined, PlainTexts
<1>6. DOMAIN s = 1..l /\ \A k \in 1..l : s[k] = ls[k].text
  BY <1>4 DEF NamesOf
<1>7. [k \in DOMAIN s |-> BelowBut({}, s[k])] = [k \in DOMAIN s |-> <<s[k]>>]
  BY <1>3, <1>6 DEF BelowBut
<1>8. Gathered(s) = s
  BY <1>7, FlattenSingles DEF Gathered
<1> QED  BY <1>1, <1>5, <1>8 DEF Texts

\* Below a directory that d_type tells all of, tar finds what mpitar finds.
LEMMA TypedBelow ==
  ASSUME NEW p \in DOMAIN Dir, NEW n \in Strings, Append(p, n) \in DOMAIN Dir, Typed(p)
  PROVE  Typed(Append(p, n)) /\ p \notin Untyped
<1>1. p \in Paths /\ Append(p, n) \in Paths /\ Untyped \subseteq Paths
  <2>1. DOMAIN Dir \subseteq Paths /\ Untyped \subseteq DOMAIN Dir
    BY TreeAssumption DEF Paths
  <2> QED  BY <2>1
<1>2. PICK q \in Paths : q = Append(p, n) /\ Len(q) = Len(p) + 1 /\ \A i \in 1..Len(p) : q[i] = p[i]
  <2>1. p \in Seq(Strings) /\ n \in Strings
    BY <1>1 DEF Paths
  <2>2. Len(Append(p, n)) = Len(p) + 1 /\ \A i \in 1..Len(p) : Append(p, n)[i] = p[i]
    BY <2>1, AppendProperties
  <2> QED  BY <1>1, <2>2
<1>3. Len(p) \in Nat
  BY <1>1 DEF Paths
<1>4. ASSUME NEW d \in Untyped, IsPrefix(q, d) PROVE FALSE
  <2>1. Pre(q, d) /\ d \in Paths /\ Len(d) \in Nat
    BY <1>1, <1>4, PrefixIs DEF Paths
  <2>2. Pre(p, d)
    BY <1>2, <1>3, <2>1 DEF Pre
  <2> QED  BY <1>1, <2>1, <2>2, PrefixIs DEF Typed
<1>5. IsPrefix(p, p)
  BY <1>1, PrefixIs DEF Pre
<1> QED  BY <1>2, <1>4, <1>5 DEF Typed

LEMMA SameTree ==
  \A p \in Directories : Typed(p) => TreeBut({})[p] = Tree[p]
<1>1. PICK d : Deepest(d)
  BY DepthIs
<1>2. d \in Nat /\ \A p \in Directories : p \in DOMAIN Dir /\ p \in Paths /\ Dir[p] \in Seq(Strings) /\ Len(p) \in Nat /\ Len(p) <= d
  BY <1>1, DirType DEF Deepest, Directories, Paths
<1>3. PICK f, g : f = TreeBut({}) /\ g = Tree /\ IsTree({}, f, Directories) /\ IsTree(Untyped, g, Directories)
  BY TreeIsTree DEF Tree
<1>4. \A p \in Directories : f[p] = <<p>> \o ItemsBut({}, f, p) /\ g[p] = <<p>> \o ItemsBut(Untyped, g, p)
  BY <1>3 DEF IsTree
<1> DEFINE K == {n \in Nat : \A p \in Under(d, n) : Typed(p) => f[p] = g[p]}
<1>5. 0 \in K
  BY <1>2 DEF Under
<1>6. ASSUME NEW n \in K PROVE n + 1 \in K
  <2>1. n \in Nat /\ \A p \in Under(d, n) : Typed(p) => f[p] = g[p]
    OBVIOUS
  <2>2. ASSUME NEW p \in Under(d, n + 1), Typed(p) PROVE f[p] = g[p]
    <3>1. p \in Directories /\ p \in DOMAIN Dir /\ p \in Paths
      BY <1>2 DEF Under
    <3>2. p \notin Untyped
      <4>1. IsPrefix(p, p)
        BY <3>1, PrefixIs DEF Pre
      <4> QED  BY <2>2, <4>1 DEF Typed
    <3>3. ASSUME NEW x \in Strings PROVE ItemBut({}, f, p, x) = ItemBut(Untyped, g, p, x)
      <4>1. CASE x \notin Dots /\ Append(p, x) \in Directories
        <5>1. Append(p, x) \in Under(d, n) /\ Append(p, x) \in DOMAIN Dir
          BY <1>1, <2>1, <4>1, BelowUnder DEF Directories
        <5>2. f[Append(p, x)] = g[Append(p, x)]
          BY <2>1, <2>2, <3>1, <5>1, TypedBelow
        <5> QED  BY <3>2, <4>1, <5>2 DEF ItemBut
      <4>2. CASE ~ (x \notin Dots /\ Append(p, x) \in Directories)
        BY <4>2 DEF ItemBut
      <4> QED  BY <4>1, <4>2
    <3>4. ItemsBut({}, f, p) = ItemsBut(Untyped, g, p)
      <4>1. \A i \in DOMAIN Dir[p] : Dir[p][i] \in Strings
        BY <3>1, DirType
      <4> QED  BY <3>3, <4>1 DEF ItemsBut
    <3> QED  BY <1>4, <3>1, <3>4
  <2> QED  BY <2>1, <2>2
<1>7. K = Nat
  <2>1. K \in SUBSET Nat
    OBVIOUS
  <2> HIDE DEF K
  <2> QED  BY <1>5, <1>6, <2>1, Arith!Counting
<1>8. Under(d, d + 1) = Directories
  BY <1>2 DEF Under
<1>9. d + 1 \in K
  <2> HIDE DEF K
  <2> QED  BY <1>2, <1>7
<1> QED  BY <1>3, <1>8, <1>9

LEMMA AsTar == ASSUME Entries(entries), AsForTar PROVE Stream = TarStream
<1>1. PICK s, t : /\ s = [i \in DOMAIN entries |->
                            IF entries[i].kind = "list" THEN Texts(entries[i].name) ELSE Below(entries[i].name)]
                  /\ t = [i \in DOMAIN entries |->
                            IF entries[i].kind = "list" THEN Gathered(Joined(Listing[entries[i].name]))
                            ELSE BelowBut({}, entries[i].name)]
  OBVIOUS
<1>2. ASSUME NEW i \in DOMAIN entries PROVE s[i] = t[i]
  <2>1. entries[i].kind = "list" => entries[i].name \in DOMAIN Listing
    <3>1. DOMAIN entries = 1..Len(entries)
      BY DEF Entries
    <3> QED  BY <3>1 DEF Entries
  <2>2. CASE entries[i].kind = "list"
    <3>1. Plain(entries[i].name)
      BY <2>2 DEF AsForTar
    <3> QED  BY <1>1, <2>1, <2>2, <3>1, PlainList
  <2>3. CASE entries[i].kind # "list"
    <3>1. Typed(entries[i].name)
      BY <2>3 DEF AsForTar
    <3>2. Below(entries[i].name) = BelowBut({}, entries[i].name)
      BY <3>1, SameTree DEF Below, BelowBut
    <3> QED  BY <1>1, <2>3, <3>2
  <2> QED  BY <2>2, <2>3
<1>3. s = t
  <2>1. DOMAIN s = DOMAIN entries /\ DOMAIN t = DOMAIN entries /\ s = [i \in DOMAIN s |-> s[i]] /\ t = [i \in DOMAIN t |-> t[i]]
    BY <1>1
  <2> QED  BY <1>2, <2>1
<1> QED  BY <1>1, <1>3 DEF Stream, TarStream

\* Whatever the tree, where the lists are plain and d_type tells every directory,
\* mpitar takes the files that tar takes of the same lists and arguments, in that
\* order, and a failure only cuts the stream short.
THEOREM StoresInOrder == Spec => []StreamInOrder
<1>1. Init => MainTypes /\ ScanInv /\ StreamInv
  BY InitTypes, InitScan, InitStream
<1>2. MainTypes /\ ScanInv /\ StreamInv /\ [Next]_vars => (MainTypes /\ ScanInv /\ StreamInv)'
  BY TypesStep, ScanNext, StreamNext
<1>3. ScanInv /\ StreamInv => StreamInOrder
  <2> SUFFICES ASSUME ScanInv, StreamInv, AsForTar PROVE IsPrefix(given, TarStream) /\ SameAsTar
    BY DEF StreamInOrder
  <2>1. Stream = TarStream
    BY AsTar DEF StreamInv
  <2> QED  BY <2>1, StreamHolds DEF SameAsTar
<1> QED  BY <1>1, <1>2, <1>3, PTL DEF Spec
=============================================================================

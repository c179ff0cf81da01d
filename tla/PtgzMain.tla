------------------------------ MODULE PtgzMain ------------------------------
(***************************************************************************)
(* What ptgz does before it compresses or extracts (src/src/ptgz-mpi.cpp): *)
(* every rank reads the same arguments (getSettings), root lists the files *)
(* (getPaths), and after a barrier they begin.  compression() calls mpitar *)
(* with a command line of its own; its work is in Compression, that of     *)
(* extraction() in Extraction.                                             *)
(***************************************************************************)
EXTENDS CmdLine

CONSTANTS
  Ranks,     \* 0 is root
  Cwd,       \* the path of the current directory
  Level,     \* Level[s]: the number std::stoi reads in s
  Index      \* the list ptgz writes for mpitar

ASSUME RanksAssumption == 0 \in Ranks /\ Cwd \in Seq(Strings) /\ {"", ".ptgz.tar"} \subseteq Strings

\* readdir returns each name of a directory once.
ASSUME NamesAssumption == \A p \in DOMAIN Dir : \A i, j \in DOMAIN Dir[p] : Dir[p][i] = Dir[p][j] => i = j

\* ptgz writes one name and a newline for each archive.
ASSUME IndexAssumption ==
  /\ Index \in DOMAIN Listing \ (Unread \cup {<< >>})
  /\ \A i \in 1..Len(Listing[Index]) : Listing[Index][i].text # Blank /\ Listing[Index][i].nl

VARIABLES
  args,      \* the arguments of ptgz
  at,        \* where each rank is
  queue,     \* settings: the arguments each rank has not read
  instance,  \* the Settings of each rank
  walk,      \* the calls of getPaths under way: directory, names left, num
  filePaths

mainVars == <<args, at, queue, instance, walk, filePaths>>
mpiVars  == <<pc, fileVars, lineVars>>

Settings == [extract |-> FALSE, compress |-> FALSE, keep |-> FALSE, output |-> FALSE,
             remote |-> FALSE, directory |-> "", name |-> ""]

MainInit ==
  /\ queue = [r \in Ranks |-> args] /\ instance = [r \in Ranks |-> Settings]
  /\ walk = << >> /\ filePaths = << >>

Move(r, place) == at' = [at EXCEPT ![r] = place]

\* helpCheck, by root alone: it leaves without an argument, or when asked for
\* help.  The other ranks read on, and take -h for a name.
HelpCheck ==
  /\ at[0] = "help"
  /\ Move(0, IF args = << >> \/ args[1] \in {"-h", "--help"} THEN "exit" ELSE "settings")
  /\ UNCHANGED <<args, queue, instance, walk, filePaths, mpiVars>>
-----------------------------------------------------------------------------
Arguments(r, n) == at[r] = "settings" /\ Len(queue[r]) >= n
Take(r, n, setting) ==
  /\ queue' = [queue EXCEPT ![r] = SubSeq(@, n + 1, Len(@))]
  /\ instance' = [instance EXCEPT ![r] = setting]
  /\ UNCHANGED <<args, at, walk, filePaths, mpiVars>>
Leave(r, place) == Move(r, place) /\ UNCHANGED <<args, queue, instance, walk, filePaths, mpiVars>>

Flags == {"-x", "-c", "-k", "-o", "-v", "-W"}

\* An option without a value.  -v and -W only change what is printed, or the
\* call of tar.
Flag(r) ==
  /\ Arguments(r, 1) /\ Head(queue[r]) \in Flags
  /\ LET f == Head(queue[r])  s == instance[r]
     IN  IF (f = "-x" /\ s.compress) \/ (f = "-c" /\ s.extract)
         THEN Leave(r, "exit")
         ELSE Take(r, 1, [s EXCEPT !.extract = (@ \/ f = "-x"), !.compress = (@ \/ f = "-c"),
                                   !.keep = (@ \/ f = "-k"), !.output = (@ \/ f = "-o")])

\* -d and -l take the next argument, whatever it is; front() of the queue is
\* undefined if there is none.
Valued(r, f) == Arguments(r, 1) /\ Head(queue[r]) = f
NoValue(r)   == (Valued(r, "-d") \/ Valued(r, "-l")) /\ Len(queue[r]) = 1 /\ Leave(r, "undefined")

Directory(r) ==
  /\ Valued(r, "-d") /\ Arguments(r, 2)
  /\ Take(r, 2, [instance[r] EXCEPT !.remote = TRUE, !.directory = queue[r][2]])

\* std::stoi throws if there is no number; the level goes to the environment.
SetLevel(r) ==
  /\ Valued(r, "-l") /\ Arguments(r, 2)
  /\ IF queue[r][2] \in DOMAIN Level /\ Level[queue[r][2]] \in 1..9
     THEN Take(r, 2, instance[r])
     ELSE Leave(r, "exit")

\* Anything else is the name, and must be last.
ArchiveName(r) ==
  /\ Arguments(r, 1) /\ Head(queue[r]) \notin Flags \cup {"-d", "-l"}
  /\ IF Len(queue[r]) > 1
     THEN Leave(r, "exit")
     ELSE Take(r, 1, [instance[r] EXCEPT !.output = TRUE, !.name = Head(queue[r])])

\* Root goes on to list the files.  That -k is of no use is only printed.
EndSettings(r) ==
  /\ at[r] = "settings" /\ queue[r] = << >>
  /\ Leave(r, IF ~ instance[r].output THEN "exit"
              ELSE IF r = 0 /\ instance[r].compress THEN "paths" ELSE "barrier")

GetSettings(r) ==
  Flag(r) \/ NoValue(r) \/ Directory(r) \/ SetLevel(r) \/ ArchiveName(r) \/ EndSettings(r)
-----------------------------------------------------------------------------
Opens(p)  == p \in DOMAIN Dir \ Unread
Call(p)   == [dir |-> p, rest |-> Dir[p], num |-> 0]
Walk(w, paths) == walk' = w /\ filePaths' = filePaths \o paths /\ UNCHANGED <<args, at, queue, instance, mpiVars>>
Top == IF instance[0].remote THEN Append(Cwd, instance[0].directory) ELSE Cwd

\* getPaths of the directory to archive: nothing is listed if it does not open.
GetPaths ==
  /\ at[0] = "paths"
  /\ Move(0, IF Opens(Top) THEN "walk" ELSE "barrier")
  /\ walk' = IF Opens(Top) THEN <<Call(Top)>> ELSE << >>
  /\ UNCHANGED <<args, queue, instance, filePaths, mpiVars>>

\* A directory is entered, unless it is reached by a link or does not open; then
\* it is listed like a file.
Enters(p)    == Opens(p) /\ p \notin Links
ListedAll(p) == <<p>>   \* slip: a directory is listed as well
Listed(p)    == IF Enters(p) THEN << >> ELSE <<p>>

\* One name of the innermost directory.
ReadName ==
  /\ at[0] = "walk" /\ walk # << >> /\ Last(walk).rest # << >>
  /\ LET w == Last(walk)
         p == Append(w.dir, Head(w.rest))
         Outer(num) == Append(Front(walk), [w EXCEPT !.rest = Tail(@), !.num = num])
     IN  IF Last(p) \in Dots
         THEN Walk(Outer(w.num), << >>)
         ELSE Walk(Outer(1) \o (IF Enters(p) THEN <<Call(p)>> ELSE << >>), Listed(p))

\* A directory without a name in it is listed itself, by the path of its files:
\* of the current directory without -d that is the empty string.
RootPath(p) == IF p = Cwd /\ ~ instance[0].remote THEN Blank ELSE p
ReturnPathsEmpty ==   \* slip: it is not
  /\ at[0] = "walk" /\ walk # << >> /\ Last(walk).rest = << >>
  /\ Walk(Front(walk), << >>)
ReturnPaths ==
  /\ at[0] = "walk" /\ walk # << >> /\ Last(walk).rest = << >>
  /\ Walk(Front(walk), IF Last(walk).num = 0 THEN <<RootPath(Last(walk).dir)>> ELSE << >>)

EndPaths == at[0] = "walk" /\ walk = << >> /\ Leave(0, "barrier")
-----------------------------------------------------------------------------
BeginAlone ==   \* slip: no barrier
  \E r \in Ranks : at[r] = "barrier" /\ Leave(r, IF instance[r].compress THEN "compress" ELSE "extract")

\* MPI_Barrier of main, then one of the two.
Begin ==
  /\ \A r \in Ranks : at[r] = "barrier"
  /\ at' = [r \in Ranks |-> IF instance[r].compress THEN "compress" ELSE "extract"]
  /\ UNCHANGED <<args, queue, instance, walk, filePaths, mpiVars>>

\* compression() divides by the size of the blocks, which is 0 without files, in
\* every rank; when the archives are built it calls mpitar.
TarNameBare(n) == IF n = "" THEN << >> ELSE <<n>>   \* slip: the name alone
TarName(n)     == <<n, ".ptgz.tar">>
CallMpitar ==
  /\ pc' = "options"
  /\ argv' = <<[opt |-> "c"], [opt |-> "f", arg |-> TarName(instance[0].name)], [opt |-> "T", arg |-> Index]>>
  /\ UNCHANGED <<mainVars, fileVars, optind, action, tarfilename>>

DivideFiles ==
  /\ at[0] = "compress" /\ pc = "idle"
  /\ IF filePaths = << >>
     THEN at' = [r \in Ranks |-> "divided by zero"] /\ UNCHANGED <<args, queue, instance, walk, filePaths, mpiVars>>
     ELSE CallMpitar

Main ==
  \/ HelpCheck \/ \E r \in Ranks : GetSettings(r)
  \/ GetPaths \/ ReadName \/ ReturnPaths \/ EndPaths \/ Begin \/ DivideFiles
=============================================================================

------------------------------- MODULE Front -------------------------------
(***************************************************************************)
(* The front ends together: mpitar with a command line of its own, or ptgz *)
(* from its arguments to the call of mpitar, and the names mpitar stores.  *)
(***************************************************************************)
EXTENDS PtgzMain, FiniteSets

CONSTANTS
  Commands,   \* arguments of ptgz
  Lines       \* command lines of mpitar, as getopt returns them

ASSUME LinesAssumption == Commands \subseteq Seq(Strings) /\ Lines \subseteq Seq(Options)

\* Listing tells what is in each list they name, also if it cannot be opened.
ASSUME ListsAssumption ==
  \A l \in Lines : \A i \in DOMAIN l : l[i].opt = "T" => l[i].arg \in DOMAIN Listing

\* Some directory is the deepest one.
ASSUME DepthAssumption ==
  \E d \in {0} \cup {Len(p) : p \in DOMAIN Dir} : \A p \in DOMAIN Dir : Len(p) <= d

vars == <<mainVars, mpiVars>>

Init ==
  /\ \/ /\ args \in Commands /\ argv = << >> /\ pc = "idle"
        /\ at = [r \in Ranks |-> IF r = 0 THEN "help" ELSE "settings"]
     \/ /\ args = << >> /\ argv \in Lines /\ pc = "options"
        /\ at = [r \in Ranks |-> "mpitar"]
  /\ FileInit /\ LineInit /\ MainInit

\* The program is at its end, or a rank is and the launcher ends the others.
Stopped ==
  \/ pc \in {"end", "refused", "exit"}
  \/ \E r \in Ranks : at[r] \in {"exit", "undefined", "divided by zero", "extract"}

Next ==
  \/ Main
  \/ Parse /\ UNCHANGED mainVars
  \/ NextFile /\ UNCHANGED <<mainVars, lineVars>>
  \/ Stopped /\ UNCHANGED vars

Spec == Init /\ [][Next]_vars /\ WF_vars(Next)
-----------------------------------------------------------------------------
Directories == DOMAIN Dir \ Links
Names(p) == ToSet(Dir[p]) \ Dots
AllPaths == {Cwd} \cup DOMAIN Dir \cup UNION {{Append(p, n) : n \in Names(p)} : p \in DOMAIN Dir}

\* A directory and all below it, each directory before what is in it; the
\* directories in flat are not looked into.
TreeBut(flat) ==
  LET T[p \in Directories] ==
        <<p>> \o FlattenSeq([i \in DOMAIN Dir[p] |->
                   LET q == Append(p, Dir[p][i])
                   IN  CASE Dir[p][i] \in Dots -> << >>
                         [] Dir[p][i] \notin Dots /\ q \in Directories /\ p \notin flat -> T[q]
                         [] OTHER -> <<q>>])
  IN  T
BelowBut(flat, p) == IF p \in Directories THEN TreeBut(flat)[p] ELSE <<p>>

\* The lines of a list as tar reads it with -T: whole, of any length, blank ones
\* skipped.
Joined(ls) ==
  LET J[n \in 0..Len(ls)] ==
        IF n = 0 THEN << >>
        ELSE IF ls[n].text = Blank THEN J[n - 1]
        ELSE IF n > 1 /\ ~ ls[n - 1].nl THEN Append(Front(J[n - 1]), Last(J[n - 1]) \o ls[n].text)
        ELSE Append(J[n - 1], ls[n].text)
  IN  J[Len(ls)]

\* What tar stores if it is given the same lists and arguments.
Gathered(names) == FlattenSeq([k \in DOMAIN names |-> BelowBut({}, names[k])])
TarStream == FlattenSeq([i \in DOMAIN entries |->
               IF entries[i].kind = "list" THEN Gathered(Joined(Listing[entries[i].name]))
               ELSE BelowBut({}, entries[i].name)])

\* "The output is identical to a regular tar as long as the same file list is
\* passed to tar's -T option" (mpitar.cpp:47-49): mpitar takes the files that tar
\* takes of the same lists and arguments, in that order, unless it fails.
SameAsTar == pc = "end" /\ action = "c" => given = TarStream

\* It does so where the lists have neither a blank line (fileentry.hh:77), nor one
\* of more than 4094 characters (116), nor the name of a directory with files, and
\* d_type tells every directory below the arguments (191): the names of lists,
\* arguments and nested directories come in tar's order, whatever empty lists,
\* empty directories and links stand between, and a failure cuts the stream short
\* and nothing else.
Plain(l) == \A i \in DOMAIN Listing[l] :
              LET line == Listing[l][i]
              IN  /\ line.text # Blank /\ (i < Len(Listing[l]) => line.nl)
                  /\ line.text \notin Directories
Typed(p) == \A d \in Untyped : ~ IsPrefix(p, d)
AsForTar == \A i \in DOMAIN entries :
              IF entries[i].kind = "list" THEN Plain(entries[i].name) ELSE Typed(entries[i].name)
StreamInOrder ==
  AsForTar => /\ IsPrefix(given, TarStream)
              /\ SameAsTar

\* The options are read alike in any order but that of the entries: an archive
\* is created if there is -c, one -f, and nothing mpitar does not know
\* (cmdline.cpp:52-112).
Files[n \in 0..Len(argv)] ==
  IF n = 0 THEN << >>
  ELSE IF argv[n].opt \in {"T", "1"} THEN Append(Files[n - 1], argv[n].arg) ELSE Files[n - 1]
Has(o) == {i \in DOMAIN argv : argv[i].opt = o}
OptionsInAnyOrder ==
  pc \in {"files", "end", "refused"} =>
    /\ action = "c" <=> Has("c") # {} /\ Cardinality(Has("f")) = 1 /\ Has("h") \cup Has("?") = {}
    /\ action = "c" =>
         /\ \A i \in Has("f") : tarfilename = argv[i].arg
         /\ [i \in DOMAIN entries |-> entries[i].name] = Files[Len(argv)]

\* ptgz never calls mpitar in a way it refuses, and all of the index is packed
\* (ptgz-mpi.cpp:471-479), also without a name for the archive (-o).
IndexPacked ==
  at[0] = "compress" =>
    /\ pc # "refused"
    /\ pc = "end" => given = [i \in DOMAIN Listing[Index] |-> Listing[Index][i].text]

\* Every file below the directory is listed once, and nothing else: tar, which
\* goes into a directory it is given, would store twice what is below a listed
\* one (ptgz-mpi.cpp:204-233).  An empty directory, a link to a directory and a
\* directory that does not open stand for themselves; the link is stored as a link,
\* though README.md:19 says that it is replaced by a copy.  Only the current directory
\* itself, when nothing is in it, is listed by an empty name (230, 752).
Entered(p) == p = Top \/ p \in DOMAIN Dir \ (Links \cup Unread)
Leaves == {p \in AllPaths :
            /\ IsPrefix(Top, p)
            /\ \A n \in Len(Top)..Len(p) - 1 : LET d == SubSeq(p, 1, n) IN Entered(d) /\ p[n + 1] \in Names(d)
            /\ Entered(p) => Names(p) = {}}
ListedOnce ==
  at[0] \in {"barrier", "compress"} /\ instance[0].compress /\ Opens(Top) =>
    IF Names(Top) = {} /\ ~ instance[0].remote
    THEN filePaths = <<Blank>>
    ELSE ToSet(filePaths) = Leaves /\ Len(filePaths) = Cardinality(Leaves)

\* There is a file to divide by (ptgz-mpi.cpp:336), unless the directory of -d
\* cannot be opened.
SomeFile == at[0] = "divided by zero" => ~ Opens(Top)

\* No rank extracts or compresses unless all do, on the same arguments: root may
\* have left after printing the help, which the others took for a name
\* (ptgz-mpi.cpp:735-738), and only the barriers at 760 and 763 stop them.
AllBegin ==
  \A r, s \in Ranks : at[r] \in {"compress", "extract"} => at[s] = at[r] /\ instance[s] = instance[r]

\* Whatever the arguments, lists and directories, the front end comes to an end.
Ends == <>Stopped
=============================================================================

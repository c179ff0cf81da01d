------------------------------ MODULE CmdLine ------------------------------
(***************************************************************************)
(* The command line of mpitar (src/src/cmdline.cpp) and what mpitar() does *)
(* with it (src/src/mpitar.cpp:111-141).  getopt is what its option string *)
(* "-cf:T:h" says: it returns one option after the other, 1 for an argument *)
(* that is none, ? for an option it does not know or that lacks its file.  *)
(***************************************************************************)
EXTENDS FileEntries

VARIABLES
  argv,         \* what getopt returns of the command line, [opt, arg]
  optind,       \* the next of these
  action,       \* "invalid", "c" create, "e" exit, "E" error
  tarfilename   \* << >> if there is none

lineVars == <<argv, optind, action, tarfilename>>

\* What getopt may return.  An empty file name is left out: no file has it, and
\* the code takes an empty -f for none (cmdline.cpp:66, 107).
Options == [opt : {"c", "h", "?"}] \cup [opt : {"f", "T", "1"}, arg : Seq(Strings) \ {<< >>}]

LineInit == optind = 1 /\ action = "invalid" /\ tarfilename = << >>

Option(o) == pc = "options" /\ optind <= Len(argv) /\ argv[optind].opt = o
Arg   == argv[optind].arg
Shift == optind' = optind + 1 /\ UNCHANGED argv

\* goto quit: mpitar() looks at the action.
Quit(a) ==
  /\ action' = a
  /\ pc' = CASE a = "c" -> "files" [] a = "e" -> "end" [] a = "E" -> "refused"
  /\ UNCHANGED <<argv, optind, tarfilename, fileVars>>

Create == Option("c") /\ action' = "c" /\ Shift /\ UNCHANGED <<pc, tarfilename, fileVars>>

TarFileAny ==   \* slip: the last -f counts
  /\ Option("f")
  /\ tarfilename' = Arg /\ Shift
  /\ UNCHANGED <<pc, action, fileVars>>
TarFile ==
  /\ Option("f")
  /\ IF tarfilename # << >>
     THEN Quit("E")
     ELSE /\ tarfilename' = Arg /\ Shift
          /\ UNCHANGED <<pc, action, fileVars>>

AddEntry ==
  /\ Option("T") \/ Option("1")
  /\ entries' = Append(entries, [kind |-> IF Option("T") THEN "list" ELSE "arg", name |-> Arg])
  /\ Shift
  /\ UNCHANGED <<pc, action, tarfilename, curr, done, fh, dirs, dirstack, given>>

Help    == Option("h") /\ Quit("e")
Unknown == Option("?") /\ Quit("E")

\* All required options must be there.
EndOptions ==
  /\ pc = "options" /\ optind > Len(argv)
  /\ Quit(IF action = "invalid" \/ tarfilename = << >> THEN "E" ELSE action)

Parse == Create \/ TarFile \/ AddEntry \/ Help \/ Unknown \/ EndOptions
=============================================================================

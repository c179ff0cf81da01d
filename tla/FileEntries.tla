---------------------------- MODULE FileEntries ----------------------------
(***************************************************************************)
(* The files mpitar is asked to store (src/src/fileentry.hh): lists (-T)   *)
(* and arguments, in the order of the command line, as one stream of names *)
(* that nextfile() returns.  An argument that is a directory stands for    *)
(* all below it.                                                           *)
(*                                                                         *)
(* A path is the sequence of its names.                                    *)
(***************************************************************************)
EXTENDS Integers, Sequences, SequencesExt

CONSTANTS
  Strings,   \* what names and arguments are made of
  Dir,       \* Dir[p]: the names readdir returns in directory p
  Links,     \* the directories that are reached by a symbolic link
  Untyped,   \* the directories whose file system does not tell d_type
  Unread,    \* directories and lists that cannot be opened, files not there
  Broken,    \* directories and lists that open, but may fail to be read
  Listing    \* Listing[l]: what fgets returns of list l, [text, nl]: a text
             \* with its newline or without it (the end, or a long line's part)

ASSUME TreeAssumption ==
  /\ DOMAIN Dir \subseteq Seq(Strings) /\ \A p \in DOMAIN Dir : Dir[p] \in Seq(Strings)
  /\ Untyped \subseteq DOMAIN Dir /\ DOMAIN Listing \subseteq Seq(Strings)
  /\ \A l \in DOMAIN Listing : Listing[l] \in Seq([text : Seq(Strings), nl : BOOLEAN])

Dots  == {".", ".."}
Blank == << >>

VARIABLES
  pc,        \* where the program is
  entries,   \* the lists and arguments, [kind, name]
  curr,      \* which of them is read
  done,      \* it has nothing more
  fh,        \* << >>, or << what is left of the list >> when it is open
  dirs,      \* the directories above the next name of an argument
  dirstack,  \* what readdir has left in each of them
  given      \* the names returned so far

fileVars == <<entries, curr, done, fh, dirs, dirstack, given>>

FileInit ==
  /\ entries = << >> /\ curr = 1 /\ done = FALSE
  /\ fh = << >> /\ dirs = << >> /\ dirstack = << >> /\ given = << >>

Reading(kind) == pc = "files" /\ curr <= Len(entries) /\ entries[curr].kind = kind
Name == entries[curr].name

\* nextfile() of an entry returns a name, or none: then the next entry, as it
\* was made, is asked.
Give(fn) == given' = Append(given, fn) /\ UNCHANGED <<entries, curr>>
StayOnEntry ==   \* slip: no ++curr
  /\ done' = TRUE /\ fh' = << >> /\ dirs' = << >> /\ dirstack' = << >>
  /\ UNCHANGED <<pc, entries, curr, given>>
NextEntry ==
  /\ curr' = curr + 1
  /\ done' = FALSE /\ fh' = << >> /\ dirs' = << >> /\ dirstack' = << >>
  /\ UNCHANGED <<pc, entries, given>>
Exit == pc' = "exit" /\ UNCHANGED fileVars
-----------------------------------------------------------------------------
\* filelist::nextfile(): one line, without its newline.  A blank one is taken
\* for the end of the list.  At the end of the file the list is closed.
ReadLine ==
  /\ Reading("list") /\ ~ done
  /\ fh # << >> \/ Name \notin Unread
  /\ LET rest == IF fh = << >> THEN Listing[Name] ELSE fh[1]
     IN  IF rest = << >> \/ Head(rest).text = Blank
         THEN NextEntry
         ELSE /\ done' = (Len(rest) = 1 /\ ~ Head(rest).nl)
              /\ fh' = IF done' THEN << >> ELSE <<Tail(rest)>>
              /\ Give(Head(rest).text)
              /\ UNCHANGED <<pc, dirs, dirstack>>

CannotOpenList == Reading("list") /\ ~ done /\ fh = << >> /\ Name \in Unread /\ Exit

\* fgets returns nothing although the file is not at its end.
ListFails ==
  /\ Reading("list") /\ ~ done /\ Name \in Broken
  /\ fh # << >> \/ Name \notin Unread
  /\ Exit

EntryDone == pc = "files" /\ curr <= Len(entries) /\ done /\ NextEntry

\* filearg::nextfile() returns fn, and opens it if it is a directory.
GiveAndOpen(fn, isDir, under, rests) ==
  IF fn \in Unread /\ (isDir \/ dirs = << >>)
  THEN Exit
  ELSE /\ Give(fn)
       /\ dirs' = IF isDir THEN Append(under, fn) ELSE under
       /\ dirstack' = IF isDir THEN Append(rests, Dir[fn]) ELSE rests
       /\ done' = (dirs' = << >>)
       /\ UNCHANGED <<pc, fh>>

\* The argument itself: lstat does not follow a link.
Argument ==
  /\ Reading("arg") /\ ~ done /\ dirs = << >>
  /\ GiveAndOpen(Name, Name \in DOMAIN Dir \ Links, << >>, << >>)

\* readdir has another name in the directory on top: d_type is DT_DIR only
\* where the file system tells.
ReadDir ==
  /\ Reading("arg") /\ dirs # << >> /\ Last(dirstack) # << >>
  /\ LET fn   == Append(Last(dirs), Head(Last(dirstack)))
         left == Append(Front(dirstack), Tail(Last(dirstack)))
     IN  IF Last(fn) \in Dots
         THEN dirstack' = left /\ UNCHANGED <<pc, entries, curr, done, fh, dirs, given>>
         ELSE GiveAndOpen(fn, fn \in DOMAIN Dir \ Links /\ Last(dirs) \notin Untyped, dirs, left)

\* readdir returns nothing, with errno set.
DirFails == Reading("arg") /\ dirs # << >> /\ Last(dirs) \in Broken /\ Exit

\* Done with this directory, continue with its parent.
CloseDirAll ==   \* slip: the parent's names are not read on
  /\ Reading("arg") /\ dirs # << >> /\ Last(dirstack) = << >>
  /\ NextEntry
CloseDir ==
  /\ Reading("arg") /\ dirs # << >> /\ Last(dirstack) = << >>
  /\ IF Len(dirs) = 1
     THEN NextEntry
     ELSE /\ dirs' = Front(dirs) /\ dirstack' = Front(dirstack)
          /\ UNCHANGED <<pc, entries, curr, done, fh, given>>

\* No entry is left: nextfile() returns none.
EndFiles == pc = "files" /\ curr > Len(entries) /\ pc' = "end" /\ UNCHANGED fileVars

NextFile ==
  \/ ReadLine \/ CannotOpenList \/ ListFails \/ EntryDone
  \/ Argument \/ ReadDir \/ DirFails \/ CloseDir \/ EndFiles
=============================================================================

----------------------------- MODULE EntryCopy -----------------------------
(***************************************************************************)
(* copy_file_content() of mpitar (src/src/mpitar.cpp) on one worker, at    *)
(* the level of bytes: the header, the loop of read and fwrite, the        *)
(* padding, and the file pointer the function keeps for itself so that it  *)
(* seeks only when it must.  MpiTar has all this as one step.              *)
(*                                                                         *)
(* The files belong to other programs: between the master's lstat and the  *)
(* last read a file may become longer or shorter at any time.              *)
(***************************************************************************)
EXTENDS TarEntry

CONSTANTS
  Inputs,      \* what lstat may say of a name
  MaxMembers,  \* bound: members the master lists
  CopyBlock,   \* COPY_BLOCK_SIZE
  ShortReads,  \* bound: what read() may return short of what was asked
  Lengths      \* bound: lengths a file may change to

ASSUME EntryCopyAssumption ==
  /\ Inputs \subseteq Stats /\ MaxMembers \in Nat
  /\ CopyBlock \in Nat \ {0}
  /\ ShortReads \subseteq Nat \ {0} /\ Lengths \subseteq Nat

VARIABLES
  off,      \* the master's offset of the next member
  listed,   \* the entries of the master
  mine,     \* those that this worker gets, in their order
  pc,       \* "list", "next", "read", "done" or "failed"
  placed,   \* of each entry copied: where its first byte is, how many follow
  offset,   \* bytes of the current file that were copied
  len,      \* length of the current file now
  fileOff,  \* the static file_off
  pos       \* where the output stream is

listVars == <<off, listed, mine>>
vars     == <<listVars, pc, placed, offset, len, fileOff, pos>>

Init ==
  /\ off = 0 /\ listed = << >> /\ mine = << >>
  /\ pc = "list" /\ placed = << >>
  /\ offset = 0 /\ len = 0 /\ fileOff = 0 /\ pos = 0

\* The master gives a file its offset and sends it to this worker or another.
List(st) ==
  LET e == NewEntry(st, off)
  IN  /\ pc = "list"
      /\ Len(listed) < MaxMembers
      /\ off' = off + Size(e)
      /\ listed' = Append(listed, e)
      /\ mine' \in {mine, Append(mine, e)}
      /\ UNCHANGED <<pc, placed, offset, len, fileOff, pos>>

EndList ==
  /\ pc = "list"
  /\ pc' = "next"
  /\ UNCHANGED <<listVars, placed, offset, len, fileOff, pos>>

Current == mine[Len(placed)]
This    == Len(placed)

\* n bytes go to the stream, where it is.
Write(n) ==
  /\ placed' = [placed EXCEPT ![This].bytes = @ + n]
  /\ pos' = pos + n

\* Seek if file_off says so, and write the header.  Only a regular file has
\* content; it may have any length by now.
Begin ==
  LET e     == mine[This + 1]
      start == IF fileOff # e.off THEN e.off ELSE pos
  IN  /\ pc = "next" /\ This < Len(mine)
      /\ placed' = Append(placed, [from |-> start, bytes |-> HeaderSize(e)])
      /\ pos' = start + HeaderSize(e)
      /\ fileOff' = e.off + HeaderSize(e)
      /\ offset' = 0
      /\ IF e.kind = "file"
         THEN pc' = "read" /\ len' \in Lengths \cup {e.size}
         ELSE UNCHANGED <<pc, len>>
      /\ UNCHANGED listVars

\* What is asked of read(), and what it may return: 0 at the end of the file.
Least(a, b) == IF a < b THEN a ELSE b
AskedBlock  == CopyBlock     \* slip: what is left of the file is not looked at
AskedWhole  ==               \* slip: whole blocks only
  Least(((FileSize(Current) - offset) \div Block) * Block, CopyBlock)
Asked       == Least(FileSize(Current) - offset, CopyBlock)
GotAny      == ShortReads \cup {0 - 1}   \* slip: the -1 of a failed read is not looked at
Got         == LET most == Least(Asked, IF len < offset THEN 0 ELSE len - offset)
               IN  {most} \cup {n \in ShortReads : n < most}

\* One turn of the copy loop.
Read ==
  /\ pc = "read" /\ offset < FileSize(Current)
  /\ \E n \in Got : Write(n) /\ offset' = offset + n
  /\ UNCHANGED <<listVars, pc, len, fileOff>>

Padding(n) == IF n % Block = 0 THEN 0 ELSE Block - (n % Block)

\* The whole file is copied: zeros up to the next block.
End ==
  LET size == FileSize(Current)
  IN  /\ pc = "read" /\ offset >= size
      /\ Write(Padding(size))
      /\ fileOff' = fileOff + size + Padding(size)
      /\ pc' = "next"
      /\ UNCHANGED <<listVars, offset, len>>

Finish ==
  /\ pc = "next" /\ This = Len(mine)
  /\ pc' = "done"
  /\ UNCHANGED <<listVars, placed, offset, len, fileOff, pos>>

\* open, read, fwrite, fseek or close fails: exit(1).
Fail ==
  /\ pc \in {"next", "read"}
  /\ pc' = "failed"
  /\ UNCHANGED <<listVars, placed, offset, len, fileOff, pos>>

\* Somebody else writes to the file or truncates it.
Change ==
  /\ pc = "read"
  /\ len' \in Lengths
  /\ UNCHANGED <<listVars, pc, placed, offset, fileOff, pos>>

Copy    == Begin \/ Read \/ End \/ Finish
Stopped == pc \in {"done", "failed"}

Next == (\E st \in Inputs : List(st)) \/ EndList \/ Copy \/ Fail \/ Change
        \/ (Stopped /\ UNCHANGED vars)

Spec == Init /\ [][Next]_vars

\* The worker keeps running; nothing else has to happen.
FairSpec == Spec /\ WF_vars(EndList) /\ WF_vars(Copy)
-----------------------------------------------------------------------------
Entries == [kind : {"file", "dir", "link"}, size : Nat, off : Nat,
            name : Nat, link : Nat]
Pieces  == [from : Nat, bytes : Nat]

\* The variables have their types.
TypeOK ==
  /\ off \in Nat /\ listed \in Seq(Entries) /\ mine \in Seq(Entries)
  /\ pc \in {"list", "next", "read", "done", "failed"}
  /\ placed \in Seq(Pieces)
  /\ offset \in Nat /\ len \in Nat /\ fileOff \in Nat /\ pos \in Nat

\* Whatever becomes of the files, each entry is written from the offset the
\* master gave it, never past what the master reserved with size(), and fills
\* it once copied (mpitar.cpp:242-256 and 477-562): neighbours, written by
\* other ranks, are left alone.
InOwnSlot ==
  /\ Len(placed) <= Len(mine)
  /\ \A i \in DOMAIN placed :
       /\ placed[i].from = mine[i].off
       /\ placed[i].bytes <= Size(mine[i])
       /\ i < Len(placed) \/ pc = "next" => placed[i].bytes = Size(mine[i])

\* A worker goes through the bytes of a message by the lengths it finds in them,
\* with nothing between two entries: what it finds is what the master put there,
\* so that both compute the same size(), and each entry has the length it says
\* (mpitar.cpp:412-420; tarentry.cpp:78-118).
MessageTellsEntries ==
  LET buf[i \in 0..Len(mine)] ==
        IF i = 0 THEN << >> ELSE buf[i - 1] \o Serialize(mine[i])
  IN  EntriesOf(buf[Len(mine)]) = mine

\* Each pax record has the length it says, and three rounds find it (the assert
\* at tarentry.cpp:288).
SaysItsLength(n, key, value) ==
  n = Printed(n, key, value) /\ n = Rounds(key, value)[3]
RecordsTellLength ==
  \A i \in DOMAIN listed :
    LET e == listed[i]
    IN  /\ PathRecord(e) > 0 => SaysItsLength(PathRecord(e), 4, e.name)
        /\ LinkpathRecord(e) > 0 => SaysItsLength(LinkpathRecord(e), 8, e.link)
        /\ SizeRecord(e) > 0 => SaysItsLength(SizeRecord(e), 4, Digits(e.size))

\* A reader that goes from header to header finds every member (choptar.pl;
\* "the output is identical to a regular tar", mpitar.cpp:47).
HeadersTellSize == \A i \in DOMAIN listed : ReadSpan(listed[i]) = Size(listed[i])

\* The worker comes to the end of its entries, unless a file is shorter than it
\* was again and again: then read() may return 0 for ever (mpitar.cpp:522-540).
Short    == pc = "read" /\ len < FileSize(Current)
CopyEnds == <>Stopped \/ []<>Short
=============================================================================

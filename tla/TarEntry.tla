------------------------------ MODULE TarEntry ------------------------------
(***************************************************************************)
(* One member of the archive (src/src/tarentry.cpp, tarentry.hh): how long *)
(* its headers are, what they tell a reader, and the form in which the     *)
(* master sends it to a worker.  Names are known by their length; what a   *)
(* header says besides the size of the file is left out.                   *)
(***************************************************************************)
EXTENDS Integers, Sequences, FiniteSets

CONSTANTS
  Block,        \* BLOCKSIZE
  NameField,    \* room for a name, and for the target of a link, in a ustar header
  MaxFileSize,  \* MAX_FILE_SIZE
  MaxDigits     \* decimal digits of the largest number, less one

ASSUME TarEntryAssumption ==
  /\ Block \in Nat \ {0} /\ NameField \in Nat
  /\ MaxFileSize \in Nat /\ MaxDigits \in Nat

\* What lstat says of a name; slash: it was given with a slash at its end.
Stats == [kind : {"file", "dir", "link"}, name : Nat \ {0}, slash : BOOLEAN,
          link : Nat, size : Nat]

\* The constructor: a directory's name ends in a slash.
NewEntry(st, off) ==
  [kind |-> st.kind, size |-> st.size, off |-> off,
   name |-> IF st.kind = "dir" /\ ~ st.slash THEN st.name + 1 ELSE st.name,
   link |-> IF st.kind = "link" THEN st.link ELSE 0]

Round(n)    == ((n + Block - 1) \div Block) * Block
FileSize(e) == IF e.kind = "file" THEN e.size ELSE 0
-----------------------------------------------------------------------------
(* The pax records "%d %s=%s\n", where %d is the length of the record *)

Power[d \in 0..MaxDigits] == IF d = 0 THEN 1 ELSE 10 * Power[d - 1]
Digits(n) == 1 + Cardinality({d \in 1..MaxDigits : n >= Power[d]})

Printed(len, key, value) == Digits(len) + key + value + 3

\* The loop of record_length starts with a length of two digits and repeats
\* until it meets itself; an assert allows it three rounds.
Rounds(key, value) ==
  LET len0 == key + value + 5
      len1 == Printed(len0, key, value)
      len2 == Printed(len1, key, value)
  IN  <<len0, len1, len2, Printed(len2, key, value)>>
RecordLengthOnce(key, value) == Rounds(key, value)[2]   \* slip: no loop
RecordLength(key, value)     == Rounds(key, value)[4]

PathRecord(e)     == IF e.name > NameField THEN RecordLength(4, e.name) ELSE 0
LinkpathRecord(e) == IF e.link > NameField THEN RecordLength(8, e.link) ELSE 0
SizeRecordLate(e) == IF FileSize(e) > MaxFileSize + 1    \* slip: one too late
                     THEN RecordLength(4, Digits(e.size)) ELSE 0
SizeRecord(e)     == IF FileSize(e) > MaxFileSize
                     THEN RecordLength(4, Digits(e.size)) ELSE 0

PaxSize(e)    == PathRecord(e) + LinkpathRecord(e) + SizeRecord(e)
PaxHeader(e)  == IF PaxSize(e) > 0 THEN Round(Block + PaxSize(e)) ELSE 0
HeaderSize(e) == Block + PaxHeader(e)

\* What the master reserves for the entry.
Size(e) == Round(HeaderSize(e) + FileSize(e))

\* The size field of a ustar header.
SizeField(n) == IF n < MaxFileSize THEN n ELSE 0

\* Where the next member begins for a reader of the headers (choptar.pl): the
\* size in the first header is that of the pax records, if there are any.
ReadSize(e) == IF SizeRecord(e) > 0 THEN e.size ELSE SizeField(FileSize(e))
ReadSpan(e) ==
  IF PaxSize(e) > 0
  THEN LET pax == Round(SizeField(PaxSize(e)))
       IN  Block + Round(ReadSize(e) + Block + pax)
  ELSE Block + Round(ReadSize(e))
-----------------------------------------------------------------------------
(* The serialized form, as a sequence of fields *)

Word(n)   == << [bytes |-> 8, value |-> n] >>
Chars(n)  == IF n = 0 THEN << >> ELSE << [bytes |-> n, value |-> n] >>
Stat(e)   == << [bytes |-> 144, value |-> <<e.kind, e.size>>] >>

\* Where each field ends, counted in bytes.
Ends(fields) ==
  LET upTo[i \in 0..Len(fields)] == IF i = 0 THEN 0 ELSE upTo[i - 1] + fields[i].bytes
  IN  upTo
Bytes(fields) == Ends(fields)[Len(fields)]

\* Slip: the length of the link is left out of the first word.
SerializeShort(e) ==
  Word(8 + 144 + 8 + 8 + e.name + 8) \o Stat(e) \o Word(e.off)
    \o Word(e.name) \o Chars(e.name) \o Word(e.link) \o Chars(e.link)

Serialize(e) ==
  Word(8 + 144 + 8 + 8 + e.name + 8 + e.link) \o Stat(e) \o Word(e.off)
    \o Word(e.name) \o Chars(e.name) \o Word(e.link) \o Chars(e.link)

\* What is taken from the n bytes at offset o of a buffer: the value of the
\* field they are, or, if they are not just one field, garbage.
FieldsAt(buf, o, n) ==
  LET ends == Ends(buf) IN {p \in DOMAIN buf : ends[p - 1] = o /\ buf[p].bytes = n}
Field(buf, o, n, garbage) ==
  LET ps == FieldsAt(buf, o, n)
  IN  IF ps = {} THEN garbage ELSE buf[CHOOSE p \in ps : TRUE].value
Text(buf, o, n) == IF n = 0 THEN 0 ELSE Field(buf, o, n, 0)

\* The entry at offset o of a buffer, the offset behind it, and the length its
\* first word says it has.
Deserialize(buf, o) ==
  LET stat == Field(buf, o + 8, 144, <<"file", 0>>)
      name == Field(buf, o + 160, 8, 0)
      at   == o + 168 + name
      link == Field(buf, at, 8, 0)
  IN  [ent  |-> [kind |-> stat[1], size |-> stat[2], off |-> Field(buf, o + 152, 8, 0),
                 name |-> Text(buf, o + 168, name), link |-> Text(buf, at + 8, link)],
       next |-> at + 8 + link,
       said |-> Field(buf, o, 8, 0)]

\* The worker's loop over a message: the end of the buffer ends it, an empty
\* name, or the assert that an entry has the length it says.
EntriesOf(buf) ==
  LET end == Bytes(buf)
      from[o \in 0..end] ==
        LET d == Deserialize(buf, o)
        IN  IF o = end \/ d.said # d.next - o \/ d.ent.name = 0 THEN << >>
            ELSE << d.ent >> \o from[IF d.next < end THEN d.next ELSE end]
  IN  from[0]
=============================================================================

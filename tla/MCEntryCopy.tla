----------------------------- MODULE MCEntryCopy -----------------------------
(* Small instances of EntryCopy for TLC.  Names are long enough to need a     *)
(* pax header (101), a second block of it (503), or a record whose length     *)
(* takes three rounds to find (990); files lie around a block and around the  *)
(* largest size of a ustar header.                                            *)
EXTENDS EntryCopy

Input(kind, name, slash, link, size) ==
  [kind |-> kind, name |-> name, slash |-> slash, link |-> link, size |-> size]

MCLengths == {0, 511, 1024, MaxFileSize + 1}

SmallInputs ==
  {Input("file", name, FALSE, 0, 511) : name \in {100, 101, 502, 503}}
  \cup {Input("file", 1, FALSE, 0, size) : size \in {0, 512, 513, MaxFileSize + 1}}
  \cup {Input("file", 990, FALSE, 0, 1), Input("dir", 100, FALSE, 0, 4096),
        Input("dir", 100, TRUE, 0, 4096), Input("link", 101, FALSE, 101, 101),
        Input("link", 1, FALSE, 991, 991)}

MCInputs == SmallInputs \cup {Input("file", 100, FALSE, 0, MaxFileSize - 1)}

\* With a file of exactly the largest size.
MCInputsMax == SmallInputs \cup {Input("file", 1, FALSE, 0, MaxFileSize)}
=============================================================================

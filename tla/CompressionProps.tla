-------------------------- MODULE CompressionProps --------------------------
(* What compression() must satisfy.                                         *)
EXTENDS Compression

\* Once the turns are over, <name>.idx names every archive in order and under
\* each its files, although every rank wrote a part of it
\* (ptgz-mpi.cpp:383-399).  Of the first run: the file is opened in append mode.
IndexListsArchives ==
  runs = 1 /\ pc[0] \in {"build", "built", "list_archives", "close_index", "mpitar",
                          "packing", "remove"} =>
    nameIdx = FlattenSeq([k \in 1..T |->
      << [header |-> k - 1] >> \o [i \in DOMAIN ListLines(k - 1) |->
                                     [file |-> ListLines(k - 1)[i]]]])

\* How often file f is stored under the different names of the tar.
Members(n) == {i \in DOMAIN tar : tar[i].name = n}
Holders(f) == {a \in Archives : \E i \in DOMAIN tar : tar[i].name = a /\ f \in ToSet(tar[i].files)}

\* "The current directory and all of it's children will be archived and added
\* to a single tarball" (README.md:26): when the ranks have finished, every file
\* is in one archive of the tar, and the tar has the names the extraction needs.
\* Only a tar process that fails may leave files out; that the ranks disagree on
\* the number of archives (ptgz-mpi.cpp:732) may not.
Sure == Files \ UNION {ListOf(a, NFiles, T) : a \in Fragile}
ArchiveComplete ==
  Done =>
    /\ \A f \in Sure : \E a \in Archives : Holders(f) = {a}
    /\ \A n \in 0..T + 2 : Members(n) # {}

\* A list or an archive is removed only when no rank needs it any more: every
\* archive that was built is in the tar, as it was built (the barriers at
\* ptgz-mpi.cpp:480-486).
RemovedOnlyWhenPacked ==
  [][ \A a \in Archives : tmp[a] # << >> /\ tmp'[a] = << >> =>
        \E i \in DOMAIN tar : tar[i].name = a /\ tar[i].files = gz[a] /\ gz[a] # << >> ]_vars

\* No temporary file is left behind (ptgz-mpi.cpp:488-533).
NothingLeftOver ==
  Done =>
    /\ \A a \in Archives : tmp[a] = << >> /\ gz[a] = << >>
    /\ nameIdx = << >> /\ ptgzIdx = << >> /\ ~ script /\ ~ tarIdx
=============================================================================

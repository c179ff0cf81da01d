----------------------------- MODULE PtgzSystem -----------------------------
(***************************************************************************)
(* ptgz -c, as often as it takes, and then ptgz -x on the tar it left      *)
(* (src/src/ptgz-mpi.cpp, main): Compression and Extraction composed.  The *)
(* tar is all that goes from one to the other; the extraction knows the    *)
(* archives by the lines of the ptgz.idx in it.  It may have other ranks.  *)
(***************************************************************************)
EXTENDS CompressionProps

CONSTANTS
  NX,        \* globalSize of the extraction
  Failing,   \* the steps of the extraction whose tar may fail to start
  MaxFails   \* how many of them do

ASSUME SystemAssumption ==
  NX \in Nat \ {0} /\ Failing \subseteq {"index", "extract", "unpack", "check"} /\ MaxFails \in Nat

VARIABLES phase, xpc, xleft, xnum, xtar, xgz, xout, xfails

xvars   == <<xpc, xleft, xnum, xtar, xgz, xout, xfails>>
sysVars == <<phase, vars, xvars>>

\* The extraction of a tar whose index has n lines more than three.
X(n) == INSTANCE Extraction WITH N <- NX, NArchives <- T, Listed <- n, Keep <- FALSE,
          pc <- xpc, left <- xleft, numArchives <- xnum, tar <- xtar,
          gz <- xgz, out <- xout, fails <- xfails

\* Every start of the compression may add to the index, a killed one a part.
Listings  == T..MaxRuns * (T + 3) - 3
Listed(n) == phase = "extract" /\ n = Len(tar) - 3

SysInit == Init /\ phase = "compress" /\ X(T)!Init

Compress == phase = "compress" /\ Next /\ UNCHANGED <<phase, xvars>>

\* main() is called again, with -x, once the first command is done.
StartExtraction ==
  /\ phase = "compress" /\ Done
  /\ phase' = "extract"
  /\ UNCHANGED <<vars, xvars>>

Extract == (\E n \in Listings : Listed(n) /\ X(n)!Next) /\ UNCHANGED <<phase, vars>>

SysNext == Compress \/ StartExtraction \/ Extract

\* The fairness of the parts; the user does ask for the extraction.
SysSpec ==
  /\ SysInit /\ [][SysNext]_sysVars
  /\ Fairness /\ WF_sysVars(StartExtraction)
  /\ WF_xvars(\E n \in Listings : Listed(n) /\ X(n)!ReadIndex)
  /\ WF_xvars(\E n \in Listings : Listed(n) /\ X(n)!EndExtract)
  /\ \A r \in 0..NX - 1 : WF_xvars(\E n \in Listings : Listed(n) /\ X(n)!Rank(r))
-----------------------------------------------------------------------------
\* The files in the archives As of the tar, but for those a tar process of the
\* compression may have left out.
Content(As) == Sure \cap UNION {ToSet(tar[i].files) : i \in {j \in DOMAIN tar : tar[j].name \in As}}

\* Compression and extraction together do what Backup says: whatever a kill or
\* an exit() left of the lists, of ptgz.idx and of the tar, only a tar with all
\* files in it is the end of a compression, and between any two steps of the
\* ranks the extraction removes the tar and the archives only when their files
\* are restored (ptgz-mpi.cpp:468-535, 617-711).
B == INSTANCE Backup WITH
  Files    <- Sure,
  open     <- phase = "compress",
  packed   <- Content(xgz \cup (IF xtar THEN Archives ELSE {})),
  restored <- Content(xout)
BackupSpec == B!Spec

\* Every file is restored in the end, by ranks that meet at all the barriers of
\* both programs, unless a call failed, or mpitar missed a name: of an archive
\* that is not there since tar failed (ptgz-mpi.cpp:424) or a rank reckoned with
\* fewer archives (732), or one made of what a kill left of ptgz.idx (437).
NoArchive == \E a \in Archives : gz[a] = << >> /\ (a \in Fragile \/ \E r \in Ranks : own[r] <= a)
Excused   == NoArchive \/ Torn \in ToSet(ptgzIdx)
Restored  == Content(xout) = Sure /\ \A r \in 0..NX - 1 : xpc[r] = "done"
Restores  == <>(Restored \/ failed = "io" \/ (failed = "missing" /\ Excused))
=============================================================================

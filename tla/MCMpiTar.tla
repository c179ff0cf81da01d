------------------------------ MODULE MCMpiTar ------------------------------
(* Small instances of MpiTar for TLC. *)
EXTENDS MpiTarProps

\* Sizes in 512-byte blocks: files 1 and 4 fill a job each.
MCSize == [f \in Members |-> IF f \in {1, 4} THEN 3 ELSE 1]

\* The running sum of the sizes.
MCLayout ==
  LET at[f \in Members] == IF f = 1 THEN 0 ELSE at[f - 1] + MCSize[f - 1] IN at
=============================================================================

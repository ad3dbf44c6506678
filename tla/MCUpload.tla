------------------------------ MODULE MCUpload ------------------------------
(* Upload for TLC: one tab uploading one file, with room for two routes.     *)
EXTENDS Upload, TLC

CONSTANTS f1, r1, r2, u1, s1

MCFiles     == {f1}
MCReqs      == {r1, r2}
MCUploadIds == {u1}
MCSessions  == {s1}
MCFileOf    == [s \in MCSessions |-> f1]
MCOps       == AllOps

\* Sound for invariants only: the liveness run does without it.
MCSymmetry  == Permutations(MCReqs)
=============================================================================

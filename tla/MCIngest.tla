------------------------------ MODULE MCIngest ------------------------------
(* Ingest for TLC: one file, two routes running at once, every operation.    *)
EXTENDS Ingest, TLC

CONSTANTS f1, r1, r2, u1, u2

MCFiles     == {f1}
MCReqs      == {r1, r2}
MCUploadIds == {u1, u2}
MCOps       == AllOps

\* Route invocations and upload ids are interchangeable.
MCSymmetry == Permutations(MCReqs) \cup Permutations(MCUploadIds)
=============================================================================

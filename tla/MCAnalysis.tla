----------------------------- MODULE MCAnalysis -----------------------------
(* Analysis for TLC: one file, two messages, the program's own times.        *)
EXTENDS Analysis, TLC

CONSTANTS f1, m1, m2

MCFiles == {f1}
MCMsgs  == {m1, m2}
MCNone  == {}
=============================================================================

----------------------------- MODULE MCPlayback -----------------------------
(* Playback for TLC: four files, two of them one recording and one of them  *)
(* matched to none, in a queue of three.                                    *)
EXTENDS Playback

CONSTANTS a, a2, b, c, recA, recB

MCFiles    == {a, a2, b, c}
MCRecOf    == [f \in MCFiles |-> CASE f \in {a, a2} -> recA [] f = b -> recB [] OTHER -> NoRec]
MCMethods  == {"off", "bpm"}
MCLists    == {<<a, b, a2>>, <<c>>}

\* Of the two copies of a recording, a is the better one.
MCPrefer(f, g) == f = a
=============================================================================

----------------------------- MODULE MCReadCache -----------------------------
(* Small instances of ReadCache: fewer entries than points. *)
EXTENDS ReadCache, TLC

CONSTANTS t1, t2, p1, p2, p3

TaskPermutations == Permutations({t1, t2})
PointPermutations == Permutations({p1, p2, p3})
Symmetric == TaskPermutations \cup PointPermutations
=============================================================================

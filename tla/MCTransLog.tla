----------------------------- MODULE MCTransLog -----------------------------
(* Two processes that may be exchanged. *)
EXTENDS TransLog, TLC

CONSTANTS p1, p2

Symmetry == Permutations({p1, p2})
=============================================================================

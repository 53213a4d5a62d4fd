---------------------------- MODULE MCDeltaPull -----------------------------
(* Instances of DeltaPull for TLC. *)
EXTENDS DeltaPull, TLC

\* Records, writers and pulls are interchangeable (not for liveness).
Symmetry == Permutations(Recs) \cup Permutations(Writers) \cup Permutations(Pulls)

=============================================================================

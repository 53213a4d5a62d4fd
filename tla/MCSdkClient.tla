---------------------------- MODULE MCSdkClient -----------------------------
(* Instances of SdkClient for TLC. *)
EXTENDS SdkClient, TLC

\* Calls of sync() are alike, and so are jobs.
Alike == Permutations(Syncs) \cup Permutations(Jobs)

=============================================================================

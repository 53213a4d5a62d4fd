------------------------------ MODULE MCDemoApp ------------------------------
(***************************************************************************)
(* DemoApp for TLC: records, SDK objects and calls are interchangeable, and *)
(* the run has no liveness property.  Two stories are told by it, of which  *)
(* a behaviour is one: they have little to do with each other, and together *)
(* too many states.                                                         *)
(***************************************************************************)
EXTENDS DemoApp, TLC

VARIABLE story

Alike == Permutations(Recs) \cup Permutations(Objects) \cup Permutations(Calls)

\* One person logs in and out, each time with another SDK object.
Logins == used'.foreign = 0

\* One login, and another device.
OneLogin == page = "login" /\ page' = "loading" => sdk = NoObject

StoryInit == AppInit /\ story \in {"logins", "one login"}

StoryNext ==
    /\ AppNext
    /\ story = "logins" => Logins
    /\ story = "one login" => OneLogin
    /\ UNCHANGED story

StorySpec == StoryInit /\ [][StoryNext]_<<appVars, story>>

=============================================================================

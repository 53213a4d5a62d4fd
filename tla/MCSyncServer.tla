---------------------------- MODULE MCSyncServer ----------------------------
(* Instances of SyncServer for TLC. *)
EXTENDS SyncServer, TLC

\* Workers, operations and records are interchangeable: the initial states
\* give the operations every combination of requests.
Symmetry == Permutations(Workers) \cup Permutations(Ops) \cup Permutations(Recs)

\* The behaviours of Spec without POST /records, where every record is created
\* by one operation: createRecord draws a fresh id.
PushedInit ==
    Init /\ \A o, p \in Ops :
               request[o].type = "create" /\ request[p] = request[o] => o = p

PushedSpec ==
    PushedInit /\ [][\E w \in Workers :
                        (\E o \in Ops : Deliver(w, o)) \/ Step(w) \/ Fail(w)]_vars

=============================================================================

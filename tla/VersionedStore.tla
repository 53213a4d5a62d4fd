--------------------------- MODULE VersionedStore ---------------------------
(***************************************************************************)
(* What the operation processor promises, without transactions, locks or    *)
(* sequences: a store of versioned records.  A step changes one record, and *)
(* the change is one client operation applied as a whole: the data becomes  *)
(* that of the operation, the version goes up by one from the version that  *)
(* is replaced, and the operation is marked applied in the same step.       *)
(*                                                                          *)
(* It does not promise that an operation is applied at most once, or that   *)
(* an update replaces the version its client had: see the findings of       *)
(* SyncServer.                                                              *)
(***************************************************************************)
EXTENDS Integers

CONSTANTS Ops, Recs, NoOp

VARIABLES
    request,  \* what each operation asks for: [type, rec, base]
    store,    \* [version, data] of every record, version 0 where there is none
    applied   \* the operations recorded as applied

storeVars == <<request, store, applied>>

Empty == [version |-> 0, data |-> NoOp]

Init ==
    /\ store = [r \in Recs |-> Empty]
    /\ applied = {}

\* A create or an update.
Put(o) ==
    LET r == request[o].rec
    IN  /\ request[o].type \in {"create", "update"}
        /\ store' = [store EXCEPT ![r] = [version |-> store[r].version + 1, data |-> o]]
        /\ applied' = applied \cup {o}
        /\ UNCHANGED request

Remove(o) ==
    /\ request[o].type = "delete"
    /\ store' = [store EXCEPT ![request[o].rec] = Empty]
    /\ applied' = applied \cup {o}
    /\ UNCHANGED request

\* A delete that found no record when it looked; one may have been created since.
Miss(o) ==
    /\ request[o].type = "delete"
    /\ applied' = applied \cup {o}
    /\ UNCHANGED <<request, store>>

\* A record created outside the sync protocol.
Import(r) ==
    /\ store[r].version = 0
    /\ store' = [store EXCEPT ![r] = [version |-> 1, data |-> NoOp]]
    /\ UNCHANGED <<request, applied>>

Next ==
    \/ \E o \in Ops : Put(o) \/ Remove(o) \/ Miss(o)
    \/ \E r \in Recs : Import(r)

Spec == Init /\ [][Next]_storeVars

=============================================================================

---------------------------- MODULE SerialStore -----------------------------
(***************************************************************************)
(* The store as its clients see it where no two transactions on one         *)
(* operation, or on one record, overlap: an operation is applied at most    *)
(* once, and an update or delete of a record whose version is compared      *)
(* replaces the version its client had.                                     *)
(*                                                                          *)
(* Which records are compared is part of the promise: a record made outside *)
(* the sync protocol is not, until an operation inserts it anew.            *)
(*                                                                          *)
(* SyncServer implements this under that condition, and SdkClient has it    *)
(* for a server (ImplementsSerialStore of both).                            *)
(***************************************************************************)
EXTENDS VersionedStore

CONSTANTS
    NoRequest,  \* an operation no client has made yet
    Outsiders   \* the data of clients whose operations are not in Ops

VARIABLE checked  \* the records whose versions are compared

serialVars == <<storeVars, checked>>

SerialInit == Init /\ checked = {}

\* A client makes an operation; what it asks for stays.
Ask(o) ==
    /\ request[o] = NoRequest /\ request'[o] # NoRequest
    /\ request'[o].rec \in Recs
    /\ request' = [request EXCEPT ![o] = request'[o]]
    /\ UNCHANGED <<store, applied, checked>>

\* The operation is applied now and was not before, to what its client had.
Due(o) ==
    /\ o \notin applied
    /\ \/ request[o].type = "create"
       \/ request[o].rec \notin checked
       \/ store[request[o].rec].version = request[o].base

Inserted(o) == request[o].type = "create" \/ store[request[o].rec].version = 0

SerialPut(o) ==
    /\ Put(o) /\ Due(o)
    /\ checked' = checked \cup {r \in {request[o].rec} : Inserted(o)}

SerialRemove(o) ==
    /\ Remove(o) /\ Due(o)
    /\ store[request[o].rec].version > 0
    /\ checked' = checked \ {request[o].rec}

\* There is nothing to delete, at the moment it is recorded as deleted.
SerialMiss(o) ==
    /\ Miss(o) /\ Due(o)
    /\ store[request[o].rec].version = 0
    /\ UNCHANGED checked

SerialImport(r) == Import(r) /\ UNCHANGED checked

OutsiderPuts(r, data) ==
    /\ store' = [store EXCEPT ![r] = [version |-> store[r].version + 1, data |-> data]]
    /\ checked' = checked \cup {r}
    /\ UNCHANGED <<request, applied>>

OutsiderRemoves(r) ==
    /\ Outsiders # {} /\ store[r].version > 0
    /\ store' = [store EXCEPT ![r] = Empty]
    /\ checked' = checked \ {r}
    /\ UNCHANGED <<request, applied>>

SerialNext ==
    \/ \E o \in Ops : Ask(o) \/ SerialPut(o) \/ SerialRemove(o) \/ SerialMiss(o)
    \/ \E r \in Recs : SerialImport(r) \/ OutsiderRemoves(r)
    \/ \E r \in Recs, data \in Outsiders : OutsiderPuts(r, data)

SerialSpec == SerialInit /\ [][SerialNext]_serialVars

=============================================================================

-------------------------- MODULE SdkClient_proofs ---------------------------
(***************************************************************************)
(* Proofs about SdkClient, for any number of records, operations, calls,    *)
(* overlapping calls of sync() and jobs, whatever goes wrong how often.     *)
(***************************************************************************)
EXTENDS SdkClient, TLAPS

USE DEF client, server

-----------------------------------------------------------------------------
(* What a step leaves alone keeps its part of the invariant. *)

\* Edits are made once and operations stay applied.
Growing ==
    /\ \A o \in Ops : edit[o] # NoEdit => edit'[o] # NoEdit
    /\ done \subseteq done'

LEMMA SyncOps ==
    ASSUME TypeOK, NEW s \in Syncs
    PROVE  /\ sync[s] \in SyncStates
           /\ OpsOf(sync[s].batch) \subseteq Ops /\ OpsOf(sync[s].todo) \subseteq Ops
           /\ OpsOf(sync[s].applied) \subseteq Ops /\ OpsOf(sync[s].rejected) \subseteq Ops
<1>1. sync[s] \in SyncStates
  BY DEF TypeOK
<1>2. /\ sync[s].batch \subseteq Tried /\ sync[s].todo \subseteq Tried
      /\ sync[s].applied \subseteq Answers /\ sync[s].rejected \subseteq Answers
  BY <1>1 DEF SyncStates
<1>3. QED
  BY <1>1, <1>2 DEF OpsOf, Tried, Answers

LEMMA JobOps ==
    ASSUME TypeOK, NEW j \in Jobs
    PROVE  /\ job[j] \in JobStates
           /\ job[j].ops \subseteq Ops /\ job[j].todo \subseteq Ops
           /\ OpsOf(job[j].applied) \subseteq Ops /\ OpsOf(job[j].rejected) \subseteq Ops
<1>1. job[j] \in JobStates
  BY DEF TypeOK
<1>2. /\ job[j].ops \subseteq Ops /\ job[j].todo \subseteq Ops
      /\ job[j].applied \subseteq Answers /\ job[j].rejected \subseteq Answers
  BY <1>1 DEF JobStates
<1>3. QED
  BY <1>1, <1>2 DEF OpsOf, Answers

LEMMA SyncKept ==
    ASSUME TypeOK, Growing, NEW s \in Syncs, SyncOK(s), sync'[s] = sync[s]
    PROVE  SyncOK(s)'
BY SyncOps DEF Growing, SyncOK, Edited, At

LEMMA JobKept ==
    ASSUME TypeOK, Growing, NEW j \in Jobs, JobOK(j), job'[j] = job[j]
    PROVE  JobOK(j)'
BY JobOps DEF Growing, JobOK, Edited

LEMMA QueueKept ==
    ASSUME Growing, NEW o \in Ops, QueueOK(o), queue'[o] = queue[o]
    PROVE  QueueOK(o)'
BY DEF Growing, QueueOK

LEMMA CallsKept ==
    ASSUME Growing, NEW c \in Calls, CallOK(c), call' = call,
           \A o \in Ops : queue[o] = NoEntry => queue'[o] = NoEntry
    PROVE  CallOK(c)'
BY DEF Growing, CallOK

\* A step that touches neither the edits nor the applied operations.
LEMMA GrowingKept ==
    ASSUME edit' = edit, done' = done
    PROVE  Growing
BY DEF Growing

LEMMA FaultType ==
    ASSUME TypeOK, NEW kind, Fault(kind)
    PROVE  faults' \in 0..MaxFaults
BY SdkClientAssumption DEF TypeOK, Fault

-----------------------------------------------------------------------------
(* The initial state and the application's calls. *)

LEMMA InitInductive ==
    ASSUME Init
    PROVE  Inductive
<1>1. TypeOK
  BY SdkClientAssumption DEF Init, TypeOK, Copies, NoCopy, Data, CallStates, NoCall,
     SyncStates, NoSync, SyncAt, Steps, Rows, NoRow, JobStates, NoJob, JobOf
<1>2. \A c \in Calls : CallOK(c)
  BY DEF Init, CallOK
<1>3. \A o \in Ops : QueueOK(o)
  BY DEF Init, QueueOK, NoEntry
<1>4. \A s \in Syncs : SyncOK(s)
  BY DEF Init, SyncOK, At, NoSync, SyncAt, OpsOf, Edited
<1>5. \A j \in Jobs : JobOK(j)
  BY DEF Init, JobOK, NoJob, JobOf, OpsOf, Edited
<1>6. QED
  BY <1>1, <1>2, <1>3, <1>4, <1>5 DEF Inductive

\* A new edit is typed and leaves the others as they are.
LEMMA NewEditType ==
    ASSUME TypeOK, NEW o \in Ops, NEW type \in Types, NEW r \in Recs, NEW base \in Nat,
           NewEdit(o, type, r, base)
    PROVE  /\ edit' \in [Ops -> EditsOf \cup {NoEdit}]
           /\ \A p \in Ops : edit[p] # NoEdit => edit'[p] # NoEdit
           /\ edit[o] = NoEdit /\ edit'[o] # NoEdit
<1>1. [type |-> type, rec |-> r, base |-> base] \in EditsOf
  BY DEF EditsOf
<1>2. [type |-> type, rec |-> r, base |-> base] # NoEdit
  BY DEF Types, NoEdit
<1>3. QED
  BY <1>1, <1>2 DEF TypeOK, NewEdit

\* An operation that has just been made is that of no other call.
LEMMA CallBegins ==
    ASSUME TypeOK, \A d \in Calls : CallOK(d), NEW c \in Calls, NEW o \in Ops, QueueOK(o),
           NEW step \in {"write", "enqueue"}, edit[o] = NoEdit, edit'[o] # NoEdit,
           \A p \in Ops : edit[p] # NoEdit => edit'[p] # NoEdit,
           SetCall(c, step, o), queue' = queue
    PROVE  \A d \in Calls : CallOK(d)'
<1>1. \A d \in Calls : call[d] \in CallStates
  BY DEF TypeOK
<1>2. call' = [call EXCEPT ![c] = [step |-> step, op |-> o]] /\ call \in [Calls -> CallStates]
  BY DEF SetCall, TypeOK
<1>3. queue[o] = NoEntry
  BY DEF QueueOK
<1>4. \A d \in Calls : call[d].op # o
  BY SdkClientAssumption DEF CallOK, NoCall
<1>5. CallOK(c)'
  BY <1>2, <1>3, <1>4 DEF CallOK
<1>6. ASSUME NEW d \in Calls, d # c
      PROVE  CallOK(d)'
  BY <1>2, <1>4, <1>6 DEF CallOK
<1>7. QED
  BY <1>5, <1>6

LEMMA CreateRecordStep ==
    ASSUME Inductive, NEW c \in Calls, NEW r \in Recs, NEW o \in Ops, CreateRecord(c, r, o)
    PROVE  Inductive'
<1> USE DEF Inductive, CreateRecord
<1>1. /\ edit' \in [Ops -> EditsOf \cup {NoEdit}] /\ edit[o] = NoEdit /\ edit'[o] # NoEdit
      /\ \A p \in Ops : edit[p] # NoEdit => edit'[p] # NoEdit
  BY NewEditType DEF Types
<1>2. Growing
  BY <1>1 DEF Growing
<1>3. TypeOK'
  <2>1. store' \in [Recs -> Copies]
    BY DEF TypeOK, Copies, Data
  <2>2. call' \in [Calls -> CallStates]
    BY DEF TypeOK, SetCall, CallStates
  <2>3. QED
    BY <1>1, <2>1, <2>2 DEF TypeOK
<1>4. \A d \in Calls : CallOK(d)'
  BY <1>1, CallBegins
<1>5. QED
  BY <1>2, <1>3, <1>4, QueueKept, SyncKept, JobKept

LEMMA ReadRecordStep ==
    ASSUME Inductive, NEW c \in Calls, NEW r \in Recs, NEW o \in Ops, ReadRecord(c, r, o)
    PROVE  Inductive'
<1> USE DEF Inductive, ReadRecord
<1>0. PICK base \in Nat : base = store[r].version
  BY DEF TypeOK, Copies
<1>1. PICK type \in Types : NewEdit(o, type, r, base)
  BY <1>0, SdkClientAssumption DEF Types
<1>2. /\ edit' \in [Ops -> EditsOf \cup {NoEdit}] /\ edit[o] = NoEdit /\ edit'[o] # NoEdit
      /\ \A p \in Ops : edit[p] # NoEdit => edit'[p] # NoEdit
  BY <1>1, NewEditType
<1>3. Growing
  BY <1>2 DEF Growing
<1>4. call' \in [Calls -> CallStates]
  BY DEF TypeOK, SetCall, CallStates
<1>5. TypeOK'
  BY <1>2, <1>4 DEF TypeOK
<1>6. \A d \in Calls : CallOK(d)'
  BY <1>2, CallBegins
<1>7. QED
  BY <1>3, <1>5, <1>6, QueueKept, SyncKept, JobKept

\* A call under way is about an edit, and leaves a typed copy.
LEMMA WrittenType ==
    ASSUME Inductive, NEW c \in Calls, call[c] # NoCall
    PROVE  /\ call[c].op \in Ops
           /\ edit[call[c].op] \in EditsOf
           /\ Written(call[c].op) \in Copies
<1>1. call[c].op \in Ops /\ edit[call[c].op] \in EditsOf
  BY DEF Inductive, CallOK, TypeOK
<1>2. PICK o \in Ops : o = call[c].op
  BY <1>1
<1>3. /\ edit[o].type \in Types /\ edit[o].base + 1 \in Nat
      /\ edit[o].type = "create" \/ edit[o].type = "update" \/ edit[o].type = "delete"
  BY <1>1, <1>2 DEF EditsOf, Types
<1>4. Written(o) \in Copies
  BY <1>3 DEF Written, Copies, Data, NoCopy
<1>5. QED
  BY <1>1, <1>2, <1>4

LEMMA WriteRecordStep ==
    ASSUME Inductive, NEW c \in Calls, WriteRecord(c)
    PROVE  Inductive'
<1> USE DEF WriteRecord
<1>0. call[c] # NoCall
  BY DEF NoCall
<1>1. call[c].op \in Ops /\ edit[call[c].op].rec \in Recs /\ Written(call[c].op) \in Copies
  BY <1>0, WrittenType DEF EditsOf
<1>2. TypeOK'
  <2>1. store' \in [Recs -> Copies]
    BY <1>1 DEF Inductive, TypeOK
  <2>2. call' \in [Calls -> CallStates]
    BY <1>1 DEF Inductive, TypeOK, SetCall, CallStates
  <2>3. QED
    BY <2>1, <2>2 DEF Inductive, TypeOK
<1>3. Growing
  BY GrowingKept
<1>4. ASSUME NEW d \in Calls
      PROVE  CallOK(d)'
  <2>1. /\ call'[c] = [step |-> "enqueue", op |-> call[c].op]
        /\ \A e \in Calls \ {c} : call'[e] = call[e]
    BY DEF Inductive, TypeOK, SetCall
  <2>2. \A e \in Calls : call'[e].op = call[e].op
    BY <2>1
  <2>3. CallOK(d) /\ CallOK(c)
    BY DEF Inductive
  <2>4. QED
    BY <1>0, <2>1, <2>2, <2>3 DEF CallOK
<1>5. QED
  BY <1>2, <1>3, <1>4, QueueKept, SyncKept, JobKept DEF Inductive

LEMMA EnqueueStep ==
    ASSUME Inductive, NEW c \in Calls, Enqueue(c)
    PROVE  Inductive'
<1> USE DEF Enqueue
<1>0. call[c] # NoCall
  BY DEF NoCall
<1>1. PICK o \in Ops : o = call[c].op /\ edit[o] # NoEdit
  BY <1>0 DEF Inductive, CallOK
<1>2. queue' = [queue EXCEPT ![o] = NewEntry] /\ call' = [call EXCEPT ![c] = NoCall]
  BY <1>1
<1>3. NewEntry \in Entries /\ NewEntry.status # "applied"
  BY DEF NewEntry, Entries
<1>4. TypeOK'
  <2>1. queue' \in [Ops -> Entries \cup {NoEntry}]
    BY <1>2, <1>3 DEF Inductive, TypeOK
  <2>2. call' \in [Calls -> CallStates]
    BY <1>2 DEF Inductive, TypeOK, NoCall, CallStates
  <2>3. QED
    BY <2>1, <2>2 DEF Inductive, TypeOK
<1>5. Growing
  BY GrowingKept
<1>6. ASSUME NEW d \in Calls
      PROVE  CallOK(d)'
  <2>1. call'[c] = NoCall /\ \A e \in Calls \ {c} : call'[e] = call[e]
    BY <1>2 DEF Inductive, TypeOK
  <2>2. CASE d = c
    BY <2>1, <2>2 DEF CallOK
  <2>3. CASE d # c /\ call[d] # NoCall
    <3>1. /\ call[d].op \in Ops /\ edit[call[d].op] # NoEdit /\ queue[call[d].op] = NoEntry
          /\ \A e \in Calls \ {d} : call[e].op # call[d].op
      BY <2>3 DEF Inductive, CallOK
    <3>2. queue'[call[d].op] = NoEntry
      BY <1>1, <1>2, <2>3, <3>1 DEF Inductive, TypeOK
    <3>3. NoCall.op = None /\ None \notin Ops
      BY SdkClientAssumption DEF NoCall
    <3>4. \A e \in Calls \ {d} : call'[e].op # call'[d].op
      BY <2>1, <2>3, <3>1, <3>3
    <3>5. QED
      BY <2>1, <2>3, <3>1, <3>2, <3>4 DEF CallOK
  <2>4. CASE d # c /\ call[d] = NoCall
    BY <2>1, <2>4 DEF CallOK
  <2>5. QED
    BY <2>2, <2>3, <2>4
<1>7. ASSUME NEW p \in Ops
      PROVE  QueueOK(p)'
  BY <1>1, <1>2, <1>3 DEF Inductive, TypeOK, QueueOK
<1>8. QED
  BY <1>4, <1>5, <1>6, <1>7, SyncKept, JobKept DEF Inductive

-----------------------------------------------------------------------------
(* The server. *)

LEMMA ChangeType ==
    ASSUME TypeOK, NEW r \in Recs, NEW version \in Nat, NEW data \in Data,
           Change(r, version, data)
    PROVE  srv' \in [Recs -> Rows] /\ seq' \in Nat /\ srv'[r].version = version
<1>1. [version |-> version, data |-> data, cursor |-> seq + 1] \in Rows
  BY DEF TypeOK, Rows
<1>2. QED
  BY <1>1 DEF TypeOK, Change

LEMMA MutateType ==
    ASSUME TypeOK, NEW o \in Ops, edit[o] \in EditsOf, Mutate(o)
    PROVE  srv' \in [Recs -> Rows] /\ seq' \in Nat
<1>1. edit[o].rec \in Recs /\ srv[edit[o].rec].version \in Nat
  BY DEF TypeOK, EditsOf, Rows
<1>2. PICK r \in Recs : r = edit[o].rec
  BY <1>1
<1>3. PICK n \in Nat : n = srv[r].version + 1
  BY <1>1, <1>2
<1>4. \/ Change(r, n, o)
      \/ Change(r, 0, None)
      \/ UNCHANGED <<srv, seq>>
  BY <1>2, <1>3 DEF Mutate
<1>5. o \in Data /\ None \in Data
  BY DEF Data
<1>6. QED
  BY <1>4, <1>5, ChangeType DEF TypeOK

\* An operation of a job that has one to do has been made by the application.
LEMMA JobOpType ==
    ASSUME Inductive, NEW j \in Jobs, NEW o \in First(job[j].todo)
    PROVE  o \in Ops /\ edit[o] \in EditsOf
<1>1. o \in job[j].todo
  BY DEF First
<1>2. o \in Ops
  BY <1>1, JobOps DEF Inductive
<1>3. edit[o] # NoEdit
  BY <1>1 DEF Inductive, JobOK, Edited
<1>4. QED
  BY <1>2, <1>3 DEF Inductive, TypeOK

\* Adding an answer to a job keeps it in order.
LEMMA ProgressOK ==
    ASSUME Inductive, Growing, NEW j \in Jobs, NEW o \in Ops, edit[o] # NoEdit,
           NEW applied \in SUBSET Answers, NEW rejected \in SUBSET Answers,
           OpsOf(applied) \subseteq {o} \cap done', OpsOf(rejected) \subseteq {o},
           Progress(j, o, applied, rejected)
    PROVE  job' \in [Jobs -> JobStates] /\ \A k \in Jobs : JobOK(k)'
<1>1. job \in [Jobs -> JobStates] /\ job[j] \in JobStates
  BY DEF Inductive, TypeOK
<1>2. /\ job'[j].ops = job[j].ops /\ job'[j].todo = job[j].todo \ {o}
      /\ job'[j].applied = job[j].applied \cup applied
      /\ job'[j].rejected = job[j].rejected \cup rejected
      /\ \A k \in Jobs \ {j} : job'[k] = job[k]
  BY <1>1 DEF Progress, JobStates
<1>3. job' \in [Jobs -> JobStates]
  <2>1. PICK state \in {"active", "completed"} :
          state = IF job[j].todo = {o} THEN "completed" ELSE "active"
    OBVIOUS
  <2>2. PICK x \in JobStates : x = job[j]
    BY <1>1
  <2>3. job' = [job EXCEPT ![j] = [x EXCEPT !.todo = @ \ {o}, !.state = state,
                                           !.applied = @ \cup applied,
                                           !.rejected = @ \cup rejected]]
    BY <1>1, <2>1, <2>2 DEF Progress
  <2>4. [x EXCEPT !.todo = @ \ {o}, !.state = state, !.applied = @ \cup applied,
                  !.rejected = @ \cup rejected] \in JobStates
    BY <2>1 DEF JobStates
  <2>5. QED
    BY <1>1, <2>3, <2>4
<1>4. JobOK(j)'
  <2>1. /\ OpsOf(job'[j].applied) = OpsOf(job[j].applied) \cup OpsOf(applied)
        /\ OpsOf(job'[j].rejected) = OpsOf(job[j].rejected) \cup OpsOf(rejected)
    BY <1>2 DEF OpsOf
  <2>2. JobOK(j)
    BY DEF Inductive
  <2>3. /\ job[j].ops \subseteq Ops /\ job[j].todo \subseteq Ops
        /\ OpsOf(job[j].applied) \subseteq Ops /\ OpsOf(job[j].rejected) \subseteq Ops
    BY JobOps DEF Inductive
  <2>4. edit'[o] # NoEdit
    BY DEF Growing
  <2>5. OpsOf(job[j].applied)' = OpsOf(job'[j].applied) /\ OpsOf(job[j].rejected)' = OpsOf(job'[j].rejected)
    BY DEF OpsOf
  <2>6. Edited(job[j].ops)' /\ Edited(job[j].todo)'
    BY <1>2, <2>2, <2>3 DEF JobOK, Edited, Growing
  <2>7. Edited(OpsOf(job[j].applied))'
    BY <2>1, <2>2, <2>3, <2>4, <2>5 DEF JobOK, Edited, Growing
  <2>8. Edited(OpsOf(job[j].rejected))'
    BY <2>1, <2>2, <2>3, <2>4, <2>5 DEF JobOK, Edited, Growing
  <2>9. (OpsOf(job[j].applied) \subseteq done)'
    BY <2>1, <2>2, <2>5 DEF JobOK, Growing
  <2>10. QED
    BY <2>6, <2>7, <2>8, <2>9 DEF JobOK
<1>5. ASSUME NEW k \in Jobs, k # j
      PROVE  JobOK(k)'
  BY <1>2, <1>5, JobKept DEF Inductive
<1>6. QED
  BY <1>3, <1>4, <1>5

LEMMA JobRepeatStep ==
    ASSUME Inductive, NEW j \in Jobs, NEW o \in First(job[j].todo), JobRepeat(j, o)
    PROVE  Inductive'
<1>1. o \in Ops /\ edit[o] # NoEdit
  BY JobOpType DEF EditsOf, NoEdit
<1>2. Growing
  BY GrowingKept DEF JobRepeat
<1>3. OpsOf({}) = {}
  BY DEF OpsOf
<1>4. job' \in [Jobs -> JobStates] /\ \A k \in Jobs : JobOK(k)'
  BY <1>1, <1>2, <1>3, ProgressOK DEF JobRepeat
<1>5. TypeOK'
  BY <1>4 DEF Inductive, TypeOK, JobRepeat
<1>6. QED
  BY <1>2, <1>4, <1>5, CallsKept, QueueKept, SyncKept DEF Inductive, JobRepeat

LEMMA ApplyType ==
    ASSUME Inductive, NEW o \in Ops, edit[o] \in EditsOf, Apply(o), edit' = edit
    PROVE  /\ srv' \in [Recs -> Rows] /\ seq' \in Nat
           /\ done' = done \cup {o} /\ done' \subseteq Ops
           /\ foreign' = foreign
           /\ Growing
<1>1. srv' \in [Recs -> Rows] /\ seq' \in Nat
  BY MutateType DEF Inductive, Apply
<1>2. QED
  BY <1>1 DEF Inductive, TypeOK, Apply, Growing

LEMMA JobApplyStep ==
    ASSUME Inductive, NEW j \in Jobs, NEW o \in First(job[j].todo), JobApply(j, o)
    PROVE  Inductive'
<1>1. o \in Ops /\ edit[o] \in EditsOf /\ edit[o] # NoEdit
  BY JobOpType DEF EditsOf, NoEdit
<1>2. /\ srv' \in [Recs -> Rows] /\ seq' \in Nat /\ done' = done \cup {o} /\ done' \subseteq Ops
      /\ foreign' = foreign /\ Growing
  BY <1>1, ApplyType DEF JobApply
<1>3. PICK version \in Nat : version = srv'[edit[o].rec].version
  BY <1>1, <1>2 DEF EditsOf, Rows
<1>4. PICK answers : answers = {[op |-> o, version |-> version, data |-> o]}
  OBVIOUS
<1>5. answers \in SUBSET Answers /\ OpsOf(answers) \subseteq {o} \cap done' /\ OpsOf({}) = {}
  BY <1>1, <1>2, <1>4 DEF Answers, Data, OpsOf
<1>6. Progress(j, o, answers, {})
  BY <1>3, <1>4 DEF JobApply
<1>7. job' \in [Jobs -> JobStates] /\ \A k \in Jobs : JobOK(k)'
  BY <1>1, <1>2, <1>5, <1>6, ProgressOK
<1>8. TypeOK'
  BY <1>2, <1>7 DEF Inductive, TypeOK, JobApply
<1>9. QED
  BY <1>2, <1>7, <1>8, CallsKept, QueueKept, SyncKept DEF Inductive, JobApply

LEMMA JobRejectStep ==
    ASSUME Inductive, NEW j \in Jobs, NEW o \in First(job[j].todo), JobReject(j, o)
    PROVE  Inductive'
<1>1. o \in Ops /\ edit[o] \in EditsOf /\ edit[o] # NoEdit
  BY JobOpType DEF EditsOf, NoEdit
<1>2. Growing
  BY GrowingKept DEF JobReject
<1>3. PICK row \in Rows : row = srv[edit[o].rec]
  BY <1>1 DEF Inductive, TypeOK, EditsOf
<1>4. PICK answers : answers = {[op |-> o, version |-> row.version, data |-> row.data]}
  OBVIOUS
<1>5. answers \in SUBSET Answers /\ OpsOf(answers) \subseteq {o} /\ OpsOf({}) = {}
  BY <1>1, <1>4 DEF Answers, Rows, OpsOf
<1>6. Progress(j, o, {}, answers)
  BY <1>3, <1>4 DEF JobReject
<1>7. job' \in [Jobs -> JobStates] /\ \A k \in Jobs : JobOK(k)'
  BY <1>1, <1>2, <1>5, <1>6, ProgressOK
<1>8. TypeOK'
  BY <1>7 DEF Inductive, TypeOK, JobReject
<1>9. QED
  BY <1>2, <1>7, <1>8, CallsKept, QueueKept, SyncKept DEF Inductive, JobReject

\* A job that starts again or has just been queued holds known operations only.
LEMMA JobSet ==
    ASSUME Inductive, Growing, NEW j \in Jobs, NEW ops \in SUBSET Ops, Edited(ops),
           NEW state \in {"none", "active", "failed"},
           job' = [job EXCEPT ![j] = JobOf(state, ops)]
    PROVE  job' \in [Jobs -> JobStates] /\ \A k \in Jobs : JobOK(k)'
<1>1. JobOf(state, ops) \in JobStates
  BY DEF JobOf, JobStates
<1>2. job' \in [Jobs -> JobStates] /\ \A k \in Jobs \ {j} : job'[k] = job[k]
  BY <1>1 DEF Inductive, TypeOK
<1>3. /\ job'[j].ops = ops /\ job'[j].todo = ops
      /\ job'[j].applied = {} /\ job'[j].rejected = {}
  BY DEF Inductive, TypeOK, JobOf
<1>4. OpsOf({}) = {}
  BY DEF OpsOf
<1>5. JobOK(j)'
  BY <1>3, <1>4 DEF JobOK, Edited, Growing, OpsOf
<1>6. ASSUME NEW k \in Jobs, k # j
      PROVE  JobOK(k)'
  BY <1>2, <1>6, JobKept DEF Inductive
<1>7. QED
  BY <1>2, <1>5, <1>6

LEMMA JobErrorStep ==
    ASSUME Inductive, NEW j \in Jobs, NEW o \in First(job[j].todo), JobError(j, o)
    PROVE  Inductive'
<1>1. o \in Ops /\ edit[o] \in EditsOf /\ edit[o] # NoEdit
  BY JobOpType DEF EditsOf, NoEdit
<1>2. faults' \in 0..MaxFaults
  BY FaultType DEF Inductive, JobError
<1>3. /\ srv' \in [Recs -> Rows] /\ seq' \in Nat /\ done \subseteq done' /\ done' \subseteq Ops
      /\ foreign' = foreign /\ Growing
  <2>1. CASE Apply(o)
    BY <1>1, <2>1, ApplyType DEF JobError
  <2>2. CASE UNCHANGED server
    BY <2>2, GrowingKept DEF Inductive, TypeOK, JobError
  <2>3. QED
    BY <2>1, <2>2 DEF JobError
<1>4. job' \in [Jobs -> JobStates] /\ \A k \in Jobs : JobOK(k)'
  <2>1. PICK ops : ops = job[j].ops
    OBVIOUS
  <2>2. ops \in SUBSET Ops /\ Edited(ops)
    BY <2>1, JobOps DEF Inductive, JobOK, Edited
  <2>3. PICK state \in {"active", "failed"} :
          job' = [job EXCEPT ![j] = JobOf(state, ops)]
    BY <2>1 DEF JobError
  <2>4. QED
    BY <1>3, <2>2, <2>3, JobSet
<1>5. TypeOK'
  BY <1>2, <1>3, <1>4 DEF Inductive, TypeOK, JobError
<1>6. QED
  BY <1>3, <1>4, <1>5, CallsKept, QueueKept, SyncKept DEF Inductive, JobError

LEMMA ForeignStep ==
    ASSUME Inductive, NEW r \in Recs, ForeignPut(r) \/ ForeignDelete(r)
    PROVE  Inductive'
<1> USE DEF ForeignPut, ForeignDelete
<1>1. PICK version \in Nat, data \in Data : Change(r, version, data)
  BY DEF Inductive, TypeOK, Rows, Data
<1>2. srv' \in [Recs -> Rows] /\ seq' \in Nat
  BY <1>1, ChangeType DEF Inductive
<1>3. foreign' \in 0..MaxForeign
  BY SdkClientAssumption DEF Inductive, TypeOK
<1>4. TypeOK'
  BY <1>2, <1>3 DEF Inductive, TypeOK
<1>5. Growing
  BY GrowingKept
<1>6. QED
  BY <1>4, <1>5, CallsKept, QueueKept, SyncKept, JobKept DEF Inductive

-----------------------------------------------------------------------------
(* sync(): the push. *)

\* A call of sync() that drops or moves what it holds stays in order.
LEMMA SyncMoved ==
    ASSUME TypeOK, \A t \in Syncs : SyncOK(t), Growing, NEW s \in Syncs,
           \A t \in Syncs \ {s} : sync'[t] = sync[t],
           sync'[s].step = "poll" => sync'[s].job \in Jobs,
           sync'[s].batch \subseteq sync[s].batch,
           sync'[s].todo \subseteq sync[s].todo \cup sync[s].batch,
           sync'[s].applied \subseteq sync[s].applied,
           sync'[s].rejected \subseteq sync[s].rejected
    PROVE  \A t \in Syncs : SyncOK(t)'
<1>1. SyncOK(s)'
  <2>1. /\ OpsOf(sync'[s].batch) \subseteq OpsOf(sync[s].batch)
        /\ OpsOf(sync'[s].todo) \subseteq OpsOf(sync[s].todo) \cup OpsOf(sync[s].batch)
        /\ OpsOf(sync'[s].applied) \subseteq OpsOf(sync[s].applied)
        /\ OpsOf(sync'[s].rejected) \subseteq OpsOf(sync[s].rejected)
    BY DEF OpsOf
  <2>2. /\ Edited(OpsOf(sync[s].batch))' /\ Edited(OpsOf(sync[s].todo))'
        /\ Edited(OpsOf(sync[s].applied))' /\ Edited(OpsOf(sync[s].rejected))'
        /\ (OpsOf(sync[s].applied) \subseteq done)'
    BY <2>1, SyncOps DEF SyncOK, Edited, Growing, OpsOf
  <2>3. QED
    BY <2>2 DEF SyncOK, At
<1>2. ASSUME NEW t \in Syncs, t # s
      PROVE  SyncOK(t)'
  BY <1>2, SyncKept
<1>3. QED
  BY <1>1, <1>2

\* A step that changes nothing else but the count of faults.
LEMMA OnlySync ==
    ASSUME Inductive, sync' \in [Syncs -> SyncStates], \A s \in Syncs : SyncOK(s)',
           UNCHANGED <<store, queue, lastCursor, edit, call, server, job>>,
           faults' \in 0..MaxFaults
    PROVE  Inductive'
<1>1. Growing
  BY GrowingKept
<1>2. TypeOK'
  BY DEF Inductive, TypeOK
<1>3. QED
  BY <1>1, <1>2, CallsKept, QueueKept, JobKept DEF Inductive

LEMMA SyncAtType ==
    ASSUME NEW step \in Steps, NEW batch \in SUBSET Tried, NEW todo \in SUBSET Tried
    PROVE  /\ SyncAt(step, batch, todo) \in SyncStates
           /\ SyncAt(step, batch, todo).batch = batch /\ SyncAt(step, batch, todo).todo = todo
           /\ SyncAt(step, batch, todo).applied = {} /\ SyncAt(step, batch, todo).rejected = {}
BY DEF SyncAt, SyncStates

\* Going to the retry, or back to rest, keeps at most the batch.
LEMMA RecoverType ==
    ASSUME Inductive, Growing, NEW s \in Syncs,
           (\E step \in {"retry", "fail"} : Recover(s, step)) \/ sync' = [sync EXCEPT ![s] = NoSync]
    PROVE  sync' \in [Syncs -> SyncStates] /\ \A t \in Syncs : SyncOK(t)'
<1>0. PICK b \in SUBSET Tried : b = sync[s].batch
  BY SyncOps DEF Inductive, SyncStates
<1>1. PICK step \in Steps \ {"poll"}, batch \in {{}, b} :
        sync' = [sync EXCEPT ![s] = SyncAt(step, batch, batch)]
  BY <1>0 DEF Recover, NoSync, Steps
<1>2. SyncAt(step, batch, batch) \in SyncStates
  BY SyncAtType
<1>3. sync' \in [Syncs -> SyncStates] /\ \A t \in Syncs \ {s} : sync'[t] = sync[t]
  BY <1>1, <1>2 DEF Inductive, TypeOK
<1>4. /\ sync'[s].batch \subseteq b /\ sync'[s].todo \subseteq b /\ sync'[s].step # "poll"
      /\ sync'[s].applied = {} /\ sync'[s].rejected = {}
  <2>1. sync'[s] = SyncAt(step, batch, batch)
    BY <1>1 DEF Inductive, TypeOK
  <2>2. QED
    BY <2>1 DEF SyncAt
<1>5. QED
  BY <1>0, <1>3, <1>4, SyncMoved DEF Inductive

LEMMA BeginStep ==
    ASSUME Inductive, NEW s \in Syncs, Begin(s)
    PROVE  Inductive'
<1> DEFINE batch == {[op |-> o, retries |-> queue[o].retries] : o \in {p \in Ops : Due(p)}}
<1>1. batch \subseteq Tried
  BY DEF Inductive, TypeOK, Due, Pending, Entries, NoEntry, Tried
<1>2. Edited(OpsOf(batch))
  <2>1. ASSUME NEW o \in Ops, Due(o)
        PROVE  edit[o] # NoEdit
    BY <2>1 DEF Inductive, QueueOK, Due, Pending, NoEntry
  <2>2. QED
    BY <2>1 DEF Edited, OpsOf
<1>3. \E step \in Steps \ {"poll"} : sync' = [sync EXCEPT ![s] = SyncAt(step, batch, {})]
  BY DEF Begin, Steps
<1> HIDE DEF batch
<1>4. PICK step \in Steps \ {"poll"} : sync' = [sync EXCEPT ![s] = SyncAt(step, batch, {})]
  BY <1>3
<1>5. sync' \in [Syncs -> SyncStates] /\ sync'[s] = SyncAt(step, batch, {})
  BY <1>1, <1>4, SyncAtType DEF Inductive, TypeOK
<1>6. OpsOf({}) = {} /\ edit' = edit /\ done' = done
  BY DEF OpsOf, Begin
<1>7. SyncOK(s)'
  <2>1. /\ sync'[s].batch = batch /\ sync'[s].todo = {} /\ sync'[s].step # "poll"
        /\ sync'[s].applied = {} /\ sync'[s].rejected = {}
    BY <1>5 DEF SyncAt
  <2>2. QED
    BY <1>2, <1>6, <2>1 DEF SyncOK, Edited, OpsOf, At
<1>8. ASSUME NEW t \in Syncs, t # s
      PROVE  SyncOK(t)'
  BY <1>4, <1>6, <1>8, SyncKept, GrowingKept DEF Inductive, TypeOK
<1>9. QED
  BY <1>5, <1>7, <1>8, OnlySync DEF Inductive, TypeOK, Begin

LEMMA AcceptedType ==
    ASSUME Inductive, Growing, NEW s \in Syncs, NEW j \in Jobs, Accepted(s, j)
    PROVE  job' \in [Jobs -> JobStates] /\ \A k \in Jobs : JobOK(k)'
<1>1. PICK ops \in SUBSET Ops : ops = OpsOf(sync[s].batch)
  BY SyncOps DEF Inductive
<1>2. Edited(ops)
  BY <1>1 DEF Inductive, SyncOK, Edited
<1>3. job' = [job EXCEPT ![j] = JobOf("active", ops)]
  BY <1>1 DEF Accepted
<1>4. QED
  BY <1>2, <1>3, JobSet

LEMMA PostStep ==
    ASSUME Inductive, NEW s \in Syncs, NEW j \in Jobs, Post(s, j)
    PROVE  Inductive'
<1>1. Growing
  BY GrowingKept DEF Post
<1>2. job' \in [Jobs -> JobStates] /\ \A k \in Jobs : JobOK(k)'
  BY <1>1, AcceptedType DEF Post
<1>3. PICK x \in SyncStates : x = sync[s]
  BY DEF Inductive, TypeOK
<1>4. sync' = [sync EXCEPT ![s] = [x EXCEPT !.step = "poll", !.job = j]]
  BY <1>3 DEF Inductive, TypeOK, Post
<1>5. [x EXCEPT !.step = "poll", !.job = j] \in SyncStates
  BY DEF SyncStates, Steps
<1>6. sync' \in [Syncs -> SyncStates] /\ \A t \in Syncs \ {s} : sync'[t] = sync[t]
  BY <1>4, <1>5 DEF Inductive, TypeOK
<1>7. /\ sync'[s].batch = x.batch /\ sync'[s].todo = x.todo
      /\ sync'[s].applied = x.applied /\ sync'[s].rejected = x.rejected
      /\ sync'[s].job = j
  BY <1>4 DEF Inductive, TypeOK, SyncStates
<1>8. \A t \in Syncs : SyncOK(t)'
  BY <1>1, <1>3, <1>6, <1>7, SyncMoved DEF Inductive
<1>9. TypeOK'
  BY <1>2, <1>6 DEF Inductive, TypeOK, Post
<1>10. QED
  BY <1>1, <1>2, <1>8, <1>9, CallsKept, QueueKept DEF Inductive, Post

LEMMA SyncFaultStep ==
    ASSUME Inductive, NEW s \in Syncs, SyncFault(s)
    PROVE  Inductive'
<1>1. /\ faults' \in 0..MaxFaults
      /\ UNCHANGED <<store, queue, lastCursor, edit, call, server>>
      /\ (\E step \in {"retry", "fail"} : Recover(s, step)) \/ sync' = [sync EXCEPT ![s] = NoSync]
      /\ job' = job \/ \E j \in Jobs : Accepted(s, j)
  <2>1. CASE \E j \in Jobs : PostUnanswered(s, j)
    BY <2>1, FaultType DEF Inductive, PostUnanswered
  <2>2. CASE PostFails(s)
    BY <2>2, FaultType DEF Inductive, PostFails
  <2>3. CASE GiveUp(s)
    BY <2>3, FaultType DEF Inductive, GiveUp
  <2>4. CASE PullFails(s)
    BY <2>4, FaultType DEF Inductive, PullFails
  <2>5. QED
    BY <2>1, <2>2, <2>3, <2>4 DEF SyncFault
<1>2. Growing
  BY <1>1, GrowingKept
<1>3. sync' \in [Syncs -> SyncStates] /\ \A t \in Syncs : SyncOK(t)'
  BY <1>1, <1>2, RecoverType
<1>4. job' \in [Jobs -> JobStates] /\ \A k \in Jobs : JobOK(k)'
  BY <1>1, <1>2, AcceptedType, JobKept DEF Inductive, TypeOK
<1>5. TypeOK'
  BY <1>1, <1>3, <1>4 DEF Inductive, TypeOK
<1>6. QED
  BY <1>1, <1>2, <1>3, <1>4, <1>5, CallsKept, QueueKept DEF Inductive

\* A job whose answer has been fetched is forgotten.
LEMMA JobForgotten ==
    ASSUME Inductive, Growing, NEW j \in Jobs, job' = [job EXCEPT ![j] = NoJob]
    PROVE  job' \in [Jobs -> JobStates] /\ \A k \in Jobs : JobOK(k)'
<1>1. job' = [job EXCEPT ![j] = JobOf("none", {})]
  BY DEF NoJob
<1>2. Edited({})
  BY DEF Edited
<1>3. QED
  BY <1>1, <1>2, JobSet

LEMMA PollFailedStep ==
    ASSUME Inductive, NEW s \in Syncs, PollFailed(s)
    PROVE  Inductive'
<1>1. Growing
  BY GrowingKept DEF PollFailed
<1>2. sync' \in [Syncs -> SyncStates] /\ \A t \in Syncs : SyncOK(t)'
  BY <1>1, RecoverType DEF PollFailed
<1>3. job' \in [Jobs -> JobStates] /\ \A k \in Jobs : JobOK(k)'
  BY <1>1, JobForgotten DEF PollFailed, Inductive, SyncOK
<1>4. TypeOK'
  BY <1>2, <1>3 DEF Inductive, TypeOK, PollFailed
<1>5. QED
  BY <1>1, <1>2, <1>3, <1>4, CallsKept, QueueKept DEF Inductive, PollFailed

LEMMA PollCompletedStep ==
    ASSUME Inductive, NEW s \in Syncs, PollCompleted(s)
    PROVE  Inductive'
<1>1. Growing
  BY GrowingKept DEF PollCompleted
<1>2. PICK j \in Jobs : j = sync[s].job
  BY DEF PollCompleted, Inductive, SyncOK
<1>3. PICK applied \in SUBSET Answers, rejected \in SUBSET Answers :
        applied = job[j].applied /\ rejected = job[j].rejected
  BY JobOps DEF Inductive, JobStates
<1>4. PICK x \in SyncStates : x = sync[s]
  BY DEF Inductive, TypeOK
<1>5. sync' = [sync EXCEPT ![s] = [x EXCEPT !.step = "applied", !.job = None,
                                            !.applied = applied, !.rejected = rejected]]
  BY <1>2, <1>3, <1>4 DEF Inductive, TypeOK, PollCompleted
<1>6. [x EXCEPT !.step = "applied", !.job = None, !.applied = applied, !.rejected = rejected]
        \in SyncStates
  BY DEF SyncStates, Steps
<1>7. sync' \in [Syncs -> SyncStates] /\ \A t \in Syncs \ {s} : sync'[t] = sync[t]
  BY <1>5, <1>6 DEF Inductive, TypeOK
<1>8. /\ sync'[s].batch = x.batch /\ sync'[s].todo = x.todo /\ sync'[s].step # "poll"
      /\ sync'[s].applied = applied /\ sync'[s].rejected = rejected
  BY <1>5 DEF Inductive, TypeOK, SyncStates
<1>9. SyncOK(s)'
  <2>1. /\ Edited(OpsOf(applied)) /\ Edited(OpsOf(rejected)) /\ OpsOf(applied) \subseteq done
        /\ Edited(OpsOf(x.batch)) /\ Edited(OpsOf(x.todo))
    BY <1>3, <1>4 DEF Inductive, SyncOK, JobOK
  <2>2. edit' = edit /\ done' = done
    BY DEF PollCompleted
  <2>3. QED
    BY <1>8, <2>1, <2>2 DEF SyncOK, Edited, OpsOf, At
<1>10. ASSUME NEW t \in Syncs, t # s
       PROVE  SyncOK(t)'
  BY <1>1, <1>7, <1>10, SyncKept DEF Inductive
<1>11. job' \in [Jobs -> JobStates] /\ \A k \in Jobs : JobOK(k)'
  BY <1>1, <1>2, JobForgotten DEF PollCompleted
<1>12. TypeOK'
  BY <1>7, <1>11 DEF Inductive, TypeOK, PollCompleted
<1>13. QED
  BY <1>1, <1>9, <1>10, <1>11, <1>12, CallsKept, QueueKept DEF Inductive, PollCompleted

-----------------------------------------------------------------------------
(* sync(): the results, the pull and the errors. *)

\* A call of sync() goes on with no more than it holds.
LEMMA SyncTo ==
    ASSUME Inductive, Growing, NEW s \in Syncs, NEW y \in SyncStates,
           sync' = [sync EXCEPT ![s] = y], y.step # "poll",
           y.batch = sync[s].batch, y.todo \subseteq sync[s].todo,
           y.applied \subseteq sync[s].applied, y.rejected \subseteq sync[s].rejected
    PROVE  sync' \in [Syncs -> SyncStates] /\ \A t \in Syncs : SyncOK(t)'
<1>1. /\ sync' \in [Syncs -> SyncStates] /\ sync'[s] = y
      /\ \A t \in Syncs \ {s} : sync'[t] = sync[t]
  BY DEF Inductive, TypeOK
<1>2. QED
  BY <1>1, SyncMoved DEF Inductive

LEMMA GotoType ==
    ASSUME Inductive, Growing, NEW s \in Syncs, NEW step \in Steps \ {"poll"}, Goto(s, step)
    PROVE  sync' \in [Syncs -> SyncStates] /\ \A t \in Syncs : SyncOK(t)'
<1>1. PICK x \in SyncStates : x = sync[s]
  BY DEF Inductive, TypeOK
<1>2. sync' = [sync EXCEPT ![s] = [x EXCEPT !.step = step]]
  BY <1>1 DEF Inductive, TypeOK, Goto
<1>3. [x EXCEPT !.step = step] \in SyncStates
  BY DEF SyncStates
<1>4. /\ [x EXCEPT !.step = step].step # "poll" /\ [x EXCEPT !.step = step].batch = x.batch
      /\ [x EXCEPT !.step = step].todo = x.todo
      /\ [x EXCEPT !.step = step].applied = x.applied
      /\ [x EXCEPT !.step = step].rejected = x.rejected
  BY DEF SyncStates
<1>5. PICK y \in SyncStates : y = [x EXCEPT !.step = step]
  BY <1>3
<1>6. QED
  BY <1>1, <1>2, <1>4, <1>5, SyncTo

\* A patch is of an entry that is there.
LEMMA PatchOK ==
    ASSUME Inductive, Growing, NEW o \in Ops, NEW entry, Patch(o, entry),
           Queued(o) => entry \in Entries /\ (entry.status = "applied" => o \in done')
    PROVE  /\ queue' \in [Ops -> Entries \cup {NoEntry}]
           /\ \A p \in Ops : QueueOK(p)'
           /\ \A p \in Ops : queue[p] = NoEntry => queue'[p] = NoEntry
<1>1. CASE Queued(o)
  <2>1. queue' = [queue EXCEPT ![o] = entry] /\ queue[o] # NoEntry
    BY <1>1 DEF Patch, Queued, NoEntry
  <2>2. queue' \in [Ops -> Entries \cup {NoEntry}] /\ queue'[o] = entry
    BY <1>1, <2>1 DEF Inductive, TypeOK
  <2>3. QueueOK(o)'
    BY <1>1, <2>1, <2>2 DEF Inductive, QueueOK, Growing
  <2>4. ASSUME NEW p \in Ops, p # o
        PROVE  QueueOK(p)' /\ queue'[p] = queue[p]
    BY <2>1, <2>4, QueueKept DEF Inductive, TypeOK
  <2>5. QED
    BY <2>1, <2>2, <2>3, <2>4
<1>2. CASE ~Queued(o)
  BY <1>2, QueueKept DEF Inductive, TypeOK, Patch
<1>3. QED
  BY <1>1, <1>2

\* An entry that is there stays one when it is marked.
LEMMA EntryMarked ==
    ASSUME TypeOK, NEW o \in Ops, Queued(o), NEW status \in {"pending", "applied", "failed"},
           NEW retries \in Nat, NEW waiting \in BOOLEAN
    PROVE  /\ queue[o] \in Entries
           /\ [queue[o] EXCEPT !.status = status] \in Entries
           /\ [queue[o] EXCEPT !.status = status].status = status
           /\ [queue[o] EXCEPT !.status = status, !.retries = retries] \in Entries
           /\ [queue[o] EXCEPT !.status = status, !.retries = retries].status = status
           /\ [queue[o] EXCEPT !.retries = retries, !.waiting = waiting] \in Entries
           /\ [queue[o] EXCEPT !.retries = retries, !.waiting = waiting].status = queue[o].status
<1>1. PICK e \in Entries : e = queue[o]
  BY DEF TypeOK, Queued, NoEntry
<1>2. /\ [e EXCEPT !.status = status] \in Entries
      /\ [e EXCEPT !.status = status].status = status
      /\ [e EXCEPT !.status = status, !.retries = retries] \in Entries
      /\ [e EXCEPT !.status = status, !.retries = retries].status = status
      /\ [e EXCEPT !.retries = retries, !.waiting = waiting] \in Entries
      /\ [e EXCEPT !.retries = retries, !.waiting = waiting].status = e.status
  BY DEF Entries
<1>3. QED
  BY <1>1, <1>2

LEMMA HeldType ==
    ASSUME Inductive, NEW s \in Syncs, NEW x, x = sync[s]
    PROVE  /\ x \in SyncStates /\ x.step \in Steps /\ x.max \in Nat
           /\ x.todo \subseteq Tried /\ x.pulled \subseteq Changes
           /\ x.applied \subseteq Answers /\ x.rejected \subseteq Answers
           /\ \A a \in x.applied : a.op \in Ops /\ edit[a.op] \in EditsOf /\ a.op \in done
           /\ \A a \in x.rejected : a.op \in Ops /\ edit[a.op] \in EditsOf
<1>1. /\ x \in SyncStates /\ x.step \in Steps /\ x.max \in Nat
      /\ x.todo \subseteq Tried /\ x.pulled \subseteq Changes
      /\ x.applied \subseteq Answers /\ x.rejected \subseteq Answers
  BY DEF Inductive, TypeOK, SyncStates
<1>2. \A a \in x.applied \cup x.rejected : a.op \in Ops
  BY <1>1 DEF Answers
<1>3. \A a \in x.applied : a.op \in done /\ edit[a.op] # NoEdit
  BY DEF Inductive, SyncOK, Edited, OpsOf
<1>4. \A a \in x.rejected : edit[a.op] # NoEdit
  BY DEF Inductive, SyncOK, Edited, OpsOf
<1>5. QED
  BY <1>1, <1>2, <1>3, <1>4 DEF Inductive, TypeOK

LEMMA MarkAppliedStep ==
    ASSUME Inductive, NEW s \in Syncs, NEW a \in sync[s].applied, MarkApplied(s, a)
    PROVE  Inductive'
<1>1. Growing
  BY GrowingKept DEF MarkApplied
<1>2. PICK x \in SyncStates : x = sync[s]
  BY DEF Inductive, TypeOK
<1>3. PICK o \in Ops : o = a.op /\ o \in done'
  BY <1>2, HeldType DEF MarkApplied
<1>4. Patch(o, [queue[o] EXCEPT !.status = "applied"])
  BY <1>3 DEF MarkApplied
<1>5. /\ queue' \in [Ops -> Entries \cup {NoEntry}]
      /\ \A p \in Ops : QueueOK(p)'
      /\ \A p \in Ops : queue[p] = NoEntry => queue'[p] = NoEntry
  BY <1>1, <1>3, <1>4, PatchOK, EntryMarked DEF Inductive
<1>6. sync' \in [Syncs -> SyncStates] /\ \A t \in Syncs : SyncOK(t)'
  <2>1. CASE Goto(s, "confirm")
    BY <1>1, <2>1, GotoType DEF Steps
  <2>2. CASE sync' = [sync EXCEPT ![s].applied = @ \ {a}]
    <3>1. PICK y : y = [x EXCEPT !.applied = @ \ {a}]
      OBVIOUS
    <3>2. /\ y \in SyncStates /\ y.step = "applied" /\ y.batch = x.batch /\ y.todo = x.todo
          /\ y.applied = x.applied \ {a} /\ y.rejected = x.rejected
      BY <1>2, <3>1 DEF SyncStates, MarkApplied, At
    <3>3. sync' = [sync EXCEPT ![s] = y]
      BY <1>2, <2>2, <3>1 DEF Inductive, TypeOK
    <3>4. QED
      BY <1>1, <1>2, <3>2, <3>3, SyncTo
  <2>3. QED
    BY <2>1, <2>2 DEF MarkApplied, Goto
<1>7. TypeOK'
  BY <1>5, <1>6 DEF Inductive, TypeOK, MarkApplied
<1>8. QED
  BY <1>1, <1>5, <1>6, <1>7, CallsKept, JobKept DEF Inductive, MarkApplied

LEMMA ConfirmStep ==
    ASSUME Inductive, NEW s \in Syncs, NEW a \in sync[s].applied, Confirm(s, a)
    PROVE  Inductive'
<1>1. Growing
  BY GrowingKept DEF Confirm
<1>2. PICK x \in SyncStates : x = sync[s]
  BY DEF Inductive, TypeOK
<1>3. [version |-> a.version, data |-> a.data] \in Copies
  BY <1>2, HeldType DEF Answers, Copies
<1>4. store' \in [Recs -> Copies]
  BY <1>3 DEF Inductive, TypeOK, Confirm
<1>5. sync' \in [Syncs -> SyncStates] /\ \A t \in Syncs : SyncOK(t)'
  <2>1. PICK y : y = [x EXCEPT !.step = "applied", !.applied = @ \ {a}]
    OBVIOUS
  <2>2. /\ y \in SyncStates /\ y.step = "applied" /\ y.batch = x.batch /\ y.todo = x.todo
        /\ y.applied = x.applied \ {a} /\ y.rejected = x.rejected
    BY <2>1 DEF SyncStates, Steps
  <2>3. sync' = [sync EXCEPT ![s] = y]
    BY <1>2, <2>1 DEF Inductive, TypeOK, Confirm
  <2>4. QED
    BY <1>1, <1>2, <2>2, <2>3, SyncTo
<1>6. TypeOK'
  BY <1>4, <1>5 DEF Inductive, TypeOK, Confirm
<1>7. QED
  BY <1>1, <1>5, <1>6, CallsKept, QueueKept, JobKept DEF Inductive, Confirm

\* Steps that only go on to the next stage.
LEMMA StageStep ==
    ASSUME Inductive, NEW s \in Syncs,
           AllApplied(s) \/ AllRejected(s) \/ Throw(s)
             \/ \E a \in sync[s].rejected : ReadRejected(s, a)
    PROVE  Inductive'
<1> USE DEF AllApplied, AllRejected, Throw, ReadRejected
<1>1. /\ (\E step \in Steps \ {"poll"} : Goto(s, step)) \/ sync' = [sync EXCEPT ![s] = NoSync]
      /\ UNCHANGED <<store, queue, lastCursor, edit, call, server, job, faults>>
  BY DEF Steps
<1>2. Growing
  BY <1>1, GrowingKept
<1>3. sync' \in [Syncs -> SyncStates] /\ \A t \in Syncs : SyncOK(t)'
  BY <1>1, <1>2, GotoType, RecoverType
<1>4. QED
  BY <1>1, <1>3, OnlySync DEF Inductive, TypeOK

\* What resolving a conflict does to the local record and to what is held.
LEMMA ResolvedType ==
    ASSUME Inductive, Growing, NEW s \in Syncs, NEW a \in sync[s].rejected,
           NEW data \in Data, Overwrite(s, a, data), Resolved(s, a)
    PROVE  /\ store' \in [Recs -> Copies]
           /\ sync' \in [Syncs -> SyncStates] /\ \A t \in Syncs : SyncOK(t)'
<1>1. PICK x \in SyncStates : x = sync[s]
  BY DEF Inductive, TypeOK
<1>2. a \in Answers
  BY <1>1, HeldType
<1>3. store' \in [Recs -> Copies]
  BY <1>2 DEF Inductive, TypeOK, Overwrite, Answers, Copies
<1>4. PICK y : y = [x EXCEPT !.step = "rejected", !.rejected = @ \ {a}]
  OBVIOUS
<1>5. /\ y \in SyncStates /\ y.step = "rejected" /\ y.batch = x.batch /\ y.todo = x.todo
      /\ y.applied = x.applied /\ y.rejected = x.rejected \ {a}
  BY <1>4 DEF SyncStates, Steps
<1>6. sync' = [sync EXCEPT ![s] = y]
  BY <1>1, <1>4 DEF Inductive, TypeOK, Resolved
<1>7. QED
  BY <1>1, <1>3, <1>5, <1>6, SyncTo

LEMMA ServerWinsStep ==
    ASSUME Inductive, NEW s \in Syncs, NEW a \in sync[s].rejected, ServerWins(s, a)
    PROVE  Inductive'
<1>1. Growing
  BY GrowingKept DEF ServerWins
<1>2. PICK data \in Data : data = a.data
  BY HeldType DEF Answers
<1>3. /\ store' \in [Recs -> Copies]
      /\ sync' \in [Syncs -> SyncStates] /\ \A t \in Syncs : SyncOK(t)'
  BY <1>1, <1>2, ResolvedType DEF ServerWins
<1>4. PICK o \in Ops : o = a.op
  BY HeldType
<1>5. queue' = [queue EXCEPT ![o] = NoEntry]
  BY <1>4 DEF ServerWins
<1>6. queue' \in [Ops -> Entries \cup {NoEntry}]
  BY <1>5 DEF Inductive, TypeOK
<1>7. ASSUME NEW p \in Ops
      PROVE  QueueOK(p)' /\ (queue[p] = NoEntry => queue'[p] = NoEntry)
  BY <1>1, <1>5 DEF Inductive, TypeOK, QueueOK, NoEntry, Growing
<1>8. TypeOK'
  BY <1>3, <1>6 DEF Inductive, TypeOK, ServerWins
<1>9. QED
  BY <1>1, <1>3, <1>7, <1>8, CallsKept, JobKept DEF Inductive, ServerWins

LEMMA HandlerWinsStep ==
    ASSUME Inductive, NEW s \in Syncs, NEW a \in sync[s].rejected, NEW o \in Ops,
           HandlerWins(s, a, o)
    PROVE  Inductive'
<1>1. PICK r \in Recs, base \in Nat : r = edit[a.op].rec /\ base = a.version
  BY HeldType DEF Answers, EditsOf
<1>2. NewEdit(o, "update", r, base) /\ queue' = [queue EXCEPT ![o] = NewEntry]
  BY <1>1 DEF HandlerWins
<1>3. /\ edit' \in [Ops -> EditsOf \cup {NoEdit}] /\ edit[o] = NoEdit /\ edit'[o] # NoEdit
      /\ \A p \in Ops : edit[p] # NoEdit => edit'[p] # NoEdit
  BY <1>2, NewEditType DEF Inductive, Types
<1>4. Growing
  BY <1>3 DEF Growing, HandlerWins
<1>5. o \in Data
  BY DEF Data
<1>6. /\ store' \in [Recs -> Copies]
      /\ sync' \in [Syncs -> SyncStates] /\ \A t \in Syncs : SyncOK(t)'
  BY <1>4, <1>5, ResolvedType DEF HandlerWins
<1>7. NewEntry \in Entries /\ NewEntry.status # "applied"
  BY DEF NewEntry, Entries
<1>8. queue' \in [Ops -> Entries \cup {NoEntry}]
  BY <1>2, <1>7 DEF Inductive, TypeOK
<1>9. ASSUME NEW p \in Ops
      PROVE  QueueOK(p)'
  BY <1>2, <1>3, <1>4, <1>7 DEF Inductive, TypeOK, QueueOK, Growing
<1>10. ASSUME NEW c \in Calls
       PROVE  CallOK(c)'
  <2>1. CASE call[c] # NoCall
    <3>1. /\ call[c].op \in Ops /\ edit[call[c].op] # NoEdit /\ queue[call[c].op] = NoEntry
          /\ \A d \in Calls \ {c} : call[d].op # call[c].op
      BY <2>1 DEF Inductive, CallOK
    <3>2. queue'[call[c].op] = NoEntry
      BY <1>2, <1>3, <3>1 DEF Inductive, TypeOK
    <3>3. call' = call
      BY DEF HandlerWins
    <3>4. QED
      BY <1>3, <3>1, <3>2, <3>3 DEF CallOK
  <2>2. CASE call[c] = NoCall
    BY <2>2 DEF CallOK, HandlerWins
  <2>3. QED
    BY <2>1, <2>2
<1>11. TypeOK'
  BY <1>3, <1>6, <1>8 DEF Inductive, TypeOK, HandlerWins
<1>12. QED
  BY <1>4, <1>6, <1>9, <1>10, <1>11, JobKept DEF Inductive, HandlerWins

LEMMA PullStep ==
    ASSUME Inductive, NEW s \in Syncs, Pull(s)
    PROVE  Inductive'
<1>1. Growing
  BY GrowingKept DEF Pull
<1>2. NewChanges \in SUBSET Changes /\ \A c \in NewChanges : c.cursor \in Nat
  BY DEF Inductive, TypeOK, NewChanges, Changes, Rows
<1>3. PICK max \in Nat :
        sync' = [sync EXCEPT ![s].step = "store", ![s].pulled = NewChanges, ![s].max = max]
  BY <1>2 DEF Inductive, TypeOK, Pull, Highest
<1>4. PICK x \in SyncStates : x = sync[s]
  BY DEF Inductive, TypeOK
<1>5. PICK changes \in SUBSET Changes : changes = NewChanges
  BY <1>2
<1>6. PICK y : y = [x EXCEPT !.step = "store", !.pulled = changes, !.max = max]
  OBVIOUS
<1>7. /\ y \in SyncStates /\ y.step = "store" /\ y.batch = x.batch /\ y.todo = x.todo
      /\ y.applied = x.applied /\ y.rejected = x.rejected
  BY <1>6 DEF SyncStates, Steps
<1>8. sync' = [sync EXCEPT ![s] = y]
  BY <1>3, <1>4, <1>5, <1>6 DEF Inductive, TypeOK
<1>9. sync' \in [Syncs -> SyncStates] /\ \A t \in Syncs : SyncOK(t)'
  BY <1>1, <1>4, <1>7, <1>8, SyncTo
<1>10. QED
  BY <1>9, OnlySync DEF Inductive, TypeOK, Pull

LEMMA StorePulledStep ==
    ASSUME Inductive, NEW s \in Syncs, NEW c \in sync[s].pulled, StorePulled(s, c)
    PROVE  Inductive'
<1>1. Growing
  BY GrowingKept DEF StorePulled
<1>2. PICK x \in SyncStates : x = sync[s]
  BY DEF Inductive, TypeOK
<1>3. c \in Changes
  BY <1>2, HeldType
<1>4. store' \in [Recs -> Copies]
  BY <1>3 DEF Inductive, TypeOK, StorePulled, Changes, Copies, NoCopy, Data
<1>5. PICK y : y = [x EXCEPT !.pulled = @ \ {c}]
  OBVIOUS
<1>6. /\ y \in SyncStates /\ y.step = "store" /\ y.batch = x.batch /\ y.todo = x.todo
      /\ y.applied = x.applied /\ y.rejected = x.rejected
  BY <1>2, <1>5 DEF SyncStates, StorePulled, At
<1>7. sync' = [sync EXCEPT ![s] = y]
  BY <1>2, <1>5 DEF Inductive, TypeOK, StorePulled
<1>8. sync' \in [Syncs -> SyncStates] /\ \A t \in Syncs : SyncOK(t)'
  BY <1>1, <1>2, <1>6, <1>7, SyncTo
<1>9. TypeOK'
  BY <1>4, <1>8 DEF Inductive, TypeOK, StorePulled
<1>10. QED
  BY <1>1, <1>8, <1>9, CallsKept, QueueKept, JobKept DEF Inductive, StorePulled

LEMMA SaveCursorStep ==
    ASSUME Inductive, NEW s \in Syncs, SaveCursor(s)
    PROVE  Inductive'
<1>1. Growing
  BY GrowingKept DEF SaveCursor
<1>2. sync' \in [Syncs -> SyncStates] /\ \A t \in Syncs : SyncOK(t)'
  BY <1>1, RecoverType DEF SaveCursor
<1>3. lastCursor' \in Nat
  BY HeldType DEF SaveCursor
<1>4. TypeOK'
  BY <1>2, <1>3 DEF Inductive, TypeOK, SaveCursor
<1>5. QED
  BY <1>1, <1>2, <1>4, CallsKept, QueueKept, JobKept DEF Inductive, SaveCursor

LEMMA FailedStep ==
    ASSUME Inductive, NEW s \in Syncs, NEW t \in sync[s].todo, Retry(s, t) \/ MarkFailed(s, t)
    PROVE  Inductive'
<1>1. Growing
  BY GrowingKept DEF Retry, MarkFailed
<1>2. PICK x \in SyncStates : x = sync[s]
  BY DEF Inductive, TypeOK
<1>3. t \in Tried
  BY <1>2, HeldType
<1>4. PICK o \in Ops, n \in Nat : o = t.op /\ n = t.retries + 1
  BY <1>3 DEF Tried
<1>5. \/ Patch(o, [queue[o] EXCEPT !.status = "failed", !.retries = n])
      \/ Patch(o, [queue[o] EXCEPT !.retries = n, !.waiting = TRUE])
  BY <1>4 DEF Retry, MarkFailed, Retried
<1>6. /\ queue' \in [Ops -> Entries \cup {NoEntry}]
      /\ \A p \in Ops : QueueOK(p)'
      /\ \A p \in Ops : queue[p] = NoEntry => queue'[p] = NoEntry
  <2>1. CASE Patch(o, [queue[o] EXCEPT !.status = "failed", !.retries = n])
    BY <1>1, <2>1, PatchOK, EntryMarked DEF Inductive
  <2>2. CASE Patch(o, [queue[o] EXCEPT !.retries = n, !.waiting = TRUE])
    <3>1. queue[o].status = "applied" => o \in done'
      BY <1>1 DEF Inductive, QueueOK, Growing
    <3>2. PICK e : e = [queue[o] EXCEPT !.retries = n, !.waiting = TRUE]
      OBVIOUS
    <3>3. Queued(o) => e \in Entries /\ e.status = queue[o].status
      <4>1. SUFFICES ASSUME Queued(o)
                     PROVE  e \in Entries /\ e.status = queue[o].status
        OBVIOUS
      <4>2. PICK e0 \in Entries : e0 = queue[o]
        BY <4>1 DEF Inductive, TypeOK, Queued, NoEntry
      <4>3. e = [e0 EXCEPT !.retries = n, !.waiting = TRUE]
        BY <3>2, <4>2
      <4>4. /\ [e0 EXCEPT !.retries = n, !.waiting = TRUE] \in Entries
            /\ [e0 EXCEPT !.retries = n, !.waiting = TRUE].status = e0.status
        BY DEF Entries
      <4>5. QED
        BY <4>2, <4>3, <4>4
    <3>4. Patch(o, e)
      BY <2>2, <3>2
    <3>5. QED
      BY <1>1, <3>1, <3>3, <3>4, PatchOK
  <2>3. QED
    BY <1>5, <2>1, <2>2
<1>7. sync' \in [Syncs -> SyncStates] /\ \A u \in Syncs : SyncOK(u)'
  <2>1. PICK y : y = [x EXCEPT !.todo = @ \ {t}]
    OBVIOUS
  <2>2. /\ y \in SyncStates /\ y.step # "poll" /\ y.batch = x.batch /\ y.todo = x.todo \ {t}
        /\ y.applied = x.applied /\ y.rejected = x.rejected
    BY <1>2, <2>1 DEF SyncStates, Retry, MarkFailed, At
  <2>3. sync' = [sync EXCEPT ![s] = y]
    BY <1>2, <2>1 DEF Inductive, TypeOK, Retry, MarkFailed
  <2>4. QED
    BY <1>1, <1>2, <2>2, <2>3, SyncTo
<1>8. TypeOK'
  BY <1>6, <1>7 DEF Inductive, TypeOK, Retry, MarkFailed
<1>9. QED
  BY <1>1, <1>6, <1>7, <1>8, CallsKept, JobKept DEF Inductive, Retry, MarkFailed

LEMMA ElapseStep ==
    ASSUME Inductive, NEW o \in Ops, Elapse(o)
    PROVE  Inductive'
<1>1. Growing
  BY GrowingKept DEF Elapse
<1>2. PICK e \in Entries : e = queue[o]
  BY DEF Inductive, TypeOK, Elapse, Pending, NoEntry
<1>3. queue' = [queue EXCEPT ![o] = [e EXCEPT !.waiting = FALSE]]
  BY <1>2 DEF Inductive, TypeOK, Elapse
<1>4. [e EXCEPT !.waiting = FALSE] \in Entries /\ [e EXCEPT !.waiting = FALSE].status = e.status
  BY DEF Entries
<1>5. e # NoEntry
  BY DEF Entries, NoEntry
<1>6. /\ queue' \in [Ops -> Entries \cup {NoEntry}]
      /\ \A p \in Ops \ {o} : queue'[p] = queue[p]
      /\ queue'[o].status = queue[o].status
      /\ queue[o] # NoEntry
  BY <1>2, <1>3, <1>4, <1>5 DEF Inductive, TypeOK
<1>7. ASSUME NEW p \in Ops
      PROVE  QueueOK(p)' /\ (queue[p] = NoEntry => queue'[p] = NoEntry)
  BY <1>1, <1>6 DEF Inductive, QueueOK, Growing
<1>8. TypeOK'
  BY <1>6 DEF Inductive, TypeOK, Elapse
<1>9. QED
  BY <1>1, <1>7, <1>8, CallsKept, SyncKept, JobKept DEF Inductive, Elapse

LEMMA ReloadStep ==
    ASSUME Inductive, Reload
    PROVE  Inductive'
<1>1. Growing
  BY GrowingKept DEF Reload
<1>2. faults' \in 0..MaxFaults
  BY FaultType DEF Inductive, Reload
<1>3. NoSync \in SyncStates
  BY DEF NoSync, SyncAt, SyncStates, Steps
<1>4. sync' = [s \in Syncs |-> NoSync] /\ call' = [c \in Calls |-> NoCall]
  BY DEF Reload
<1>5. TypeOK'
  BY <1>2, <1>3, <1>4 DEF Inductive, TypeOK, Reload, CallStates, NoCall
<1>6. \A c \in Calls : CallOK(c)'
  BY <1>4 DEF CallOK
<1>7. \A s \in Syncs : SyncOK(s)'
  BY <1>4 DEF SyncOK, At, NoSync, SyncAt, OpsOf, Edited
<1>8. QED
  BY <1>1, <1>5, <1>6, <1>7, QueueKept, JobKept DEF Inductive, Reload

-----------------------------------------------------------------------------
(* The theorems. *)

LEMMA SyncStepInductive ==
    ASSUME Inductive, NEW s \in Syncs, SyncStep(s)
    PROVE  Inductive'
<1>1. CASE Push(s)
  BY <1>1, PostStep, PollCompletedStep, PollFailedStep DEF Push
<1>2. CASE Results(s)
  BY <1>2, MarkAppliedStep, ConfirmStep, StageStep, ServerWinsStep, HandlerWinsStep DEF Results
<1>3. CASE Finish(s)
  BY <1>3, PullStep, SaveCursorStep, StageStep, StorePulledStep, FailedStep DEF Finish
<1>4. QED
  BY <1>1, <1>2, <1>3, BeginStep DEF SyncStep

LEMMA StepInductive ==
    ASSUME Inductive, [Next]_vars
    PROVE  Inductive'
<1>1. CASE \E c \in Calls, r \in Recs, o \in Ops : CreateRecord(c, r, o) \/ ReadRecord(c, r, o)
  BY <1>1, CreateRecordStep, ReadRecordStep
<1>2. CASE \E c \in Calls : CallStep(c)
  BY <1>2, WriteRecordStep, EnqueueStep DEF CallStep
<1>3. CASE \E s \in Syncs : SyncStep(s) \/ SyncFault(s)
  BY <1>3, SyncStepInductive, SyncFaultStep
<1>4. CASE \E j \in Jobs : JobStep(j) \/ JobFault(j)
  BY <1>4, JobRepeatStep, JobApplyStep, JobRejectStep, JobErrorStep DEF JobStep, JobFault
<1>5. CASE \E r \in Recs : ForeignPut(r) \/ ForeignDelete(r)
  BY <1>5, ForeignStep
<1>6. CASE \E o \in Ops : Elapse(o)
  BY <1>6, ElapseStep
<1>7. CASE Reload
  BY <1>7, ReloadStep
<1>8. CASE UNCHANGED vars
  <2>1. Growing
    BY <1>8, GrowingKept DEF vars
  <2>2. TypeOK'
    BY <1>8 DEF Inductive, TypeOK, vars
  <2>3. QED
    BY <1>8, <2>1, <2>2, CallsKept, QueueKept, SyncKept, JobKept DEF Inductive, vars
<1>9. QED
  BY <1>1, <1>2, <1>3, <1>4, <1>5, <1>6, <1>7, <1>8 DEF Next

\* The invariant below holds in every reachable state, whatever fails.
THEOREM InductiveCorrect == Spec => []Inductive
<1>1. Init => Inductive
  BY InitInductive
<1>2. Inductive /\ [Next]_vars => Inductive'
  BY StepInductive
<1>3. QED
  BY <1>1, <1>2, PTL DEF Spec

\* The client's tables, its calls and the server's jobs are well typed.
THEOREM TypeCorrect == Spec => []TypeOK
<1>1. Inductive => TypeOK
  BY DEF Inductive
<1>2. QED
  BY <1>1, InductiveCorrect, PTL

\* An operation marked applied in the queue (syncra-sdk.ts:529) has been applied
\* by the server, whatever overlaps, fails, is repeated or is given up.
THEOREM AppliedIsDoneCorrect == Spec => []AppliedIsDone
<1>1. Inductive => AppliedIsDone
  BY DEF Inductive, QueueOK, AppliedIsDone
<1>2. QED
  BY <1>1, InductiveCorrect, PTL

-----------------------------------------------------------------------------
(* Refinement of SerialStore: what the server of the client does is what the    *)
(* operation processor does where its transactions do not overlap.              *)

StoreOf == [r \in Recs |-> [version |-> srv[r].version, data |-> srv[r].data]]

Compared == {r \in Recs : srv[r].version > 0}

\* A change of a row, or its deletion, as the abstract store shows it.
LEMMA ChangeShown ==
    ASSUME TypeOK, NEW r \in Recs, NEW version \in Nat, NEW data, Change(r, version, data)
    PROVE  /\ StoreOf' = [StoreOf EXCEPT ![r] = [version |-> version, data |-> data]]
           /\ Compared' = IF version > 0 THEN Compared \cup {r} ELSE Compared \ {r}
BY DEF TypeOK, Change, StoreOf, Compared

\* A client makes an operation.
LEMMA NewEditAsks ==
    ASSUME TypeOK, NEW o \in Ops, NEW type \in Types, NEW r \in Recs, NEW base,
           NewEdit(o, type, r, base), UNCHANGED server
    PROVE  Serial!SerialNext
<1>1. /\ edit[o] = NoEdit /\ edit'[o].rec = r
      /\ edit'[o] = [type |-> type, rec |-> r, base |-> base]
      /\ edit' = [edit EXCEPT ![o] = edit'[o]]
  BY DEF TypeOK, NewEdit
<1>2. [type |-> type, rec |-> r, base |-> base] # NoEdit
  BY DEF Types, NoEdit
<1>3. Serial!Ask(o)
  BY <1>1, <1>2 DEF Serial!Ask
<1>4. QED
  BY <1>3 DEF Serial!SerialNext

\* Applying an operation is one step of the abstract store, which allows it only
\* if the operation was not applied before, and to the version its client had.
LEMMA ApplySerial ==
    ASSUME Inductive, NEW o \in Ops, edit[o] \in EditsOf, edit' = edit, Apply(o)
    PROVE  Serial!SerialNext
<1>1. PICK r \in Recs : r = edit[o].rec
  BY DEF EditsOf
<1>2. PICK n \in Nat : n = srv[r].version
  BY DEF Inductive, TypeOK, Rows
<1>3. TypeOK /\ StoreOf[r].version = n /\ (r \in Compared <=> n > 0)
  BY <1>2 DEF Inductive, StoreOf, Compared
<1>4. o \notin done /\ done' = done \cup {o} /\ Mutate(o)
  BY DEF Apply
<1>5. Serial!Due(o)
  <2>1. edit[o].type = "create" \/ n = 0 \/ n = edit[o].base
    BY <1>1, <1>2 DEF Apply, Conflict
  <2>2. QED
    BY <1>1, <1>3, <1>4, <2>1 DEF Serial!Due, StoreOf, Compared
<1>6. CASE edit[o].type # "delete"
  <2>1. Change(r, n + 1, o) /\ edit[o].type \in {"create", "update"}
    BY <1>1, <1>2, <1>4, <1>6 DEF Mutate, EditsOf, Types
  <2>2. /\ StoreOf' = [StoreOf EXCEPT ![r] = [version |-> n + 1, data |-> o]]
        /\ Compared' = Compared \cup {r}
    BY <1>3, <2>1, ChangeShown
  <2>3. Serial!Put(o)
    BY <1>1, <1>3, <1>4, <2>1, <2>2 DEF Serial!Put, StoreOf
  <2>4. Compared' = Compared \cup {q \in {r} : Serial!Inserted(o)}
    <3>1. Serial!Inserted(o) <=> edit[o].type = "create" \/ n = 0
      BY <1>1, <1>3 DEF Serial!Inserted, StoreOf
    <3>2. QED
      BY <1>3, <2>2, <3>1
  <2>5. QED
    BY <1>1, <1>5, <2>3, <2>4
    DEF Serial!SerialNext, Serial!SerialPut, Compared
<1>7. CASE edit[o].type = "delete" /\ n > 0
  <2>1. Change(r, 0, None)
    BY <1>1, <1>2, <1>4, <1>7 DEF Mutate
  <2>2. /\ StoreOf' = [StoreOf EXCEPT ![r] = [version |-> 0, data |-> None]]
        /\ Compared' = Compared \ {r}
    BY <1>3, <2>1, ChangeShown
  <2>3. Serial!Remove(o)
    BY <1>1, <1>4, <1>7, <2>2 DEF Serial!Remove, Serial!Empty, StoreOf
  <2>4. QED
    BY <1>1, <1>3, <1>5, <1>7, <2>2, <2>3
    DEF Serial!SerialNext, Serial!SerialRemove, StoreOf, Compared
<1>8. CASE edit[o].type = "delete" /\ n = 0
  <2>1. srv' = srv
    BY <1>1, <1>2, <1>4, <1>8 DEF Mutate
  <2>2. Serial!Miss(o)
    BY <1>4, <1>8, <2>1 DEF Serial!Miss, StoreOf
  <2>3. QED
    BY <1>1, <1>3, <1>5, <1>8, <2>1, <2>2
    DEF Serial!SerialNext, Serial!SerialMiss, StoreOf, Compared
<1>9. QED
  BY <1>6, <1>7, <1>8

\* Other clients put and delete whole records as well.
LEMMA ForeignSerial ==
    ASSUME TypeOK, NEW r \in Recs, ForeignPut(r) \/ ForeignDelete(r)
    PROVE  Serial!SerialNext
<1>1. PICK n \in Nat : n = srv[r].version
  BY DEF TypeOK, Rows
<1>2. StoreOf[r].version = n
  BY <1>1 DEF StoreOf
<1>3. CASE ForeignPut(r)
  <2>1. Change(r, n + 1, Other) /\ edit' = edit /\ done' = done
    BY <1>1, <1>3 DEF ForeignPut
  <2>2. /\ StoreOf' = [StoreOf EXCEPT ![r] = [version |-> n + 1, data |-> Other]]
        /\ Compared' = Compared \cup {r}
    BY <2>1, ChangeShown
  <2>3. Serial!OutsiderPuts(r, Other)
    BY <1>2, <2>1, <2>2 DEF Serial!OutsiderPuts, StoreOf, Compared
  <2>4. QED
    BY <2>3 DEF Serial!SerialNext
<1>4. CASE ForeignDelete(r)
  <2>1. Change(r, 0, None) /\ n > 0 /\ edit' = edit /\ done' = done
    BY <1>1, <1>4 DEF ForeignDelete
  <2>2. /\ StoreOf' = [StoreOf EXCEPT ![r] = [version |-> 0, data |-> None]]
        /\ Compared' = Compared \ {r}
    BY <2>1, ChangeShown
  <2>3. Serial!OutsiderRemoves(r)
    BY <1>2, <2>1, <2>2 DEF Serial!OutsiderRemoves, Serial!Empty, StoreOf, Compared
  <2>4. QED
    BY <2>3 DEF Serial!SerialNext
<1>5. QED
  BY <1>3, <1>4

\* The steps of a job: only the one that applies an operation is seen.
LEMMA JobSerial ==
    ASSUME Inductive, NEW j \in Jobs, JobStep(j) \/ JobFault(j)
    PROVE  Serial!SerialNext \/ UNCHANGED Serial!serialVars
<1>1. PICK o \in First(job[j].todo) :
          JobRepeat(j, o) \/ JobApply(j, o) \/ JobReject(j, o) \/ JobError(j, o)
  BY DEF JobStep, JobFault
<1>2. o \in Ops /\ edit[o] \in EditsOf
  BY JobOpType
<1>3. CASE Apply(o)
  BY <1>1, <1>2, <1>3, ApplySerial DEF JobRepeat, JobApply, JobReject, JobError
<1>4. CASE UNCHANGED <<edit, server>>
  BY <1>4 DEF Serial!serialVars, Serial!storeVars
<1>5. QED
  BY <1>1, <1>3, <1>4 DEF JobRepeat, JobApply, JobReject, JobError

\* The steps of sync(): only a conflict handler makes an operation.
LEMMA SyncSerial ==
    ASSUME Inductive, NEW s \in Syncs, SyncStep(s) \/ SyncFault(s)
    PROVE  Serial!SerialNext \/ UNCHANGED Serial!serialVars
<1>1. ASSUME NEW a \in sync[s].rejected, NEW o \in Ops, HandlerWins(s, a, o)
      PROVE  Serial!SerialNext
  <2>1. PICK r \in Recs, base \in Nat : r = edit[a.op].rec /\ base = a.version
    BY HeldType DEF Answers, EditsOf
  <2>2. NewEdit(o, "update", r, base) /\ UNCHANGED server
    BY <1>1, <2>1 DEF HandlerWins
  <2>3. QED
    BY <2>2, NewEditAsks DEF Inductive, Types
<1>2. CASE UNCHANGED <<edit, server>>
  BY <1>2 DEF Serial!serialVars, Serial!storeVars
<1>3. QED
  BY <1>1, <1>2
  DEF SyncStep, SyncFault, Begin, Push, Post, PollCompleted, PollFailed, Results, MarkApplied,
      Confirm, ReadRejected, ServerWins, AllApplied, AllRejected, Finish, Pull, SaveCursor,
      Throw, StorePulled, Retry, MarkFailed, PostUnanswered, PostFails, GiveUp, PullFails

LEMMA StepSerial ==
    ASSUME Inductive, [Next]_vars
    PROVE  [Serial!SerialNext]_(Serial!serialVars)
<1>1. ASSUME NEW c \in Calls, NEW r \in Recs, NEW o \in Ops,
             CreateRecord(c, r, o) \/ ReadRecord(c, r, o)
      PROVE  Serial!SerialNext
  <2>1. PICK type \in Types, base \in {1, store[r].version} : NewEdit(o, type, r, base)
    BY <1>1, SdkClientAssumption DEF CreateRecord, ReadRecord, Types
  <2>2. UNCHANGED server
    BY <1>1 DEF CreateRecord, ReadRecord
  <2>3. QED
    BY <2>1, <2>2, NewEditAsks DEF Inductive
<1>2. CASE UNCHANGED <<edit, server>>
  BY <1>2 DEF Serial!serialVars, Serial!storeVars
<1>3. CASE \E s \in Syncs : SyncStep(s) \/ SyncFault(s)
  BY <1>3, SyncSerial
<1>4. CASE \E j \in Jobs : JobStep(j) \/ JobFault(j)
  BY <1>4, JobSerial
<1>5. CASE \E r \in Recs : ForeignPut(r) \/ ForeignDelete(r)
  BY <1>5, ForeignSerial DEF Inductive
<1>6. QED
  BY <1>1, <1>2, <1>3, <1>4, <1>5 DEF Next, vars, CallStep, WriteRecord, Enqueue, Elapse, Reload

\* The server the client works against is the store that the operation processor
\* implements where its transactions do not overlap: however jobs are repeated,
\* given up, failed or run at the same time, no operation is applied twice and
\* none to a version its client did not have.
THEOREM ImplementsSerialStoreCorrect == Spec => ImplementsSerialStore
<1>1. Init => Serial!SerialInit
  BY DEF Init, Serial!SerialInit, Serial!Init, Serial!Empty, NoRow
<1>2. Inductive /\ [Next]_vars => [Serial!SerialNext]_(Serial!serialVars)
  BY StepSerial
<1>3. QED
  BY <1>1, <1>2, InductiveCorrect, PTL DEF Spec, ImplementsSerialStore, Serial!SerialSpec

-----------------------------------------------------------------------------
(* Settled operations stay settled. *)

SettledKept ==
    \A o \in Ops : queue[o].status \in {"applied", "failed"} => queue'[o].status # "pending"

LEMMA PatchSettles ==
    ASSUME Inductive, NEW o \in Ops, NEW entry, Patch(o, entry),
           Queued(o) => entry.status # "pending" \/ entry.status = queue[o].status
    PROVE  SettledKept
BY DEF Inductive, TypeOK, Patch, SettledKept

\* An operation that is queued has no entry yet.
LEMMA NewEntrySettles ==
    ASSUME Inductive, NEW o \in Ops, queue[o] = NoEntry,
           queue' = [queue EXCEPT ![o] = NewEntry]
    PROVE  SettledKept
BY DEF Inductive, TypeOK, SettledKept, NoEntry

LEMMA RetrySettles ==
    ASSUME Inductive, NEW s \in Syncs, NEW t \in sync[s].todo, Retry(s, t) \/ MarkFailed(s, t)
    PROVE  SettledKept
<1>1. t \in Tried
  BY HeldType
<1>2. PICK o \in Ops, n \in Nat : o = t.op /\ n = t.retries + 1
  BY <1>1 DEF Tried
<1>3. PICK entry : /\ Patch(o, entry)
                   /\ \/ entry = [queue[o] EXCEPT !.status = "failed", !.retries = n]
                      \/ entry = [queue[o] EXCEPT !.retries = n, !.waiting = TRUE]
  BY <1>2 DEF Retry, MarkFailed, Retried
<1>4. ASSUME Queued(o)
      PROVE  entry.status # "pending" \/ entry.status = queue[o].status
  <2>1. PICK e \in Entries : e = queue[o]
    BY <1>4 DEF Inductive, TypeOK, Queued, NoEntry
  <2>2. /\ [e EXCEPT !.status = "failed", !.retries = n].status = "failed"
        /\ [e EXCEPT !.retries = n, !.waiting = TRUE].status = e.status
    BY DEF Entries
  <2>3. QED
    BY <1>3, <2>1, <2>2
<1>5. QED
  BY <1>3, <1>4, PatchSettles

LEMMA ResultSettles ==
    ASSUME Inductive, NEW s \in Syncs, Results(s)
    PROVE  SettledKept
<1>1. ASSUME NEW a \in sync[s].applied, MarkApplied(s, a)
      PROVE  SettledKept
  <2>1. PICK o \in Ops : o = a.op
    BY HeldType
  <2>2. Queued(o) => [queue[o] EXCEPT !.status = "applied"].status = "applied"
    BY EntryMarked DEF Inductive
  <2>3. Patch(o, [queue[o] EXCEPT !.status = "applied"])
    BY <1>1, <2>1 DEF MarkApplied
  <2>4. QED
    BY <2>2, <2>3, PatchSettles
<1>2. ASSUME NEW a \in sync[s].rejected, ServerWins(s, a)
      PROVE  SettledKept
  <2>1. a.op \in Ops
    BY HeldType
  <2>2. QED
    BY <1>2, <2>1 DEF Inductive, TypeOK, ServerWins, SettledKept, NoEntry
<1>3. ASSUME NEW a \in sync[s].rejected, NEW o \in Ops, HandlerWins(s, a, o)
      PROVE  SettledKept
  <2>1. queue[o] = NoEntry
    BY <1>3 DEF Inductive, QueueOK, HandlerWins, NewEdit
  <2>2. QED
    BY <1>3, <2>1, NewEntrySettles DEF HandlerWins
<1>4. CASE UNCHANGED queue
  BY <1>4 DEF SettledKept
<1>5. QED
  BY <1>1, <1>2, <1>3, <1>4 DEF Results, Confirm, ReadRejected, AllApplied, AllRejected

LEMMA StepSettles ==
    ASSUME Inductive, [Next]_vars
    PROVE  SettledKept
<1>1. ASSUME NEW c \in Calls, CallStep(c)
      PROVE  SettledKept
  <2>1. CASE Enqueue(c)
    <3>1. call[c].op \in Ops /\ queue[call[c].op] = NoEntry
      BY <2>1 DEF Inductive, CallOK, Enqueue, NoCall
    <3>2. QED
      BY <2>1, <3>1, NewEntrySettles DEF Enqueue
  <2>2. CASE WriteRecord(c)
    BY <2>2 DEF WriteRecord, SettledKept
  <2>3. QED
    BY <1>1, <2>1, <2>2 DEF CallStep
<1>2. ASSUME NEW s \in Syncs, SyncStep(s) \/ SyncFault(s)
      PROVE  SettledKept
  <2>1. CASE Results(s)
    BY <2>1, ResultSettles
  <2>2. CASE \E t \in sync[s].todo : Retry(s, t) \/ MarkFailed(s, t)
    BY <2>2, RetrySettles
  <2>3. CASE UNCHANGED queue
    BY <2>3 DEF SettledKept
  <2>4. QED
    BY <1>2, <2>1, <2>2, <2>3
    DEF SyncStep, SyncFault, Begin, Push, Post, PollCompleted, PollFailed, Finish, Pull,
        SaveCursor, Throw, StorePulled, PostUnanswered, PostFails, GiveUp, PullFails
<1>3. ASSUME NEW o \in Ops, Elapse(o)
      PROVE  SettledKept
  BY <1>3 DEF Inductive, TypeOK, Elapse, Pending, SettledKept
<1>4. CASE UNCHANGED queue
  BY <1>4 DEF SettledKept
<1>5. CASE \E j \in Jobs : JobStep(j) \/ JobFault(j)
  BY <1>4, <1>5 DEF JobStep, JobFault, JobRepeat, JobApply, JobReject, JobError
<1>6. QED
  BY <1>1, <1>2, <1>3, <1>4, <1>5
  DEF Next, vars, CreateRecord, ReadRecord, ForeignPut, ForeignDelete, Reload

\* An operation marked applied or failed never becomes pending again, although
\* applyRetryLogic (syncra-sdk.ts:678) writes from what was read before the
\* requests and another sync() may have settled the operation since.
THEOREM SettledIsFinalCorrect == Spec => SettledIsFinal
<1>1. Inductive /\ [Next]_vars => [SettledKept]_vars
  BY StepSettles
<1>2. Spec => [][SettledKept]_vars
  BY <1>1, InductiveCorrect, PTL DEF Spec
<1>3. QED
  BY <1>2 DEF SettledIsFinal, SettledKept

-----------------------------------------------------------------------------
(* A client that has nothing left to do has no stale copy.                  *)
(*                                                                          *)
(* For one sync() at a time on a page that is not closed: what overlapping  *)
(* calls of sync() and a closed page make of the copies is what the runs    *)
(* sdk_overlap and sdk_stuck are about.                                     *)

OneSync == \A s, t \in Syncs : s = t

\* The data of an operation is found under the record of its edit only.
Comes(data, r) ==
    data \in Ops => edit[data] # NoEdit /\ edit[data].rec = r /\ edit[data].type # "delete"

Same(r, copy) == srv[r].version = copy.version /\ srv[r].data = copy.data

\* What the answers not yet stored locally say is what the server has, or the
\* pull is still to bring something newer.
AppliedAhead(a)  == edit[a.op].type # "delete" => srv[edit[a.op].rec].cursor > lastCursor
RejectedAhead(a) == Same(edit[a.op].rec, a) \/ srv[edit[a.op].rec].cursor > lastCursor

AnswersKnown(applied, rejected) ==
    /\ \A a \in applied : a.data = a.op /\ AppliedAhead(a)
    /\ \A a \in rejected : Comes(a.data, edit[a.op].rec) /\ RejectedAhead(a)

\* A sync() holds answers only while it stores them; an applied deletion has
\* no copy to confirm.
StageHolds(s) ==
    /\ sync[s].step \notin {"applied", "confirm"} => sync[s].applied = {}
    /\ sync[s].step \notin {"applied", "confirm", "rejected", "resolve"} => sync[s].rejected = {}
    /\ At(s, "confirm") => \A a \in FirstAnswer(sync[s].applied) : edit[a.op].type # "delete"

SyncKnown(s) ==
    /\ StageHolds(s)
    /\ AnswersKnown(sync[s].applied, sync[s].rejected)
    /\ At(s, "poll") => AnswersKnown(job[sync[s].job].applied, job[sync[s].job].rejected)
    /\ At(s, "store") =>
          /\ sync[s].max <= seq
          /\ \A c \in sync[s].pulled :
                Comes(c.data, c.rec) /\ (Same(c.rec, c) \/ srv[c.rec].cursor > sync[s].max)

\* The record is in the pull that is being stored, or in a later one.
Behind(r) ==
    \/ srv[r].cursor > lastCursor /\ \A s \in Syncs : ~At(s, "store")
    \/ \E s \in Syncs : /\ At(s, "store")
                        /\ srv[r].cursor > sync[s].max \/ \E c \in sync[s].pulled : c.rec = r

Unsettled(o) == queue[o].status \in {"pending", "failed"} \/ \E c \in Calls : call[c].op = o

\* Why a copy differs from the server's row: it is a change not settled yet, or
\* there is something to pull.
Explained(r) ==
    Has(r) /\ ~Same(r, store[r]) =>
        Behind(r) \/ (store[r].data \in Ops /\ Unsettled(store[r].data))

RecordKnown(r) ==
    /\ Comes(store[r].data, r) /\ Comes(srv[r].data, r)
    /\ srv[r].cursor <= seq
    /\ Explained(r)

Known ==
    /\ lastCursor <= seq
    /\ \A r \in Recs : RecordKnown(r)
    /\ \A s \in Syncs : SyncKnown(s)

\* What every step but the saving of the cursor leaves as it is: the edits, and
\* the rows of the server up to the last cursor.
Steady ==
    /\ \A o \in Ops : edit[o] # NoEdit => edit'[o] = edit[o]
    /\ \A r \in Recs : \/ srv'[r] = srv[r]
                       \/ srv'[r].cursor > seq /\ srv'[r].cursor <= seq' /\ Comes(srv[r].data, r)'
    /\ lastCursor' = lastCursor /\ seq <= seq'

LEMMA ComesKept ==
    ASSUME Steady, NEW data, NEW r, Comes(data, r)
    PROVE  Comes(data, r)'
BY DEF Steady, Comes

\* The numbers the argument compares.
Numbers ==
    /\ seq \in Nat /\ lastCursor \in Nat
    /\ \A r \in Recs : srv[r].cursor \in Nat /\ srv[r].version \in Nat /\ store[r].version \in Nat
    /\ \A s \in Syncs : sync[s].max \in Nat
    /\ \A o \in Ops : edit[o] # NoEdit => edit[o].rec \in Recs

LEMMA KnownTypes ==
    ASSUME TypeOK
    PROVE  Numbers
BY DEF Numbers, TypeOK, Rows, Copies, SyncStates, EditsOf

LEMMA KnownTypesNext ==
    ASSUME TypeOK'
    PROVE  Numbers'
BY DEF Numbers, TypeOK, Rows, Copies, SyncStates, EditsOf

LEMMA AnswersKept ==
    ASSUME TypeOK, TypeOK', lastCursor <= seq, Steady,
           NEW applied, NEW rejected, AnswersKnown(applied, rejected),
           Edited(OpsOf(applied)), Edited(OpsOf(rejected)),
           OpsOf(applied) \subseteq Ops, OpsOf(rejected) \subseteq Ops
    PROVE  AnswersKnown(applied, rejected)'
<1>1. ASSUME NEW a, a.op \in Ops, edit[a.op] # NoEdit
      PROVE  /\ edit'[a.op] = edit[a.op]
             /\ AppliedAhead(a) => AppliedAhead(a)'
             /\ RejectedAhead(a) => RejectedAhead(a)'
  <2>1. PICK r \in Recs : r = edit[a.op].rec
    BY <1>1, KnownTypes DEF Numbers
  <2>2. edit'[a.op] = edit[a.op]
    BY <1>1 DEF Steady
  <2>3. srv'[r] = srv[r] \/ srv'[r].cursor > lastCursor'
    BY KnownTypes, KnownTypesNext DEF Numbers, Steady
  <2>4. QED
    BY <2>1, <2>2, <2>3, lastCursor' = lastCursor DEF AppliedAhead, RejectedAhead, Same, Steady
<1>2. ASSUME NEW a \in applied
      PROVE  a.data = a.op /\ AppliedAhead(a)'
  BY <1>1 DEF AnswersKnown, OpsOf, Edited
<1>3. ASSUME NEW a \in rejected
      PROVE  Comes(a.data, edit[a.op].rec)' /\ RejectedAhead(a)'
  <2>1. a.op \in Ops /\ edit[a.op] # NoEdit
    BY DEF OpsOf, Edited
  <2>2. edit'[a.op] = edit[a.op]
    BY <1>1, <2>1
  <2>3. Comes(a.data, edit[a.op].rec) /\ RejectedAhead(a)
    BY DEF AnswersKnown
  <2>4. QED
    BY <1>1, <2>1, <2>2, <2>3 DEF Comes, Steady
<1>4. QED
  BY <1>2, <1>3 DEF AnswersKnown

\* Of a sync() and of the job it waits for.
LEMMA SyncAnswersKept ==
    ASSUME Inductive, Inductive', Known, Steady, NEW s \in Syncs
    PROVE  /\ \A applied, rejected :
                 applied = sync[s].applied /\ rejected = sync[s].rejected =>
                    AnswersKnown(applied, rejected)'
           /\ At(s, "poll") => \A applied, rejected :
                 applied = job[sync[s].job].applied /\ rejected = job[sync[s].job].rejected =>
                    AnswersKnown(applied, rejected)'
<1>1. TypeOK /\ TypeOK' /\ lastCursor <= seq /\ SyncOK(s) /\ SyncKnown(s)
  BY DEF Inductive, Known
<1>2. ASSUME NEW applied, NEW rejected, applied = sync[s].applied, rejected = sync[s].rejected
      PROVE  AnswersKnown(applied, rejected)'
  BY <1>1, <1>2, SyncOps, AnswersKept DEF SyncOK, SyncKnown
<1>3. ASSUME At(s, "poll"), NEW applied, NEW rejected,
             applied = job[sync[s].job].applied, rejected = job[sync[s].job].rejected
      PROVE  AnswersKnown(applied, rejected)'
  <2>1. PICK j \in Jobs : j = sync[s].job
    BY <1>1, <1>3 DEF SyncOK
  <2>2. JobOK(j) /\ AnswersKnown(applied, rejected)
    BY <1>1, <1>3, <2>1 DEF Inductive, SyncKnown
  <2>3. QED
    BY <1>1, <1>3, <2>1, <2>2, JobOps, AnswersKept DEF JobOK
<1>4. QED
  BY <1>2, <1>3

LEMMA StageKept ==
    ASSUME TypeOK, Steady, NEW s \in Syncs, SyncOK(s), StageHolds(s), sync'[s] = sync[s]
    PROVE  StageHolds(s)'
<1>1. ASSUME At(s, "confirm"), NEW a \in FirstAnswer(sync[s].applied)
      PROVE  edit'[a.op].type # "delete"
  <2>1. a.op \in OpsOf(sync[s].applied)
    BY DEF FirstAnswer, OpsOf
  <2>2. a.op \in Ops /\ edit[a.op] # NoEdit
    BY <2>1, SyncOps DEF SyncOK, Edited
  <2>3. QED
    BY <1>1, <2>2 DEF Steady, StageHolds
<1>2. FirstAnswer(sync[s].applied)' = FirstAnswer(sync[s].applied)
  BY DEF FirstAnswer
<1>3. QED
  BY <1>1, <1>2 DEF StageHolds, At

\* What is being stored by a sync() that does not move.
LEMMA PulledKept ==
    ASSUME TypeOK, TypeOK', Steady, NEW s \in Syncs, SyncKnown(s), At(s, "store"), sync'[s] = sync[s]
    PROVE  /\ sync'[s].max <= seq'
           /\ \A c \in sync'[s].pulled :
                /\ Comes(c.data, c.rec)'
                /\ Same(c.rec, c)' \/ srv'[c.rec].cursor > sync'[s].max
<1>1. sync[s].max <= seq /\ sync[s].max <= seq'
  BY KnownTypes, KnownTypesNext DEF Numbers, SyncKnown, Steady
<1>2. ASSUME NEW c \in sync[s].pulled
      PROVE  Comes(c.data, c.rec)' /\ (Same(c.rec, c)' \/ srv'[c.rec].cursor > sync[s].max)
  <2>1. Comes(c.data, c.rec) /\ (Same(c.rec, c) \/ srv[c.rec].cursor > sync[s].max)
    BY DEF SyncKnown
  <2>2. Comes(c.data, c.rec)'
    BY <2>1 DEF Comes, Steady
  <2>3. c.rec \in Recs
    BY SyncOps DEF SyncStates, Changes
  <2>4. srv'[c.rec] = srv[c.rec] \/ srv'[c.rec].cursor > seq
    BY <2>3 DEF Steady
  <2>5. QED
    BY <1>1, <2>1, <2>2, <2>3, <2>4, KnownTypes, KnownTypesNext DEF Numbers, Same
<1>3. QED
  BY <1>1, <1>2

LEMMA SyncKnownKept ==
    ASSUME Inductive, Inductive', Known, Steady, NEW s \in Syncs, sync'[s] = sync[s],
           At(s, "poll") => job'[sync[s].job] = job[sync[s].job]
    PROVE  SyncKnown(s)'
<1>1. TypeOK /\ TypeOK' /\ SyncOK(s) /\ SyncKnown(s) /\ StageHolds(s)
  BY DEF Inductive, Known, SyncKnown
<1>2. StageHolds(s)'
  BY <1>1, StageKept
<1>3. AnswersKnown(sync[s].applied, sync[s].rejected)'
  <2>1. PICK applied, rejected : applied = sync[s].applied /\ rejected = sync[s].rejected
    OBVIOUS
  <2>2. AnswersKnown(applied, rejected)'
    BY <2>1, SyncAnswersKept
  <2>3. QED
    BY <2>1, <2>2 DEF AnswersKnown
<1>4. ASSUME At(s, "poll")
      PROVE  AnswersKnown(job[sync[s].job].applied, job[sync[s].job].rejected)'
  <2>1. PICK applied, rejected : /\ applied = job[sync[s].job].applied
                                 /\ rejected = job[sync[s].job].rejected
    OBVIOUS
  <2>2. AnswersKnown(applied, rejected)'
    BY <1>4, <2>1, SyncAnswersKept
  <2>3. QED
    BY <1>4, <2>1, <2>2 DEF AnswersKnown
<1>5. QED
  BY <1>1, <1>2, <1>3, <1>4, PulledKept DEF SyncKnown, At

\* A copy that a step leaves alone is still explained.
LEMMA RecordKept ==
    ASSUME TypeOK, TypeOK', Known, Steady, NEW r \in Recs, store'[r] = store[r],
           \A s \in Syncs : At(s, "store") \/ sync'[s].step = "store" => sync'[s] = sync[s],
           \/ store[r].data \in Ops /\ Unsettled(store[r].data) => Unsettled(store[r].data)'
           \/ Behind(r)
    PROVE  RecordKnown(r)'
<1>1. RecordKnown(r) /\ lastCursor <= seq
  BY DEF Known
<1>2. Comes(store[r].data, r)' /\ Comes(srv[r].data, r)' /\ srv'[r].cursor <= seq'
  BY <1>1, KnownTypes, KnownTypesNext DEF Numbers, RecordKnown, Comes, Steady
<1>3. \A s \in Syncs : /\ At(s, "store")' <=> At(s, "store")
                       /\ At(s, "store") => sync'[s] = sync[s] /\ sync[s].max <= seq
  BY DEF At, Known, SyncKnown
<1>4. CASE srv'[r] = srv[r]
  <2>1. Behind(r) => Behind(r)'
    BY <1>3, <1>4 DEF Behind, Steady
  <2>2. QED
    BY <1>1, <1>2, <1>4, <2>1 DEF RecordKnown, Explained, Has, Same
<1>5. CASE srv'[r].cursor > seq
  <2>1. Behind(r)'
    BY <1>1, <1>3, <1>5, KnownTypes, KnownTypesNext DEF Numbers, Behind, Steady
  <2>2. QED
    BY <1>2, <2>1 DEF RecordKnown, Explained
<1>6. QED
  BY <1>4, <1>5 DEF Steady

LEMMA NothingMoves ==
    ASSUME edit' = edit, srv' = srv, seq' = seq, lastCursor' = lastCursor, TypeOK
    PROVE  Steady
BY KnownTypes DEF Steady, Numbers

\* A step of the application: no sync() and no job moves.
LEMMA CallKnown ==
    ASSUME Inductive, Inductive', Known, Steady, sync' = sync, job' = job,
           \A r \in Recs : \/ RecordKnown(r)'
                           \/ /\ store'[r] = store[r]
                              /\ \A o \in Ops : Unsettled(o) => Unsettled(o)'
    PROVE  Known'
<1>1. TypeOK /\ TypeOK'
  BY DEF Inductive
<1>2. \A s \in Syncs : SyncKnown(s)'
  BY SyncKnownKept
<1>3. \A r \in Recs : RecordKnown(r)'
  BY <1>1, RecordKept
<1>4. lastCursor' <= seq'
  BY <1>1, KnownTypes, KnownTypesNext DEF Numbers, Known, Steady
<1>5. QED
  BY <1>2, <1>3, <1>4 DEF Known

LEMMA CreateRecordKnown ==
    ASSUME Inductive, Inductive', Known, NEW c \in Calls, NEW r \in Recs, NEW o \in Ops,
           CreateRecord(c, r, o)
    PROVE  Known'
<1> USE DEF CreateRecord
<1>1. TypeOK
  BY DEF Inductive
<1>2. /\ \A p \in Ops : edit[p] # NoEdit => edit'[p] = edit[p]
      /\ edit'[o] = [type |-> "create", rec |-> r, base |-> 1]
  BY <1>1 DEF NewEdit, TypeOK
<1>3. Steady
  BY <1>1, <1>2, KnownTypes DEF Steady, Numbers
<1>4. call'[c].op = o /\ \A d \in Calls \ {c} : call'[d] = call[d]
  BY <1>1 DEF TypeOK, SetCall
<1>5. \A p \in Ops : Unsettled(p) => Unsettled(p)'
  BY <1>4, SdkClientAssumption DEF Unsettled, NoCall
<1>6. \A q \in Recs \ {r} : store'[q] = store[q]
  BY <1>1 DEF TypeOK
<1>7. RecordKnown(r)'
  <2>1. store'[r] = [version |-> 1, data |-> o]
    BY <1>1 DEF TypeOK
  <2>2. Comes(store[r].data, r)'
    BY <1>2, <2>1 DEF Comes, NoEdit
  <2>3. Comes(srv[r].data, r)' /\ srv'[r].cursor <= seq'
    BY <1>3 DEF Known, RecordKnown, Comes, Steady
  <2>4. Unsettled(o)'
    BY <1>4 DEF Unsettled
  <2>5. QED
    BY <2>1, <2>2, <2>3, <2>4 DEF RecordKnown, Explained
<1>8. QED
  BY <1>3, <1>5, <1>6, <1>7, CallKnown

LEMMA ReadRecordKnown ==
    ASSUME Inductive, Inductive', Known, NEW c \in Calls, NEW r \in Recs, NEW o \in Ops,
           ReadRecord(c, r, o)
    PROVE  Known'
<1> USE DEF ReadRecord
<1>1. TypeOK
  BY DEF Inductive
<1>2. \A p \in Ops : edit[p] # NoEdit => edit'[p] = edit[p]
  BY <1>1 DEF NewEdit, TypeOK
<1>3. Steady
  BY <1>1, <1>2, KnownTypes DEF Steady, Numbers
<1>4. \A d \in Calls \ {c} : call'[d] = call[d]
  BY <1>1 DEF TypeOK, SetCall
<1>5. \A p \in Ops : Unsettled(p) => Unsettled(p)'
  BY <1>4, SdkClientAssumption DEF Unsettled, NoCall
<1>6. QED
  BY <1>3, <1>5, CallKnown

LEMMA WriteRecordKnown ==
    ASSUME Inductive, Inductive', Known, NEW c \in Calls, WriteRecord(c)
    PROVE  Known'
<1> USE DEF WriteRecord
<1>0. call[c] # NoCall
  BY DEF NoCall
<1>1. TypeOK /\ Steady
  BY NothingMoves DEF Inductive
<1>2. PICK o \in Ops : o = call[c].op /\ edit[o] \in EditsOf /\ edit[o] # NoEdit
  BY <1>0, WrittenType DEF Inductive, CallOK
<1>3. PICK r \in Recs : r = edit[o].rec
  BY <1>2 DEF EditsOf
<1>4. call'[c].op = o /\ \A d \in Calls \ {c} : call'[d] = call[d]
  BY <1>1, <1>2 DEF TypeOK, SetCall
<1>5. \A p \in Ops : Unsettled(p) => Unsettled(p)'
  BY <1>2, <1>4 DEF Unsettled
<1>6. store'[r] = Written(o) /\ \A q \in Recs \ {r} : store'[q] = store[q]
  BY <1>1, <1>2, <1>3 DEF TypeOK
<1>7. RecordKnown(r)'
  <2>1. \/ Written(o) = NoCopy
        \/ Written(o).data = o /\ edit[o].type # "delete"
    BY <1>2 DEF Written, EditsOf, Types
  <2>2. Comes(srv[r].data, r)' /\ srv'[r].cursor <= seq'
    BY <1>1 DEF Known, RecordKnown, Comes, Steady
  <2>3. CASE Written(o) = NoCopy
    <3>1. Comes(store[r].data, r)'
      BY <1>6, <2>3, SdkClientAssumption DEF Comes, NoCopy
    <3>2. ~Has(r)'
      BY <1>6, <2>3 DEF Has, NoCopy
    <3>3. QED
      BY <2>2, <3>1, <3>2 DEF RecordKnown, Explained
  <2>4. CASE Written(o).data = o /\ edit[o].type # "delete"
    <3>1. Comes(store[r].data, r)'
      BY <1>2, <1>3, <1>6, <2>4 DEF Comes
    <3>2. Unsettled(o)'
      BY <1>4 DEF Unsettled
    <3>3. QED
      BY <1>6, <2>2, <2>4, <3>1, <3>2 DEF RecordKnown, Explained
  <2>5. QED
    BY <2>1, <2>3, <2>4
<1>8. QED
  BY <1>1, <1>5, <1>6, <1>7, CallKnown

LEMMA EnqueueKnown ==
    ASSUME Inductive, Inductive', Known, NEW c \in Calls, Enqueue(c)
    PROVE  Known'
<1> USE DEF Enqueue
<1>0. call[c] # NoCall
  BY DEF NoCall
<1>1. TypeOK /\ Steady
  BY NothingMoves DEF Inductive
<1>2. PICK o \in Ops : o = call[c].op
  BY <1>0 DEF Inductive, CallOK
<1>3. queue' = [queue EXCEPT ![o] = NewEntry] /\ call' = [call EXCEPT ![c] = NoCall]
  BY <1>2
<1>4. Unsettled(o)'
  BY <1>1, <1>3 DEF Unsettled, TypeOK, NewEntry
<1>5. \A p \in Ops \ {o} : queue'[p] = queue[p] /\ call[c].op # p
  BY <1>1, <1>2, <1>3 DEF TypeOK
<1>6. \A d \in Calls \ {c} : call'[d] = call[d]
  BY <1>1, <1>3 DEF TypeOK
<1>7. \A p \in Ops : Unsettled(p) => Unsettled(p)'
  BY <1>4, <1>5, <1>6 DEF Unsettled
<1>8. QED
  BY <1>1, <1>7, CallKnown

-----------------------------------------------------------------------------
(* The server's steps: what is ahead of the client stays so. *)

\* A row that changes is ahead of every cursor the client holds.
LEMMA ChangeSteady ==
    ASSUME TypeOK, NEW r \in Recs, NEW version, NEW data, Change(r, version, data),
           edit' = edit, lastCursor' = lastCursor, Comes(data, r)
    PROVE  Steady /\ srv'[r].cursor > seq
<1>1. /\ srv'[r] = [version |-> version, data |-> data, cursor |-> seq + 1]
      /\ \A q \in Recs \ {r} : srv'[q] = srv[q]
      /\ seq' = seq + 1
  BY DEF TypeOK, Change
<1>2. Comes(srv[r].data, r)'
  BY <1>1 DEF Comes
<1>3. srv'[r].cursor > seq /\ srv'[r].cursor <= seq' /\ seq <= seq'
  BY <1>1, KnownTypes DEF Numbers
<1>4. QED
  BY <1>1, <1>2, <1>3 DEF Steady

\* The mutation of an operation that is no deletion changes its record.
LEMMA MutateSteady ==
    ASSUME TypeOK, NEW o \in Ops, edit[o] \in EditsOf, Mutate(o),
           edit' = edit, lastCursor' = lastCursor
    PROVE  Steady /\ (edit[o].type # "delete" => srv'[edit[o].rec].cursor > seq)
<1>1. PICK r \in Recs : r = edit[o].rec
  BY DEF EditsOf
<1>2. edit[o] # NoEdit
  BY DEF EditsOf, NoEdit
<1>3. CASE edit[o].type # "delete"
  <2>1. Comes(o, r)
    BY <1>1, <1>2, <1>3 DEF Comes
  <2>2. Change(r, srv[r].version + 1, o)
    BY <1>1, <1>3 DEF Mutate
  <2>3. QED
    BY <1>1, <2>1, <2>2, ChangeSteady
<1>4. CASE edit[o].type = "delete" /\ srv[r].version > 0
  <2>1. Comes(None, r)
    BY SdkClientAssumption DEF Comes
  <2>2. Change(r, 0, None)
    BY <1>1, <1>4 DEF Mutate
  <2>3. QED
    BY <1>1, <1>4, <2>1, <2>2, ChangeSteady
<1>5. CASE edit[o].type = "delete" /\ ~(srv[r].version > 0)
  BY <1>1, <1>5, NothingMoves DEF Mutate
<1>6. QED
  BY <1>3, <1>4, <1>5

\* A step of the server, the sync() that waits for its job aside.
LEMMA ServerKnown ==
    ASSUME Inductive, Inductive', Known, Steady, client' = client,
           \A s \in Syncs : At(s, "poll") =>
               AnswersKnown(job[sync[s].job].applied, job[sync[s].job].rejected)'
    PROVE  Known'
<1>1. TypeOK /\ TypeOK'
  BY DEF Inductive
<1>2. \A r \in Recs : RecordKnown(r)'
  BY <1>1, RecordKept DEF Unsettled
<1>3. ASSUME NEW s \in Syncs
      PROVE  SyncKnown(s)'
  <2>1. SyncOK(s) /\ SyncKnown(s)
    BY DEF Inductive, Known
  <2>2. StageHolds(s)'
    BY <1>1, <2>1, StageKept DEF SyncKnown
  <2>3. AnswersKnown(sync[s].applied, sync[s].rejected)'
    <3>1. PICK applied, rejected : applied = sync[s].applied /\ rejected = sync[s].rejected
      OBVIOUS
    <3>2. AnswersKnown(applied, rejected)'
      BY <3>1, SyncAnswersKept
    <3>3. QED
      BY <3>1, <3>2 DEF AnswersKnown
  <2>4. QED
    BY <1>1, <2>1, <2>2, <2>3, PulledKept DEF SyncKnown, At
<1>4. lastCursor' <= seq'
  BY <1>1, KnownTypes, KnownTypesNext DEF Numbers, Known, Steady
<1>5. QED
  BY <1>2, <1>3, <1>4 DEF Known

\* A job that gives an answer: what it held before, and the answer.
LEMMA ProgressKnown ==
    ASSUME Inductive, Inductive', Known, Steady, client' = client,
           NEW j \in Jobs, NEW o \in Ops, NEW applied \in SUBSET Answers, NEW rejected \in SUBSET Answers,
           Progress(j, o, applied, rejected), AnswersKnown(applied, rejected)'
    PROVE  Known'
<1>1. job \in [Jobs -> JobStates] /\ job[j] \in JobStates
  BY DEF Inductive, TypeOK
<1>2. /\ job'[j].applied = job[j].applied \cup applied
      /\ job'[j].rejected = job[j].rejected \cup rejected
      /\ \A k \in Jobs \ {j} : job'[k] = job[k]
  BY <1>1 DEF Progress, JobStates
<1>3. ASSUME NEW s \in Syncs, At(s, "poll")
      PROVE  AnswersKnown(job[sync[s].job].applied, job[sync[s].job].rejected)'
  <2>1. PICK k \in Jobs : k = sync[s].job
    BY <1>3 DEF Inductive, SyncOK
  <2>2. PICK before, refused : before = job[k].applied /\ refused = job[k].rejected
    OBVIOUS
  <2>3. AnswersKnown(before, refused)'
    BY <1>3, <2>1, <2>2, SyncAnswersKept
  <2>4. \/ job'[k].applied = before /\ job'[k].rejected = refused
        \/ job'[k].applied = before \cup applied /\ job'[k].rejected = refused \cup rejected
    BY <1>2, <2>2
  <2>5. sync'[s].job = k
    BY <2>1
  <2>6. QED
    BY <2>3, <2>4, <2>5 DEF AnswersKnown
<1>4. QED
  BY <1>3, ServerKnown

LEMMA JobStepKnown ==
    ASSUME Inductive, Inductive', Known, NEW j \in Jobs, JobStep(j)
    PROVE  Known'
<1>1. PICK o \in First(job[j].todo) : JobRepeat(j, o) \/ JobApply(j, o) \/ JobReject(j, o)
  BY DEF JobStep
<1>2. o \in Ops /\ edit[o] \in EditsOf /\ TypeOK
  BY JobOpType DEF Inductive
<1>3. PICK r \in Recs : r = edit[o].rec
  BY <1>2 DEF EditsOf
<1>4. CASE JobRepeat(j, o)
  <2>1. AnswersKnown({}, {})'
    BY DEF AnswersKnown
  <2>2. Steady
    BY <1>2, <1>4, NothingMoves DEF JobRepeat
  <2>3. QED
    BY <1>2, <1>4, <2>1, <2>2, ProgressKnown DEF JobRepeat
<1>5. CASE JobApply(j, o)
  <2>1. Steady /\ (edit[o].type # "delete" => srv'[r].cursor > seq)
    BY <1>2, <1>3, <1>5, MutateSteady DEF JobApply, Apply
  <2>2. PICK version \in Nat : version = srv'[r].version
    BY KnownTypesNext DEF Inductive, Numbers
  <2>3. PICK a : a = [op |-> o, version |-> version, data |-> o]
    OBVIOUS
  <2>4. a \in Answers
    BY <1>2, <2>2, <2>3 DEF Answers, Data
  <2>5. AppliedAhead(a)'
    BY <1>3, <1>5, <2>1, <2>3, KnownTypes, KnownTypesNext
    DEF Inductive, Numbers, Known, AppliedAhead, JobApply, Steady
  <2>6. AnswersKnown({a}, {})'
    BY <2>3, <2>5 DEF AnswersKnown
  <2>7. Progress(j, o, {a}, {}) /\ client' = client
    BY <1>3, <1>5, <2>2, <2>3 DEF JobApply
  <2>8. QED
    BY <1>2, <2>1, <2>4, <2>6, <2>7, ProgressKnown
<1>6. CASE JobReject(j, o)
  <2>1. Steady
    BY <1>2, <1>6, NothingMoves DEF JobReject
  <2>2. PICK a : a = [op |-> o, version |-> srv[r].version, data |-> srv[r].data]
    OBVIOUS
  <2>3. a \in Answers
    BY <1>2, <2>2 DEF TypeOK, Rows, Answers
  <2>4. Comes(a.data, r)' /\ RejectedAhead(a)'
    BY <1>3, <1>6, <2>1, <2>2 DEF JobReject, Known, RecordKnown, Comes, Steady, RejectedAhead, Same
  <2>5. AnswersKnown({}, {a})'
    BY <1>3, <1>6, <2>2, <2>4 DEF AnswersKnown, JobReject
  <2>6. Progress(j, o, {}, {a}) /\ client' = client
    BY <1>3, <1>6, <2>2 DEF JobReject
  <2>7. QED
    BY <1>2, <2>1, <2>3, <2>5, <2>6, ProgressKnown
<1>7. QED
  BY <1>1, <1>4, <1>5, <1>6

\* A job that starts again or fails has no answers.
LEMMA JobFaultKnown ==
    ASSUME Inductive, Inductive', Known, NEW j \in Jobs, JobFault(j)
    PROVE  Known'
<1>1. PICK o \in First(job[j].todo) : JobError(j, o)
  BY DEF JobFault
<1>2. o \in Ops /\ edit[o] \in EditsOf /\ TypeOK
  BY JobOpType DEF Inductive
<1>3. Steady
  BY <1>1, <1>2, MutateSteady, NothingMoves DEF JobError, Apply
<1>4. ASSUME NEW s \in Syncs, At(s, "poll")
      PROVE  AnswersKnown(job[sync[s].job].applied, job[sync[s].job].rejected)'
  <2>1. PICK k \in Jobs : k = sync[s].job /\ sync'[s].job = k
    BY <1>1, <1>4 DEF Inductive, SyncOK, JobError
  <2>2. CASE k = j
    <3>1. PICK state : job' = [job EXCEPT ![j] = JobOf(state, job[j].ops)]
      BY <1>1 DEF JobError
    <3>2. job'[k].applied = {} /\ job'[k].rejected = {}
      BY <1>2, <2>2, <3>1 DEF TypeOK, JobOf
    <3>3. QED
      BY <2>1, <3>2 DEF AnswersKnown
  <2>3. CASE k # j
    <3>1. job'[k] = job[k]
      BY <1>1, <1>2, <2>3 DEF TypeOK, JobError
    <3>2. PICK before, refused : before = job[k].applied /\ refused = job[k].rejected
      OBVIOUS
    <3>3. AnswersKnown(before, refused)'
      BY <1>3, <1>4, <2>1, <3>2, SyncAnswersKept
    <3>4. QED
      BY <2>1, <3>1, <3>2, <3>3 DEF AnswersKnown
  <2>4. QED
    BY <2>2, <2>3
<1>5. QED
  BY <1>1, <1>3, <1>4, ServerKnown DEF JobError

LEMMA ForeignKnown ==
    ASSUME Inductive, Inductive', Known, NEW r \in Recs, ForeignPut(r) \/ ForeignDelete(r)
    PROVE  Known'
<1>1. TypeOK
  BY DEF Inductive
<1>2. Comes(Other, r) /\ Comes(None, r)
  BY SdkClientAssumption DEF Comes
<1>3. \/ Change(r, srv[r].version + 1, Other)
      \/ Change(r, 0, None)
  BY DEF ForeignPut, ForeignDelete
<1>4. client' = client /\ job' = job
  BY DEF ForeignPut, ForeignDelete
<1>5. Steady
  BY <1>1, <1>2, <1>3, <1>4, ChangeSteady
<1>6. ASSUME NEW s \in Syncs, At(s, "poll")
      PROVE  AnswersKnown(job[sync[s].job].applied, job[sync[s].job].rejected)'
  <2>1. PICK before, refused : /\ before = job[sync[s].job].applied
                               /\ refused = job[sync[s].job].rejected
    OBVIOUS
  <2>2. AnswersKnown(before, refused)'
    BY <1>5, <1>6, <2>1, SyncAnswersKept
  <2>3. QED
    BY <1>4, <2>1, <2>2 DEF AnswersKnown
<1>7. QED
  BY <1>4, <1>5, <1>6, ServerKnown

-----------------------------------------------------------------------------
(* sync(): the push and the results. *)

\* A step of the only sync() that neither begins nor ends the storing of a pull.
LEMMA SyncMovesKnown ==
    ASSUME OneSync, Inductive, Inductive', Known, Steady, NEW s \in Syncs, NEW y,
           sync' = [sync EXCEPT ![s] = y], SyncKnown(s)',
           ~At(s, "store"), y.step # "store",
           \A r \in Recs : \/ RecordKnown(r)'
                           \/ /\ store'[r] = store[r]
                              /\ \/ store[r].data \in Ops /\ Unsettled(store[r].data) =>
                                        Unsettled(store[r].data)'
                                 \/ Behind(r)
    PROVE  Known'
<1>1. TypeOK /\ TypeOK'
  BY DEF Inductive
<1>2. \A t \in Syncs : t = s
  BY DEF OneSync
<1>3. sync'[s].step # "store"
  BY <1>1 DEF TypeOK
<1>4. \A r \in Recs : RecordKnown(r)'
  BY <1>1, <1>2, <1>3, RecordKept DEF At
<1>5. lastCursor' <= seq'
  BY <1>1, KnownTypes, KnownTypesNext DEF Numbers, Known, Steady
<1>6. QED
  BY <1>2, <1>4, <1>5 DEF Known

\* A sync() that holds no answers and awaits none.
LEMMA EmptyKnown ==
    ASSUME NEW s \in Syncs, sync[s].applied = {}, sync[s].rejected = {},
           sync[s].step \notin {"poll", "store"}
    PROVE  SyncKnown(s)
BY DEF SyncKnown, StageHolds, AnswersKnown, FirstAnswer, At

LEMMA EmptyKnownNext ==
    ASSUME NEW s \in Syncs, sync'[s].applied = {}, sync'[s].rejected = {},
           sync'[s].step \notin {"poll", "store"}
    PROVE  SyncKnown(s)'
BY DEF SyncKnown, StageHolds, AnswersKnown, FirstAnswer, At

\* sync() begins, fails or ends: it holds nothing.
LEMMA EmptyStepKnown ==
    ASSUME OneSync, Inductive, Inductive', Known, NEW s \in Syncs,
           NEW step \in Steps \ {"poll", "store"}, NEW batch, NEW todo,
           sync' = [sync EXCEPT ![s] = SyncAt(step, batch, todo)], ~At(s, "store"),
           UNCHANGED <<store, queue, lastCursor, edit, call, server>>
    PROVE  Known'
<1>1. TypeOK /\ Steady
  BY NothingMoves DEF Inductive
<1>2. PICK y : y = SyncAt(step, batch, todo)
  OBVIOUS
<1>3. sync'[s] = y /\ y.applied = {} /\ y.rejected = {} /\ y.step = step
  BY <1>1, <1>2 DEF TypeOK, SyncAt
<1>4. SyncKnown(s)'
  BY <1>3, EmptyKnownNext
<1>5. QED
  BY <1>1, <1>2, <1>3, <1>4, SyncMovesKnown DEF Unsettled

LEMMA RestartKnown ==
    ASSUME OneSync, Inductive, Inductive', Known, NEW s \in Syncs,
           \/ Begin(s) \/ PollFailed(s) \/ Throw(s) \/ SyncFault(s)
    PROVE  Known'
<1>1. UNCHANGED <<store, queue, lastCursor, edit, call, server>> /\ ~At(s, "store")
  BY DEF Begin, PollFailed, Throw, SyncFault, PostUnanswered, PostFails, GiveUp, PullFails, At
<1>2. \E step \in Steps \ {"poll", "store"} : \E batch, todo :
        sync' = [sync EXCEPT ![s] = SyncAt(step, batch, todo)]
  <2>1. CASE Begin(s)
    <3>1. PICK batch : sync' = [sync EXCEPT ![s] =
                          SyncAt(IF batch = {} THEN "pull" ELSE "post", batch, {})]
      BY <2>1 DEF Begin
    <3>2. PICK step \in {"pull", "post"} : sync' = [sync EXCEPT ![s] = SyncAt(step, batch, {})]
      BY <3>1
    <3>3. QED
      BY <3>2 DEF Steps
  <2>2. CASE Recover(s, "fail") \/ Recover(s, "retry")
    BY <2>2 DEF Recover, Steps
  <2>3. CASE sync' = [sync EXCEPT ![s] = NoSync]
    BY <2>3 DEF NoSync, Steps
  <2>4. QED
    BY <2>1, <2>2, <2>3
    DEF PollFailed, Throw, SyncFault, PostUnanswered, PostFails, GiveUp, PullFails
<1>3. PICK step \in Steps \ {"poll", "store"} :
        \E batch, todo : sync' = [sync EXCEPT ![s] = SyncAt(step, batch, todo)]
  BY <1>2
<1>4. PICK batch, todo : sync' = [sync EXCEPT ![s] = SyncAt(step, batch, todo)]
  BY <1>3
<1>5. QED
  BY <1>1, <1>4, EmptyStepKnown

LEMMA PostKnown ==
    ASSUME OneSync, Inductive, Inductive', Known, NEW s \in Syncs, NEW j \in Jobs, Post(s, j)
    PROVE  Known'
<1>1. TypeOK /\ Steady /\ SyncKnown(s)
  BY NothingMoves DEF Inductive, Known, Post
<1>2. PICK y : y = [sync[s] EXCEPT !.step = "poll", !.job = j]
  OBVIOUS
<1>3. sync' = [sync EXCEPT ![s] = y]
  BY <1>2 DEF Post
<1>4. y.step = "poll" /\ y.job = j /\ y.applied = {} /\ y.rejected = {} /\ sync'[s] = y
  BY <1>1, <1>2, <1>3, SyncOps DEF Post, At, SyncKnown, StageHolds, SyncStates, TypeOK
<1>5. job'[j].applied = {} /\ job'[j].rejected = {}
  BY <1>1 DEF Post, Accepted, JobOf, TypeOK
<1>6. SyncKnown(s)'
  BY <1>4, <1>5 DEF SyncKnown, StageHolds, AnswersKnown, At
<1>7. QED
  BY <1>1, <1>3, <1>4, <1>6, SyncMovesKnown DEF Post, At, Unsettled

LEMMA PollCompletedKnown ==
    ASSUME OneSync, Inductive, Inductive', Known, NEW s \in Syncs, PollCompleted(s)
    PROVE  Known'
<1>1. TypeOK /\ Steady /\ SyncKnown(s)
  BY NothingMoves DEF Inductive, Known, PollCompleted
<1>2. PICK applied, rejected : /\ applied = job[sync[s].job].applied
                               /\ rejected = job[sync[s].job].rejected
  OBVIOUS
<1>3. PICK y : y = [sync[s] EXCEPT !.step = "applied", !.job = None, !.applied = applied,
                                   !.rejected = rejected]
  OBVIOUS
<1>4. sync' = [sync EXCEPT ![s] = y]
  BY <1>2, <1>3 DEF PollCompleted
<1>5. y.step = "applied" /\ y.applied = applied /\ y.rejected = rejected /\ sync'[s] = y
  BY <1>1, <1>3, <1>4, SyncOps DEF SyncStates, TypeOK
<1>6. AnswersKnown(applied, rejected)'
  BY <1>1, <1>2, SyncAnswersKept DEF PollCompleted
<1>7. SyncKnown(s)'
  BY <1>5, <1>6 DEF SyncKnown, StageHolds, AnswersKnown, At
<1>8. QED
  BY <1>1, <1>4, <1>5, <1>7, SyncMovesKnown DEF PollCompleted, At, Unsettled

\* The answers that are left when some have been stored.
LEMMA AnswersLeft ==
    ASSUME Inductive, Inductive', Known, Steady, NEW s \in Syncs,
           NEW applied \in SUBSET sync[s].applied, NEW rejected \in SUBSET sync[s].rejected
    PROVE  AnswersKnown(applied, rejected)'
<1>1. PICK before, refused : before = sync[s].applied /\ refused = sync[s].rejected
  OBVIOUS
<1>2. AnswersKnown(before, refused)'
  BY <1>1, SyncAnswersKept
<1>3. QED
  BY <1>1, <1>2 DEF AnswersKnown

\* What an applied answer tells about its record.
LEMMA AppliedKnown ==
    ASSUME Inductive, Known, NEW s \in Syncs, NEW a \in sync[s].applied
    PROVE  /\ a.op \in Ops /\ a.data = a.op /\ edit[a.op] # NoEdit /\ edit[a.op].rec \in Recs
           /\ edit[a.op].type # "delete" => srv[edit[a.op].rec].cursor > lastCursor
<1>1. a.op \in OpsOf(sync[s].applied)
  BY DEF OpsOf
<1>2. TypeOK /\ SyncOK(s) /\ SyncKnown(s)
  BY DEF Inductive, Known
<1>3. a.op \in Ops /\ edit[a.op] # NoEdit
  BY <1>1, <1>2, SyncOps DEF SyncOK, Edited
<1>4. QED
  BY <1>2, <1>3, KnownTypes DEF Numbers, SyncKnown, AnswersKnown, AppliedAhead

LEMMA MarkAppliedKnown ==
    ASSUME OneSync, Inductive, Inductive', Known, NEW s \in Syncs, NEW a \in sync[s].applied,
           MarkApplied(s, a)
    PROVE  Known'
<1> DEFINE found == edit[a.op].type # "delete" /\ Has(edit[a.op].rec)
<1>1. TypeOK /\ Steady /\ SyncKnown(s) /\ At(s, "applied")
  BY NothingMoves DEF Inductive, Known, MarkApplied
<1>2. PICK x \in SyncStates : x = sync[s]
  BY <1>1 DEF TypeOK
<1>3. PICK y : y = IF found THEN [x EXCEPT !.step = "confirm"] ELSE [x EXCEPT !.applied = @ \ {a}]
  OBVIOUS
<1>4. sync' = [sync EXCEPT ![s] = y]
  BY <1>2, <1>3 DEF MarkApplied
<1>5. /\ sync'[s] = y /\ y.step \in {"applied", "confirm"}
      /\ y.applied \subseteq sync[s].applied /\ y.rejected = sync[s].rejected
      /\ y.step = "confirm" => found /\ y.applied = sync[s].applied
  BY <1>1, <1>2, <1>3, <1>4 DEF SyncStates, TypeOK, At
<1>6. SyncKnown(s)'
  <2>1. PICK applied, rejected : applied = y.applied /\ rejected = y.rejected
    OBVIOUS
  <2>2. AnswersKnown(applied, rejected)'
    BY <1>1, <1>5, <2>1, AnswersLeft
  <2>3. ASSUME y.step = "confirm", NEW b \in FirstAnswer(sync[s].applied)
        PROVE  edit'[b.op].type # "delete"
    <3>1. a \in FirstAnswer(sync[s].applied) /\ found /\ edit' = edit
      BY <1>5, <2>3 DEF MarkApplied
    <3>2. b \in sync[s].applied /\ b.op <= a.op /\ a.op <= b.op
      BY <3>1 DEF FirstAnswer
    <3>3. a.op \in Nat /\ b.op \in Nat
      BY <3>2, AppliedKnown, SdkClientAssumption
    <3>4. QED
      BY <3>1, <3>2, <3>3
  <2>4. QED
    BY <1>5, <2>1, <2>2, <2>3 DEF SyncKnown, StageHolds, AnswersKnown, At, FirstAnswer
<1>7. ASSUME NEW r \in Recs
      PROVE  \/ store[r].data \in Ops /\ Unsettled(store[r].data) => Unsettled(store[r].data)'
             \/ Behind(r)
  <2>1. CASE store[r].data = a.op
    <3>1. edit[a.op].rec = r /\ edit[a.op].type # "delete"
      BY <2>1, AppliedKnown DEF Known, RecordKnown, Comes
    <3>2. \A t \in Syncs : ~At(t, "store")
      BY <1>1 DEF OneSync, At
    <3>3. QED
      BY <3>1, <3>2, AppliedKnown DEF Behind
  <2>2. CASE store[r].data # a.op
    BY <1>1, <2>2 DEF MarkApplied, Patch, Unsettled, TypeOK
  <2>3. QED
    BY <2>1, <2>2
<1>8. QED
  BY <1>1, <1>4, <1>5, <1>6, <1>7, SyncMovesKnown DEF MarkApplied, At

LEMMA ConfirmKnown ==
    ASSUME OneSync, Inductive, Inductive', Known, NEW s \in Syncs, NEW a \in sync[s].applied,
           Confirm(s, a)
    PROVE  Known'
<1>1. TypeOK /\ Steady /\ SyncKnown(s) /\ At(s, "confirm")
  BY NothingMoves DEF Inductive, Known, Confirm
<1>2. PICK x \in SyncStates : x = sync[s]
  BY <1>1 DEF TypeOK
<1>3. PICK y : y = [x EXCEPT !.step = "applied", !.applied = @ \ {a}]
  OBVIOUS
<1>4. sync' = [sync EXCEPT ![s] = y]
  BY <1>2, <1>3 DEF Confirm
<1>5. /\ sync'[s] = y /\ y.step = "applied"
      /\ y.applied \subseteq sync[s].applied /\ y.rejected = sync[s].rejected
  BY <1>1, <1>2, <1>3, <1>4 DEF SyncStates, TypeOK
<1>6. SyncKnown(s)'
  <2>1. PICK applied, rejected : applied = y.applied /\ rejected = y.rejected
    OBVIOUS
  <2>2. AnswersKnown(applied, rejected)'
    BY <1>1, <1>5, <2>1, AnswersLeft
  <2>3. QED
    BY <1>5, <2>1, <2>2 DEF SyncKnown, StageHolds, AnswersKnown, At
<1>7. PICK r \in Recs : r = edit[a.op].rec
  BY AppliedKnown
<1>8. edit[a.op].type # "delete"
  BY <1>1 DEF Confirm, SyncKnown, StageHolds
<1>9. RecordKnown(r)'
  <2>1. store'[r] = [version |-> a.version, data |-> a.op]
    BY <1>1, <1>7, AppliedKnown DEF Confirm, TypeOK
  <2>2. Comes(store[r].data, r)'
    BY <1>7, <1>8, <2>1, AppliedKnown DEF Comes, Confirm
  <2>3. Comes(srv[r].data, r)' /\ srv'[r].cursor <= seq'
    BY <1>1 DEF Known, RecordKnown, Comes, Confirm
  <2>4. Behind(r)'
    <3>1. \A t \in Syncs : sync'[t].step # "store"
      BY <1>5 DEF OneSync
    <3>2. srv[r].cursor > lastCursor
      BY <1>7, <1>8, AppliedKnown
    <3>3. QED
      BY <3>1, <3>2 DEF Behind, At, Confirm
  <2>5. QED
    BY <2>2, <2>3, <2>4 DEF RecordKnown, Explained
<1>10. ASSUME NEW q \in Recs, q # r
       PROVE  store'[q] = store[q]
  BY <1>1, <1>7, <1>10 DEF Confirm, TypeOK
<1>11. QED
  BY <1>1, <1>4, <1>5, <1>6, <1>9, <1>10, SyncMovesKnown DEF Confirm, At, Unsettled

LEMMA StageStepKnown ==
    ASSUME OneSync, Inductive, Inductive', Known, NEW s \in Syncs,
           AllApplied(s) \/ AllRejected(s) \/ \E a \in sync[s].rejected : ReadRejected(s, a)
    PROVE  Known'
<1>1. UNCHANGED <<store, queue, lastCursor, edit, call, server, job>>
  BY DEF AllApplied, AllRejected, ReadRejected
<1>2. TypeOK /\ Steady /\ SyncKnown(s)
  BY <1>1, NothingMoves DEF Inductive, Known
<1>3. PICK step \in {"rejected", "pull", "resolve"} :
        /\ Goto(s, step)
        /\ sync[s].step \in {"applied", "rejected"} /\ sync[s].applied = {}
        /\ step = "pull" => sync[s].rejected = {}
  BY <1>2 DEF AllApplied, AllRejected, ReadRejected, SyncKnown, StageHolds, At
<1>4. PICK x \in SyncStates : x = sync[s]
  BY <1>2 DEF TypeOK
<1>5. PICK y : y = [x EXCEPT !.step = step]
  OBVIOUS
<1>6. sync' = [sync EXCEPT ![s] = y]
  BY <1>3, <1>4, <1>5 DEF Goto
<1>7. sync'[s] = y /\ y.step = step /\ y.applied = {} /\ y.rejected = sync[s].rejected
  BY <1>2, <1>3, <1>4, <1>5, <1>6 DEF SyncStates, TypeOK
<1>8. SyncKnown(s)'
  <2>1. PICK applied, rejected : applied = y.applied /\ rejected = y.rejected
    OBVIOUS
  <2>2. AnswersKnown(applied, rejected)'
    BY <1>2, <1>7, <2>1, AnswersLeft
  <2>3. QED
    BY <1>3, <1>7, <2>1, <2>2 DEF SyncKnown, StageHolds, AnswersKnown, At
<1>9. QED
  BY <1>1, <1>2, <1>3, <1>6, <1>7, <1>8, SyncMovesKnown DEF At, Unsettled

\* What a rejected answer tells about its record.
LEMMA RejectedKnown ==
    ASSUME Inductive, Known, NEW s \in Syncs, NEW a \in sync[s].rejected
    PROVE  /\ a.op \in Ops /\ edit[a.op] # NoEdit /\ edit[a.op].rec \in Recs
           /\ Comes(a.data, edit[a.op].rec)
           /\ RejectedAhead(a)
<1>1. a.op \in OpsOf(sync[s].rejected)
  BY DEF OpsOf
<1>2. TypeOK /\ SyncOK(s) /\ SyncKnown(s)
  BY DEF Inductive, Known
<1>3. a.op \in Ops /\ edit[a.op] # NoEdit
  BY <1>1, <1>2, SyncOps DEF SyncOK, Edited
<1>4. QED
  BY <1>2, <1>3, KnownTypes DEF Numbers, SyncKnown, AnswersKnown

\* The sync() after a rejected answer has been resolved.
LEMMA ResolvedKnown ==
    ASSUME Inductive, Inductive', Known, Steady, NEW s \in Syncs, NEW a \in sync[s].rejected,
           sync[s].step \in {"rejected", "resolve"}, Resolved(s, a)
    PROVE  /\ SyncKnown(s)'
           /\ \E y : sync' = [sync EXCEPT ![s] = y] /\ y.step = "rejected"
<1>1. TypeOK /\ SyncKnown(s)
  BY DEF Inductive, Known
<1>2. PICK x \in SyncStates : x = sync[s]
  BY <1>1 DEF TypeOK
<1>3. PICK y : y = [x EXCEPT !.step = "rejected", !.rejected = @ \ {a}]
  OBVIOUS
<1>4. sync' = [sync EXCEPT ![s] = y]
  BY <1>2, <1>3 DEF Resolved
<1>5. /\ sync'[s] = y /\ y.step = "rejected"
      /\ y.applied = {} /\ y.rejected \subseteq sync[s].rejected
  BY <1>1, <1>2, <1>3, <1>4 DEF SyncStates, TypeOK, SyncKnown, StageHolds
<1>6. PICK applied, rejected : applied = y.applied /\ rejected = y.rejected
  OBVIOUS
<1>7. AnswersKnown(applied, rejected)'
  BY <1>5, <1>6, AnswersLeft
<1>8. SyncKnown(s)'
  BY <1>5, <1>6, <1>7 DEF SyncKnown, StageHolds, AnswersKnown, At
<1>9. QED
  BY <1>4, <1>5, <1>8

LEMMA ServerWinsKnown ==
    ASSUME OneSync, Inductive, Inductive', Known, NEW s \in Syncs, NEW a \in sync[s].rejected,
           ServerWins(s, a)
    PROVE  Known'
<1>1. TypeOK /\ Steady /\ SyncKnown(s) /\ sync[s].step \in {"rejected", "resolve"}
  BY NothingMoves DEF Inductive, Known, ServerWins
<1>2. PICK y : sync' = [sync EXCEPT ![s] = y] /\ y.step = "rejected" /\ SyncKnown(s)'
  BY <1>1, ResolvedKnown DEF ServerWins
<1>3. PICK r \in Recs : r = edit[a.op].rec
  BY RejectedKnown
<1>4. ASSUME NEW q \in Recs, q # r
      PROVE  /\ store'[q] = store[q]
             /\ store[q].data \in Ops /\ Unsettled(store[q].data) => Unsettled(store[q].data)'
  <2>1. store[q].data # a.op
    BY <1>3, <1>4, RejectedKnown DEF Known, RecordKnown, Comes
  <2>2. queue' = [queue EXCEPT ![a.op] = NoEntry] /\ call' = call
    BY DEF ServerWins
  <2>3. \A o \in Ops : o # a.op => queue'[o] = queue[o]
    BY <1>1, <2>2 DEF TypeOK
  <2>4. store'[q] = store[q]
    BY <1>1, <1>3, <1>4 DEF ServerWins, Overwrite, TypeOK
  <2>5. QED
    BY <2>1, <2>2, <2>3, <2>4 DEF Unsettled
<1>5. RecordKnown(r)'
  <2>1. Comes(srv[r].data, r)' /\ srv'[r].cursor <= seq'
    BY <1>1 DEF Known, RecordKnown, Comes, ServerWins
  <2>2. CASE At(s, "resolve")
    <3>1. store'[r] = [version |-> a.version, data |-> a.data]
      BY <1>1, <1>3, <2>2 DEF ServerWins, Overwrite, TypeOK
    <3>2. Comes(store[r].data, r)'
      BY <1>3, <3>1, RejectedKnown DEF Comes, ServerWins
    <3>3. \A t \in Syncs : sync'[t].step # "store"
      BY <1>1, <1>2 DEF OneSync, TypeOK
    <3>4. Same(r, store[r])' \/ Behind(r)'
      BY <1>3, <3>1, <3>3, RejectedKnown DEF RejectedAhead, Same, Behind, At, ServerWins
    <3>5. QED
      BY <2>1, <3>2, <3>4 DEF RecordKnown, Explained
  <2>3. CASE ~At(s, "resolve")
    <3>1. ~Has(r) /\ store'[r] = store[r]
      BY <1>3, <2>3 DEF ServerWins, Overwrite
    <3>2. Comes(store[r].data, r)' /\ ~Has(r)'
      BY <3>1 DEF Known, RecordKnown, Comes, Has, ServerWins
    <3>3. QED
      BY <2>1, <3>2 DEF RecordKnown, Explained
  <2>4. QED
    BY <2>2, <2>3
<1>6. QED
  BY <1>1, <1>2, <1>4, <1>5, SyncMovesKnown DEF At

LEMMA HandlerWinsKnown ==
    ASSUME OneSync, Inductive, Inductive', Known, NEW s \in Syncs, NEW a \in sync[s].rejected,
           NEW o \in Ops, HandlerWins(s, a, o)
    PROVE  Known'
<1>1. TypeOK /\ SyncKnown(s) /\ sync[s].step \in {"rejected", "resolve"}
  BY DEF Inductive, Known, HandlerWins
<1>2. PICK r \in Recs : r = edit[a.op].rec
  BY RejectedKnown
<1>3. /\ edit[o] = NoEdit /\ edit'[o] = [type |-> "update", rec |-> r, base |-> a.version]
      /\ \A p \in Ops : edit[p] # NoEdit => edit'[p] = edit[p]
  BY <1>1, <1>2 DEF HandlerWins, NewEdit, TypeOK
<1>4. Steady
  BY <1>1, <1>3, KnownTypes DEF Steady, Numbers, HandlerWins
<1>5. PICK y : sync' = [sync EXCEPT ![s] = y] /\ y.step = "rejected" /\ SyncKnown(s)'
  BY <1>1, <1>4, ResolvedKnown DEF HandlerWins
<1>6. queue[o] = NoEntry /\ queue' = [queue EXCEPT ![o] = NewEntry]
  BY <1>3 DEF Inductive, QueueOK, HandlerWins
<1>7. Unsettled(o)' /\ \A p \in Ops : Unsettled(p) => Unsettled(p)'
  BY <1>1, <1>6 DEF Unsettled, NewEntry, TypeOK, HandlerWins
<1>8. ASSUME NEW q \in Recs, q # r
      PROVE  store'[q] = store[q]
  BY <1>1, <1>2, <1>8 DEF HandlerWins, Overwrite, TypeOK
<1>9. RecordKnown(r)'
  <2>1. Comes(srv[r].data, r)' /\ srv'[r].cursor <= seq'
    BY <1>4 DEF Known, RecordKnown, Comes, Steady, HandlerWins
  <2>2. CASE At(s, "resolve")
    <3>1. store'[r] = [version |-> a.version, data |-> o]
      BY <1>1, <1>2, <2>2 DEF HandlerWins, Overwrite, TypeOK
    <3>2. Comes(store[r].data, r)'
      BY <1>3, <3>1 DEF Comes, NoEdit
    <3>3. QED
      BY <1>7, <2>1, <3>1, <3>2 DEF RecordKnown, Explained
  <2>3. CASE ~At(s, "resolve")
    <3>1. ~Has(r) /\ store'[r] = store[r]
      BY <1>2, <2>3 DEF HandlerWins, Overwrite
    <3>2. Comes(store[r].data, r)' /\ ~Has(r)'
      BY <1>3, <3>1 DEF Known, RecordKnown, Comes, Has
    <3>3. QED
      BY <2>1, <3>2 DEF RecordKnown, Explained
  <2>4. QED
    BY <2>2, <2>3
<1>10. QED
  BY <1>1, <1>4, <1>5, <1>7, <1>8, <1>9, SyncMovesKnown DEF At

-----------------------------------------------------------------------------
(* sync(): the pull, and what happens after an error. *)

\* The pull takes every row the client is behind of.
LEMMA PullKnown ==
    ASSUME OneSync, Inductive, Inductive', Known, NEW s \in Syncs, Pull(s)
    PROVE  Known'
<1>1. TypeOK /\ TypeOK' /\ Steady /\ SyncKnown(s)
  BY NothingMoves DEF Inductive, Known, Pull
<1>2. PICK max \in Highest({lastCursor} \cup {c.cursor : c \in NewChanges}) :
        sync' = [sync EXCEPT ![s].step = "store", ![s].pulled = NewChanges, ![s].max = max]
  BY DEF Pull
<1>3. max <= seq
  <2>1. ASSUME NEW c \in NewChanges
        PROVE  c.cursor <= seq
    BY DEF NewChanges, Known, RecordKnown
  <2>2. max \in {lastCursor} \cup {c.cursor : c \in NewChanges}
    BY <1>2 DEF Highest
  <2>3. QED
    BY <2>1, <2>2 DEF Known
<1>4. PICK x \in SyncStates : x = sync[s]
  BY <1>1 DEF TypeOK
<1>5. PICK y : y = [x EXCEPT !.step = "store", !.pulled = NewChanges, !.max = max]
  OBVIOUS
<1>6. sync' = [sync EXCEPT ![s] = y]
  BY <1>2, <1>4, <1>5
<1>7. /\ sync'[s] = y /\ y.step = "store" /\ y.pulled = NewChanges /\ y.max = max
      /\ y.applied = {} /\ y.rejected = {}
  BY <1>1, <1>4, <1>5, <1>6 DEF SyncStates, TypeOK, SyncKnown, StageHolds, Pull, At
<1>8. SyncKnown(s)'
  <2>1. ASSUME NEW c \in NewChanges
        PROVE  Comes(c.data, c.rec)' /\ Same(c.rec, c)'
    <3>1. PICK r \in Recs : /\ c.rec = r /\ c.version = srv[r].version /\ c.data = srv[r].data
                            /\ Comes(srv[r].data, r)
      BY DEF NewChanges, Known, RecordKnown
    <3>2. QED
      BY <3>1 DEF Comes, Same, Pull
  <2>2. QED
    BY <1>3, <1>7, <2>1 DEF SyncKnown, StageHolds, AnswersKnown, At, Pull
<1>9. ASSUME NEW r \in Recs
      PROVE  RecordKnown(r)'
  <2>1. Behind(r) => Behind(r)'
    <3>1. ASSUME Behind(r)
          PROVE  srv[r].cursor > lastCursor
      BY <3>1 DEF Behind, OneSync, Pull, At
    <3>2. ASSUME srv[r].cursor > lastCursor
          PROVE  \E c \in NewChanges : c.rec = r
      <4>1. PICK c : c = [rec |-> r, version |-> srv[r].version, data |-> srv[r].data,
                          cursor |-> srv[r].cursor]
        OBVIOUS
      <4>2. c \in NewChanges
        BY <3>2, <4>1 DEF NewChanges
      <4>3. QED
        BY <4>1, <4>2
    <3>3. QED
      BY <1>7, <3>1, <3>2 DEF Behind, At
  <2>2. Unsettled(store[r].data)' <=> Unsettled(store[r].data)
    BY DEF Unsettled, Pull
  <2>3. QED
    BY <2>1, <2>2 DEF Known, RecordKnown, Explained, Comes, Same, Has, Pull
<1>10. QED
  BY <1>8, <1>9 DEF Known, OneSync, Pull

LEMMA StorePulledKnown ==
    ASSUME OneSync, Inductive, Inductive', Known, NEW s \in Syncs, NEW c \in sync[s].pulled,
           StorePulled(s, c)
    PROVE  Known'
<1>1. TypeOK /\ SyncKnown(s) /\ At(s, "store")
  BY DEF Inductive, Known, StorePulled
<1>2. PICK x \in SyncStates : x = sync[s]
  BY <1>1 DEF TypeOK
<1>3. PICK y : y = [x EXCEPT !.pulled = @ \ {c}]
  OBVIOUS
<1>4. sync' = [sync EXCEPT ![s] = y]
  BY <1>2, <1>3 DEF StorePulled
<1>5. /\ sync'[s] = y /\ y.step = "store" /\ y.max = sync[s].max
      /\ y.pulled = sync[s].pulled \ {c} /\ y.applied = {} /\ y.rejected = {}
  BY <1>1, <1>2, <1>3, <1>4 DEF SyncStates, TypeOK, SyncKnown, StageHolds, At
<1>6. /\ c.rec \in Recs
      /\ Comes(c.data, c.rec) /\ (Same(c.rec, c) \/ srv[c.rec].cursor > sync[s].max)
  BY <1>1, <1>2 DEF SyncStates, Changes, SyncKnown
<1>7. SyncKnown(s)'
  <2>1. \A d \in y.pulled : Comes(d.data, d.rec)' /\ (Same(d.rec, d)' \/ srv'[d.rec].cursor > y.max)
    BY <1>1, <1>5 DEF SyncKnown, Comes, Same, StorePulled
  <2>2. QED
    BY <1>1, <1>5, <2>1 DEF SyncKnown, StageHolds, AnswersKnown, At, StorePulled
<1>8. PICK copy : /\ store' = [store EXCEPT ![c.rec] = copy]
                  /\ \/ c.version = 0 /\ copy = NoCopy
                     \/ copy = [version |-> c.version, data |-> c.data]
  BY DEF StorePulled
<1>9. RecordKnown(c.rec)'
  <2>1. store'[c.rec] = copy
    BY <1>1, <1>6, <1>8 DEF TypeOK
  <2>2. Comes(srv[c.rec].data, c.rec)' /\ srv'[c.rec].cursor <= seq'
    BY <1>6 DEF Known, RecordKnown, Comes, StorePulled
  <2>3. CASE copy = NoCopy
    <3>1. Comes(store[c.rec].data, c.rec)' /\ ~Has(c.rec)'
      BY <2>1, <2>3, SdkClientAssumption DEF Comes, NoCopy, Has
    <3>2. QED
      BY <2>2, <3>1 DEF RecordKnown, Explained
  <2>4. CASE copy = [version |-> c.version, data |-> c.data]
    <3>1. Comes(store[c.rec].data, c.rec)'
      BY <1>6, <2>1, <2>4 DEF Comes, StorePulled
    <3>2. Same(c.rec, store[c.rec])' \/ Behind(c.rec)'
      BY <1>5, <1>6, <2>1, <2>4 DEF Same, Behind, At, StorePulled
    <3>3. QED
      BY <2>2, <3>1, <3>2 DEF RecordKnown, Explained
  <2>5. QED
    BY <1>8, <2>3, <2>4
<1>10. ASSUME NEW r \in Recs, r # c.rec
       PROVE  RecordKnown(r)'
  <2>1. store'[r] = store[r]
    BY <1>1, <1>6, <1>8, <1>10 DEF TypeOK
  <2>2. Behind(r) => Behind(r)'
    <3>1. ASSUME Behind(r)
          PROVE  srv[r].cursor > sync[s].max \/ \E d \in sync[s].pulled : d.rec = r
      BY <1>1, <3>1 DEF Behind, OneSync
    <3>2. QED
      BY <1>5, <1>10, <3>1 DEF Behind, At, StorePulled
  <2>3. Unsettled(store[r].data)' <=> Unsettled(store[r].data)
    BY <2>1 DEF Unsettled, StorePulled
  <2>4. QED
    BY <2>1, <2>2, <2>3 DEF Known, RecordKnown, Explained, Comes, Same, Has, StorePulled
<1>11. QED
  BY <1>7, <1>9, <1>10 DEF Known, OneSync, StorePulled

\* Nothing is left of the pull: what the client is behind of lies after it.
LEMMA SaveCursorKnown ==
    ASSUME OneSync, Inductive, Inductive', Known, NEW s \in Syncs, SaveCursor(s)
    PROVE  Known'
<1>1. TypeOK /\ SyncKnown(s) /\ At(s, "store") /\ sync[s].pulled = {} /\ lastCursor' = sync[s].max
  BY DEF Inductive, Known, SaveCursor
<1>2. sync'[s] = NoSync
  BY <1>1 DEF TypeOK, SaveCursor
<1>3. SyncKnown(s)'
  BY <1>2, EmptyKnownNext DEF NoSync, SyncAt
<1>4. ASSUME NEW r \in Recs
      PROVE  RecordKnown(r)'
  <2>1. Behind(r) => srv[r].cursor > sync[s].max
    BY <1>1 DEF Behind, OneSync
  <2>2. \A t \in Syncs : sync'[t].step # "store"
    BY <1>2 DEF OneSync, NoSync, SyncAt
  <2>3. Behind(r) => Behind(r)'
    BY <1>1, <2>1, <2>2 DEF Behind, At, SaveCursor
  <2>4. Unsettled(store[r].data)' <=> Unsettled(store[r].data)
    BY DEF Unsettled, SaveCursor
  <2>5. QED
    BY <2>3, <2>4 DEF Known, RecordKnown, Explained, Comes, Same, Has, SaveCursor
<1>5. lastCursor' <= seq'
  BY <1>1 DEF SyncKnown, SaveCursor
<1>6. QED
  BY <1>3, <1>4, <1>5 DEF Known, OneSync

\* An entry that is pending or failed stays so.
LEMMA EntryUnsettled ==
    ASSUME TypeOK, NEW o \in Ops, NEW entry, queue' = [queue EXCEPT ![o] = entry], call' = call,
           entry.status \in {"pending", "failed"} \/ entry.status = queue[o].status
    PROVE  \A p \in Ops : Unsettled(p) => Unsettled(p)'
BY DEF TypeOK, Unsettled

LEMMA FailedKnown ==
    ASSUME OneSync, Inductive, Inductive', Known, NEW s \in Syncs, NEW t \in sync[s].todo,
           Retry(s, t) \/ MarkFailed(s, t)
    PROVE  Known'
<1>1. TypeOK /\ Steady /\ SyncKnown(s) /\ sync[s].step \in {"retry", "fail"}
  BY NothingMoves DEF Inductive, Known, Retry, MarkFailed, At
<1>2. PICK x \in SyncStates : x = sync[s]
  BY <1>1 DEF TypeOK
<1>3. PICK y : y = [x EXCEPT !.todo = @ \ {t}]
  OBVIOUS
<1>4. sync' = [sync EXCEPT ![s] = y]
  BY <1>2, <1>3 DEF Retry, MarkFailed
<1>5. sync'[s] = y /\ y.step = sync[s].step /\ y.applied = {} /\ y.rejected = {}
  BY <1>1, <1>2, <1>3, <1>4 DEF SyncStates, TypeOK, SyncKnown, StageHolds
<1>6. SyncKnown(s)'
  BY <1>1, <1>5, EmptyKnownNext
<1>7. \A o \in Ops : Unsettled(o) => Unsettled(o)'
  <2>1. PICK o \in Ops, n \in Nat : o = t.op /\ n = t.retries + 1
    BY <1>2 DEF SyncStates, Tried
  <2>2. PICK entry : /\ Patch(o, entry)
                     /\ \/ entry = [queue[o] EXCEPT !.status = "failed", !.retries = n]
                        \/ entry = [queue[o] EXCEPT !.retries = n, !.waiting = TRUE]
    BY <2>1 DEF Retry, MarkFailed, Retried
  <2>3. CASE Queued(o)
    <3>1. PICK e \in Entries : e = queue[o]
      BY <1>1, <2>3 DEF TypeOK, Queued, NoEntry
    <3>2. /\ [e EXCEPT !.status = "failed", !.retries = n].status = "failed"
          /\ [e EXCEPT !.retries = n, !.waiting = TRUE].status = e.status
      BY DEF Entries
    <3>3. entry.status \in {"pending", "failed"} \/ entry.status = queue[o].status
      BY <2>2, <3>1, <3>2
    <3>4. queue' = [queue EXCEPT ![o] = entry] /\ call' = call
      BY <2>2, <2>3 DEF Patch, Retry, MarkFailed
    <3>5. QED
      BY <1>1, <3>3, <3>4, EntryUnsettled
  <2>4. CASE ~Queued(o)
    BY <2>2, <2>4 DEF Patch, Unsettled, Retry, MarkFailed
  <2>5. QED
    BY <2>3, <2>4
<1>8. QED
  BY <1>1, <1>4, <1>5, <1>6, <1>7, SyncMovesKnown DEF Retry, MarkFailed, At

LEMMA ElapseKnown ==
    ASSUME Inductive, Inductive', Known, NEW o \in Ops, Elapse(o)
    PROVE  Known'
<1>1. TypeOK /\ Steady
  BY NothingMoves DEF Inductive, Elapse
<1>2. PICK e \in Entries : e = queue[o]
  BY <1>1 DEF TypeOK, Elapse, Pending, NoEntry
<1>3. PICK entry : entry = [e EXCEPT !.waiting = FALSE]
  OBVIOUS
<1>4. entry.status = queue[o].status /\ queue' = [queue EXCEPT ![o] = entry]
  BY <1>2, <1>3 DEF Entries, Elapse
<1>5. \A p \in Ops : Unsettled(p) => Unsettled(p)'
  BY <1>1, <1>4, EntryUnsettled DEF Elapse
<1>6. QED
  BY <1>1, <1>5, CallKnown DEF Elapse

-----------------------------------------------------------------------------

LEMMA InitKnown ==
    ASSUME Init
    PROVE  Known
<1>1. ASSUME NEW s \in Syncs
      PROVE  SyncKnown(s)
  BY EmptyKnown DEF Init, NoSync, SyncAt
<1>2. ASSUME NEW r \in Recs
      PROVE  RecordKnown(r)
  BY SdkClientAssumption DEF Init, RecordKnown, Comes, NoCopy, NoRow, Explained, Has
<1>3. QED
  BY <1>1, <1>2 DEF Init, Known

LEMMA SyncStepKnown ==
    ASSUME OneSync, Inductive, Inductive', Known, NEW s \in Syncs, SyncStep(s) \/ SyncFault(s)
    PROVE  Known'
<1>1. CASE Push(s)
  BY <1>1, PostKnown, PollCompletedKnown, RestartKnown DEF Push
<1>2. CASE Results(s)
  BY <1>2, MarkAppliedKnown, ConfirmKnown, StageStepKnown, ServerWinsKnown, HandlerWinsKnown
  DEF Results
<1>3. CASE Finish(s)
  BY <1>3, PullKnown, SaveCursorKnown, RestartKnown, StorePulledKnown, FailedKnown DEF Finish
<1>4. QED
  BY <1>1, <1>2, <1>3, RestartKnown DEF SyncStep

LEMMA StepKnown ==
    ASSUME OneSync, "closed" \notin Faults, Inductive, Inductive', Known, [Next]_vars
    PROVE  Known'
<1>1. CASE \E c \in Calls, r \in Recs, o \in Ops : CreateRecord(c, r, o) \/ ReadRecord(c, r, o)
  BY <1>1, CreateRecordKnown, ReadRecordKnown
<1>2. CASE \E c \in Calls : CallStep(c)
  BY <1>2, WriteRecordKnown, EnqueueKnown DEF CallStep
<1>3. CASE \E s \in Syncs : SyncStep(s) \/ SyncFault(s)
  BY <1>3, SyncStepKnown
<1>4. CASE \E j \in Jobs : JobStep(j) \/ JobFault(j)
  BY <1>4, JobStepKnown, JobFaultKnown
<1>5. CASE \E r \in Recs : ForeignPut(r) \/ ForeignDelete(r)
  BY <1>5, ForeignKnown
<1>6. CASE \E o \in Ops : Elapse(o)
  BY <1>6, ElapseKnown
<1>7. CASE UNCHANGED vars
  <2>1. Steady
    BY <1>7, NothingMoves DEF Inductive, vars
  <2>2. QED
    BY <1>7, <2>1, CallKnown DEF vars, Unsettled
<1>8. QED
  BY <1>1, <1>2, <1>3, <1>4, <1>5, <1>6, <1>7 DEF Next, Reload, Fault

\* Once the client has nothing left to push, nothing failed and nothing to pull,
\* each of its copies is the server's row (updateLocalRecord, updateRecord of
\* syncra-sdk.ts, whatever the order of answers, pulls and edits): for one
\* sync() at a time on a page that is never closed, with any number of records,
\* calls, other clients' changes, and every other failure.
THEOREM NothingStaleCorrect ==
    ASSUME OneSync, "closed" \notin Faults
    PROVE  Spec => []NothingStale
<1>1. Init => Known
  BY InitKnown
<1>2. Inductive /\ Inductive' /\ Known /\ [Next]_vars => Known'
  BY StepKnown
<1>3. Inductive /\ Known => NothingStale
  <2> SUFFICES ASSUME Inductive, Known, Quiet, NEW r \in Recs, Has(r)
               PROVE  Same(r, store[r])
    BY DEF NothingStale, Same
  <2>1. Explained(r) /\ srv[r].cursor <= seq /\ seq \in Nat /\ srv[r].cursor \in Nat
    BY KnownTypes DEF Known, RecordKnown, Inductive, Numbers
  <2>2. ~Behind(r)
    BY <2>1 DEF Behind, Quiet, At
  <2>3. \A o \in Ops : ~Unsettled(o)
    BY SdkClientAssumption DEF Unsettled, Quiet, NoCall
  <2>4. QED
    BY <2>1, <2>2, <2>3 DEF Explained
<1>4. QED
  BY <1>1, <1>2, <1>3, InductiveCorrect, PTL DEF Spec

-----------------------------------------------------------------------------
(* No change is lost: what the client shows is queued, and only what the    *)
(* server has not applied is dropped.                                       *)
(*                                                                          *)
(* For one sync() at a time, no closed page and no job that the client does *)
(* not wait for to its end; TLC finds each of these conditions necessary.   *)

JobsAwaited == Faults \cap {"lost answer", "gave up", "closed"} = {}

\* What the server says was written by an operation was applied as that one.
Genuine(data) == data \in Ops => data \in done

\* An answer about a copy has a version, and a rejected one is not applied.
AnswersGenuine(applied, rejected) ==
    /\ \A a \in applied : edit[a.op].type # "delete" => a.version > 0
    /\ \A a \in rejected : a.version > 0 /\ Genuine(a.data) /\ a.op \notin done

SyncGenuine(s) ==
    /\ At(s, "post") => \A o \in OpsOf(sync[s].batch) : Queued(o)
    /\ AnswersGenuine(sync[s].applied, sync[s].rejected)
    /\ \A c \in sync[s].pulled : Genuine(c.data)

\* A job is that of the sync() under way, and its operations are queued.
JobHeld(j) ==
    /\ Awaited(j)
    /\ job[j].todo \subseteq job[j].ops /\ \A o \in job[j].ops : Queued(o)
    /\ OpsOf(job[j].rejected) \cap job[j].todo = {}
    /\ AnswersGenuine(job[j].applied, job[j].rejected)

\* A change the client shows is that of a record that is there, and queued or
\* about to be.
CopyKept(r) ==
    store[r].data \in Ops =>
        /\ Has(r)
        /\ Queued(store[r].data) \/ \E c \in Calls : call[c].op = store[r].data

Kept ==
    /\ \A o \in done : Queued(o)
    /\ \A r \in Recs : Genuine(srv[r].data) /\ CopyKept(r)
    /\ \A s \in Syncs : SyncGenuine(s)
    /\ \A j \in Jobs : job[j] = NoJob \/ JobHeld(j)

\* While the only sync() does not wait for a job, there is none.
LEMMA NoJobs ==
    ASSUME OneSync, Kept, NEW s \in Syncs, ~At(s, "poll")
    PROVE  \A j \in Jobs : job[j] = NoJob
BY DEF OneSync, Kept, JobHeld, Awaited

LEMMA OneJob ==
    ASSUME OneSync, Kept, NEW j \in Jobs, job[j] # NoJob
    PROVE  /\ \A k \in Jobs \ {j} : job[k] = NoJob
           /\ \A s \in Syncs : At(s, "poll") /\ sync[s].job = j
BY DEF OneSync, Kept, JobHeld, Awaited

\* A copy that is left alone stays kept.
LEMMA CopyStays ==
    ASSUME NEW r \in Recs, CopyKept(r), store'[r] = store[r],
           \A o \in Ops : Queued(o) => Queued(o)',
           \A o \in Ops : (\E c \in Calls : call[c].op = o) =>
               Queued(o)' \/ \E c \in Calls : call'[c].op = o
    PROVE  CopyKept(r)'
BY DEF CopyKept, Has

LEMMA AnswersGenuineKept ==
    ASSUME Steady, done \subseteq done', NEW applied, NEW rejected,
           AnswersGenuine(applied, rejected), Edited(OpsOf(applied)), OpsOf(applied) \subseteq Ops,
           \A a \in rejected : a.op \notin done'
    PROVE  AnswersGenuine(applied, rejected)'
<1>1. ASSUME NEW a \in applied
      PROVE  edit'[a.op] = edit[a.op]
  BY DEF OpsOf, Edited, Steady
<1>2. QED
  BY <1>1 DEF AnswersGenuine, Genuine

LEMMA SyncGenuineKept ==
    ASSUME Inductive, Steady, done' = done, NEW s \in Syncs, SyncGenuine(s), sync'[s] = sync[s],
           At(s, "post") => \A o \in Ops : Queued(o) => Queued(o)'
    PROVE  SyncGenuine(s)'
<1>1. SyncOK(s) /\ OpsOf(sync[s].applied) \subseteq Ops /\ OpsOf(sync[s].batch) \subseteq Ops
  BY SyncOps DEF Inductive
<1>2. PICK applied, rejected : applied = sync[s].applied /\ rejected = sync[s].rejected
  OBVIOUS
<1>3. AnswersGenuine(applied, rejected)'
  BY <1>1, <1>2, AnswersGenuineKept, SMTT(30) DEF SyncOK, SyncGenuine, AnswersGenuine
<1>4. AnswersGenuine(sync[s].applied, sync[s].rejected)'
  BY <1>2, <1>3 DEF AnswersGenuine
<1>5. OpsOf(sync[s].batch)' = OpsOf(sync[s].batch)
  BY DEF OpsOf
<1>6. QED
  BY <1>1, <1>4, <1>5 DEF SyncGenuine, Genuine, At

LEMMA JobHeldKept ==
    ASSUME Inductive, Steady, done' = done, NEW j \in Jobs, JobHeld(j), job'[j] = job[j],
           \A s \in Syncs : sync'[s] = sync[s], \A o \in Ops : Queued(o) => Queued(o)'
    PROVE  JobHeld(j)'
<1>1. JobOK(j) /\ OpsOf(job[j].applied) \subseteq Ops /\ job[j].ops \subseteq Ops
  BY JobOps DEF Inductive
<1>2. PICK applied, rejected : applied = job[j].applied /\ rejected = job[j].rejected
  OBVIOUS
<1>3. AnswersGenuine(applied, rejected)'
  BY <1>1, <1>2, AnswersGenuineKept DEF JobOK, JobHeld, AnswersGenuine
<1>4. AnswersGenuine(job[j].applied, job[j].rejected)'
  BY <1>2, <1>3 DEF AnswersGenuine
<1>5. OpsOf(job[j].rejected)' = OpsOf(job[j].rejected)
  BY DEF OpsOf
<1>6. Awaited(j)'
  BY DEF JobHeld, Awaited, At
<1>7. QED
  BY <1>1, <1>4, <1>5, <1>6 DEF JobHeld

-----------------------------------------------------------------------------
(* The queue: nothing leaves it unnoticed. *)

\* What is patched, made or due again in the queue stays queued.
LEMMA PatchQueued ==
    ASSUME TypeOK, NEW o, NEW entry, Patch(o, entry),
           o \in Ops /\ Queued(o) => entry.status # "none"
    PROVE  \A p \in Ops : Queued(p) => Queued(p)'
BY DEF Patch, Queued, TypeOK

LEMMA MarkAppliedQueued ==
    ASSUME TypeOK, NEW s \in Syncs, NEW a, MarkApplied(s, a)
    PROVE  \A p \in Ops : Queued(p) => Queued(p)'
<1>1. PICK o : o = a.op /\ Patch(o, [queue[o] EXCEPT !.status = "applied"])
  BY DEF MarkApplied
<1>2. ASSUME o \in Ops, Queued(o)
      PROVE  [queue[o] EXCEPT !.status = "applied"].status # "none"
  <2>1. PICK e \in Entries : e = queue[o]
    BY <1>2 DEF TypeOK, Queued, NoEntry
  <2>2. [e EXCEPT !.status = "applied"].status = "applied"
    BY DEF Entries
  <2>3. QED
    BY <2>1, <2>2
<1>3. QED
  BY <1>1, <1>2, PatchQueued

LEMMA FailedQueued ==
    ASSUME TypeOK, NEW s \in Syncs, NEW t \in sync[s].todo, Retry(s, t) \/ MarkFailed(s, t)
    PROVE  \A p \in Ops : Queued(p) => Queued(p)'
<1>1. t \in Tried
  BY SyncOps DEF SyncStates
<1>2. PICK o \in Ops, n \in Nat : o = t.op /\ n = t.retries + 1
  BY <1>1 DEF Tried
<1>3. PICK entry : /\ Patch(o, entry)
                   /\ \/ entry = [queue[o] EXCEPT !.status = "failed", !.retries = n]
                      \/ entry = [queue[o] EXCEPT !.retries = n, !.waiting = TRUE]
  BY <1>2 DEF Retry, MarkFailed, Retried
<1>4. ASSUME Queued(o)
      PROVE  entry.status # "none"
  <2>1. PICK e \in Entries : e = queue[o]
    BY <1>4 DEF TypeOK, Queued, NoEntry
  <2>2. /\ [e EXCEPT !.status = "failed", !.retries = n].status = "failed"
        /\ [e EXCEPT !.retries = n, !.waiting = TRUE].status = e.status
    BY DEF Entries
  <2>3. QED
    BY <1>3, <1>4, <2>1, <2>2 DEF Queued
<1>5. QED
  BY <1>3, <1>4, PatchQueued

LEMMA NewEntryQueued ==
    ASSUME TypeOK, NEW o, queue' = [queue EXCEPT ![o] = NewEntry]
    PROVE  \A p \in Ops : Queued(p) => Queued(p)'
BY DEF TypeOK, Queued, NewEntry

LEMMA ElapseQueued ==
    ASSUME TypeOK, NEW o \in Ops, Elapse(o)
    PROVE  \A p \in Ops : Queued(p) => Queued(p)'
<1>1. PICK e \in Entries : e = queue[o]
  BY DEF TypeOK, Elapse, Pending, NoEntry
<1>2. PICK entry : entry = [e EXCEPT !.waiting = FALSE]
  OBVIOUS
<1>3. entry.status = queue[o].status /\ queue' = [queue EXCEPT ![o] = entry]
  BY <1>1, <1>2 DEF Entries, Elapse
<1>4. QED
  BY <1>3 DEF Queued, TypeOK

\* Nothing is dropped from the queue but what ServerWins drops.
LEMMA StepQueued ==
    ASSUME Inductive, [Next]_vars
    PROVE  \/ \E s \in Syncs : \E a \in sync[s].rejected : ServerWins(s, a)
           \/ \A p \in Ops : Queued(p) => Queued(p)'
<1> DEFINE Staying == \A p \in Ops : Queued(p) => Queued(p)'
<1>1. TypeOK
  BY DEF Inductive
<1>2. UNCHANGED queue => Staying
  BY DEF Queued
<1>3. ASSUME NEW s \in Syncs, SyncStep(s) \/ SyncFault(s)
      PROVE  Staying \/ \E a \in sync[s].rejected : ServerWins(s, a)
  <2>1. CASE Results(s)
    <3>1. ASSUME NEW a \in sync[s].rejected, NEW o \in Ops, HandlerWins(s, a, o)
          PROVE  Staying
      BY <1>1, <3>1, NewEntryQueued DEF HandlerWins
    <3>2. QED
      BY <1>1, <1>2, <2>1, <3>1, MarkAppliedQueued
      DEF Results, Confirm, ReadRejected, AllApplied, AllRejected
  <2>2. CASE \E t \in sync[s].todo : Retry(s, t) \/ MarkFailed(s, t)
    BY <1>1, <2>2, FailedQueued
  <2>3. QED
    BY <1>2, <1>3, <2>1, <2>2
    DEF SyncStep, SyncFault, Begin, Push, Post, PollCompleted, PollFailed, Finish, Pull,
        SaveCursor, Throw, StorePulled, PostUnanswered, PostFails, GiveUp, PullFails
<1>4. CASE \E c \in Calls : CallStep(c)
  BY <1>1, <1>2, <1>4, NewEntryQueued DEF CallStep, WriteRecord, Enqueue
<1>5. CASE \E o \in Ops : Elapse(o)
  BY <1>1, <1>5, ElapseQueued
<1>6. CASE \E j \in Jobs : JobStep(j) \/ JobFault(j)
  BY <1>2, <1>6 DEF JobStep, JobFault, JobRepeat, JobApply, JobReject, JobError
<1>7. QED
  BY <1>2, <1>3, <1>4, <1>5, <1>6
  DEF Next, vars, CreateRecord, ReadRecord, ForeignPut, ForeignDelete, Reload

-----------------------------------------------------------------------------
(* The application's calls. *)

\* A step in which neither a sync() nor a job moves and nothing is dropped.
LEMMA CallKeeps ==
    ASSUME Inductive, Kept, Steady, sync' = sync, job' = job, srv' = srv, done' = done,
           \A o \in Ops : Queued(o) => Queued(o)',
           \A r \in Recs : CopyKept(r)'
    PROVE  Kept'
<1>1. \A s \in Syncs : SyncGenuine(s)'
  BY SyncGenuineKept DEF Kept
<1>2. \A j \in Jobs : job'[j] = NoJob \/ JobHeld(j)'
  BY JobHeldKept DEF Kept
<1>3. \A o \in done' : Queued(o)'
  BY DEF Kept, Inductive, TypeOK
<1>4. QED
  BY <1>1, <1>2, <1>3 DEF Kept, Genuine

LEMMA ApplicationKeeps ==
    ASSUME Inductive, Kept, NEW c \in Calls, NEW r \in Recs, NEW o \in Ops,
           CreateRecord(c, r, o) \/ ReadRecord(c, r, o)
    PROVE  Kept'
<1>1. TypeOK /\ call[c] = NoCall
  BY DEF Inductive, CreateRecord, ReadRecord
<1>2. /\ sync' = sync /\ job' = job /\ srv' = srv /\ seq' = seq /\ done' = done
      /\ queue' = queue /\ lastCursor' = lastCursor
  BY DEF CreateRecord, ReadRecord
<1>3. \A p \in Ops : edit[p] # NoEdit => edit'[p] = edit[p]
  BY <1>1 DEF CreateRecord, ReadRecord, NewEdit, TypeOK
<1>4. Steady
  BY <1>1, <1>2, <1>3, KnownTypes DEF Steady, Numbers
<1>5. call'[c].op = o /\ \A d \in Calls \ {c} : call'[d] = call[d]
  BY <1>1 DEF TypeOK, SetCall, CreateRecord, ReadRecord
<1>6. \A d \in Calls : call[d].op \in Ops => call'[d].op = call[d].op
  BY <1>1, <1>5, SdkClientAssumption DEF NoCall
<1>7. ASSUME NEW q \in Recs
      PROVE  CopyKept(q)'
  <2>1. CASE store'[q] = store[q]
    BY <1>2, <1>6, <2>1, CopyStays DEF Kept, Queued
  <2>2. CASE store'[q] = [version |-> 1, data |-> o]
    BY <1>5, <2>2 DEF CopyKept, Has
  <2>3. QED
    BY <1>1, <2>1, <2>2 DEF CreateRecord, ReadRecord, TypeOK
<1>8. QED
  BY <1>2, <1>4, <1>7, CallKeeps DEF Queued

LEMMA WriteRecordKeeps ==
    ASSUME Inductive, Kept, NEW c \in Calls, WriteRecord(c)
    PROVE  Kept'
<1> USE DEF WriteRecord
<1>0. call[c] # NoCall
  BY DEF NoCall
<1>1. TypeOK /\ Steady
  BY NothingMoves DEF Inductive
<1>2. PICK o \in Ops : o = call[c].op /\ edit[o] \in EditsOf
  BY <1>0, WrittenType DEF Inductive, CallOK
<1>3. PICK r \in Recs : r = edit[o].rec
  BY <1>2 DEF EditsOf
<1>4. call'[c].op = o /\ \A d \in Calls : call'[d].op = call[d].op
  BY <1>1, <1>2 DEF TypeOK, SetCall
<1>5. store'[r] = Written(o) /\ \A q \in Recs \ {r} : store'[q] = store[q]
  BY <1>1, <1>2, <1>3 DEF TypeOK
<1>6. Written(o) = NoCopy \/ (Written(o).data = o /\ Written(o).version > 0)
  BY <1>2 DEF Written, EditsOf, Types
<1>7. CopyKept(r)'
  BY <1>4, <1>5, <1>6, SdkClientAssumption DEF CopyKept, Has, NoCopy
<1>8. ASSUME NEW q \in Recs \ {r}
      PROVE  CopyKept(q)'
  BY <1>4, <1>5, CopyStays DEF Kept, Queued
<1>9. QED
  BY <1>1, <1>7, <1>8, CallKeeps DEF Queued

LEMMA EnqueueKeeps ==
    ASSUME Inductive, Kept, NEW c \in Calls, Enqueue(c)
    PROVE  Kept'
<1> USE DEF Enqueue
<1>0. call[c] # NoCall
  BY DEF NoCall
<1>1. TypeOK /\ Steady
  BY NothingMoves DEF Inductive
<1>2. PICK o \in Ops : o = call[c].op
  BY <1>0 DEF Inductive, CallOK
<1>3. queue' = [queue EXCEPT ![o] = NewEntry] /\ call' = [call EXCEPT ![c] = NoCall]
  BY <1>2
<1>4. \A p \in Ops : Queued(p) => Queued(p)'
  BY <1>1, <1>3, NewEntryQueued
<1>5. Queued(o)' /\ \A d \in Calls \ {c} : call'[d] = call[d]
  BY <1>1, <1>3 DEF Queued, NewEntry, TypeOK
<1>6. \A r \in Recs : CopyKept(r)'
  BY <1>2, <1>4, <1>5, CopyStays DEF Kept
<1>7. QED
  BY <1>1, <1>4, <1>6, CallKeeps

LEMMA ElapseKeeps ==
    ASSUME Inductive, Kept, NEW o \in Ops, Elapse(o)
    PROVE  Kept'
<1>1. TypeOK /\ Steady
  BY NothingMoves DEF Inductive, Elapse
<1>2. \A p \in Ops : Queued(p) => Queued(p)'
  BY <1>1, ElapseQueued
<1>3. \A r \in Recs : CopyKept(r)'
  BY <1>2, CopyStays DEF Kept, Elapse
<1>4. QED
  BY <1>1, <1>2, <1>3, CallKeeps DEF Elapse

-----------------------------------------------------------------------------
(* The server's steps. *)

LEMMA ForeignKeeps ==
    ASSUME Inductive, Kept, NEW r \in Recs, ForeignPut(r) \/ ForeignDelete(r)
    PROVE  Kept'
<1>1. TypeOK
  BY DEF Inductive
<1>2. client' = client /\ job' = job /\ done' = done
  BY DEF ForeignPut, ForeignDelete
<1>3. PICK version, data : Change(r, version, data) /\ data \in {Other, None}
  BY DEF ForeignPut, ForeignDelete
<1>4. data \notin Ops /\ Steady
  BY <1>1, <1>2, <1>3, ChangeSteady, SdkClientAssumption DEF Comes
<1>5. \A q \in Recs : Genuine(srv[q].data)'
  BY <1>1, <1>2, <1>3, <1>4 DEF Change, TypeOK, Kept, Genuine
<1>6. \A s \in Syncs : SyncGenuine(s)'
  BY <1>2, <1>4, SyncGenuineKept DEF Kept, Queued
<1>7. \A j \in Jobs : job'[j] = NoJob \/ JobHeld(j)'
  BY <1>2, <1>4, JobHeldKept DEF Kept, Queued
<1>8. \A q \in Recs : CopyKept(q)'
  BY <1>2, CopyStays DEF Kept, Queued
<1>9. QED
  BY <1>2, <1>5, <1>6, <1>7, <1>8 DEF Kept, Queued

\* A step of the only job there is.
LEMMA JobKeeps ==
    ASSUME OneSync, Inductive, Known, Kept, NEW j \in Jobs, job[j] # NoJob, client' = client,
           done \subseteq done', done' \subseteq done \cup job[j].ops,
           \A r \in Recs : Genuine(srv[r].data)',
           \A k \in Jobs \ {j} : job'[k] = job[k],
           job'[j].ops = job[j].ops, job'[j].todo \subseteq job[j].ops,
           (OpsOf(job[j].rejected) \cap job[j].todo = {})',
           AnswersGenuine(job[j].applied, job[j].rejected)'
    PROVE  Kept'
<1>1. /\ \A k \in Jobs \ {j} : job[k] = NoJob
      /\ \A s \in Syncs : At(s, "poll") /\ sync[s].job = j
  BY OneJob
<1>2. JobHeld(j)
  BY DEF Kept
<1>3. \A o \in done' : Queued(o)'
  BY <1>2 DEF JobHeld, Kept, Queued
<1>4. ASSUME NEW s \in Syncs
      PROVE  SyncGenuine(s)'
  <2>1. sync[s].applied = {} /\ sync[s].rejected = {} /\ sync[s].step = "poll"
    BY <1>1 DEF At, Known, SyncKnown, StageHolds
  <2>2. \A c \in sync[s].pulled : Genuine(c.data)'
    BY DEF Kept, SyncGenuine, Genuine
  <2>3. QED
    BY <2>1, <2>2 DEF SyncGenuine, AnswersGenuine, At
<1>5. JobHeld(j)'
  BY <1>2 DEF JobHeld, Awaited, At, Queued
<1>6. \A r \in Recs : CopyKept(r)'
  BY CopyStays DEF Kept, Queued
<1>7. QED
  BY <1>1, <1>3, <1>4, <1>5, <1>6 DEF Kept

\* The mutation leaves rows that applied operations wrote; that of no deletion
\* gives its record a version.
LEMMA MutateGenuine ==
    ASSUME TypeOK, Kept, NEW o \in Ops, edit[o] \in EditsOf, Apply(o)
    PROVE  /\ done' = done \cup {o}
           /\ \A r \in Recs : Genuine(srv[r].data)'
           /\ edit[o].type # "delete" => srv'[edit[o].rec].version > 0
<1>1. PICK r \in Recs : r = edit[o].rec
  BY DEF EditsOf
<1>2. done' = done \cup {o}
  BY DEF Apply
<1>3. srv[r].version + 1 > 0
  BY KnownTypes DEF Numbers
<1>4. \/ Change(r, srv[r].version + 1, o)
      \/ edit[o].type = "delete" /\ Change(r, 0, None)
      \/ edit[o].type = "delete" /\ srv' = srv
  BY <1>1 DEF Apply, Mutate
<1>5. CASE Change(r, srv[r].version + 1, o)
  BY <1>1, <1>2, <1>3, <1>5 DEF Change, TypeOK, Kept, Genuine
<1>6. CASE edit[o].type = "delete" /\ Change(r, 0, None)
  BY <1>2, <1>6, SdkClientAssumption DEF Change, TypeOK, Kept, Genuine
<1>7. CASE edit[o].type = "delete" /\ srv' = srv
  BY <1>2, <1>7 DEF Kept, Genuine
<1>8. QED
  BY <1>2, <1>4, <1>5, <1>6, <1>7

LEMMA JobStepKeeps ==
    ASSUME OneSync, Inductive, Known, Kept, NEW j \in Jobs, JobStep(j) \/ JobFault(j)
    PROVE  Kept'
<1>1. PICK o \in First(job[j].todo) :
        JobRepeat(j, o) \/ JobApply(j, o) \/ JobReject(j, o) \/ JobError(j, o)
  BY DEF JobStep, JobFault
<1>2. o \in Ops /\ edit[o] \in EditsOf /\ edit[o] # NoEdit /\ TypeOK /\ o \in job[j].todo
  BY JobOpType DEF Inductive, First, EditsOf, NoEdit
<1>3. PICK r \in Recs : r = edit[o].rec
  BY <1>2 DEF EditsOf
<1>4. job[j] # NoJob
  BY <1>2 DEF NoJob, JobOf
<1>5. JobHeld(j)
  BY <1>4 DEF Kept
<1>6. client' = client /\ edit' = edit
  BY <1>1 DEF JobRepeat, JobApply, JobReject, JobError
<1>7. ASSUME NEW applied, NEW rejected, Progress(j, o, applied, rejected),
             done' \in {done, done \cup {o}}, \A q \in Recs : Genuine(srv[q].data)',
             AnswersGenuine(applied, rejected)', \A a \in rejected : a.op = o
      PROVE  Kept'
  <2>1. job \in [Jobs -> JobStates] /\ job[j] \in JobStates
    BY <1>2 DEF TypeOK
  <2>2. /\ job'[j].applied = job[j].applied \cup applied
        /\ job'[j].rejected = job[j].rejected \cup rejected
        /\ job'[j].ops = job[j].ops /\ job'[j].todo = job[j].todo \ {o}
        /\ \A k \in Jobs \ {j} : job'[k] = job[k]
    BY <1>7, <2>1 DEF Progress, JobStates
  <2>3. ASSUME NEW a \in job[j].rejected
        PROVE  a.op \notin job[j].todo /\ a.op \notin done'
    <3>1. a.op \notin job[j].todo /\ a.op \notin done
      BY <1>5 DEF JobHeld, OpsOf, AnswersGenuine
    <3>2. QED
      BY <1>2, <1>7, <3>1
  <2>4. AnswersGenuine(job[j].applied, job[j].rejected)'
    BY <1>5, <1>6, <1>7, <2>2, <2>3 DEF JobHeld, AnswersGenuine, Genuine
  <2>5. (OpsOf(job[j].rejected) \cap job[j].todo = {})'
    BY <1>7, <2>2, <2>3 DEF OpsOf
  <2>6. job[j].todo \subseteq job[j].ops
    BY <1>5 DEF JobHeld
  <2>7. QED
    BY <1>2, <1>4, <1>6, <1>7, <2>2, <2>4, <2>5, <2>6, JobKeeps
<1>8. CASE JobRepeat(j, o)
  <2>1. done' = done /\ Progress(j, o, {}, {}) /\ \A q \in Recs : Genuine(srv[q].data)'
    BY <1>8 DEF JobRepeat, Kept, Genuine
  <2>2. AnswersGenuine({}, {})'
    BY DEF AnswersGenuine
  <2>3. QED
    BY <1>7, <2>1, <2>2
<1>9. CASE JobApply(j, o)
  <2>1. /\ done' = done \cup {o} /\ \A q \in Recs : Genuine(srv[q].data)'
        /\ edit[o].type # "delete" => srv'[r].version > 0
    BY <1>2, <1>3, <1>9, MutateGenuine DEF JobApply
  <2>2. PICK a : a = [op |-> o, version |-> srv'[r].version, data |-> o]
    OBVIOUS
  <2>3. AnswersGenuine({a}, {})'
    BY <1>6, <2>1, <2>2 DEF AnswersGenuine
  <2>4. Progress(j, o, {a}, {})
    BY <1>3, <1>9, <2>2 DEF JobApply
  <2>5. QED
    BY <1>7, <2>1, <2>3, <2>4
<1>10. CASE JobReject(j, o)
  <2>1. PICK a : a = [op |-> o, version |-> srv[r].version, data |-> srv[r].data]
    OBVIOUS
  <2>2. /\ done' = done /\ o \notin done /\ srv[r].version > 0 /\ srv' = srv
        /\ Progress(j, o, {}, {a})
    BY <1>3, <1>10, <2>1 DEF JobReject, Conflict
  <2>3. \A q \in Recs : Genuine(srv[q].data)'
    BY <2>2 DEF Kept, Genuine
  <2>4. AnswersGenuine({}, {a})'
    BY <2>1, <2>2, <2>3 DEF AnswersGenuine, Genuine
  <2>5. QED
    BY <1>7, <2>1, <2>2, <2>3, <2>4
<1>11. CASE JobError(j, o)
  <2>1. PICK state : job' = [job EXCEPT ![j] = JobOf(state, job[j].ops)]
    BY <1>11 DEF JobError
  <2>2. /\ job'[j].applied = {} /\ job'[j].rejected = {}
        /\ job'[j].ops = job[j].ops /\ job'[j].todo = job[j].ops
        /\ \A k \in Jobs \ {j} : job'[k] = job[k]
    BY <1>2, <2>1 DEF TypeOK, JobOf
  <2>3. done' \in {done, done \cup {o}} /\ \A q \in Recs : Genuine(srv[q].data)'
    BY <1>2, <1>11, MutateGenuine DEF JobError, Kept, Genuine
  <2>4. AnswersGenuine(job[j].applied, job[j].rejected)'
    BY <2>2 DEF AnswersGenuine
  <2>5. (OpsOf(job[j].rejected) \cap job[j].todo = {})'
    BY <2>2 DEF OpsOf
  <2>6. job[j].todo \subseteq job[j].ops
    BY <1>5 DEF JobHeld
  <2>7. QED
    BY <1>2, <1>4, <1>6, <2>2, <2>3, <2>4, <2>5, <2>6, JobKeeps
<1>12. QED
  BY <1>1, <1>8, <1>9, <1>10, <1>11

-----------------------------------------------------------------------------
(* sync(). *)

LEMMA SyncKeeps ==
    ASSUME OneSync, Kept, NEW s \in Syncs, SyncGenuine(s)', srv' = srv, done' = done,
           \A j \in Jobs : job'[j] = NoJob \/ JobHeld(j)',
           \A o \in done : Queued(o)', \A r \in Recs : CopyKept(r)'
    PROVE  Kept'
BY DEF OneSync, Kept, Genuine

\* A sync() that holds nothing.
LEMMA EmptyGenuine ==
    ASSUME NEW s \in Syncs, sync'[s].applied = {}, sync'[s].rejected = {}, sync'[s].pulled = {},
           sync'[s].step # "post"
    PROVE  SyncGenuine(s)'
BY DEF SyncGenuine, AnswersGenuine, At

\* The copies, when nothing is written and nothing dropped.
LEMMA CopiesStay ==
    ASSUME Kept, store' = store, call' = call, \A o \in Ops : Queued(o) => Queued(o)'
    PROVE  \A r \in Recs : CopyKept(r)'
BY CopyStays DEF Kept

LEMMA BeginKeeps ==
    ASSUME OneSync, Inductive, Kept, NEW s \in Syncs, Begin(s)
    PROVE  Kept'
<1>1. TypeOK /\ ~At(s, "poll")
  BY DEF Inductive, Begin, At
<1>2. PICK batch : batch = {[op |-> o, retries |-> queue[o].retries] : o \in {p \in Ops : Due(p)}}
  OBVIOUS
<1>3. PICK step : sync' = [sync EXCEPT ![s] = SyncAt(step, batch, {})]
  BY <1>2 DEF Begin
<1>4. /\ sync'[s].applied = {} /\ sync'[s].rejected = {} /\ sync'[s].pulled = {}
      /\ sync'[s].batch = batch
  BY <1>1, <1>3 DEF TypeOK, SyncAt
<1>5. \A o \in OpsOf(batch) : Queued(o)
  BY <1>2 DEF OpsOf, Due, Pending, Queued
<1>6. OpsOf(sync[s].batch)' = OpsOf(batch)
  BY <1>4 DEF OpsOf
<1>7. SyncGenuine(s)'
  BY <1>4, <1>5, <1>6 DEF SyncGenuine, AnswersGenuine, Begin, Queued
<1>8. \A j \in Jobs : job'[j] = NoJob
  BY <1>1, NoJobs DEF Begin
<1>9. QED
  BY <1>7, <1>8, SyncKeeps, CopiesStay DEF Begin, Queued, Kept

LEMMA PostKeeps ==
    ASSUME OneSync, Inductive, Known, Kept, NEW s \in Syncs, NEW j \in Jobs, Post(s, j)
    PROVE  Kept'
<1>1. TypeOK /\ At(s, "post")
  BY DEF Inductive, Post
<1>2. PICK x \in SyncStates : x = sync[s]
  BY <1>1 DEF TypeOK
<1>3. PICK y : y = [x EXCEPT !.step = "poll", !.job = j]
  OBVIOUS
<1>4. sync' = [sync EXCEPT ![s] = y]
  BY <1>2, <1>3 DEF Post
<1>5. /\ sync'[s] = y /\ y.step = "poll" /\ y.job = j
      /\ y.applied = {} /\ y.rejected = {} /\ y.pulled = sync[s].pulled
  BY <1>1, <1>2, <1>3, <1>4 DEF SyncStates, TypeOK, Known, SyncKnown, StageHolds, At
<1>6. SyncGenuine(s)'
  BY <1>5 DEF SyncGenuine, AnswersGenuine, At, Kept, Genuine, Post
<1>7. /\ job'[j].ops = OpsOf(sync[s].batch) /\ job'[j].todo = job'[j].ops
      /\ job'[j].applied = {} /\ job'[j].rejected = {}
      /\ \A k \in Jobs \ {j} : job'[k] = job[k]
  BY <1>1 DEF Post, Accepted, JobOf, TypeOK
<1>8. JobHeld(j)'
  <2>1. \A o \in job'[j].ops : Queued(o)'
    BY <1>1, <1>7 DEF Kept, SyncGenuine, Post, Queued
  <2>2. Awaited(j)'
    BY <1>5 DEF Awaited, At
  <2>3. OpsOf(job[j].rejected)' = {} /\ AnswersGenuine(job[j].applied, job[j].rejected)'
    BY <1>7 DEF OpsOf, AnswersGenuine
  <2>4. QED
    BY <1>7, <2>1, <2>2, <2>3 DEF JobHeld
<1>9. \A k \in Jobs \ {j} : job'[k] = NoJob
  BY <1>1, <1>7, NoJobs DEF At
<1>10. QED
  BY <1>6, <1>8, <1>9, SyncKeeps, CopiesStay DEF Post, Queued, Kept

LEMMA PollCompletedKeeps ==
    ASSUME OneSync, Inductive, Kept, NEW s \in Syncs, PollCompleted(s)
    PROVE  Kept'
<1>1. TypeOK /\ At(s, "poll")
  BY DEF Inductive, PollCompleted
<1>2. PICK j \in Jobs : j = sync[s].job
  BY <1>1 DEF Inductive, SyncOK
<1>3. PICK x \in SyncStates : x = sync[s]
  BY <1>1 DEF TypeOK
<1>4. PICK y : y = [x EXCEPT !.step = "applied", !.job = None, !.applied = job[j].applied,
                            !.rejected = job[j].rejected]
  OBVIOUS
<1>5. sync' = [sync EXCEPT ![s] = y]
  BY <1>2, <1>3, <1>4 DEF PollCompleted
<1>6. /\ sync'[s] = y /\ y.step = "applied" /\ y.pulled = sync[s].pulled
      /\ y.applied = job[j].applied /\ y.rejected = job[j].rejected
  BY <1>1, <1>3, <1>4, <1>5 DEF SyncStates, TypeOK
<1>7. job[j] # NoJob
  BY <1>2 DEF PollCompleted, NoJob, JobOf
<1>8. JobHeld(j) /\ \A k \in Jobs \ {j} : job[k] = NoJob
  BY <1>7, OneJob DEF Kept
<1>9. SyncGenuine(s)'
  BY <1>6, <1>8 DEF SyncGenuine, AnswersGenuine, At, Kept, Genuine, JobHeld, PollCompleted
<1>10. \A k \in Jobs : job'[k] = NoJob
  BY <1>1, <1>2, <1>8 DEF PollCompleted, TypeOK
<1>11. QED
  BY <1>9, <1>10, SyncKeeps, CopiesStay DEF PollCompleted, Queued, Kept

LEMMA PollFailedKeeps ==
    ASSUME OneSync, Inductive, Kept, NEW s \in Syncs, PollFailed(s)
    PROVE  Kept'
<1>1. TypeOK /\ At(s, "poll")
  BY DEF Inductive, PollFailed
<1>2. PICK j \in Jobs : j = sync[s].job
  BY <1>1 DEF Inductive, SyncOK
<1>3. job[j] # NoJob
  BY <1>2 DEF PollFailed, NoJob, JobOf
<1>4. \A k \in Jobs \ {j} : job[k] = NoJob
  BY <1>3, OneJob
<1>5. \A k \in Jobs : job'[k] = NoJob
  BY <1>1, <1>2, <1>4 DEF PollFailed, TypeOK
<1>6. SyncGenuine(s)'
  BY <1>1, EmptyGenuine DEF PollFailed, Recover, SyncAt, TypeOK
<1>7. QED
  BY <1>5, <1>6, SyncKeeps, CopiesStay DEF PollFailed, Queued, Kept

\* The errors that lose no job.
LEMMA FaultKeeps ==
    ASSUME OneSync, JobsAwaited, Inductive, Kept, NEW s \in Syncs, SyncFault(s) \/ Throw(s)
    PROVE  Kept'
<1>1. /\ UNCHANGED <<store, queue, lastCursor, edit, call, server, job>> /\ ~At(s, "poll")
      /\ \/ sync' = [sync EXCEPT ![s] = NoSync]
         \/ Recover(s, "retry") \/ Recover(s, "fail")
  BY DEF SyncFault, PostUnanswered, PostFails, GiveUp, PullFails, Fault, JobsAwaited, Throw, At
<1>2. SyncGenuine(s)'
  <2>1. PICK step \in {"idle", "retry", "fail"} :
          \E batch, todo : sync' = [sync EXCEPT ![s] = SyncAt(step, batch, todo)]
    BY <1>1 DEF NoSync, Recover
  <2>2. PICK batch, todo : sync' = [sync EXCEPT ![s] = SyncAt(step, batch, todo)]
    BY <2>1
  <2>3. QED
    BY <2>2, EmptyGenuine DEF Inductive, TypeOK, SyncAt
<1>3. \A j \in Jobs : job'[j] = NoJob
  BY <1>1, NoJobs
<1>4. QED
  BY <1>1, <1>2, <1>3, SyncKeeps, CopiesStay DEF Queued, Kept

\* A step of a sync() that waits for no job and takes no new answer.
LEMMA ResultKeeps ==
    ASSUME OneSync, Inductive, Kept, Steady, NEW s \in Syncs, NEW y,
           sync' = [sync EXCEPT ![s] = y], ~At(s, "poll"), y.step # "post",
           y.applied \subseteq sync[s].applied, y.rejected \subseteq sync[s].rejected,
           \A c \in y.pulled : Genuine(c.data), UNCHANGED <<server, job>>,
           \A o \in done : Queued(o)', \A r \in Recs : CopyKept(r)'
    PROVE  Kept'
<1>1. sync'[s] = y
  BY DEF Inductive, TypeOK
<1>2. PICK applied, rejected : applied = y.applied /\ rejected = y.rejected
  OBVIOUS
<1>3. SyncOK(s) /\ OpsOf(sync[s].applied) \subseteq Ops
  BY SyncOps DEF Inductive
<1>4. AnswersGenuine(applied, rejected)'
  <2>1. AnswersGenuine(applied, rejected)
    BY <1>2 DEF Kept, SyncGenuine, AnswersGenuine
  <2>2. OpsOf(applied) \subseteq OpsOf(sync[s].applied)
    BY <1>2 DEF OpsOf
  <2>3. Edited(OpsOf(applied)) /\ OpsOf(applied) \subseteq Ops
    BY <1>3, <2>2 DEF SyncOK, Edited
  <2>4. \A a \in rejected : a.op \notin done'
    BY <2>1 DEF AnswersGenuine
  <2>5. QED
    BY <2>1, <2>3, <2>4, AnswersGenuineKept
<1>5. SyncGenuine(s)'
  BY <1>1, <1>2, <1>4 DEF SyncGenuine, AnswersGenuine, At, Genuine
<1>6. \A j \in Jobs : job'[j] = NoJob
  BY NoJobs
<1>7. QED
  BY <1>5, <1>6, SyncKeeps

LEMMA MarkAppliedKeeps ==
    ASSUME OneSync, Inductive, Kept, NEW s \in Syncs, NEW a \in sync[s].applied, MarkApplied(s, a)
    PROVE  Kept'
<1> DEFINE found == edit[a.op].type # "delete" /\ Has(edit[a.op].rec)
<1>1. TypeOK /\ Steady /\ At(s, "applied")
  BY NothingMoves DEF Inductive, MarkApplied
<1>2. PICK x \in SyncStates : x = sync[s]
  BY <1>1 DEF TypeOK
<1>3. PICK y : y = IF found THEN [x EXCEPT !.step = "confirm"] ELSE [x EXCEPT !.applied = @ \ {a}]
  OBVIOUS
<1>4. sync' = [sync EXCEPT ![s] = y]
  BY <1>2, <1>3 DEF MarkApplied
<1>5. /\ y.step \in {"applied", "confirm"} /\ y.pulled = sync[s].pulled
      /\ y.applied \subseteq sync[s].applied /\ y.rejected = sync[s].rejected
  BY <1>1, <1>2, <1>3 DEF SyncStates, At
<1>7. \A p \in Ops : Queued(p) => Queued(p)'
  BY <1>1, MarkAppliedQueued
<1>8. \A r \in Recs : CopyKept(r)'
  BY <1>7, CopiesStay DEF MarkApplied
<1>9. \A c \in y.pulled : Genuine(c.data)
  BY <1>5 DEF Kept, SyncGenuine
<1>10. \A p \in done : Queued(p)'
  BY <1>1, <1>7 DEF Kept, TypeOK
<1>11. QED
  BY <1>1, <1>4, <1>5, <1>8, <1>9, <1>10, ResultKeeps DEF MarkApplied, At

LEMMA ConfirmKeeps ==
    ASSUME OneSync, Inductive, Known, Kept, NEW s \in Syncs, NEW a \in sync[s].applied, Confirm(s, a)
    PROVE  Kept'
<1>1. TypeOK /\ Steady /\ SyncKnown(s) /\ At(s, "confirm")
  BY NothingMoves DEF Inductive, Known, Confirm
<1>2. PICK x \in SyncStates : x = sync[s]
  BY <1>1 DEF TypeOK
<1>3. PICK y : y = [x EXCEPT !.step = "applied", !.applied = @ \ {a}]
  OBVIOUS
<1>4. sync' = [sync EXCEPT ![s] = y]
  BY <1>2, <1>3 DEF Confirm
<1>5. /\ y.step = "applied" /\ y.pulled = sync[s].pulled
      /\ y.applied \subseteq sync[s].applied /\ y.rejected = sync[s].rejected
  BY <1>2, <1>3 DEF SyncStates
<1>6. a.op \in Ops /\ a.data = a.op /\ edit[a.op].rec \in Recs
  BY AppliedKnown
<1>7. a.version > 0 /\ Queued(a.op)
  <2>1. edit[a.op].type # "delete"
    BY <1>1 DEF Confirm, SyncKnown, StageHolds
  <2>2. a.op \in done
    BY DEF Inductive, SyncOK, OpsOf
  <2>3. QED
    BY <2>1, <2>2 DEF Kept, SyncGenuine, AnswersGenuine
<1>8. ASSUME NEW r \in Recs
      PROVE  CopyKept(r)'
  <2>1. CASE r = edit[a.op].rec
    <3>1. store'[r] = [version |-> a.version, data |-> a.data]
      BY <1>1, <2>1 DEF Confirm, TypeOK
    <3>2. QED
      BY <1>6, <1>7, <3>1 DEF CopyKept, Has, Queued, Confirm
  <2>2. CASE r # edit[a.op].rec
    BY <1>1, <2>2, CopyStays DEF Confirm, TypeOK, Kept, Queued
  <2>3. QED
    BY <2>1, <2>2
<1>9. \A c \in y.pulled : Genuine(c.data)
  BY <1>5 DEF Kept, SyncGenuine
<1>10. QED
  BY <1>1, <1>4, <1>5, <1>8, <1>9, ResultKeeps DEF Confirm, At, Kept, Queued

LEMMA StageKeeps ==
    ASSUME OneSync, Inductive, Kept, NEW s \in Syncs,
           AllApplied(s) \/ AllRejected(s) \/ \E a \in sync[s].rejected : ReadRejected(s, a)
    PROVE  Kept'
<1>1. UNCHANGED <<store, queue, lastCursor, edit, call, server, job>> /\ ~At(s, "poll")
  BY DEF AllApplied, AllRejected, ReadRejected, At
<1>2. TypeOK /\ Steady
  BY <1>1, NothingMoves DEF Inductive
<1>3. PICK step \in {"rejected", "pull", "resolve"} : Goto(s, step)
  BY DEF AllApplied, AllRejected, ReadRejected
<1>4. PICK x \in SyncStates : x = sync[s]
  BY <1>2 DEF TypeOK
<1>5. PICK y : y = [x EXCEPT !.step = step]
  OBVIOUS
<1>6. sync' = [sync EXCEPT ![s] = y]
  BY <1>3, <1>4, <1>5 DEF Goto
<1>7. /\ y.step = step /\ y.pulled = sync[s].pulled
      /\ y.applied = sync[s].applied /\ y.rejected = sync[s].rejected
  BY <1>4, <1>5 DEF SyncStates
<1>8. \A c \in y.pulled : Genuine(c.data)
  BY <1>7 DEF Kept, SyncGenuine
<1>9. \A r \in Recs : CopyKept(r)'
  BY <1>1, CopiesStay DEF Queued
<1>10. \A o \in done : Queued(o)'
  BY <1>1 DEF Kept, Queued
<1>11. QED
  BY <1>1, <1>2, <1>6, <1>7, <1>8, <1>9, <1>10, ResultKeeps

\* A rejected answer is of an operation the server has not applied, and its
\* data is that of one it has.
LEMMA RejectedGenuine ==
    ASSUME Kept, NEW s \in Syncs, NEW a \in sync[s].rejected
    PROVE  a.op \notin done /\ a.version > 0 /\ (a.data \in Ops => a.data \in done)
BY DEF Kept, SyncGenuine, AnswersGenuine, Genuine

LEMMA ResolvedState ==
    ASSUME TypeOK, NEW s \in Syncs, NEW a \in sync[s].rejected, Resolved(s, a)
    PROVE  \E y : /\ sync' = [sync EXCEPT ![s] = y]
                  /\ y.step = "rejected" /\ y.pulled = sync[s].pulled
                  /\ y.applied = sync[s].applied /\ y.rejected \subseteq sync[s].rejected
<1>1. PICK x \in SyncStates : x = sync[s]
  BY DEF TypeOK
<1>2. PICK y : y = [x EXCEPT !.step = "rejected", !.rejected = @ \ {a}]
  OBVIOUS
<1>3. /\ y.step = "rejected" /\ y.pulled = x.pulled
      /\ y.applied = x.applied /\ y.rejected \subseteq x.rejected
  BY <1>2 DEF SyncStates
<1>4. sync' = [sync EXCEPT ![s] = y]
  BY <1>1, <1>2 DEF Resolved
<1>5. QED
  BY <1>1, <1>3, <1>4

LEMMA ServerWinsKeeps ==
    ASSUME OneSync, Inductive, Known, Kept, NEW s \in Syncs, NEW a \in sync[s].rejected,
           ServerWins(s, a)
    PROVE  Kept'
<1>1. TypeOK /\ Steady /\ sync[s].step \in {"rejected", "resolve"}
  BY NothingMoves DEF Inductive, ServerWins
<1>2. PICK y : /\ sync' = [sync EXCEPT ![s] = y]
               /\ y.step = "rejected" /\ y.pulled = sync[s].pulled
               /\ y.applied = sync[s].applied /\ y.rejected \subseteq sync[s].rejected
  BY <1>1, ResolvedState DEF ServerWins
<1>3. PICK r \in Recs : r = edit[a.op].rec
  BY RejectedKnown
<1>4. a.op \notin done /\ a.version > 0 /\ (a.data \in Ops => a.data \in done)
  BY RejectedGenuine
<1>5. \A o \in Ops \ {a.op} : queue'[o] = queue[o]
  BY <1>1 DEF ServerWins, TypeOK
<1>6. \A o \in done : Queued(o)'
  BY <1>1, <1>4, <1>5 DEF Kept, Queued, TypeOK
<1>7. ASSUME NEW q \in Recs
      PROVE  CopyKept(q)'
  <2>1. CASE At(s, "resolve") /\ q = r
    <3>1. store'[q] = [version |-> a.version, data |-> a.data]
      BY <1>1, <1>3, <2>1 DEF ServerWins, Overwrite, TypeOK
    <3>2. QED
      BY <1>4, <1>6, <3>1 DEF CopyKept, Has, Queued
  <2>2. CASE ~(At(s, "resolve") /\ q = r)
    <3>1. store'[q] = store[q] /\ call' = call
      BY <1>1, <1>3, <2>2 DEF ServerWins, Overwrite, TypeOK
    <3>2. Comes(store[q].data, q) /\ CopyKept(q)
      BY DEF Known, RecordKnown, Kept
    <3>3. store[q].data \in Ops => store[q].data # a.op
      BY <1>3, <2>2, <3>2 DEF Comes, CopyKept, ServerWins, Overwrite
    <3>4. QED
      BY <1>5, <3>1, <3>2, <3>3 DEF CopyKept, Has, Queued
  <2>3. QED
    BY <2>1, <2>2
<1>8. \A c \in y.pulled : Genuine(c.data)
  BY <1>2 DEF Kept, SyncGenuine
<1>9. QED
  BY <1>1, <1>2, <1>6, <1>7, <1>8, ResultKeeps DEF ServerWins, At

LEMMA HandlerWinsKeeps ==
    ASSUME OneSync, Inductive, Known, Kept, NEW s \in Syncs, NEW a \in sync[s].rejected,
           NEW o \in Ops, HandlerWins(s, a, o)
    PROVE  Kept'
<1>1. TypeOK /\ sync[s].step \in {"rejected", "resolve"}
  BY DEF Inductive, HandlerWins
<1>2. PICK y : /\ sync' = [sync EXCEPT ![s] = y]
               /\ y.step = "rejected" /\ y.pulled = sync[s].pulled
               /\ y.applied = sync[s].applied /\ y.rejected \subseteq sync[s].rejected
  BY <1>1, ResolvedState DEF HandlerWins
<1>3. PICK r \in Recs : r = edit[a.op].rec
  BY RejectedKnown
<1>4. \A p \in Ops : edit[p] # NoEdit => edit'[p] = edit[p]
  BY <1>1 DEF HandlerWins, NewEdit, TypeOK
<1>5. Steady
  BY <1>1, <1>4, KnownTypes DEF Steady, Numbers, HandlerWins
<1>6. queue' = [queue EXCEPT ![o] = NewEntry] /\ call' = call
  BY DEF HandlerWins
<1>7. Queued(o)' /\ \A p \in Ops : Queued(p) => Queued(p)'
  BY <1>1, <1>6 DEF Queued, NewEntry, TypeOK
<1>8. ASSUME NEW q \in Recs
      PROVE  CopyKept(q)'
  <2>1. CASE At(s, "resolve") /\ q = r
    <3>1. store'[q] = [version |-> a.version, data |-> o]
      BY <1>1, <1>3, <2>1 DEF HandlerWins, Overwrite, TypeOK
    <3>2. QED
      BY <1>7, <3>1, RejectedGenuine DEF CopyKept, Has
  <2>2. CASE ~(At(s, "resolve") /\ q = r)
    <3>1. store'[q] = store[q]
      BY <1>1, <1>3, <2>2 DEF HandlerWins, Overwrite, TypeOK
    <3>2. QED
      BY <1>6, <1>7, <3>1, CopyStays DEF Kept
  <2>3. QED
    BY <2>1, <2>2
<1>9. \A c \in y.pulled : Genuine(c.data)
  BY <1>2 DEF Kept, SyncGenuine
<1>10. \A p \in done : Queued(p)'
  BY <1>1, <1>7 DEF Kept, TypeOK
<1>11. QED
  BY <1>1, <1>2, <1>5, <1>8, <1>9, <1>10, ResultKeeps DEF HandlerWins, At

LEMMA PullKeeps ==
    ASSUME OneSync, Inductive, Kept, NEW s \in Syncs, Pull(s)
    PROVE  Kept'
<1>1. TypeOK /\ Steady
  BY NothingMoves DEF Inductive, Pull
<1>2. PICK max : sync' = [sync EXCEPT ![s].step = "store", ![s].pulled = NewChanges, ![s].max = max]
  BY DEF Pull
<1>3. PICK x \in SyncStates : x = sync[s]
  BY <1>1 DEF TypeOK
<1>4. PICK y : y = [x EXCEPT !.step = "store", !.pulled = NewChanges, !.max = max]
  OBVIOUS
<1>5. sync' = [sync EXCEPT ![s] = y]
  BY <1>2, <1>3, <1>4
<1>6. /\ y.step = "store" /\ y.pulled = NewChanges
      /\ y.applied = sync[s].applied /\ y.rejected = sync[s].rejected
  BY <1>3, <1>4 DEF SyncStates
<1>7. ASSUME NEW c \in NewChanges
      PROVE  Genuine(c.data)
  BY DEF NewChanges, Kept
<1>8. \A r \in Recs : CopyKept(r)'
  BY CopiesStay DEF Pull, Queued
<1>9. QED
  BY <1>1, <1>5, <1>6, <1>7, <1>8, ResultKeeps DEF Pull, At, Kept, Queued

LEMMA StorePulledKeeps ==
    ASSUME OneSync, Inductive, Kept, NEW s \in Syncs, NEW c \in sync[s].pulled, StorePulled(s, c)
    PROVE  Kept'
<1>1. TypeOK /\ Steady /\ At(s, "store")
  BY NothingMoves DEF Inductive, StorePulled
<1>2. PICK x \in SyncStates : x = sync[s]
  BY <1>1 DEF TypeOK
<1>3. PICK y : y = [x EXCEPT !.pulled = @ \ {c}]
  OBVIOUS
<1>4. sync' = [sync EXCEPT ![s] = y]
  BY <1>2, <1>3 DEF StorePulled
<1>5. /\ y.step = sync[s].step /\ y.pulled \subseteq sync[s].pulled
      /\ y.applied = sync[s].applied /\ y.rejected = sync[s].rejected
      /\ c.rec \in Recs /\ c.version \in Nat
  BY <1>2, <1>3 DEF SyncStates, Changes
<1>6. PICK copy : /\ store' = [store EXCEPT ![c.rec] = copy]
                  /\ \/ c.version = 0 /\ copy = NoCopy
                     \/ c.version # 0 /\ copy = [version |-> c.version, data |-> c.data]
  BY DEF StorePulled
<1>7. ASSUME NEW r \in Recs
      PROVE  CopyKept(r)'
  <2>1. CASE r = c.rec
    <3>1. store'[r] = copy
      BY <1>1, <1>6, <2>1 DEF TypeOK
    <3>2. c.data \in Ops => Queued(c.data)
      BY DEF Kept, SyncGenuine, Genuine
    <3>3. QED
      BY <1>5, <1>6, <3>1, <3>2, SdkClientAssumption
      DEF CopyKept, Has, Queued, NoCopy, StorePulled
  <2>2. CASE r # c.rec
    BY <1>1, <1>6, <2>2, CopyStays DEF StorePulled, TypeOK, Kept, Queued
  <2>3. QED
    BY <2>1, <2>2
<1>8. \A d \in y.pulled : Genuine(d.data)
  BY <1>5 DEF Kept, SyncGenuine
<1>9. QED
  BY <1>1, <1>4, <1>5, <1>7, <1>8, ResultKeeps DEF StorePulled, At, Kept, Queued

LEMMA SaveCursorKeeps ==
    ASSUME OneSync, Inductive, Kept, NEW s \in Syncs, SaveCursor(s)
    PROVE  Kept'
<1>1. SyncGenuine(s)'
  BY EmptyGenuine DEF Inductive, TypeOK, SaveCursor, NoSync, SyncAt
<1>2. \A j \in Jobs : job'[j] = NoJob
  BY NoJobs DEF SaveCursor, At
<1>3. QED
  BY <1>1, <1>2, SyncKeeps, CopiesStay DEF SaveCursor, Kept, Queued

LEMMA FailedKeeps ==
    ASSUME OneSync, Inductive, Kept, NEW s \in Syncs, NEW t \in sync[s].todo,
           Retry(s, t) \/ MarkFailed(s, t)
    PROVE  Kept'
<1>1. TypeOK /\ Steady /\ sync[s].step \in {"retry", "fail"}
  BY NothingMoves DEF Inductive, Retry, MarkFailed, At
<1>2. PICK x \in SyncStates : x = sync[s]
  BY <1>1 DEF TypeOK
<1>3. PICK y : y = [x EXCEPT !.todo = @ \ {t}]
  OBVIOUS
<1>4. sync' = [sync EXCEPT ![s] = y]
  BY <1>2, <1>3 DEF Retry, MarkFailed
<1>5. /\ y.step = sync[s].step /\ y.pulled = sync[s].pulled
      /\ y.applied = sync[s].applied /\ y.rejected = sync[s].rejected
  BY <1>2, <1>3 DEF SyncStates
<1>6. \A p \in Ops : Queued(p) => Queued(p)'
  BY <1>1, FailedQueued
<1>7. \A r \in Recs : CopyKept(r)'
  BY <1>6, CopiesStay DEF Retry, MarkFailed
<1>8. \A c \in y.pulled : Genuine(c.data)
  BY <1>5 DEF Kept, SyncGenuine
<1>9. \A o \in done : Queued(o)'
  BY <1>1, <1>6 DEF Kept, TypeOK
<1>10. QED
  BY <1>1, <1>4, <1>5, <1>7, <1>8, <1>9, ResultKeeps DEF Retry, MarkFailed, At

-----------------------------------------------------------------------------

LEMMA InitKept ==
    ASSUME Init
    PROVE  Kept
BY SdkClientAssumption
DEF Init, Kept, Genuine, CopyKept, SyncGenuine, AnswersGenuine, At, NoRow, NoCopy, NoSync, SyncAt

LEMMA SyncStepKeeps ==
    ASSUME OneSync, JobsAwaited, Inductive, Known, Kept, NEW s \in Syncs,
           SyncStep(s) \/ SyncFault(s)
    PROVE  Kept'
<1>1. CASE Push(s)
  BY <1>1, PostKeeps, PollCompletedKeeps, PollFailedKeeps DEF Push
<1>2. CASE Results(s)
  BY <1>2, MarkAppliedKeeps, ConfirmKeeps, StageKeeps, ServerWinsKeeps, HandlerWinsKeeps
  DEF Results
<1>3. CASE Finish(s)
  BY <1>3, PullKeeps, SaveCursorKeeps, FaultKeeps, StorePulledKeeps, FailedKeeps DEF Finish
<1>4. QED
  BY <1>1, <1>2, <1>3, BeginKeeps, FaultKeeps DEF SyncStep

LEMMA StepKeeps ==
    ASSUME OneSync, JobsAwaited, Inductive, Known, Kept, [Next]_vars
    PROVE  Kept'
<1>1. CASE \E c \in Calls, r \in Recs, o \in Ops : CreateRecord(c, r, o) \/ ReadRecord(c, r, o)
  BY <1>1, ApplicationKeeps
<1>2. CASE \E c \in Calls : CallStep(c)
  BY <1>2, WriteRecordKeeps, EnqueueKeeps DEF CallStep
<1>3. CASE \E s \in Syncs : SyncStep(s) \/ SyncFault(s)
  BY <1>3, SyncStepKeeps
<1>4. CASE \E j \in Jobs : JobStep(j) \/ JobFault(j)
  BY <1>4, JobStepKeeps
<1>5. CASE \E r \in Recs : ForeignPut(r) \/ ForeignDelete(r)
  BY <1>5, ForeignKeeps
<1>6. CASE \E o \in Ops : Elapse(o)
  BY <1>6, ElapseKeeps
<1>7. CASE UNCHANGED vars
  <2>1. Steady
    BY <1>7, NothingMoves DEF Inductive, vars
  <2>2. \A r \in Recs : CopyKept(r)'
    BY <1>7, CopiesStay DEF vars, Queued
  <2>3. QED
    BY <1>7, <2>1, <2>2, CallKeeps DEF vars, Queued
<1>8. QED
  BY <1>1, <1>2, <1>3, <1>4, <1>5, <1>6, <1>7 DEF Next, Reload, Fault, JobsAwaited

LEMMA KeptCorrect ==
    ASSUME OneSync, JobsAwaited
    PROVE  Spec => [](Inductive /\ Known /\ Kept)
<1>1. "closed" \notin Faults
  BY DEF JobsAwaited
<1>2. Init => Known /\ Kept
  BY InitKnown, InitKept
<1>3. Inductive /\ Inductive' /\ Known /\ Kept /\ [Next]_vars => Known' /\ Kept'
  BY <1>1, StepKnown, StepKeeps
<1>4. QED
  BY <1>2, <1>3, InductiveCorrect, PTL DEF Spec

\* Every change the client shows is in its queue or about to be: the record and
\* the entry are written by separate statements (syncra-sdk.ts:312), and what a
\* pull or an answer brings of the client's own changes was queued before.
THEOREM LocalIsQueuedCorrect ==
    ASSUME OneSync, JobsAwaited
    PROVE  Spec => []LocalIsQueued
<1>1. Kept => LocalIsQueued
  BY DEF Kept, CopyKept, LocalIsQueued
<1>2. QED
  BY <1>1, KeptCorrect, PTL

\* Only an operation the server has not applied is dropped from the queue
\* (dequeueOperation on a rejected one), whatever jobs fail and start again.
THEOREM DroppedIsNotDoneCorrect ==
    ASSUME OneSync, JobsAwaited
    PROVE  Spec => DroppedIsNotDone
<1> DEFINE Dropping == \A o \in Ops : Queued(o) /\ queue'[o] = NoEntry => o \notin done'
<1>1. ASSUME Inductive, Kept, NEW s \in Syncs, NEW a \in sync[s].rejected, ServerWins(s, a)
      PROVE  Dropping
  <2>1. a.op \notin done' /\ \A o \in Ops : o # a.op => queue'[o] = queue[o]
    BY <1>1, RejectedGenuine DEF Inductive, TypeOK, ServerWins
  <2>2. QED
    BY <2>1 DEF Queued, NoEntry
<1>2. Inductive /\ Kept /\ [Next]_vars => Dropping
  BY <1>1, StepQueued DEF Queued, NoEntry
<1>3. Spec => [][Dropping]_vars
  BY <1>2, KeptCorrect, PTL DEF Spec
<1>4. QED
  BY <1>3 DEF DroppedIsNotDone

=============================================================================

------------------------------ MODULE JobQueue ------------------------------
(***************************************************************************)
(* The queue between the API and the operation processor: SyncQueueService *)
(* (src/apps/api/src/sync/sync-queue.service.ts), its worker slots, and the *)
(* requests that push a job and ask for its status                          *)
(* (src/apps/api/src/sync/sync.controller.ts).                              *)
(*                                                                          *)
(* BullMQ is not in the repository.  It is modelled from the options it is  *)
(* given: a job is locked by the slot that took it, for lockDuration; a slot*)
(* renews its locks while its process runs; a finished job must still be    *)
(* locked by the slot that finishes it; an active job without a lock is     *)
(* stalled and goes back, once; an attempt that fails is repeated after a   *)
(* delay while there are attempts left.                                     *)
(*                                                                          *)
(* Covered: slots and processes that run concurrently, operations that fail *)
(* in the middle of a job, processes that die or lose touch with Redis and  *)
(* go on working, completed jobs that are removed, status requests whose    *)
(* two reads are apart.                                                     *)
(* Not covered: the length of delays, jobs lost by Redis itself, what an    *)
(* operation does (module SyncServer).                                      *)
(***************************************************************************)
EXTENDS Integers, FiniteSets

CONSTANTS
    Jobs,        \* jobs clients push
    Slots,       \* worker slots of all processes
    NoJob,       \* no job
    NoSlot,      \* no lock
    NOps,        \* operations in a job
    Attempts,    \* attempts (3)
    MaxStalled,  \* stalls a job survives (1, BullMQ's default)
    MaxExpired   \* bound on locks lost by slots that go on working

ASSUME JobQueueAssumption ==
    /\ NoJob \notin Jobs /\ NoSlot \notin Slots
    /\ NOps \in Nat /\ Attempts \in Nat \ {0} /\ MaxStalled \in Nat
    /\ MaxExpired \in Nat

VARIABLES
    jobs,       \* the jobs in Redis
    slots,      \* the job a slot works on and the operations it has processed
    asked,      \* status requests under way: what getJob returned
    answer,     \* what the client was last told of its job
    processed,  \* history: operations of a job that were processed
    lapses      \* locks lost by working slots, to bound the model

jobVars == <<jobs, slots, asked, answer, processed, lapses>>

JobStates == {"none", "waiting", "active", "delayed", "completed", "failed", "removed"}
JobRows   == [state : JobStates, lock : Slots \cup {NoSlot},
              failures : 0..Attempts, stalls : 0..MaxStalled]
NewJob    == [state |-> "waiting", lock |-> NoSlot, failures |-> 0, stalls |-> 0]
SlotRows  == [job : Jobs \cup {NoJob}, at : 0..NOps]
Idle      == [job |-> NoJob, at |-> 0]
Answers   == {"none", "queued", "active", "completed", "failed", "unknown"}

\* Type invariant: BullMQ's jobs, and the locals of workers and status requests.
JobsTypeOK ==
    /\ jobs \in [Jobs -> JobRows]
    /\ slots \in [Slots -> SlotRows]
    /\ asked \in [Jobs -> {"no", "absent", "unfinished", "finished"}]
    /\ answer \in [Jobs -> Answers]
    /\ processed \in [Jobs -> SUBSET (1..NOps)]
    /\ lapses \in 0..MaxExpired

JobsInit ==
    /\ jobs = [j \in Jobs |-> [NewJob EXCEPT !.state = "none"]]
    /\ slots = [s \in Slots |-> Idle]
    /\ asked = [j \in Jobs |-> "no"]
    /\ answer = [j \in Jobs |-> "none"]
    /\ processed = [j \in Jobs |-> {}]
    /\ lapses = 0

-----------------------------------------------------------------------------
(* The worker. *)

\* POST /sync: enqueue.
PushJob(j) ==
    /\ jobs[j].state = "none"
    /\ jobs' = [jobs EXCEPT ![j] = NewJob]
    /\ UNCHANGED <<slots, asked, answer, processed, lapses>>

Take(s, j) ==
    /\ slots[s].job = NoJob
    /\ jobs[j].state = "waiting"
    /\ jobs' = [jobs EXCEPT ![j].state = "active", ![j].lock = s]
    /\ slots' = [slots EXCEPT ![s] = [job |-> j, at |-> 0]]
    /\ UNCHANGED <<asked, answer, processed, lapses>>

\* processOperations gets one operation further, with the lock or without.
Process(s) ==
    /\ slots[s].job # NoJob
    /\ slots[s].at < NOps
    /\ slots' = [slots EXCEPT ![s].at = @ + 1]
    /\ processed' = [processed EXCEPT ![slots[s].job] = @ \cup {slots[s].at + 1}]
    /\ UNCHANGED <<jobs, asked, answer, lapses>>

\* The lock of the job is still that of the slot.
Owns(s, j) == jobs[j].state = "active" /\ jobs[j].lock = s

Finished(s) == slots[s].job # NoJob /\ slots[s].at = NOps

\* Bug: the job is completed while its last operation is still to come.
Complete_Early(s) ==
    /\ slots[s].job # NoJob /\ slots[s].at + 1 >= NOps
    /\ Owns(s, slots[s].job)
    /\ jobs' = [jobs EXCEPT ![slots[s].job].state = "completed",
                            ![slots[s].job].lock = NoSlot]
    /\ slots' = [slots EXCEPT ![s] = Idle]
    /\ UNCHANGED <<asked, answer, processed, lapses>>

Complete(s) ==
    /\ Finished(s)
    /\ Owns(s, slots[s].job)
    /\ jobs' = [jobs EXCEPT ![slots[s].job].state = "completed",
                            ![slots[s].job].lock = NoSlot]
    /\ slots' = [slots EXCEPT ![s] = Idle]
    /\ UNCHANGED <<asked, answer, processed, lapses>>

\* Bug: every failed attempt is repeated.
AfterFailure_Always(row) ==
    [row EXCEPT !.lock = NoSlot, !.state = "delayed"]

\* attempts and backoff of defaultJobOptions.
AfterFailure(row) ==
    [row EXCEPT !.failures = @ + 1, !.lock = NoSlot,
                !.state = IF row.failures + 1 < Attempts THEN "delayed" ELSE "failed"]

\* An operation throws; those before it stay processed, and it may have been too.
JobFails(s) ==
    /\ slots[s].job # NoJob /\ slots[s].at < NOps
    /\ Owns(s, slots[s].job)
    /\ jobs' = [jobs EXCEPT ![slots[s].job] = AfterFailure(@)]
    /\ processed' \in {processed, [processed EXCEPT ![slots[s].job] = @ \cup {slots[s].at + 1}]}
    /\ slots' = [slots EXCEPT ![s] = Idle]
    /\ UNCHANGED <<asked, answer, lapses>>

\* The lock is another's: result or error is thrown away.
Disowned(s) ==
    /\ slots[s].job # NoJob
    /\ ~Owns(s, slots[s].job)
    /\ slots' = [slots EXCEPT ![s] = Idle]
    /\ UNCHANGED <<jobs, asked, answer, processed, lapses>>

\* The delay of the backoff is over.
Promote(j) ==
    /\ jobs[j].state = "delayed"
    /\ jobs' = [jobs EXCEPT ![j].state = "waiting"]
    /\ UNCHANGED <<slots, asked, answer, processed, lapses>>

\* The process of the slot exits; a new one is started.
SlotDies(s) ==
    /\ slots[s].job # NoJob
    /\ slots' = [slots EXCEPT ![s] = Idle]
    /\ UNCHANGED <<jobs, asked, answer, processed, lapses>>

\* The lock of a slot that no longer works on the job is not renewed.
LockExpires(j) ==
    /\ jobs[j].lock # NoSlot
    /\ slots[jobs[j].lock].job # j
    /\ jobs' = [jobs EXCEPT ![j].lock = NoSlot]
    /\ UNCHANGED <<slots, asked, answer, processed, lapses>>

\* The slot works on the job, but its event loop or its connection was stuck for
\* longer than lockDuration.
LockLapses(j) ==
    /\ jobs[j].lock # NoSlot
    /\ lapses < MaxExpired
    /\ lapses' = lapses + 1
    /\ jobs' = [jobs EXCEPT ![j].lock = NoSlot]
    /\ UNCHANGED <<slots, asked, answer, processed>>

\* maxStalledCount is left at its default.
AfterStall(row) ==
    IF row.stalls < MaxStalled
    THEN [row EXCEPT !.state = "waiting", !.stalls = row.stalls + 1]
    ELSE [row EXCEPT !.state = "failed"]

\* The check for stalled jobs that a worker runs.
Stalled(j) ==
    /\ jobs[j].state = "active" /\ jobs[j].lock = NoSlot
    /\ jobs' = [jobs EXCEPT ![j] = AfterStall(@)]
    /\ UNCHANGED <<slots, asked, answer, processed, lapses>>

\* removeOnComplete: 1000 jobs were completed since; they may be anybody's.
Remove(j) ==
    /\ jobs[j].state = "completed"
    /\ jobs' = [jobs EXCEPT ![j].state = "removed"]
    /\ UNCHANGED <<slots, asked, answer, processed, lapses>>

-----------------------------------------------------------------------------
(* GET /sync/job/:jobId. *)

\* getJob: the job with the result it had then.
GetJob(j) ==
    /\ jobs[j].state # "none"
    /\ asked[j] = "no"
    /\ answer[j] \notin {"completed", "failed", "unknown"}
    /\ asked' = [asked EXCEPT ![j] =
                   CASE jobs[j].state = "removed"   -> "absent"
                     [] jobs[j].state = "completed" -> "finished"
                     [] OTHER                       -> "unfinished"]
    /\ UNCHANGED <<jobs, slots, answer, processed, lapses>>

\* getState, and what the client makes of the answer: "completed" without a
\* result is to it as if the job were still queued, a 404 ends the polling.
StatusAnswer(j) ==
    CASE asked[j] = "absent"                    -> "unknown"
      [] jobs[j].state = "completed" /\ asked[j] = "finished" -> "completed"
      [] jobs[j].state \in {"failed", "active"} -> jobs[j].state
      [] OTHER                                  -> "queued"

GetState(j) ==
    /\ asked[j] # "no"
    /\ answer' = [answer EXCEPT ![j] = StatusAnswer(j)]
    /\ asked' = [asked EXCEPT ![j] = "no"]
    /\ UNCHANGED <<jobs, slots, processed, lapses>>

-----------------------------------------------------------------------------
SlotProgress(s) ==
    \/ \E j \in Jobs : Take(s, j)
    \/ Process(s) \/ Complete(s) \/ Disowned(s)

JobProgress(j) == Promote(j) \/ LockExpires(j) \/ Stalled(j)
Poll(j)        == GetJob(j) \/ GetState(j)

JobsNext ==
    \/ \E s \in Slots : SlotProgress(s) \/ JobFails(s) \/ SlotDies(s)
    \/ \E j \in Jobs : PushJob(j) \/ JobProgress(j) \/ LockLapses(j) \/ Remove(j) \/ Poll(j)

JobsSpec == JobsInit /\ [][JobsNext]_jobVars

\* Slots that are free take jobs and go on with them, timers fire, and a client
\* polls; processes may die and operations fail for ever.
JobsFairSpec ==
    /\ JobsSpec
    /\ \A s \in Slots : WF_jobVars(SlotProgress(s))
    /\ \A j \in Jobs : WF_jobVars(JobProgress(j)) /\ WF_jobVars(Poll(j))

-----------------------------------------------------------------------------
(* Properties. *)

\* A client that is told its job is completed has had every operation of it
\* processed, in one run or in several.
CompletedDidAll == \A j \in Jobs : answer[j] = "completed" => processed[j] = 1..NOps

\* Every job ends and its client hears of it, although slots die in the middle
\* of it, lose their locks, and fail.
JobsEnd ==
    \A j \in Jobs : jobs[j].state # "none" ~> answer[j] \in {"completed", "failed", "unknown"}

=============================================================================

-------------------------- MODULE JobQueue_proofs --------------------------
(***************************************************************************)
(* Proofs about JobQueue, for any number of jobs, slots, operations,        *)
(* attempts, stalls and lost locks.                                         *)
(***************************************************************************)
EXTENDS JobQueue, TLAPS

\* What a slot has got through is processed, and stays so when the job is given
\* to another slot; who stored, read or was told a completion has all of it.
SlotsDidTheirPart ==
    \A s \in Slots : slots[s].job # NoJob => 1..slots[s].at \subseteq processed[slots[s].job]

DoneAll(j) == processed[j] = 1..NOps

CompletionIsReal ==
    \A j \in Jobs :
        /\ jobs[j].state \in {"completed", "removed"} => DoneAll(j)
        /\ asked[j] = "finished" => DoneAll(j)
        /\ answer[j] = "completed" => DoneAll(j)

\* A job that may be run again has attempts left.
Open(row)    == row.state \in {"waiting", "active", "delayed"}
AttemptsLeft == \A j \in Jobs : Open(jobs[j]) => jobs[j].failures < Attempts

IInv == JobsTypeOK /\ AttemptsLeft /\ SlotsDidTheirPart /\ CompletionIsReal

\* One job changes, and its slot perhaps; nothing is processed.
JobStep(j, row) ==
    /\ jobs' = [jobs EXCEPT ![j] = row]
    /\ UNCHANGED <<asked, answer, processed>>

-----------------------------------------------------------------------------
LEMMA InitEstablishes == JobsInit => IInv
<1> SUFFICES ASSUME JobsInit PROVE IInv
  OBVIOUS
<1>1. NewJob \in JobRows /\ [NewJob EXCEPT !.state = "none"] \in JobRows
  BY JobQueueAssumption DEF NewJob, JobRows, JobStates
<1>2. Idle \in SlotRows
  BY JobQueueAssumption DEF Idle, SlotRows
<1>3. JobsTypeOK
  BY <1>1, <1>2, JobQueueAssumption DEF JobsInit, JobsTypeOK, Answers
<1>4. \A s \in Slots : slots[s].job = NoJob
  BY DEF JobsInit, Idle
<1>5. \A j \in Jobs : jobs[j].state = "none" /\ asked[j] = "no" /\ answer[j] = "none"
  BY DEF JobsInit, NewJob
<1>6. QED
  BY <1>3, <1>4, <1>5 DEF IInv, SlotsDidTheirPart, CompletionIsReal, AttemptsLeft, Open

\* A slot that is given up, or takes a job, has processed nothing of it.
LEMMA FreshSlot ==
    ASSUME SlotsDidTheirPart, JobsTypeOK, NEW s \in Slots, NEW j \in Jobs \cup {NoJob},
           slots' = [slots EXCEPT ![s] = [job |-> j, at |-> 0]],
           \A i \in Jobs : processed[i] \subseteq processed'[i]
    PROVE  slots' \in [Slots -> SlotRows] /\ SlotsDidTheirPart'
<1>1. [job |-> j, at |-> 0] \in SlotRows
  BY JobQueueAssumption DEF SlotRows
<1>2. slots \in [Slots -> SlotRows]
  BY DEF JobsTypeOK
<1>3. slots' \in [Slots -> SlotRows]
  BY <1>1, <1>2
<1>4. ASSUME NEW r \in Slots, slots'[r].job # NoJob
      PROVE  1..slots'[r].at \subseteq processed'[slots'[r].job]
  <2>1. CASE r = s
    <3>1. slots'[r].at = 0
      BY <1>2, <2>1
    <3>2. QED
      BY <3>1
  <2>2. CASE r # s
    <3>1. slots'[r] = slots[r] /\ slots[r].job \in Jobs
      BY <1>2, <1>4, <2>2 DEF SlotRows
    <3>2. QED
      BY <1>4, <3>1 DEF SlotsDidTheirPart
  <2>3. QED
    BY <2>1, <2>2
<1>5. QED
  BY <1>3, <1>4 DEF SlotsDidTheirPart

\* Jobs change in a way that completes none.
LEMMA JobChangeKeeps ==
    ASSUME IInv, NEW j \in Jobs, NEW row \in JobRows, JobStep(j, row),
           row.state \in {"completed", "removed"} => DoneAll(j),
           Open(row) => row.failures < Attempts,
           slots' \in [Slots -> SlotRows], SlotsDidTheirPart', lapses' \in 0..MaxExpired
    PROVE  IInv'
<1>1. jobs \in [Jobs -> JobRows] /\ jobs' = [jobs EXCEPT ![j] = row]
      /\ UNCHANGED <<asked, answer, processed>>
  BY DEF IInv, JobsTypeOK, JobStep
<1>2. jobs' \in [Jobs -> JobRows]
  BY <1>1
<1>3. JobsTypeOK'
  BY <1>1, <1>2 DEF IInv, JobsTypeOK
<1>4. ASSUME NEW i \in Jobs
      PROVE  /\ jobs'[i].state \in {"completed", "removed"} => DoneAll(i)'
             /\ asked'[i] = "finished" => DoneAll(i)'
             /\ answer'[i] = "completed" => DoneAll(i)'
  <2>1. DoneAll(i)' = DoneAll(i)
    BY <1>1 DEF DoneAll
  <2>2. jobs'[i] = IF i = j THEN row ELSE jobs[i]
    BY <1>1
  <2>3. QED
    BY <1>1, <2>1, <2>2 DEF IInv, CompletionIsReal
<1>5. AttemptsLeft'
  BY <1>1 DEF IInv, AttemptsLeft
<1>6. QED
  BY <1>3, <1>4, <1>5, SlotsDidTheirPart' DEF IInv, CompletionIsReal

\* The same where the slots stay as they are.
LEMMA JobAloneKeeps ==
    ASSUME IInv, NEW j \in Jobs, NEW row \in JobRows, JobStep(j, row),
           row.state \in {"completed", "removed"} => DoneAll(j),
           Open(row) => row.failures < Attempts,
           UNCHANGED slots, lapses' \in 0..MaxExpired
    PROVE  IInv'
<1>1. slots' \in [Slots -> SlotRows] /\ SlotsDidTheirPart'
  BY DEF IInv, JobsTypeOK, SlotsDidTheirPart, JobStep
<1>2. QED
  BY <1>1, JobChangeKeeps

\* A field of a job is changed.
LEMMA RowTypes ==
    ASSUME NEW row \in JobRows, NEW st \in JobStates, NEW lk \in Slots \cup {NoSlot}
    PROVE  /\ [row EXCEPT !.state = st] \in JobRows
           /\ [row EXCEPT !.lock = lk] \in JobRows
           /\ [row EXCEPT !.state = st, !.lock = lk] \in JobRows
           /\ [row EXCEPT !.state = st].state = st
           /\ [row EXCEPT !.state = st, !.lock = lk].state = st
           /\ [row EXCEPT !.lock = lk].state = row.state
           /\ [row EXCEPT !.state = st].failures = row.failures
           /\ [row EXCEPT !.lock = lk].failures = row.failures
           /\ [row EXCEPT !.state = st, !.lock = lk].failures = row.failures
BY DEF JobRows

-----------------------------------------------------------------------------
LEMMA TakeKeeps ==
    ASSUME IInv, NEW s \in Slots, NEW j \in Jobs, Take(s, j)
    PROVE  IInv'
<1> DEFINE row == [jobs[j] EXCEPT !.state = "active", !.lock = s]
<1>1. jobs \in [Jobs -> JobRows] /\ lapses \in 0..MaxExpired
  BY DEF IInv, JobsTypeOK
<1>2. /\ row \in JobRows /\ row.state = "active"
      /\ row.failures < Attempts
  <2>1. jobs[j] \in JobRows /\ jobs[j].state = "waiting" /\ jobs[j].failures < Attempts
    BY <1>1 DEF Take, IInv, AttemptsLeft, Open
  <2>2. "active" \in JobStates
    BY DEF JobStates
  <2>3. s \in Slots \cup {NoSlot}
    OBVIOUS
  <2>4. QED
    <3>1. PICK r \in JobRows : r = jobs[j]
      BY <2>1
    <3>2. /\ [r EXCEPT !.state = "active", !.lock = s] \in JobRows
          /\ [r EXCEPT !.state = "active", !.lock = s].state = "active"
          /\ [r EXCEPT !.state = "active", !.lock = s].failures = r.failures
      BY <2>2, <2>3 DEF JobRows
    <3>3. QED
      BY <2>1, <3>1, <3>2
<1>3. /\ jobs' = [jobs EXCEPT ![j] = row]
      /\ slots' = [slots EXCEPT ![s] = [job |-> j, at |-> 0]]
      /\ UNCHANGED <<asked, answer, processed, lapses>>
  BY <1>1 DEF Take, JobRows
<1>4. slots' \in [Slots -> SlotRows] /\ SlotsDidTheirPart'
  BY <1>3, FreshSlot DEF IInv
<1> HIDE DEF row
<1>5. JobStep(j, row)
  BY <1>3 DEF JobStep
<1>6. QED
  BY <1>1, <1>2, <1>3, <1>4, <1>5, JobChangeKeeps

\* More is processed, of a job that a slot works on.
LEMMA ProcessedGrows ==
    ASSUME JobsTypeOK, CompletionIsReal, NEW j \in Jobs, NEW n \in 1..NOps,
           processed' = [processed EXCEPT ![j] = @ \cup {n}],
           jobs' = jobs, UNCHANGED <<asked, answer>>
    PROVE  /\ processed' \in [Jobs -> SUBSET (1..NOps)]
           /\ \A i \in Jobs : processed[i] \subseteq processed'[i]
           /\ CompletionIsReal'
<1>1. processed \in [Jobs -> SUBSET (1..NOps)]
  BY DEF JobsTypeOK
<1>2. processed' \in [Jobs -> SUBSET (1..NOps)]
  BY <1>1
<1>3. \A i \in Jobs : processed[i] \subseteq processed'[i]
  BY <1>1
<1>4. \A i \in Jobs : DoneAll(i) => DoneAll(i)'
  BY <1>2, <1>3 DEF DoneAll
<1>5. QED
  BY <1>2, <1>3, <1>4 DEF CompletionIsReal

LEMMA ProcessKeeps ==
    ASSUME IInv, NEW s \in Slots, Process(s)
    PROVE  IInv'
<1> DEFINE j == slots[s].job
           n == slots[s].at + 1
<1>1. slots \in [Slots -> SlotRows] /\ JobsTypeOK /\ SlotsDidTheirPart /\ CompletionIsReal
  BY DEF IInv, JobsTypeOK
<1>2. j \in Jobs /\ n \in 1..NOps /\ n - 1 \in 0..NOps
  BY <1>1, JobQueueAssumption DEF Process, SlotRows
<1>3. slots' = [slots EXCEPT ![s] = [job |-> j, at |-> n]]
  <2>1. slots' = [slots EXCEPT ![s] = [slots[s] EXCEPT !.at = n]]
    BY <1>1 DEF Process
  <2>2. slots[s] \in SlotRows
    BY <1>1
  <2>3. [slots[s] EXCEPT !.at = n] = [job |-> j, at |-> n]
    BY <2>2 DEF SlotRows
  <2>4. QED
    BY <2>1, <2>3
<1>4. /\ processed' = [processed EXCEPT ![j] = @ \cup {n}]
      /\ UNCHANGED <<jobs, asked, answer, lapses>>
  BY DEF Process
<1>5. 1..(n - 1) \subseteq processed[j]
  <2>1. 1..slots[s].at \subseteq processed[j]
    BY <1>1 DEF SlotsDidTheirPart, Process
  <2>2. n - 1 = slots[s].at
    BY <1>1, JobQueueAssumption DEF SlotRows
  <2>3. QED
    BY <2>1, <2>2
<1> HIDE DEF j, n
<1>6. /\ processed' \in [Jobs -> SUBSET (1..NOps)]
      /\ \A i \in Jobs : processed[i] \subseteq processed'[i]
      /\ CompletionIsReal'
  BY <1>1, <1>2, <1>4, ProcessedGrows
<1>7. slots' \in [Slots -> SlotRows]
  BY <1>1, <1>2, <1>3, JobQueueAssumption DEF SlotRows
<1>8. JobsTypeOK'
  BY <1>1, <1>4, <1>6, <1>7 DEF JobsTypeOK
<1>9. n \in processed'[j]
  BY <1>1, <1>2, <1>4 DEF JobsTypeOK
<1>10. ASSUME NEW r \in Slots, slots'[r].job # NoJob
       PROVE  1..slots'[r].at \subseteq processed'[slots'[r].job]
  <2>1. CASE r = s
    <3>1. slots'[r].at = n /\ slots'[r].job = j
      BY <1>1, <1>3, <2>1
    <3>2. 1..n = (1..(n - 1)) \cup {n}
      BY <1>2, JobQueueAssumption
    <3>3. QED
      BY <1>2, <1>5, <1>6, <1>9, <3>1, <3>2
  <2>2. CASE r # s
    <3>1. slots'[r] = slots[r] /\ slots[r].job \in Jobs
      BY <1>1, <1>3, <1>10, <2>2 DEF SlotRows
    <3>2. QED
      BY <1>1, <1>6, <1>10, <3>1 DEF SlotsDidTheirPart
  <2>3. QED
    BY <2>1, <2>2
<1>11. AttemptsLeft'
  BY <1>4 DEF IInv, AttemptsLeft
<1>12. QED
  BY <1>6, <1>8, <1>10, <1>11 DEF IInv, SlotsDidTheirPart

LEMMA CompleteKeeps ==
    ASSUME IInv, NEW s \in Slots, Complete(s)
    PROVE  IInv'
<1> DEFINE j == slots[s].job
           row == [jobs[j] EXCEPT !.state = "completed", !.lock = NoSlot]
<1>1. slots \in [Slots -> SlotRows] /\ JobsTypeOK /\ SlotsDidTheirPart
  BY DEF IInv, JobsTypeOK
<1>2. j \in Jobs /\ slots[s].at = NOps
  BY <1>1 DEF Complete, Finished, SlotRows
<1>3. jobs \in [Jobs -> JobRows] /\ lapses \in 0..MaxExpired
      /\ processed \in [Jobs -> SUBSET (1..NOps)]
  BY <1>1 DEF JobsTypeOK
<1>4. row \in JobRows /\ ~Open(row)
  <2>1. jobs[j] \in JobRows /\ NoSlot \in Slots \cup {NoSlot} /\ "completed" \in JobStates
    BY <1>2, <1>3 DEF JobStates
  <2>2. row \in JobRows /\ row.state = "completed"
    BY <2>1, RowTypes, ZenonT(60)
  <2>3. QED
    BY <2>2 DEF Open
<1>5. DoneAll(j)
  BY <1>1, <1>2, <1>3 DEF Complete, Finished, SlotsDidTheirPart, DoneAll
<1>6. /\ jobs' = [jobs EXCEPT ![j] = row]
      /\ slots' = [slots EXCEPT ![s] = Idle]
      /\ UNCHANGED <<asked, answer, processed, lapses>>
  BY <1>2, <1>3 DEF Complete, JobRows
<1> HIDE DEF j, row
<1>7. slots' \in [Slots -> SlotRows] /\ SlotsDidTheirPart'
  BY <1>1, <1>6, FreshSlot DEF Idle
<1>8. JobStep(j, row)
  BY <1>6 DEF JobStep
<1>9. QED
  BY <1>2, <1>3, <1>4, <1>5, <1>6, <1>7, <1>8, JobChangeKeeps

\* AfterFailure counts the failure and leaves the attempts that are left.
LEMMA FailureRow ==
    ASSUME NEW row \in JobRows, row.failures < Attempts
    PROVE  /\ AfterFailure(row) \in JobRows
           /\ AfterFailure(row).state \in {"delayed", "failed"}
           /\ Open(AfterFailure(row)) => AfterFailure(row).failures < Attempts
<1>1. row.failures + 1 \in 0..Attempts
  BY JobQueueAssumption DEF JobRows
<1>2. QED
  BY <1>1 DEF AfterFailure, JobRows, JobStates, Open

LEMMA JobFailsKeeps ==
    ASSUME IInv, NEW s \in Slots, JobFails(s)
    PROVE  IInv'
<1> DEFINE j == slots[s].job
           n == slots[s].at + 1
           row == AfterFailure(jobs[j])
           grown == [processed EXCEPT ![j] = @ \cup {n}]
<1>1. slots \in [Slots -> SlotRows] /\ JobsTypeOK /\ SlotsDidTheirPart /\ CompletionIsReal
  BY DEF IInv, JobsTypeOK
<1>2. jobs \in [Jobs -> JobRows] /\ lapses \in 0..MaxExpired
      /\ processed \in [Jobs -> SUBSET (1..NOps)]
  BY <1>1 DEF JobsTypeOK
<1>3. j \in Jobs /\ n \in 1..NOps /\ jobs[j].state = "active"
  BY <1>1, JobQueueAssumption DEF JobFails, Owns, SlotRows
<1>4. jobs[j] \in JobRows /\ jobs[j].failures < Attempts
  BY <1>2, <1>3 DEF IInv, AttemptsLeft, Open
<1>5. /\ row \in JobRows /\ row.state \in {"delayed", "failed"}
      /\ Open(row) => row.failures < Attempts
  BY <1>4, FailureRow
<1>6. /\ jobs' = [jobs EXCEPT ![j] = row]
      /\ processed' = processed \/ processed' = grown
      /\ slots' = [slots EXCEPT ![s] = Idle]
      /\ UNCHANGED <<asked, answer, lapses>>
  BY DEF JobFails
<1> HIDE DEF j, n, row
<1>7. /\ processed' \in [Jobs -> SUBSET (1..NOps)]
      /\ \A i \in Jobs : processed[i] \subseteq processed'[i]
  BY <1>2, <1>3, <1>6
<1>8. slots' \in [Slots -> SlotRows] /\ SlotsDidTheirPart'
  BY <1>1, <1>6, <1>7, FreshSlot DEF Idle
<1>9. jobs' \in [Jobs -> JobRows]
  BY <1>2, <1>5, <1>6
<1>10. JobsTypeOK'
  BY <1>1, <1>6, <1>7, <1>8, <1>9 DEF JobsTypeOK
<1>11. AttemptsLeft'
  BY <1>2, <1>5, <1>6 DEF IInv, AttemptsLeft
<1>12. ASSUME NEW i \in Jobs
       PROVE  /\ jobs'[i].state \in {"completed", "removed"} => DoneAll(i)'
              /\ asked'[i] = "finished" => DoneAll(i)'
              /\ answer'[i] = "completed" => DoneAll(i)'
  <2>1. DoneAll(i) => DoneAll(i)'
    BY <1>7 DEF DoneAll
  <2>2. jobs'[i] = IF i = j THEN row ELSE jobs[i]
    BY <1>2, <1>6
  <2>3. QED
    BY <1>1, <1>5, <1>6, <2>1, <2>2 DEF CompletionIsReal
<1>13. QED
  BY <1>8, <1>10, <1>11, <1>12 DEF IInv, CompletionIsReal

LEMMA SlotGivenUpKeeps ==
    ASSUME IInv, NEW s \in Slots, slots' = [slots EXCEPT ![s] = Idle],
           UNCHANGED <<jobs, asked, answer, processed, lapses>>
    PROVE  IInv'
<1>1. slots' \in [Slots -> SlotRows] /\ SlotsDidTheirPart'
  BY FreshSlot DEF IInv, Idle
<1>2. JobsTypeOK'
  BY <1>1 DEF IInv, JobsTypeOK
<1>3. AttemptsLeft' /\ CompletionIsReal'
  BY DEF IInv, AttemptsLeft, CompletionIsReal, DoneAll
<1>4. QED
  BY <1>1, <1>2, <1>3 DEF IInv

\* The state of a job is set: Promote and Remove.
LEMMA StateSetKeeps ==
    ASSUME IInv, NEW j \in Jobs, NEW st \in JobStates,
           jobs' = [jobs EXCEPT ![j].state = st],
           st = "removed" => jobs[j].state = "completed",
           st # "completed",
           Open([jobs[j] EXCEPT !.state = st]) => Open(jobs[j]),
           UNCHANGED <<slots, asked, answer, processed, lapses>>
    PROVE  IInv'
<1> DEFINE row == [jobs[j] EXCEPT !.state = st]
<1>1. jobs \in [Jobs -> JobRows] /\ lapses \in 0..MaxExpired
  BY DEF IInv, JobsTypeOK
<1>2. row \in JobRows /\ row.state = st /\ row.failures = jobs[j].failures
  BY <1>1, RowTypes
<1>3. jobs' = [jobs EXCEPT ![j] = row]
  BY <1>1
<1>4. row.state \in {"completed", "removed"} => DoneAll(j)
  BY <1>2 DEF IInv, CompletionIsReal
<1>5. Open(row) => row.failures < Attempts
  BY <1>2 DEF IInv, AttemptsLeft
<1> HIDE DEF row
<1>6. JobStep(j, row)
  BY <1>3 DEF JobStep
<1>7. QED
  BY <1>1, <1>2, <1>4, <1>5, <1>6, JobAloneKeeps

LEMMA StalledKeeps ==
    ASSUME IInv, NEW j \in Jobs, Stalled(j)
    PROVE  IInv'
<1> DEFINE row == AfterStall(jobs[j])
<1>1. jobs \in [Jobs -> JobRows] /\ lapses \in 0..MaxExpired
  BY DEF IInv, JobsTypeOK
<1>2. /\ jobs[j].state = "active" /\ jobs' = [jobs EXCEPT ![j] = row]
      /\ UNCHANGED <<slots, asked, answer, processed, lapses>>
  BY DEF Stalled
<1>3. jobs[j].failures < Attempts
  BY <1>2 DEF IInv, AttemptsLeft, Open
<1>4. row \in JobRows /\ row.state \in {"waiting", "failed"} /\ row.failures = jobs[j].failures
  <2>1. PICK r \in JobRows : r = jobs[j]
    BY <1>1
  <2>2. CASE r.stalls < MaxStalled
    <3>1. r.stalls + 1 \in 0..MaxStalled
      BY <2>2, JobQueueAssumption DEF JobRows
    <3>2. QED
      BY <2>1, <2>2, <3>1 DEF AfterStall, JobRows, JobStates
  <2>3. CASE ~(r.stalls < MaxStalled)
    BY <2>1, <2>3 DEF AfterStall, JobRows, JobStates
  <2>4. QED
    BY <2>2, <2>3
<1> HIDE DEF row
<1>5. JobStep(j, row) /\ (Open(row) => row.failures < Attempts)
  BY <1>2, <1>3, <1>4 DEF JobStep
<1>6. QED
  BY <1>1, <1>2, <1>4, <1>5, JobAloneKeeps

\* What the two reads of a status request find.
LEMMA PollKeeps ==
    ASSUME IInv, NEW j \in Jobs, Poll(j)
    PROVE  IInv'
<1>1. JobsTypeOK /\ CompletionIsReal
  BY DEF IInv
<1>2. UNCHANGED <<jobs, slots, processed, lapses>>
  BY DEF Poll, GetJob, GetState
<1>3. AttemptsLeft' /\ SlotsDidTheirPart'
  BY <1>2 DEF IInv, AttemptsLeft, SlotsDidTheirPart
<1>4. \A i \in Jobs : DoneAll(i)' = DoneAll(i)
  BY <1>2 DEF DoneAll
<1>5. CASE GetJob(j)
  <2>1. PICK a \in {"absent", "finished", "unfinished"} :
             /\ asked' = [asked EXCEPT ![j] = a]
             /\ a = "finished" => jobs[j].state = "completed"
    BY <1>5 DEF GetJob
  <2>2. answer' = answer
    BY <1>5 DEF GetJob
  <2>3. JobsTypeOK'
    BY <1>1, <1>2, <2>1, <2>2 DEF JobsTypeOK
  <2>4. CompletionIsReal'
    BY <1>1, <1>2, <1>4, <2>1, <2>2 DEF CompletionIsReal, JobsTypeOK
  <2>5. QED
    BY <1>3, <2>3, <2>4 DEF IInv
<1>6. CASE GetState(j)
  <2>1. StatusAnswer(j) \in Answers
    BY DEF StatusAnswer, Answers
  <2>2. StatusAnswer(j) = "completed" => asked[j] = "finished"
    BY DEF StatusAnswer
  <2>3. /\ answer' = [answer EXCEPT ![j] = StatusAnswer(j)]
        /\ asked' = [asked EXCEPT ![j] = "no"]
    BY <1>6 DEF GetState
  <2>4. JobsTypeOK'
    BY <1>1, <1>2, <2>1, <2>3 DEF JobsTypeOK
  <2>5. CompletionIsReal'
    BY <1>1, <1>2, <1>4, <2>2, <2>3 DEF CompletionIsReal, JobsTypeOK
  <2>6. QED
    BY <1>3, <2>4, <2>5 DEF IInv
<1>7. QED
  BY <1>5, <1>6 DEF Poll

LEMMA StepKeeps ==
    ASSUME IInv, [JobsNext]_jobVars
    PROVE  IInv'
<1>1. lapses \in 0..MaxExpired /\ jobs \in [Jobs -> JobRows]
  BY DEF IInv, JobsTypeOK
<1>2. ASSUME NEW s \in Slots, SlotProgress(s) \/ JobFails(s) \/ SlotDies(s)
      PROVE  IInv'
  <2>1. CASE Disowned(s) \/ SlotDies(s)
    BY <2>1, SlotGivenUpKeeps DEF Disowned, SlotDies
  <2>2. QED
    BY <1>2, <2>1, TakeKeeps, ProcessKeeps, CompleteKeeps, JobFailsKeeps DEF SlotProgress
<1>3. ASSUME NEW j \in Jobs, PushJob(j)
      PROVE  IInv'
  <2>1. NewJob \in JobRows /\ NewJob.state = "waiting" /\ NewJob.failures < Attempts
    BY JobQueueAssumption DEF NewJob, JobRows, JobStates
  <2>2. JobStep(j, NewJob) /\ UNCHANGED <<slots, lapses>>
    BY <1>3 DEF PushJob, JobStep
  <2>3. QED
    BY <1>1, <2>1, <2>2, JobAloneKeeps
<1>4. ASSUME NEW j \in Jobs, Promote(j)
      PROVE  IInv'
  <2>1. /\ jobs[j].state = "delayed" /\ jobs' = [jobs EXCEPT ![j].state = "waiting"]
        /\ UNCHANGED <<slots, asked, answer, processed, lapses>>
    BY <1>4 DEF Promote
  <2>2. QED
    BY <1>1, <2>1, StateSetKeeps DEF JobStates, Open
<1>5. ASSUME NEW j \in Jobs, LockExpires(j) \/ LockLapses(j)
      PROVE  IInv'
  <2>1. /\ jobs' = [jobs EXCEPT ![j].lock = NoSlot]
        /\ UNCHANGED <<slots, asked, answer, processed>>
    BY <1>5 DEF LockExpires, LockLapses
  <2>2. lapses' \in 0..MaxExpired
    BY <1>1, <1>5, JobQueueAssumption DEF LockExpires, LockLapses
  <2>3. jobs[j].state \in JobStates
    BY <1>1 DEF JobRows
  <2>4. NoSlot \in Slots \cup {NoSlot}
    OBVIOUS
  <2>5. PICK row \in JobRows :
             /\ jobs' = [jobs EXCEPT ![j] = row]
             /\ row.state = jobs[j].state /\ row.failures = jobs[j].failures
    <3>1. jobs' = [jobs EXCEPT ![j] = [jobs[j] EXCEPT !.lock = NoSlot]]
      BY <1>1, <2>1
    <3>2. QED
      BY <1>1, <2>3, <2>4, <3>1, RowTypes, ZenonT(60)
  <2>6. JobStep(j, row) /\ (Open(row) => row.failures < Attempts)
    BY <2>1, <2>5 DEF JobStep, IInv, AttemptsLeft, Open
  <2>7. row.state \in {"completed", "removed"} => DoneAll(j)
    BY <2>5 DEF IInv, CompletionIsReal
  <2>8. QED
    BY <2>1, <2>2, <2>6, <2>7, JobAloneKeeps
<1>6. ASSUME NEW j \in Jobs, Remove(j)
      PROVE  IInv'
  <2>1. /\ jobs[j].state = "completed" /\ jobs' = [jobs EXCEPT ![j].state = "removed"]
        /\ UNCHANGED <<slots, asked, answer, processed, lapses>>
    BY <1>6 DEF Remove
  <2>2. QED
    <3>1. ~Open([jobs[j] EXCEPT !.state = "removed"])
      BY <1>1 DEF Open, JobRows
    <3>2. QED
      BY <2>1, <3>1, StateSetKeeps DEF JobStates
<1>7. CASE UNCHANGED jobVars
  BY <1>7 DEF jobVars, IInv, JobsTypeOK, AttemptsLeft, SlotsDidTheirPart, CompletionIsReal, DoneAll
<1>8. QED
  BY <1>2, <1>3, <1>4, <1>5, <1>6, <1>7, StalledKeeps, PollKeeps DEF JobsNext, JobProgress

\* The variables of JobQueue have their types in every state.
THEOREM JobsTypeCorrect == JobsSpec => []JobsTypeOK
<1>1. IInv => JobsTypeOK
  BY DEF IInv
<1>2. QED
  BY InitEstablishes, StepKeeps, <1>1, PTL DEF JobsSpec

\* A client that is told "completed" (GET /sync/job/:jobId) has had every
\* operation of its job processed.
THEOREM CompletedDidAllCorrect == JobsSpec => []CompletedDidAll
<1>1. IInv => CompletedDidAll
  BY DEF IInv, CompletionIsReal, CompletedDidAll, DoneAll
<1>2. QED
  BY InitEstablishes, StepKeeps, <1>1, PTL DEF JobsSpec

=============================================================================

------------------------ MODULE MemoryJobQueueProofs ------------------------
(***************************************************************************)
(* Proofs about MemoryJobQueue for any number of sources and workers and   *)
(* any budget of attempts.                                                 *)
(***************************************************************************)
EXTENDS MemoryJobQueue, TLAPS

(***************************************************************************)
(* What each rewrite of a job file makes of a well-formed job.             *)
(***************************************************************************)

GoodJob(j) == j \in Job /\ WellFormed(j)

(* "No file" and the file stage creates are good, and the snapshot of a     *)
(* file has the type of a file.                                             *)
LEMMA PlainJobs ==
    /\ GoodJob(NoJob)
    /\ \A n \in Nat \ {0} : GoodJob(NewJob(n))
    /\ \A j \in Job : Frozen(j) \in Job
<1>1. NoJob \in Job
  BY QueueConstants DEF Job, NoJob, Status
<1>2. WellFormed(NoJob)
  BY DEF WellFormed, NoJob
<1>3. \A n \in Nat \ {0} : NewJob(n) \in Job
  BY <1>1 DEF Job, NewJob, Status
<1>4. \A n \in Nat \ {0} : WellFormed(NewJob(n))
  BY DEF WellFormed, NoJob, NewJob
<1>5. \A j \in Job : Frozen(j) \in Job
  BY DEF Job, Frozen
<1> QED BY <1>1, <1>2, <1>3, <1>4, <1>5 DEF GoodJob

(* The records a worker loop rests in.                                      *)
LEMMA RestingWorkers ==
    {Idle, Blocked, Dead, Stopped} \subseteq WorkerRecord
<1>1. Idle \in WorkerRecord
  BY PlainJobs DEF WorkerRecord, Phase, Idle, GoodJob
<1> QED BY <1>1 DEF WorkerRecord, Phase, Blocked, Dead, Stopped

(* activate                                                                *)
LEMMA GoodActivated ==
    ASSUME NEW j \in Job, WellFormed(j), j.status = "STAGED"
    PROVE  GoodJob(Activated(j))
<1>1. Activated(j) \in Job
  BY DEF Job, WellFormed, Status, Activated
<1>2. WellFormed(Activated(j))
  BY DEF Job, WellFormed, Status, Activated
<1> QED BY <1>1, <1>2 DEF GoodJob

(* record_staged_failure                                                   *)
LEMMA GoodStagedFailure ==
    ASSUME NEW j \in Job, WellFormed(j), j.status = "STAGED"
    PROVE  GoodJob(StagedFailure(j))
<1>1. StagedFailure(j) \in Job
  <2>1. j.attempts + 1 \in Nat
    BY DEF Job
  <2> QED BY <2>1, QueueConstants DEF Job, Status, StagedFailure
<1>2. WellFormed(StagedFailure(j))
  BY QueueConstants DEF Job, WellFormed, Status, StagedFailure, LastAttempt
<1> QED BY <1>1, <1>2 DEF GoodJob

(* claim, of a QUEUED job or of one whose lease ran out                    *)
LEMMA GoodClaimed ==
    ASSUME NEW j \in Job, WellFormed(j), NEW w \in Worker, j.status \in {"QUEUED", "RUNNING"}
    PROVE  GoodJob(Claimed(j, w))
<1>1. Claimed(j, w) \in Job
  <2>1. j.attempts + 1 \in Nat /\ j.gen + 1 \in Nat
    BY DEF Job
  <2>2. (IF j.status = "RUNNING" THEN "text" ELSE j.error) \in {"none", "text"}
    BY DEF Job
  <2> QED BY <2>1, <2>2, QueueConstants DEF Job, Status, Claimed
<1>2. WellFormed(Claimed(j, w))
  BY QueueConstants DEF Job, WellFormed, Status, Claimed
<1> QED BY <1>1, <1>2 DEF GoodJob

(* renew                                                                   *)
LEMMA GoodRenewed ==
    ASSUME NEW j \in Job, WellFormed(j), j.status = "RUNNING"
    PROVE  GoodJob(Renewed(j))
<1>1. Renewed(j) \in Job
  BY QueueConstants DEF Job, WellFormed, Status, Renewed
<1>2. WellFormed(Renewed(j))
  BY QueueConstants DEF Job, WellFormed, Status, Renewed
<1> QED BY <1>1, <1>2 DEF GoodJob

(* complete                                                                *)
LEMMA GoodCompleted ==
    ASSUME NEW j \in Job, WellFormed(j), j.status = "RUNNING"
    PROVE  GoodJob(Completed(j))
<1>1. Completed(j) \in Job
  BY DEF Job, WellFormed, Status, Completed, Released
<1>2. WellFormed(Completed(j))
  BY DEF Job, WellFormed, Status, Completed, Released
<1> QED BY <1>1, <1>2 DEF GoodJob

(* fail(waits_for_model): an attempt was counted, so it can be given back  *)
LEMMA GoodModelWaiting ==
    ASSUME NEW j \in Job, WellFormed(j), j.status = "RUNNING"
    PROVE  GoodJob(ModelWaiting(j))
<1>1. ModelWaiting(j) \in Job
  <2>1. j.attempts - 1 \in Nat /\ j.waits + 1 \in Nat
    BY DEF Job, WellFormed
  <2> QED BY <2>1, QueueConstants DEF Job, Status, ModelWaiting, Released
<1>2. WellFormed(ModelWaiting(j))
  BY QueueConstants DEF Job, WellFormed, Status, ModelWaiting, Released
<1> QED BY <1>1, <1>2 DEF GoodJob

(* fail                                                                    *)
LEMMA GoodFailed ==
    ASSUME NEW j \in Job, WellFormed(j), NEW retryable \in BOOLEAN, j.status = "RUNNING"
    PROVE  GoodJob(Failed(j, retryable))
<1>1. Failed(j, retryable) \in Job
  BY QueueConstants DEF Job, WellFormed, Status, Failed, Released
<1>2. WellFormed(Failed(j, retryable))
  BY QueueConstants DEF Job, WellFormed, Status, Failed, Released
<1> QED BY <1>1, <1>2 DEF GoodJob

(* retry_failed                                                            *)
LEMMA GoodReopened ==
    ASSUME NEW j \in Job, WellFormed(j), j.status = "FAILED"
    PROVE  GoodJob(Reopened(j))
<1>1. Reopened(j) \in Job
  <2>1. j.epoch + 1 \in Nat
    BY DEF Job
  <2>2. (IF j.gen = 0 THEN "STAGED" ELSE "QUEUED") \in Status
    BY DEF Status
  <2> QED BY <2>1, <2>2 DEF Job, Reopened
<1>2. WellFormed(Reopened(j))
  BY DEF Job, WellFormed, Status, Reopened
<1> QED BY <1>1, <1>2 DEF GoodJob

(* The passing of time                                                     *)
LEMMA GoodAged ==
    ASSUME NEW j \in Job, WellFormed(j)
    PROVE  GoodJob(Aged(j))
<1>1. Aged(j) \in Job
  <2>1. (IF j.ttl = 0 THEN 0 ELSE j.ttl - 1) \in Nat
    BY DEF Job
  <2>2. (IF j.wait = 0 THEN 0 ELSE j.wait - 1) \in Nat
    BY DEF Job
  <2> QED BY <2>1, <2>2 DEF Job, Aged
<1>2. WellFormed(Aged(j))
  BY DEF Job, WellFormed, Status, Aged
<1> QED BY <1>1, <1>2 DEF GoodJob

(***************************************************************************)
(* Types.                                                                  *)
(***************************************************************************)

JobsOK ==
    /\ jobs \in [Source -> Job]
    /\ \A s \in Source : WellFormed(jobs[s])

(* One job file is rewritten: the others keep what they were.               *)
LEMMA RewriteOne ==
    ASSUME JobsOK, NEW s \in Source, NEW j, GoodJob(j),
           jobs' = [jobs EXCEPT ![s] = j]
    PROVE  JobsOK'
<1>1. jobs' \in [Source -> Job]
  BY DEF JobsOK, GoodJob
<1>2. \A t \in Source : WellFormed(jobs'[t])
  BY DEF JobsOK, GoodJob
<1> QED BY <1>1, <1>2 DEF JobsOK, WellFormed

(* One worker record is replaced: the others keep what they were.           *)
LEMMA BecomeOne ==
    ASSUME worker \in [Worker -> WorkerRecord], NEW w \in Worker,
           NEW r \in WorkerRecord, Become(w, r)
    PROVE  worker' \in [Worker -> WorkerRecord]
BY DEF Become

(* stage keeps the types.                                                   *)
LEMMA StageType ==
    ASSUME TypeOK, NEW s \in Source, StageFile(s)
    PROVE  JobsOK' /\ high' \in Nat
<1>1. CASE UNCHANGED <<jobs, high>>
  BY <1>1 DEF TypeOK, JobsOK
<1>2. CASE jobs' = [jobs EXCEPT ![s] = NewJob(high + 1)] /\ high' = high + 1
  <2>1. GoodJob(NewJob(high + 1))
    BY PlainJobs DEF TypeOK
  <2>2. JobsOK'
    BY <1>2, <2>1, RewriteOne DEF TypeOK, JobsOK
  <2> QED BY <1>2, <2>2 DEF TypeOK
<1> QED BY <1>1, <1>2 DEF StageFile, NextSequence

(* activate keeps the types.                                                *)
LEMMA ActivateType ==
    ASSUME TypeOK, NEW s \in Source, ActivateFile(s)
    PROVE  JobsOK'
<1>1. CASE jobs[s].status = "STAGED"
  <2>1. GoodJob(Activated(jobs[s]))
    BY <1>1, GoodActivated DEF TypeOK
  <2> QED BY <1>1, <2>1, RewriteOne DEF TypeOK, JobsOK, ActivateFile
<1>2. CASE jobs[s].status # "STAGED"
  BY <1>2 DEF TypeOK, JobsOK, ActivateFile
<1> QED BY <1>1, <1>2

(* Every type, over what the steps of the three kinds of actor change.      *)
LEMMA ForegroundType ==
    ASSUME TypeOK, NEW s \in Source, Foreground(s) \/ DiscardCommitted(s)
    PROVE  TypeOK'
<1> USE DEF TypeOK, JobsOK
<1>1. CASE Stage(s)
  BY <1>1, StageType DEF Stage, IngestPhase
<1>2. CASE StageTorn(s)
  BY <1>2 DEF StageTorn, NextSequence
<1>3. CASE Publish(s)
  BY <1>3 DEF Publish, IngestPhase
<1>4. CASE Restage(s)
  BY <1>4, StageType DEF Restage, IngestPhase
<1>5. CASE Activate(s)
  BY <1>5, ActivateType DEF Activate, IngestPhase
<1>6. CASE BeginCompletion(s)
  BY <1>6 DEF BeginCompletion, IngestPhase, durable
<1>7. CASE CompletePublish(s)
  BY <1>7 DEF CompletePublish, IngestPhase
<1>8. CASE IngestCrash(s)
  BY <1>8 DEF IngestCrash, IngestPhase, durable
<1>9. CASE DiscardCommitted(s)
  BY <1>9, PlainJobs, RewriteOne DEF DiscardCommitted
<1> QED BY <1>1, <1>2, <1>3, <1>4, <1>5, <1>6, <1>7, <1>8, <1>9 DEF Foreground

(* The steps of claim_next before the claim keep the types.                 *)
LEMMA RecoveryType ==
    ASSUME TypeOK, NEW w \in Worker, Recovery(w)
    PROVE  TypeOK'
<1> USE DEF TypeOK, JobsOK
<1>1. CASE RecoverPublish(w)
  <2>1. [worker[w] EXCEPT !.phase = "published"] \in WorkerRecord
    BY DEF WorkerRecord, Phase
  <2>2. worker' \in [Worker -> WorkerRecord]
    BY <1>1, <2>1, BecomeOne DEF RecoverPublish
  <2>3. history' \subseteq Source
    BY <1>1 DEF RecoverPublish
  <2> QED BY <1>1, <2>2, <2>3 DEF RecoverPublish
<1>2. CASE RecoverActivate(w)
  <2>1. PICK s \in Source : ActivateFile(s) /\
           Become(w, [worker[w] EXCEPT !.phase = "looked", !.job = Frozen(jobs'[s])])
    BY <1>2 DEF RecoverActivate
  <2>2. JobsOK'
    BY <2>1, ActivateType
  <2>3. [worker[w] EXCEPT !.phase = "looked", !.job = Frozen(jobs'[s])] \in WorkerRecord
    BY <2>2, PlainJobs DEF WorkerRecord, Phase
  <2>4. worker' \in [Worker -> WorkerRecord]
    BY <2>1, <2>3, BecomeOne
  <2> QED BY <1>2, <2>2, <2>4 DEF RecoverActivate
<1>3. CASE RecoverFail(w)
  <2>1. PICK s \in Source :
           /\ jobs[s].status = "STAGED"
           /\ jobs' = [jobs EXCEPT ![s] = StagedFailure(jobs[s])]
           /\ Become(w, IF LastAttempt(jobs[s]) THEN Blocked ELSE Idle)
    BY <1>3 DEF RecoverFail
  <2>2. JobsOK'
    BY <2>1, GoodStagedFailure, RewriteOne
  <2>3. worker' \in [Worker -> WorkerRecord]
    BY <2>1, RestingWorkers, BecomeOne
  <2> QED BY <1>3, <2>2, <2>3 DEF RecoverFail
<1>4. CASE RecoverRefused(w)
  <2>1. worker' \in [Worker -> WorkerRecord]
    BY <1>4, RestingWorkers, BecomeOne DEF RecoverRefused
  <2> QED BY <1>4, <2>1 DEF RecoverRefused, durable
<1> QED BY <1>1, <1>2, <1>3, <1>4 DEF Recovery

(* The ways a run ends keep the types.                                      *)
LEMMA SettleType ==
    ASSUME TypeOK, NEW w \in Worker, NEW s \in Source, NEW j, GoodJob(j),
           SettleAs(w, s, j)
    PROVE  TypeOK'
<1> USE DEF TypeOK, JobsOK
<1>1. JobsOK'
  BY RewriteOne DEF SettleAs
<1>2. [worker[w] EXCEPT !.phase = "settled", !.job = Frozen(j)] \in WorkerRecord
  BY PlainJobs DEF WorkerRecord, Phase, GoodJob
<1>3. worker' \in [Worker -> WorkerRecord]
  BY <1>2, BecomeOne DEF SettleAs
<1> QED BY <1>1, <1>3 DEF SettleAs

(* The worker loop keeps the types.                                         *)
LEMMA LoopType ==
    ASSUME TypeOK, NEW w \in Worker, Loop(w)
    PROVE  TypeOK'
<1> USE DEF TypeOK, JobsOK
<1>0. ASSUME UNCHANGED <<jobs, high, abandoned, history, ingest, decision>>,
             l2' \subseteq Nat, crashes' \in Nat,
             NEW r \in WorkerRecord, Become(w, r)
      PROVE  TypeOK'
  BY <1>0, BecomeOne
<1>1. CASE Look(w)
  <2>1. PICK s \in Source :
           Become(w, [phase |-> IF jobs[s].status = "STAGED" THEN "recovering" ELSE "looked",
                      src |-> s, job |-> Frozen(jobs[s]), exhausted |-> FALSE])
    BY <1>1 DEF Look
  <2>2. [phase |-> IF jobs[s].status = "STAGED" THEN "recovering" ELSE "looked",
         src |-> s, job |-> Frozen(jobs[s]), exhausted |-> FALSE] \in WorkerRecord
    BY PlainJobs DEF WorkerRecord, Phase
  <2> QED BY <1>0, <1>1, <2>1, <2>2 DEF Look, durable
<1>2. CASE Recovery(w)
  BY <1>2, RecoveryType
<1>3. CASE Claim(w)
  <2>1. PICK s \in Source :
           /\ Claimable(s)
           /\ jobs' = [jobs EXCEPT ![s] = Claimed(jobs[s], w)]
           /\ Become(w, [phase |-> "running", src |-> s, job |-> Frozen(jobs'[s]),
                         exhausted |-> Spent(worker[w].job)])
    BY <1>3 DEF Claim
  <2>2. JobsOK'
    BY <2>1, GoodClaimed, RewriteOne DEF Claimable
  <2>3. Spent(worker[w].job) \in BOOLEAN
    BY DEF Spent
  <2>4. [phase |-> "running", src |-> s, job |-> Frozen(jobs'[s]),
         exhausted |-> Spent(worker[w].job)] \in WorkerRecord
    BY <2>2, <2>3, PlainJobs, Zenon DEF WorkerRecord, Phase
  <2>5. worker' \in [Worker -> WorkerRecord]
    BY <2>1, <2>4, BecomeOne
  <2> QED BY <1>3, <2>2, <2>5 DEF Claim
<1>4. CASE ClaimRefused(w)
  BY <1>0, <1>4, RestingWorkers DEF ClaimRefused, durable
<1>5. CASE Renew(w)
  <2>1. JobsOK'
    BY <1>5, GoodRenewed, RewriteOne DEF Renew, Current, SameClaim
  <2> QED BY <1>5, <2>1 DEF Renew
<1>6. CASE BeginCommit(w)
  <2>1. [worker[w] EXCEPT !.phase = "committing"] \in WorkerRecord
    BY DEF WorkerRecord, Phase
  <2> QED BY <1>0, <1>6, <2>1 DEF BeginCommit, durable
<1>7. CASE L2Commit(w)
  <2>1. /\ [worker[w] EXCEPT !.phase = "running"] \in WorkerRecord
        /\ [worker[w] EXCEPT !.phase = "raised"] \in WorkerRecord
        /\ worker[w].job.seq \in Nat
    BY DEF WorkerRecord, Phase, Job
  <2> QED BY <1>0, <1>7, <2>1 DEF L2Commit
<1>8. CASE Settle(w)
  <2>1. CASE Complete(w)
    BY <2>1, SettleType, GoodCompleted DEF Complete, SettleAs, Current, SameClaim
  <2>2. CASE FailWaiting(w)
    BY <2>2, SettleType, GoodModelWaiting DEF FailWaiting, SettleAs, Current, SameClaim
  <2>3. CASE FailAttempt(w)
    BY <2>3, SettleType, GoodFailed DEF FailAttempt, SettleAs, Current, SameClaim
  <2> QED BY <1>8, <2>1, <2>2, <2>3 DEF Settle
<1>9. CASE LoseLease(w)
  BY <1>0, <1>9, RestingWorkers DEF LoseLease, durable
<1>10. CASE SettleFails(w)
  BY <1>0, <1>10, RestingWorkers DEF SettleFails, durable
<1>11. CASE LateRenew(w)
  BY <1>0, <1>11, RestingWorkers DEF LateRenew, durable
<1>12. CASE Report(w)
  BY <1>0, <1>12, RestingWorkers DEF Report
<1>13. CASE Crash(w)
  BY <1>0, <1>13, RestingWorkers DEF Crash, durable
<1>14. CASE Restart(w)
  BY <1>0, <1>14, RestingWorkers DEF Restart, durable
<1> QED BY <1>1, <1>2, <1>3, <1>4, <1>5, <1>6, <1>7, <1>8, <1>9, <1>10, <1>11,
          <1>12, <1>13, <1>14 DEF Loop

(* retry_failed and abandon keep the types.                                 *)
LEMMA OperatorType ==
    ASSUME TypeOK, NEW w \in Worker, Operator(w)
    PROVE  TypeOK'
<1> USE DEF TypeOK, JobsOK
<1>1. ASSUME Resume(w)
      PROVE  worker' \in [Worker -> WorkerRecord]
  BY <1>1, RestingWorkers, BecomeOne DEF Resume
<1>2. CASE Retry(w)
  <2>1. JobsOK'
    BY <1>2, GoodReopened, RewriteOne DEF Retry, CanRetry
  <2> QED BY <1>1, <1>2, <2>1 DEF Retry
<1>3. CASE RetryAgain(w)
  BY <1>1, <1>3 DEF RetryAgain, durable
<1>4. CASE Abandon(w)
  <2>1. JobsOK'
    BY <1>4, PlainJobs, RewriteOne DEF Abandon
  <2>2. abandoned' \in [Source -> Nat]
    BY <1>4 DEF Abandon, Job
  <2> QED BY <1>1, <1>4, <2>1, <2>2 DEF Abandon
<1>5. CASE AbandonAgain(w)
  BY <1>1, <1>5 DEF AbandonAgain, durable
<1>6. CASE AbandonTorn(w)
  <2>1. worker' \in [Worker -> WorkerRecord]
    BY <1>6, RestingWorkers, BecomeOne DEF AbandonTorn
  <2>2. abandoned' \in [Source -> Nat]
    BY <1>6 DEF AbandonTorn, Job
  <2> QED BY <1>6, <2>1, <2>2 DEF AbandonTorn
<1> QED BY <1>2, <1>3, <1>4, <1>5, <1>6 DEF Operator

(* Every step keeps the types.                                              *)
LEMMA TypeStep == TypeOK /\ [Next]_vars => TypeOK'
<1> SUFFICES ASSUME TypeOK, [Next]_vars
             PROVE  TypeOK'
  OBVIOUS
<1>1. ASSUME NEW s \in Source, Foreground(s) \/ DiscardCommitted(s)
      PROVE  TypeOK'
  BY <1>1, ForegroundType
<1>2. ASSUME NEW w \in Worker, Loop(w) \/ Operator(w)
      PROVE  TypeOK'
  BY <1>2, LoopType, OperatorType
<1>3. CASE Inspect
  BY <1>3 DEF Inspect, TypeOK, durable
<1>4. CASE DropDecision
  BY <1>4, PlainJobs DEF DropDecision, TypeOK, NoDecision, GoodJob, durable
<1>5. CASE Tick
  <2>1. \A s \in Source : GoodJob(Aged(jobs[s]))
    BY GoodAged DEF TypeOK
  <2>2. jobs' \in [Source -> Job] /\ \A s \in Source : WellFormed(jobs'[s])
    BY <1>5, <2>1 DEF Tick, GoodJob
  <2> QED BY <1>5, <2>2 DEF Tick, TypeOK, WellFormed
<1>6. CASE UNCHANGED vars
  BY <1>6 DEF vars, durable, TypeOK
<1> QED BY <1>1, <1>2, <1>3, <1>4, <1>5, <1>6 DEF Next, Work

(* Every file, in every state reached, is one MemoryJob.__post_init__       *)
(* accepts: _read_all never fails on what the program itself wrote.         *)
THEOREM TypeCorrect == Spec => []TypeOK
<1>1. Init => TypeOK
  BY PlainJobs, RestingWorkers
  DEF Init, TypeOK, GoodJob, NoDecision, IngestPhase
<1>2. TypeOK /\ [Next]_vars => TypeOK'
  BY TypeStep
<1> QED BY <1>1, <1>2, PTL DEF Spec
(***************************************************************************)
(* Order.  Every step does one of seven things to the queue.               *)
(***************************************************************************)

Stays == UNCHANGED jobs /\ high' \in {high, high + 1}

Enters(s) ==
    /\ ~Present(s)
    /\ jobs' = [jobs EXCEPT ![s] = NewJob(high + 1)]
    /\ high' = high + 1

Opens(s) ==
    /\ jobs[s].status = "STAGED"
    /\ jobs' = [jobs EXCEPT ![s] = Activated(jobs[s])]
    /\ high' = high

Moves(s, j) ==
    /\ IsOldest(s)
    /\ GoodJob(j) /\ j.seq = jobs[s].seq /\ j.status # "ABSENT"
    /\ j.status = "COMMITTED" => jobs[s].status = "RUNNING"
    /\ jobs' = [jobs EXCEPT ![s] = j]
    /\ high' = high

Cleans(s) ==
    /\ jobs[s].status = "COMMITTED"
    /\ jobs' = [jobs EXCEPT ![s] = NoJob]
    /\ high' = high

Drops(s) ==
    /\ IsOldest(s) /\ jobs[s].status = "FAILED"
    /\ jobs' = [jobs EXCEPT ![s] = NoJob]
    /\ high' = high

Ages == jobs' = [s \in Source |-> Aged(jobs[s])] /\ high' = high

QueueStep ==
    \/ Stays \/ Ages
    \/ \E s \in Source : \/ Enters(s) \/ Opens(s) \/ Cleans(s) \/ Drops(s)
                          \/ \E j \in Job : Moves(s, j)

(* Every step of the foreground is a QueueStep.                             *)
LEMMA ForegroundSteps ==
    ASSUME TypeOK, NEW s \in Source, Foreground(s) \/ DiscardCommitted(s)
    PROVE  QueueStep
<1> USE DEF TypeOK, QueueStep, Stays
<1>1. CASE Stage(s)
  BY <1>1 DEF Stage, StageFile, NextSequence, Enters
<1>2. CASE StageTorn(s)
  BY <1>2 DEF StageTorn, NextSequence
<1>3. CASE Publish(s)
  BY <1>3 DEF Publish
<1>4. CASE Restage(s)
  BY <1>4 DEF Restage, StageFile, NextSequence, Enters
<1>5. CASE Activate(s)
  BY <1>5 DEF Activate, ActivateFile, Opens
<1>6. CASE BeginCompletion(s)
  BY <1>6 DEF BeginCompletion, durable
<1>7. CASE CompletePublish(s)
  BY <1>7 DEF CompletePublish
<1>8. CASE IngestCrash(s)
  BY <1>8 DEF IngestCrash, durable
<1>9. CASE DiscardCommitted(s)
  BY <1>9 DEF DiscardCommitted, Cleans
<1> QED BY <1>1, <1>2, <1>3, <1>4, <1>5, <1>6, <1>7, <1>8, <1>9 DEF Foreground

(* Every step of a worker is a QueueStep.                                   *)
LEMMA LoopSteps ==
    ASSUME TypeOK, NEW w \in Worker, Loop(w)
    PROVE  QueueStep
<1> USE DEF TypeOK, QueueStep, Stays
<1>0. ASSUME NEW s \in Source, NEW j \in Job, Moves(s, j)
      PROVE  QueueStep
  BY <1>0
<1>1. CASE Look(w)
  BY <1>1 DEF Look, durable
<1>2. CASE RecoverPublish(w)
  BY <1>2 DEF RecoverPublish
<1>3. CASE RecoverActivate(w)
  BY <1>3 DEF RecoverActivate, ActivateFile, Opens
<1>4. CASE RecoverFail(w)
  <2>1. PICK s \in Source : /\ IsOldest(s) /\ jobs[s].status = "STAGED"
                            /\ jobs' = [jobs EXCEPT ![s] = StagedFailure(jobs[s])]
    BY <1>4 DEF RecoverFail
  <2>2. GoodJob(StagedFailure(jobs[s]))
    BY <2>1, GoodStagedFailure
  <2>3. /\ StagedFailure(jobs[s]).seq = jobs[s].seq
        /\ StagedFailure(jobs[s]).status \in {"FAILED", "STAGED"}
    BY DEF StagedFailure, Job
  <2>4. Moves(s, StagedFailure(jobs[s]))
    BY <1>4, <2>1, <2>2, <2>3 DEF Moves, RecoverFail
  <2> QED BY <1>0, <2>2, <2>4 DEF GoodJob
<1>5. CASE RecoverRefused(w)
  BY <1>5 DEF RecoverRefused, durable
<1>6. CASE Claim(w)
  <2>1. PICK s \in Source : /\ IsOldest(s) /\ Claimable(s)
                            /\ jobs' = [jobs EXCEPT ![s] = Claimed(jobs[s], w)]
    BY <1>6 DEF Claim
  <2>2. GoodJob(Claimed(jobs[s], w))
    BY <2>1, GoodClaimed DEF Claimable
  <2>3. /\ Claimed(jobs[s], w).seq = jobs[s].seq
        /\ Claimed(jobs[s], w).status = "RUNNING"
    BY DEF Claimed, Job
  <2>4. Moves(s, Claimed(jobs[s], w))
    BY <1>6, <2>1, <2>2, <2>3 DEF Moves, Claim
  <2> QED BY <1>0, <2>2, <2>4 DEF GoodJob
<1>7. CASE ClaimRefused(w)
  BY <1>7 DEF ClaimRefused, durable
<1>8. CASE Renew(w)
  <2>1. PICK s \in Source : /\ IsOldest(s) /\ jobs[s].status = "RUNNING"
                            /\ jobs' = [jobs EXCEPT ![s] = Renewed(jobs[s])]
    BY <1>8 DEF Renew, Current, SameClaim
  <2>2. GoodJob(Renewed(jobs[s]))
    BY <2>1, GoodRenewed
  <2>3. /\ Renewed(jobs[s]).seq = jobs[s].seq
        /\ Renewed(jobs[s]).status = jobs[s].status
    BY DEF Renewed, Job
  <2>4. Moves(s, Renewed(jobs[s]))
    BY <1>8, <2>1, <2>2, <2>3 DEF Moves, Renew
  <2> QED BY <1>0, <2>2, <2>4 DEF GoodJob
<1>9. CASE BeginCommit(w)
  BY <1>9 DEF BeginCommit, durable
<1>10. CASE L2Commit(w)
  BY <1>10 DEF L2Commit
<1>11. ASSUME NEW s \in Source, NEW j, SettleAs(w, s, j), GoodJob(j),
              j.seq = jobs[s].seq, j.status # "ABSENT"
       PROVE  QueueStep
  <2>1. Moves(s, j)
    BY <1>11 DEF Moves, SettleAs, Current, SameClaim
  <2> QED BY <1>0, <1>11, <2>1 DEF GoodJob
<1>12. CASE Complete(w)
  <2>1. PICK s \in Source : SettleAs(w, s, Completed(jobs[s]))
    BY <1>12 DEF Complete
  <2>2. GoodJob(Completed(jobs[s]))
    BY <2>1, GoodCompleted DEF SettleAs, Current, SameClaim
  <2>3. /\ Completed(jobs[s]).seq = jobs[s].seq
        /\ Completed(jobs[s]).status = "COMMITTED"
    BY DEF Completed, Released, Job
  <2> QED BY <1>11, <2>1, <2>2, <2>3
<1>13. CASE FailWaiting(w)
  <2>1. PICK s \in Source : SettleAs(w, s, ModelWaiting(jobs[s]))
    BY <1>13 DEF FailWaiting
  <2>2. GoodJob(ModelWaiting(jobs[s]))
    BY <2>1, GoodModelWaiting DEF SettleAs, Current, SameClaim
  <2>3. /\ ModelWaiting(jobs[s]).seq = jobs[s].seq
        /\ ModelWaiting(jobs[s]).status = "QUEUED"
    BY DEF ModelWaiting, Released, Job
  <2> QED BY <1>11, <2>1, <2>2, <2>3
<1>14. CASE FailAttempt(w)
  <2>1. PICK s \in Source, retryable \in BOOLEAN :
           SettleAs(w, s, Failed(jobs[s], retryable))
    BY <1>14 DEF FailAttempt
  <2>2. GoodJob(Failed(jobs[s], retryable))
    BY <2>1, GoodFailed DEF SettleAs, Current, SameClaim
  <2>3. /\ Failed(jobs[s], retryable).seq = jobs[s].seq
        /\ Failed(jobs[s], retryable).status \in {"FAILED", "QUEUED"}
    BY DEF Failed, Released, Job
  <2> QED BY <1>11, <2>1, <2>2, <2>3
<1>15. CASE LoseLease(w) \/ SettleFails(w) \/ LateRenew(w) \/ Report(w)
            \/ Crash(w) \/ Restart(w)
  BY <1>15 DEF LoseLease, SettleFails, LateRenew, Report, Crash, Restart, durable
<1> QED BY <1>1, <1>2, <1>3, <1>4, <1>5, <1>6, <1>7, <1>8, <1>9, <1>10, <1>12,
          <1>13, <1>14, <1>15 DEF Loop, Recovery, Settle

(* Every step of the operator is a QueueStep.                               *)
LEMMA OperatorSteps ==
    ASSUME TypeOK, NEW w \in Worker, Operator(w)
    PROVE  QueueStep
<1> USE DEF TypeOK, QueueStep, Stays
<1>1. CASE Retry(w)
  <2>1. PICK s \in Source : /\ IsOldest(s) /\ jobs[s].status = "FAILED"
                            /\ jobs' = [jobs EXCEPT ![s] = Reopened(jobs[s])]
    BY <1>1 DEF Retry, CanRetry
  <2>2. GoodJob(Reopened(jobs[s]))
    BY <2>1, GoodReopened
  <2>3. /\ Reopened(jobs[s]).seq = jobs[s].seq
        /\ Reopened(jobs[s]).status \in {"STAGED", "QUEUED"}
    BY DEF Reopened, Job
  <2>4. Moves(s, Reopened(jobs[s]))
    BY <1>1, <2>1, <2>2, <2>3 DEF Moves, Retry
  <2> QED BY <2>2, <2>4 DEF GoodJob
<1>2. CASE Abandon(w)
  BY <1>2 DEF Abandon, CanAbandon, Drops
<1>3. CASE RetryAgain(w) \/ AbandonAgain(w) \/ AbandonTorn(w)
  BY <1>3 DEF RetryAgain, AbandonAgain, AbandonTorn, durable
<1> QED BY <1>1, <1>2, <1>3 DEF Operator

(* Every step is a QueueStep.                                               *)
LEMMA EveryQueueStep == TypeOK /\ [Next]_vars => QueueStep
<1> SUFFICES ASSUME TypeOK, [Next]_vars
             PROVE  QueueStep
  OBVIOUS
<1>1. ASSUME NEW s \in Source, Foreground(s) \/ DiscardCommitted(s)
      PROVE  QueueStep
  BY <1>1, ForegroundSteps
<1>2. ASSUME NEW w \in Worker, Loop(w) \/ Operator(w)
      PROVE  QueueStep
  BY <1>2, LoopSteps, OperatorSteps
<1>3. CASE Inspect \/ DropDecision \/ UNCHANGED vars
  BY <1>3 DEF Inspect, DropDecision, vars, durable, QueueStep, Stays
<1>4. CASE Tick
  BY <1>4 DEF Tick, QueueStep, Ages
<1> QED BY <1>1, <1>2, <1>3, <1>4 DEF Next, Work
(* What the order of the queue rests on.  The three parts are inductive     *)
(* only together: a file has a number of its own because none is above the  *)
(* mark, and nobody overtakes because the oldest job is the only one with   *)
(* its number.                                                              *)
OrderInv == TypeOK /\ SequencesUnique /\ NoOvertaking

(* Every step keeps OrderInv.                                               *)
LEMMA OrderStep == OrderInv /\ [Next]_vars => OrderInv'
<1> SUFFICES ASSUME OrderInv, [Next]_vars
             PROVE  OrderInv'
  OBVIOUS
<1>1. TypeOK /\ TypeOK' /\ QueueStep
  BY TypeStep, EveryQueueStep DEF OrderInv
<1>2. high \in Nat /\ high' \in Nat
  BY <1>1 DEF TypeOK
<1>3. /\ jobs \in [Source -> Job] /\ \A s \in Source : WellFormed(jobs[s])
      /\ \A s \in Source : jobs[s].seq \in Nat /\ jobs[s].gen \in Nat
  BY <1>1 DEF TypeOK, Job
<1>4. /\ \A s \in Source : jobs[s].seq <= high
      /\ \A s, t \in Source :
           Present(s) /\ Present(t) /\ jobs[s].seq = jobs[t].seq => s = t
      /\ NoOvertaking
  BY DEF OrderInv, SequencesUnique
<1> USE DEF SequencesUnique, NoOvertaking, Present, Pending
<1>5. CASE Stays
  BY <1>1, <1>2, <1>3, <1>4, <1>5 DEF Stays, OrderInv
<1>6. CASE Ages
  <2>1. \A s \in Source : /\ jobs'[s].seq = jobs[s].seq /\ jobs'[s].gen = jobs[s].gen
                          /\ jobs'[s].status = jobs[s].status
    BY <1>3, <1>6 DEF Ages, Aged, Job
  <2> QED BY <1>1, <1>4, <1>6, <2>1 DEF Ages, OrderInv
<1>7. ASSUME NEW s \in Source, NEW j \in Job,
             jobs' = [jobs EXCEPT ![s] = j], high' = high, j.seq = jobs[s].seq,
             j.status # "ABSENT" => jobs[s].status # "ABSENT",
             j.status \notin {"ABSENT", "COMMITTED"} =>
               jobs[s].status \notin {"ABSENT", "COMMITTED"},
             \/ IsOldest(s)
             \/ j.status = "QUEUED" /\ jobs[s].status = "STAGED" /\ j.gen = jobs[s].gen
      PROVE  OrderInv'
  <2>1. /\ jobs'[s] = j
        /\ \A t \in Source \ {s} : jobs'[t] = jobs[t]
    BY <1>3, <1>7
  <2>2. \A t \in Source : /\ jobs'[t].seq = jobs[t].seq
                          /\ Present(t)' => Present(t)
                          /\ Pending(t)' => Pending(t)
    BY <1>7, <2>1
  <2>3. SequencesUnique'
    BY <1>4, <1>7, <2>2
  <2>4. ASSUME NEW a \in Source, NEW b \in Source,
               Pending(a)', Present(b)', jobs'[a].seq < jobs'[b].seq
        PROVE  jobs'[b].status \in {"STAGED", "QUEUED"} /\ jobs'[b].gen = 0
    <3>1. /\ Pending(a) /\ Present(b) /\ jobs[a].seq < jobs[b].seq
      BY <2>2, <2>4
    <3>2. jobs[b].status \in {"STAGED", "QUEUED"} /\ jobs[b].gen = 0
      BY <1>4, <3>1
    <3>3. CASE b = s
      <4>1. ~IsOldest(s)
        BY <1>3, <3>1, <3>3 DEF IsOldest
      <4> QED BY <1>7, <2>1, <3>2, <3>3, <4>1
    <3> QED BY <2>1, <3>2, <3>3
  <2> QED BY <1>1, <2>3, <2>4 DEF OrderInv
<1>8. ASSUME NEW s \in Source, Opens(s)
      PROVE  OrderInv'
  <2>1. Activated(jobs[s]) \in Job
    BY <1>3, <1>8, GoodActivated DEF Opens, GoodJob
  <2>2. /\ Activated(jobs[s]).seq = jobs[s].seq
        /\ Activated(jobs[s]).status = "QUEUED" /\ Activated(jobs[s]).gen = jobs[s].gen
    BY <1>3 DEF Activated, Job
  <2> QED BY <1>7, <1>8, <2>1, <2>2 DEF Opens
<1>9. ASSUME NEW s \in Source, NEW j \in Job, Moves(s, j)
      PROVE  OrderInv'
  BY <1>7, <1>9 DEF Moves, IsOldest
<1>10. ASSUME NEW s \in Source, jobs' = [jobs EXCEPT ![s] = NoJob], high' = high
       PROVE  OrderInv'
  <2>1. /\ jobs'[s] = NoJob
        /\ \A t \in Source \ {s} : jobs'[t] = jobs[t]
    BY <1>3, <1>10
  <2>2. NoJob.status = "ABSENT" /\ NoJob.seq = 0
    BY DEF NoJob
  <2>3. SequencesUnique'
    BY <1>2, <1>4, <1>10, <2>1, <2>2
  <2>4. NoOvertaking'
    BY <1>4, <2>1, <2>2
  <2> QED BY <1>1, <2>3, <2>4 DEF OrderInv
<1>11. ASSUME NEW s \in Source, Enters(s)
       PROVE  OrderInv'
  <2>1. /\ jobs'[s] = NewJob(high + 1)
        /\ \A t \in Source \ {s} : jobs'[t] = jobs[t]
    BY <1>3, <1>11 DEF Enters
  <2>2. /\ NewJob(high + 1).status = "STAGED" /\ NewJob(high + 1).seq = high + 1
        /\ NewJob(high + 1).gen = 0
    BY DEF NewJob, NoJob
  <2>3. \A t \in Source : jobs[t].seq < high + 1
    BY <1>2, <1>3, <1>4
  <2>4. SequencesUnique'
    BY <1>2, <1>3, <1>4, <1>11, <2>1, <2>2, <2>3 DEF Enters
  <2>5. NoOvertaking'
    BY <1>2, <1>3, <1>4, <2>1, <2>2, <2>3
  <2> QED BY <1>1, <2>4, <2>5 DEF OrderInv
<1> QED BY <1>1, <1>5, <1>6, <1>8, <1>9, <1>10, <1>11 DEF QueueStep, Cleans, Drops

(* OrderInv is an invariant.                                                *)
LEMMA OrderInvariant == Spec => []OrderInv
<1>1. Init => OrderInv
  <2>1. Init => TypeOK
    BY PlainJobs, RestingWorkers
    DEF Init, TypeOK, GoodJob, NoDecision, IngestPhase
  <2> QED BY <2>1 DEF Init, OrderInv, SequencesUnique, NoOvertaking, Present, Pending, NoJob
<1> QED BY <1>1, OrderStep, PTL DEF Spec

(* A job is claimed only when every earlier one on file is COMMITTED, for   *)
(* any number of jobs, processes, crashes and takeovers.                    *)
THEOREM NobodyOvertakes == Spec => []NoOvertaking
BY OrderInvariant, PTL DEF OrderInv

(* Two files never carry one memory_sequence, and the mark is never behind. *)
THEOREM SequencesAreUnique == Spec => []SequencesUnique
BY OrderInvariant, PTL DEF OrderInv
(***************************************************************************)
(* The queue implements SerialQueue.                                       *)
(***************************************************************************)

(* A job that runs is the oldest one, so at most one runs.                  *)
LEMMA OnlyOldestRuns ==
    ASSUME OrderInv, NEW s \in Source, IsOldest(s)
    PROVE  /\ \A t \in Source : jobs[t].status = "RUNNING" => t = s
           /\ ActiveSeqs = IF jobs[s].status = "RUNNING" THEN {jobs[s].seq} ELSE {}
           /\ Serial!Lowest(jobs[s].seq)
           /\ \A t \in Source : Present(t) /\ jobs[t].seq = jobs[s].seq => t = s
<1>1. \A t \in Source : jobs[t].seq \in Nat
  BY DEF OrderInv, TypeOK, Job
<1>2. ASSUME NEW t \in Source, jobs[t].status = "RUNNING"
      PROVE  t = s
  <2>1. Pending(s) /\ Present(t) /\ Pending(t) /\ jobs[s].seq <= jobs[t].seq
    BY <1>2 DEF IsOldest, Pending, Present
  <2>2. ~(jobs[s].seq < jobs[t].seq)
    BY <1>2, <2>1 DEF OrderInv, NoOvertaking
  <2>3. jobs[s].seq = jobs[t].seq
    BY <1>1, <2>1, <2>2
  <2> QED BY <2>1, <2>3 DEF OrderInv, SequencesUnique, Pending, Present
<1>3. ActiveSeqs = IF jobs[s].status = "RUNNING" THEN {jobs[s].seq} ELSE {}
  BY <1>2 DEF ActiveSeqs
<1>4. Serial!Lowest(jobs[s].seq)
  BY DEF Serial!Lowest, OpenSeqs, IsOldest
<1>5. \A t \in Source : Present(t) /\ jobs[t].seq = jobs[s].seq => t = s
  BY DEF OrderInv, SequencesUnique, IsOldest, Pending, Present
<1> QED BY <1>2, <1>3, <1>4, <1>5

(* A QueueStep is a step of SerialQueue, or none.                           *)
LEMMA SerialStep ==
    ASSUME OrderInv, OrderInv', QueueStep
    PROVE  [Serial!Next]_(Serial!vars)
<1>1. /\ jobs \in [Source -> Job] /\ high \in Nat
      /\ \A s \in Source : jobs[s].seq \in Nat
  BY DEF OrderInv, TypeOK, Job
<1> USE DEF Present, Pending
<1>2. CASE Stays
  <2>1. OpenSeqs' = OpenSeqs /\ ActiveSeqs' = ActiveSeqs
    BY <1>2 DEF Stays, OpenSeqs, ActiveSeqs
  <2> QED BY <1>2, <2>1 DEF Stays, Serial!Next, Serial!Issue, Serial!vars
<1>3. CASE Ages
  <2>1. \A s \in Source : jobs'[s].seq = jobs[s].seq /\ jobs'[s].status = jobs[s].status
    BY <1>1, <1>3 DEF Ages, Aged, Job
  <2>2. OpenSeqs' = OpenSeqs /\ ActiveSeqs' = ActiveSeqs
    BY <2>1 DEF OpenSeqs, ActiveSeqs
  <2> QED BY <1>3, <2>2 DEF Ages, Serial!vars
<1>4. ASSUME NEW s \in Source, Enters(s)
      PROVE  Serial!Next
  <2>1. /\ jobs'[s].status = "STAGED" /\ jobs'[s].seq = high + 1
        /\ \A t \in Source \ {s} : jobs'[t] = jobs[t]
        /\ jobs[s].status = "ABSENT"
    BY <1>1, <1>4 DEF Enters, NewJob, NoJob
  <2>2. OpenSeqs' = OpenSeqs \cup {high + 1}
    BY <2>1 DEF OpenSeqs
  <2>3. ActiveSeqs' = ActiveSeqs
    BY <2>1 DEF ActiveSeqs
  <2> QED BY <1>4, <2>2, <2>3 DEF Enters, Serial!Next, Serial!Issue
<1>5. ASSUME NEW s \in Source, Opens(s)
      PROVE  UNCHANGED Serial!vars
  <2>1. /\ jobs'[s].status = "QUEUED" /\ jobs'[s].seq = jobs[s].seq
        /\ \A t \in Source \ {s} : jobs'[t] = jobs[t]
        /\ jobs[s].status = "STAGED"
    BY <1>1, <1>5 DEF Opens, Activated, Job
  <2>2. OpenSeqs' = OpenSeqs /\ ActiveSeqs' = ActiveSeqs
    BY <2>1 DEF OpenSeqs, ActiveSeqs
  <2> QED BY <1>5, <2>2 DEF Opens, Serial!vars
<1>6. ASSUME NEW s \in Source, Cleans(s)
      PROVE  UNCHANGED Serial!vars
  <2>1. /\ jobs'[s].status = "ABSENT"
        /\ \A t \in Source \ {s} : jobs'[t] = jobs[t]
    BY <1>1, <1>6 DEF Cleans, NoJob
  <2>2. OpenSeqs' = OpenSeqs /\ ActiveSeqs' = ActiveSeqs
    BY <1>6, <2>1 DEF Cleans, OpenSeqs, ActiveSeqs
  <2> QED BY <1>6, <2>2 DEF Cleans, Serial!vars
<1>7. ASSUME NEW s \in Source, Drops(s)
      PROVE  Serial!Next
  <2>1. /\ jobs'[s].status = "ABSENT"
        /\ \A t \in Source \ {s} : jobs'[t] = jobs[t]
        /\ IsOldest(s) /\ jobs[s].status = "FAILED"
    BY <1>1, <1>7 DEF Drops, NoJob
  <2>2. OpenSeqs' = OpenSeqs \ {jobs[s].seq}
    BY <2>1, OnlyOldestRuns DEF OpenSeqs
  <2>3. ActiveSeqs = {} /\ ActiveSeqs' = {}
    BY <2>1, OnlyOldestRuns DEF ActiveSeqs
  <2>4. jobs[s].seq \in OpenSeqs /\ Serial!Lowest(jobs[s].seq)
    BY <2>1, OnlyOldestRuns DEF OpenSeqs
  <2> QED BY <1>7, <2>2, <2>3, <2>4 DEF Drops, Serial!Next, Serial!Drop
<1>8. ASSUME NEW s \in Source, NEW j \in Job, Moves(s, j)
      PROVE  [Serial!Next]_(Serial!vars)
  <2>1. /\ jobs'[s] = j /\ j.seq = jobs[s].seq
        /\ \A t \in Source \ {s} : jobs'[t] = jobs[t]
        /\ IsOldest(s) /\ j.status # "ABSENT" /\ high' = high
        /\ j.status = "COMMITTED" => jobs[s].status = "RUNNING"
    BY <1>1, <1>8 DEF Moves
  <2>2. /\ \A t \in Source : jobs[t].status = "RUNNING" => t = s
        /\ ActiveSeqs = IF jobs[s].status = "RUNNING" THEN {jobs[s].seq} ELSE {}
        /\ jobs[s].seq \in OpenSeqs /\ Serial!Lowest(jobs[s].seq)
        /\ \A t \in Source : Present(t) /\ jobs[t].seq = jobs[s].seq => t = s
    BY <2>1, OnlyOldestRuns DEF OpenSeqs, IsOldest
  <2>3. ActiveSeqs' = IF j.status = "RUNNING" THEN {jobs[s].seq} ELSE {}
    BY <2>1, <2>2 DEF ActiveSeqs
  <2>4. CASE j.status = "COMMITTED"
    <3>1. OpenSeqs' = OpenSeqs \ {jobs[s].seq}
      BY <2>1, <2>2, <2>4 DEF OpenSeqs
    <3>2. ActiveSeqs = {jobs[s].seq} /\ ActiveSeqs' = {}
      BY <2>1, <2>2, <2>3, <2>4
    <3> QED BY <2>1, <3>1, <3>2 DEF Serial!Next, Serial!Finish
  <2>5. CASE j.status # "COMMITTED"
    <3>1. OpenSeqs' = OpenSeqs
      BY <2>1, <2>5 DEF OpenSeqs, IsOldest
    <3>2. CASE j.status = "RUNNING" /\ jobs[s].status # "RUNNING"
      BY <2>1, <2>2, <2>3, <3>1, <3>2 DEF Serial!Next, Serial!Take
    <3>3. CASE j.status # "RUNNING" /\ jobs[s].status = "RUNNING"
      BY <2>1, <2>2, <2>3, <3>1, <3>3 DEF Serial!Next, Serial!PutBack
    <3>4. CASE j.status = "RUNNING" <=> jobs[s].status = "RUNNING"
      BY <2>1, <2>2, <2>3, <3>1, <3>4 DEF Serial!vars
    <3> QED BY <3>2, <3>3, <3>4
  <2> QED BY <2>4, <2>5
<1> QED BY <1>2, <1>3, <1>4, <1>5, <1>6, <1>7, <1>8 DEF QueueStep

(* For any number of jobs and processes the queue is a SerialQueue: numbers *)
(* are issued once and worked on one at a time, lowest first.               *)
THEOREM QueueIsSerial == Spec => SerialOrder
<1>1. Init => Serial!Init
  BY DEF Init, Serial!Init, OpenSeqs, ActiveSeqs, Pending, NoJob
<1>2. OrderInv /\ OrderInv' /\ [Next]_vars => [Serial!Next]_(Serial!vars)
  BY SerialStep, EveryQueueStep DEF OrderInv
<1> QED BY <1>1, <1>2, OrderInvariant, PTL DEF Spec, SerialOrder, Serial!Spec

(***************************************************************************)
(* History before the run.                                                 *)
(***************************************************************************)

(* Why a job that may run has its history: whoever is about to activate it  *)
(* published first, and a job that was ever claimed was activated.          *)
HistoryInv ==
    /\ \A s \in Source :
         /\ jobs[s].status \in {"QUEUED", "RUNNING", "COMMITTED"} => s \in history
         /\ jobs[s].gen > 0 => s \in history
         /\ ingest[s] \in {"published", "restaged"} => s \in history
    /\ \A w \in Worker : worker[w].phase = "published" => worker[w].src \in history

(* The foreground and the lifecycle keep HistoryInv.                        *)
LEMMA HistoryForeground ==
    ASSUME TypeOK, HistoryInv, NEW s \in Source, Foreground(s) \/ DiscardCommitted(s)
    PROVE  HistoryInv'
<1> USE DEF TypeOK, HistoryInv
<1>1. ASSUME StageFile(s)
      PROVE  \A t \in Source : \/ jobs'[t] = jobs[t]
                               \/ jobs'[t].status = "STAGED" /\ jobs'[t].gen = 0
  BY <1>1 DEF StageFile, NewJob, NoJob
<1>2. CASE Stage(s)
  BY <1>1, <1>2 DEF Stage
<1>3. CASE StageTorn(s)
  BY <1>3 DEF StageTorn
<1>4. CASE Publish(s)
  BY <1>4 DEF Publish
<1>5. CASE Restage(s)
  BY <1>1, <1>5 DEF Restage
<1>6. CASE Activate(s)
  <2>1. s \in history
    BY <1>6 DEF Activate
  <2>2. \A t \in Source \ {s} : jobs'[t] = jobs[t]
    BY <1>6 DEF Activate, ActivateFile
  <2> QED BY <1>6, <2>1, <2>2 DEF Activate
<1>7. CASE BeginCompletion(s)
  BY <1>7 DEF BeginCompletion, durable
<1>8. CASE CompletePublish(s)
  BY <1>8 DEF CompletePublish
<1>9. CASE IngestCrash(s)
  BY <1>9 DEF IngestCrash, durable
<1>10. CASE DiscardCommitted(s)
  BY <1>10 DEF DiscardCommitted, NoJob
<1> QED BY <1>2, <1>3, <1>4, <1>5, <1>6, <1>7, <1>8, <1>9, <1>10 DEF Foreground

(* A worker keeps HistoryInv.                                               *)
LEMMA HistoryLoop ==
    ASSUME TypeOK, HistoryInv, NEW w \in Worker, Loop(w)
    PROVE  HistoryInv'
<1> USE DEF TypeOK, HistoryInv
<1>0. ASSUME \A s \in Source : s \in history \/ jobs'[s] = jobs[s]
                              \/ (/\ jobs'[s].status \in {"STAGED", "FAILED"}
                                 /\ jobs'[s].gen = jobs[s].gen),
             history \subseteq history', UNCHANGED ingest,
             NEW r, Become(w, r), r.phase = "published" => r.src \in history'
      PROVE  HistoryInv'
  BY <1>0 DEF Become
<1>1. CASE Look(w)
  <2>1. PICK s \in Source :
           Become(w, [phase |-> IF jobs[s].status = "STAGED" THEN "recovering" ELSE "looked",
                      src |-> s, job |-> Frozen(jobs[s]), exhausted |-> FALSE])
    BY <1>1 DEF Look
  <2> QED BY <1>0, <1>1, <2>1 DEF Look, durable
<1>2. CASE RecoverPublish(w)
  <2>1. PICK s \in Source : /\ worker[w].src = s
                            /\ history' = history \cup {s}
                            /\ Become(w, [worker[w] EXCEPT !.phase = "published"])
    BY <1>2 DEF RecoverPublish, Holding
  <2>2. [worker[w] EXCEPT !.phase = "published"].src = s
    BY <2>1 DEF WorkerRecord
  <2> QED BY <1>0, <1>2, <2>1, <2>2 DEF RecoverPublish
<1>3. CASE RecoverActivate(w)
  <2>1. PICK s \in Source : /\ worker[w].phase = "published" /\ worker[w].src = s
                            /\ ActivateFile(s)
                            /\ Become(w, [worker[w] EXCEPT !.phase = "looked",
                                                           !.job = Frozen(jobs'[s])])
    BY <1>3 DEF RecoverActivate, Holding
  <2>2. s \in history /\ \A t \in Source \ {s} : jobs'[t] = jobs[t]
    BY <2>1 DEF ActivateFile
  <2>3. [worker[w] EXCEPT !.phase = "looked", !.job = Frozen(jobs'[s])].phase = "looked"
    BY DEF WorkerRecord
  <2> QED BY <1>0, <1>3, <2>1, <2>2, <2>3 DEF RecoverActivate
<1>4. CASE RecoverFail(w)
  <2>1. PICK s \in Source : /\ jobs' = [jobs EXCEPT ![s] = StagedFailure(jobs[s])]
                            /\ Become(w, IF LastAttempt(jobs[s]) THEN Blocked ELSE Idle)
    BY <1>4 DEF RecoverFail
  <2>2. /\ StagedFailure(jobs[s]).status \in {"STAGED", "FAILED"}
        /\ StagedFailure(jobs[s]).gen = jobs[s].gen
    BY DEF StagedFailure, Job
  <2>3. (IF LastAttempt(jobs[s]) THEN Blocked ELSE Idle).phase # "published"
    BY DEF Blocked, Idle
  <2> QED BY <1>0, <1>4, <2>1, <2>2, <2>3 DEF RecoverFail
<1>5. CASE RecoverRefused(w)
  BY <1>0, <1>5 DEF RecoverRefused, durable, Idle, Dead
<1>6. CASE Claim(w)
  <2>1. PICK s \in Source :
           /\ jobs[s].status \in {"QUEUED", "RUNNING"}
           /\ jobs' = [jobs EXCEPT ![s] = Claimed(jobs[s], w)]
           /\ Become(w, [phase |-> "running", src |-> s, job |-> Frozen(jobs'[s]),
                         exhausted |-> Spent(worker[w].job)])
    BY <1>6 DEF Claim, Claimable
  <2>2. s \in history /\ \A t \in Source \ {s} : jobs'[t] = jobs[t]
    BY <2>1
  <2> QED BY <1>0, <1>6, <2>1, <2>2 DEF Claim
<1>7. CASE ClaimRefused(w)
  BY <1>0, <1>7 DEF ClaimRefused, durable, Idle, Dead, Blocked
<1>8. CASE Renew(w)
  <2>1. PICK s \in Source : /\ jobs[s].status = "RUNNING"
                            /\ jobs' = [jobs EXCEPT ![s] = Renewed(jobs[s])]
    BY <1>8 DEF Renew, Current, SameClaim
  <2>2. s \in history /\ \A t \in Source \ {s} : jobs'[t] = jobs[t]
    BY <2>1
  <2> QED BY <1>8, <2>2 DEF Renew
<1>9. CASE BeginCommit(w)
  BY <1>0, <1>9 DEF BeginCommit, durable, WorkerRecord
<1>10. CASE L2Commit(w)
  <2>1. /\ [worker[w] EXCEPT !.phase = "running"].phase = "running"
        /\ [worker[w] EXCEPT !.phase = "raised"].phase = "raised"
    BY DEF WorkerRecord
  <2> QED BY <1>0, <1>10, <2>1 DEF L2Commit
<1>11. ASSUME NEW s \in Source, NEW j, SettleAs(w, s, j)
       PROVE  HistoryInv'
  <2>1. s \in history /\ \A t \in Source \ {s} : jobs'[t] = jobs[t]
    BY <1>11 DEF SettleAs, Current, SameClaim
  <2>2. [worker[w] EXCEPT !.phase = "settled", !.job = Frozen(j)].phase = "settled"
    BY DEF WorkerRecord
  <2> QED BY <1>0, <1>11, <2>1, <2>2 DEF SettleAs
<1>12. CASE Settle(w)
  BY <1>11, <1>12 DEF Settle, Complete, FailWaiting, FailAttempt
<1>13. CASE LoseLease(w)
  BY <1>0, <1>13 DEF LoseLease, durable, Idle, Dead
<1>14. CASE SettleFails(w)
  BY <1>0, <1>14 DEF SettleFails, durable, Dead, Idle
<1>15. CASE LateRenew(w)
  BY <1>0, <1>15 DEF LateRenew, Holding, durable, Idle, Dead
<1>16. CASE Report(w)
  BY <1>0, <1>16 DEF Report, Idle, Blocked
<1>17. CASE Crash(w)
  BY <1>0, <1>17 DEF Crash, durable, Stopped, Idle
<1>18. CASE Restart(w)
  BY <1>0, <1>18 DEF Restart, durable, Idle
<1> QED BY <1>1, <1>2, <1>3, <1>4, <1>5, <1>6, <1>7, <1>8, <1>9, <1>10, <1>12,
          <1>13, <1>14, <1>15, <1>16, <1>17, <1>18 DEF Loop, Recovery

(* Every step keeps HistoryInv.                                             *)
LEMMA HistoryStep == TypeOK /\ HistoryInv /\ [Next]_vars => HistoryInv'
<1> SUFFICES ASSUME TypeOK, HistoryInv, [Next]_vars
             PROVE  HistoryInv'
  OBVIOUS
<1>1. ASSUME NEW s \in Source, Foreground(s) \/ DiscardCommitted(s)
      PROVE  HistoryInv'
  BY <1>1, HistoryForeground
<1>2. ASSUME NEW w \in Worker, Loop(w)
      PROVE  HistoryInv'
  BY <1>2, HistoryLoop
<1>3. ASSUME NEW w \in Worker, Operator(w)
      PROVE  HistoryInv'
  <2> USE DEF TypeOK, HistoryInv
  <2>1. ASSUME UNCHANGED <<history, ingest>>,
               Resume(w) \/ Become(w, Stopped),
               \A s \in Source :
                 \/ jobs'[s] = jobs[s] \/ jobs'[s] = NoJob
                 \/ /\ jobs'[s].status = "STAGED" /\ jobs'[s].gen = 0
                 \/ s \in history
        PROVE  HistoryInv'
    BY <2>1 DEF Resume, Become, Stopped, Idle, NoJob
  <2>2. CASE Retry(w)
    <3>1. PICK s \in Source : jobs' = [jobs EXCEPT ![s] = Reopened(jobs[s])]
      BY <2>2 DEF Retry
    <3>2. \/ jobs'[s].status = "STAGED" /\ jobs'[s].gen = 0
          \/ s \in history
      BY <3>1 DEF Reopened, Job
    <3> QED BY <2>1, <2>2, <3>1, <3>2 DEF Retry
  <2>3. CASE Abandon(w)
    BY <2>1, <2>3 DEF Abandon
  <2>4. CASE RetryAgain(w) \/ AbandonAgain(w) \/ AbandonTorn(w)
    BY <2>1, <2>4 DEF RetryAgain, AbandonAgain, AbandonTorn, durable
  <2> QED BY <1>3, <2>2, <2>3, <2>4 DEF Operator
<1>4. CASE Inspect \/ DropDecision \/ UNCHANGED vars
  BY <1>4 DEF Inspect, DropDecision, vars, durable, HistoryInv
<1>5. CASE Tick
  <2>1. \A s \in Source : jobs'[s].status = jobs[s].status /\ jobs'[s].gen = jobs[s].gen
    BY <1>5 DEF Tick, Aged, TypeOK, Job
  <2> QED BY <1>5, <2>1 DEF Tick, HistoryInv
<1> QED BY <1>1, <1>2, <1>3, <1>4, <1>5 DEF Next, Work

(* Whichever of the two paths activated it, and wherever they were cut off, *)
(* a job that may run has its history published.                            *)
THEOREM HistoryComesFirst == Spec => []HistoryBeforeRun
<1>1. Init => HistoryInv
  BY DEF Init, HistoryInv, NoJob, Idle
<1>2. HistoryInv => HistoryBeforeRun
  BY DEF HistoryInv, HistoryBeforeRun
<1> QED BY <1>1, <1>2, HistoryStep, TypeCorrect, PTL DEF Spec

(***************************************************************************)
(* Fencing.                                                                *)
(***************************************************************************)

(* What may become of the file of s: nothing, age, a change by the holder   *)
(* of its running lease, or a takeover after the lease ran out.             *)
LeftAlone(s) == jobs'[s] = jobs[s]
AgedOnly(s) ==
    Frozen(jobs'[s]) = Frozen(jobs[s]) /\ jobs'[s].ttl < jobs[s].ttl
RewrittenByHolder(s) ==
    /\ jobs[s].ttl > 0
    /\ \E w \in Worker : worker[w].src = s /\ SameClaim(w, s)
    /\ jobs'[s].gen = jobs[s].gen
TakenOver(s) ==
    /\ jobs[s].ttl = 0
    /\ jobs'[s].status = "RUNNING" /\ jobs'[s].gen = jobs[s].gen + 1

Fenced(s) == LeftAlone(s) \/ AgedOnly(s) \/ RewrittenByHolder(s) \/ TakenOver(s)

(* A rewrite of one file concerns that file only.                           *)
LEMMA OneFileFenced ==
    ASSUME NEW s \in Source, NEW j, jobs \in [Source -> Job],
           jobs' = [jobs EXCEPT ![s] = j],
           jobs[s].status = "RUNNING" => Fenced(s)
    PROVE  \A t \in Source : jobs[t].status = "RUNNING" => Fenced(t)
<1>1. \A t \in Source \ {s} : jobs'[t] = jobs[t]
  OBVIOUS
<1> QED BY <1>1 DEF Fenced, LeftAlone

(* The foreground and the lifecycle leave a RUNNING job alone.              *)
LEMMA ForegroundFenced ==
    ASSUME TypeOK, NEW s \in Source, Foreground(s) \/ DiscardCommitted(s)
    PROVE  \A t \in Source : jobs[t].status = "RUNNING" => LeftAlone(t)
<1> USE DEF TypeOK, LeftAlone
<1>1. CASE Stage(s)
  BY <1>1 DEF Stage, StageFile, Present
<1>2. CASE Restage(s)
  BY <1>2 DEF Restage, StageFile, Present
<1>3. CASE Activate(s)
  BY <1>3 DEF Activate, ActivateFile
<1>4. CASE DiscardCommitted(s)
  BY <1>4 DEF DiscardCommitted
<1>5. CASE StageTorn(s) \/ Publish(s) \/ BeginCompletion(s) \/ CompletePublish(s)
           \/ IngestCrash(s)
  BY <1>5 DEF StageTorn, Publish, BeginCompletion, CompletePublish, IngestCrash, durable
<1> QED BY <1>1, <1>2, <1>3, <1>4, <1>5 DEF Foreground

(* A worker's rewrite of a RUNNING job is one of its holder or a takeover.  *)
LEMMA LoopFenced ==
    ASSUME TypeOK, NEW w \in Worker, Loop(w)
    PROVE  \A t \in Source : jobs[t].status = "RUNNING" => Fenced(t)
<1> USE DEF TypeOK
<1>1. CASE RecoverActivate(w)
  <2>1. \A t \in Source : jobs[t].status = "RUNNING" => LeftAlone(t)
    BY <1>1 DEF RecoverActivate, ActivateFile, LeftAlone
  <2> QED BY <2>1 DEF Fenced
<1>2. CASE RecoverFail(w)
  <2>1. PICK s \in Source : /\ jobs[s].status = "STAGED"
                            /\ jobs' = [jobs EXCEPT ![s] = StagedFailure(jobs[s])]
    BY <1>2 DEF RecoverFail
  <2> QED BY <2>1, OneFileFenced
<1>3. CASE Claim(w)
  <2>1. PICK s \in Source : /\ Claimable(s)
                            /\ jobs' = [jobs EXCEPT ![s] = Claimed(jobs[s], w)]
    BY <1>3 DEF Claim
  <2>2. /\ Claimed(jobs[s], w).status = "RUNNING"
        /\ Claimed(jobs[s], w).gen = jobs[s].gen + 1
    BY DEF Claimed, Job
  <2>3. jobs[s].status = "RUNNING" => TakenOver(s)
    BY <2>1, <2>2 DEF Claimable, TakenOver
  <2> QED BY <2>1, <2>3, OneFileFenced DEF Fenced
<1>4. ASSUME NEW s \in Source, NEW j, Executing(w, s), Current(w, s),
             jobs' = [jobs EXCEPT ![s] = j], j.gen = jobs[s].gen
      PROVE  \A t \in Source : jobs[t].status = "RUNNING" => Fenced(t)
  <2>1. worker[w].src = s /\ SameClaim(w, s) /\ jobs[s].ttl > 0
    BY <1>4 DEF Executing, Holding, Current
  <2>2. RewrittenByHolder(s)
    BY <1>4, <2>1 DEF RewrittenByHolder
  <2> QED BY <1>4, <2>2, OneFileFenced DEF Fenced
<1>5. CASE Renew(w)
  <2>1. PICK s \in Source : /\ Executing(w, s) /\ Current(w, s)
                            /\ jobs' = [jobs EXCEPT ![s] = Renewed(jobs[s])]
    BY <1>5 DEF Renew
  <2>2. Renewed(jobs[s]).gen = jobs[s].gen
    BY DEF Renewed, Job
  <2> QED BY <1>4, <2>1, <2>2
<1>6. CASE Settle(w)
  <2>1. \A s \in Source, retryable \in BOOLEAN :
          /\ Completed(jobs[s]).gen = jobs[s].gen
          /\ ModelWaiting(jobs[s]).gen = jobs[s].gen
          /\ Failed(jobs[s], retryable).gen = jobs[s].gen
    BY DEF Completed, ModelWaiting, Failed, Released, Job
  <2>2. PICK s, j : s \in Source /\ SettleAs(w, s, j) /\ j.gen = jobs[s].gen
    BY <1>6, <2>1 DEF Settle, Complete, FailWaiting, FailAttempt
  <2> QED BY <1>4, <2>2 DEF SettleAs
<1>7. CASE \/ Look(w) \/ RecoverPublish(w) \/ RecoverRefused(w) \/ ClaimRefused(w)
           \/ BeginCommit(w) \/ L2Commit(w) \/ LoseLease(w) \/ SettleFails(w)
           \/ LateRenew(w) \/ Report(w) \/ Crash(w) \/ Restart(w)
  <2>1. UNCHANGED jobs
    BY <1>7 DEF Look, RecoverPublish, RecoverRefused, ClaimRefused, BeginCommit, L2Commit,
                LoseLease, SettleFails, LateRenew, Report, Crash, Restart, durable
  <2> QED BY <2>1 DEF Fenced, LeftAlone
<1> QED BY <1>1, <1>2, <1>3, <1>5, <1>6, <1>7 DEF Loop, Recovery

(* The operator rewrites a FAILED job only.                                 *)
LEMMA OperatorFenced ==
    ASSUME TypeOK, NEW w \in Worker, Operator(w)
    PROVE  \A t \in Source : jobs[t].status = "RUNNING" => LeftAlone(t)
BY DEF TypeOK, LeftAlone, Operator, Retry, CanRetry, RetryAgain, Abandon, CanAbandon,
       AbandonAgain, AbandonTorn, durable

(* Time shortens a lease, and leaves one that has run out as it is.         *)
LEMMA TickFenced ==
    ASSUME TypeOK, Tick
    PROVE  \A t \in Source : jobs[t].status = "RUNNING" => LeftAlone(t) \/ AgedOnly(t)
<1> SUFFICES ASSUME NEW t \in Source, jobs[t].status = "RUNNING"
             PROVE  LeftAlone(t) \/ AgedOnly(t)
  OBVIOUS
<1>1. /\ jobs[t] \in Job /\ jobs[t].wait = 0 /\ jobs[t].ttl \in Nat
      /\ jobs'[t] = Aged(jobs[t])
  BY DEF TypeOK, WellFormed, Tick, Job
<1>2. CASE jobs[t].ttl = 0
  <2>1. Aged(jobs[t]) = jobs[t]
    BY <1>1, <1>2 DEF Aged, Job
  <2> QED BY <1>1, <2>1 DEF LeftAlone
<1>3. CASE jobs[t].ttl # 0
  <2>1. Aged(jobs[t]).ttl < jobs[t].ttl
    BY <1>1, <1>3 DEF Aged, Job
  <2>2. Frozen(Aged(jobs[t])) = Frozen(jobs[t])
    BY <1>1 DEF Aged, Frozen, Job
  <2> QED BY <1>1, <2>1, <2>2 DEF AgedOnly
<1> QED BY <1>2, <1>3

(* A RUNNING job is rewritten by the holder of its running lease only, and  *)
(* taken over only after that lease ran out, by the next generation: for    *)
(* any number of jobs and processes, whatever they still hold of earlier    *)
(* claims, and however they are cut off.                                    *)
THEOREM LeaseFences == Spec => LeaseFencing
<1>1. TypeOK /\ [Next]_vars
        => \A s \in Source : jobs[s].status = "RUNNING" => Fenced(s)
  <2> SUFFICES ASSUME TypeOK, [Next]_vars
               PROVE  \A s \in Source : jobs[s].status = "RUNNING" => Fenced(s)
    OBVIOUS
  <2>1. ASSUME NEW s \in Source, Foreground(s) \/ DiscardCommitted(s)
        PROVE  \A t \in Source : jobs[t].status = "RUNNING" => Fenced(t)
    BY <2>1, ForegroundFenced DEF Fenced
  <2>2. ASSUME NEW w \in Worker, Loop(w) \/ Operator(w)
        PROVE  \A t \in Source : jobs[t].status = "RUNNING" => Fenced(t)
    BY <2>2, LoopFenced, OperatorFenced DEF Fenced
  <2>3. CASE Inspect \/ DropDecision \/ UNCHANGED vars
    BY <2>3 DEF Inspect, DropDecision, vars, durable, Fenced, LeftAlone
  <2>4. CASE Tick
    BY <2>4, TickFenced DEF Fenced
  <2> QED BY <2>1, <2>2, <2>3, <2>4 DEF Next, Work
<1>2. TypeOK /\ [Next]_vars =>
        [\A s \in Source :
           jobs[s].status = "RUNNING" =>
             \/ Frozen(jobs'[s]) = Frozen(jobs[s]) /\ jobs'[s].ttl < jobs[s].ttl
             \/ jobs'[s] = jobs[s]
             \/ /\ jobs[s].ttl > 0
                /\ \E w \in Worker : worker[w].src = s /\ SameClaim(w, s)
                /\ jobs'[s].gen = jobs[s].gen
             \/ /\ jobs[s].ttl = 0
                /\ jobs'[s].status = "RUNNING" /\ jobs'[s].gen = jobs[s].gen + 1]_vars
  BY <1>1 DEF Fenced, LeftAlone, AgedOnly, RewrittenByHolder, TakenOver
<1> QED BY <1>2, TypeCorrect, PTL DEF Spec, LeaseFencing

(***************************************************************************)
(* Abandoned jobs.                                                         *)
(***************************************************************************)

(* A worker at work on a job holds its claim; the claim need not be leased. *)
LiveHold ==
    \A w \in Worker : Live(w) =>
        /\ worker[w].src \in Source
        /\ IsOldest(worker[w].src) /\ SameClaim(w, worker[w].src)

(* Its lease runs ...                                                       *)
Leased == \A w \in Worker : Live(w) => jobs[worker[w].src].ttl > 0

(* ... or there is nobody who could take the job over.                      *)
Untaken ==
    \A w, v \in Worker : Live(w) /\ v # w => jobs[worker[w].src].ttl > 0

(* What was abandoned is not in the journals; a file still there was cut    *)
(* off between record and unlink, and is FAILED for good.                   *)
AbandonedIsOver ==
    \A t \in Source : abandoned[t] # 0 =>
        /\ abandoned[t] <= high
        /\ abandoned[t] \notin l2
        /\ \A s \in Source :
             Present(s) /\ jobs[s].seq = abandoned[t] => s = t /\ jobs[s].status = "FAILED"

AbandonInv == OrderInv /\ LiveHold /\ AbandonedIsOver

(* The oldest job stays the oldest as long as it is pending: what enters    *)
(* the queue has a higher number.                                           *)
LEMMA OldestStays ==
    ASSUME OrderInv, QueueStep, NEW s \in Source, IsOldest(s), Pending(s)'
    PROVE  IsOldest(s)'
<1>1. /\ jobs \in [Source -> Job] /\ high \in Nat
      /\ \A t \in Source : jobs[t].seq \in Nat /\ jobs[t].seq <= high
  BY DEF OrderInv, TypeOK, SequencesUnique, Job
<1> USE DEF Present, Pending
<1>2. \A t \in Source : Pending(t)' =>
        \/ Pending(t) /\ jobs'[t].seq = jobs[t].seq
        \/ ~Present(t) /\ jobs'[t].seq = high + 1
  <2>1. CASE Stays
    BY <2>1 DEF Stays
  <2>2. CASE Ages
    BY <1>1, <2>2 DEF Ages, Aged, Job
  <2>3. ASSUME NEW u \in Source, Enters(u)
        PROVE  \A t \in Source : Pending(t)' =>
                 \/ Pending(t) /\ jobs'[t].seq = jobs[t].seq
                 \/ ~Present(t) /\ jobs'[t].seq = high + 1
    BY <1>1, <2>3 DEF Enters, NewJob, NoJob
  <2>4. ASSUME NEW u \in Source, Opens(u)
        PROVE  \A t \in Source : Pending(t)' => Pending(t) /\ jobs'[t].seq = jobs[t].seq
    BY <1>1, <2>4 DEF Opens, Activated, Job
  <2>5. ASSUME NEW u \in Source, NEW j \in Job, Moves(u, j)
        PROVE  \A t \in Source : Pending(t)' => Pending(t) /\ jobs'[t].seq = jobs[t].seq
    BY <1>1, <2>5 DEF Moves, IsOldest
  <2>6. ASSUME NEW u \in Source, Cleans(u) \/ Drops(u)
        PROVE  \A t \in Source : Pending(t)' => Pending(t) /\ jobs'[t].seq = jobs[t].seq
    BY <1>1, <2>6 DEF Cleans, Drops, NoJob
  <2> QED BY <2>1, <2>2, <2>3, <2>4, <2>5, <2>6 DEF QueueStep
<1>3. jobs'[s].seq = jobs[s].seq
  BY <1>2 DEF IsOldest
<1> QED BY <1>1, <1>2, <1>3 DEF IsOldest

(* A worker at work after a step was at work on the same claim before it,   *)
(* or has just claimed.                                                     *)
Kept(v) ==
    /\ Live(v)
    /\ worker'[v].src = worker[v].src /\ worker'[v].job = worker[v].job
    /\ \/ jobs'[worker[v].src] = jobs[worker[v].src]
       \/ jobs'[worker[v].src] = Renewed(jobs[worker[v].src])

Came(v) == \E s \in Source :
    /\ worker'[v].src = s /\ worker'[v].job = Frozen(jobs'[s])
    /\ IsOldest(s) /\ jobs'[s] = Claimed(jobs[s], v)

(* The file of a claim that is leased to another is left alone by a worker. *)
LEMMA LeasedToAnother ==
    ASSUME TypeOK, NEW w \in Worker, Loop(w), NEW s \in Source,
           jobs[s].status = "RUNNING", jobs[s].worker # w, jobs[s].ttl > 0
    PROVE  LeftAlone(s)
<1> USE DEF TypeOK, LeftAlone
<1>1. CASE RecoverActivate(w) \/ RecoverFail(w)
  BY <1>1 DEF RecoverActivate, ActivateFile, RecoverFail
<1>2. CASE Claim(w)
  BY <1>2 DEF Claim, Claimable
<1>3. CASE Renew(w)
  BY <1>3 DEF Renew, Current, SameClaim
<1>4. CASE Settle(w)
  BY <1>4 DEF Settle, Complete, FailWaiting, FailAttempt, SettleAs, Current, SameClaim
<1>5. CASE \/ Look(w) \/ RecoverPublish(w) \/ RecoverRefused(w) \/ ClaimRefused(w)
           \/ BeginCommit(w) \/ L2Commit(w) \/ LoseLease(w) \/ SettleFails(w)
           \/ LateRenew(w) \/ Report(w) \/ Crash(w) \/ Restart(w)
  BY <1>5 DEF Look, RecoverPublish, RecoverRefused, ClaimRefused, BeginCommit, L2Commit,
              LoseLease, SettleFails, LateRenew, Report, Crash, Restart, durable
<1> QED BY <1>1, <1>2, <1>3, <1>4, <1>5 DEF Loop, Recovery

(* The worker that takes the step.                                          *)
LEMMA OwnOrigin ==
    ASSUME TypeOK, NEW w \in Worker, Loop(w), Live(w)'
    PROVE  Kept(w) \/ Came(w)
<1> USE DEF TypeOK, Live, Become
<1>1. CASE Claim(w)
  BY <1>1 DEF Claim, Came
<1>2. CASE Renew(w)
  <2>1. PICK s \in Source : /\ Executing(w, s)
                            /\ jobs' = [jobs EXCEPT ![s] = Renewed(jobs[s])]
                            /\ worker' = worker
    BY <1>2 DEF Renew
  <2> QED BY <2>1 DEF Kept, Executing, Holding
<1>3. CASE BeginCommit(w)
  <2>1. /\ worker[w].phase = "running" /\ jobs' = jobs
        /\ worker'[w] = [worker[w] EXCEPT !.phase = "committing"]
    BY <1>3 DEF BeginCommit, Holding, durable
  <2> QED BY <2>1 DEF Kept, WorkerRecord
<1>4. CASE L2Commit(w)
  <2>1. /\ worker[w].phase = "committing" /\ jobs' = jobs
        /\ \/ worker'[w] = [worker[w] EXCEPT !.phase = "running"]
           \/ worker'[w] = [worker[w] EXCEPT !.phase = "raised"]
    BY <1>4 DEF L2Commit
  <2> QED BY <2>1 DEF Kept, WorkerRecord
<1>5. CASE Settle(w)
  <2>1. PICK s, j : s \in Source /\ SettleAs(w, s, j)
    BY <1>5 DEF Settle, Complete, FailWaiting, FailAttempt
  <2>2. worker'[w].phase = "settled"
    BY <2>1 DEF SettleAs, WorkerRecord
  <2> QED BY <2>2
<1>6. CASE RecoverPublish(w)
  <2>1. worker'[w] = [worker[w] EXCEPT !.phase = "published"]
    BY <1>6 DEF RecoverPublish
  <2> QED BY <2>1 DEF WorkerRecord
<1>7. CASE RecoverActivate(w)
  <2>1. PICK j : worker'[w] = [worker[w] EXCEPT !.phase = "looked", !.job = j]
    BY <1>7 DEF RecoverActivate
  <2> QED BY <2>1 DEF WorkerRecord
<1>8. CASE Look(w) \/ RecoverFail(w) \/ RecoverRefused(w)
  BY <1>8 DEF Look, RecoverFail, RecoverRefused, Idle, Dead, Blocked
<1>9. CASE ClaimRefused(w)
  BY <1>9 DEF ClaimRefused, Idle, Dead, Blocked
<1>10. CASE LoseLease(w) \/ SettleFails(w)
  BY <1>10 DEF LoseLease, SettleFails, Idle, Dead
<1>11. CASE LateRenew(w)
  BY <1>11 DEF LateRenew, Holding, Idle, Dead
<1>12. CASE Report(w) \/ Crash(w) \/ Restart(w)
  BY <1>12 DEF Report, Crash, Restart, Idle, Blocked, Stopped
<1> QED BY <1>1, <1>2, <1>3, <1>4, <1>5, <1>6, <1>7, <1>8, <1>9, <1>10, <1>11, <1>12
        DEF Loop, Recovery

(* Any worker, in any step but the passing of time.                         *)
LEMMA LiveOrigin ==
    ASSUME TypeOK, LiveHold, Untaken, [Work]_vars, NEW v \in Worker, Live(v)'
    PROVE  Kept(v) \/ Came(v)
<1>1. ASSUME worker'[v] = worker[v],
             \A t \in Source : jobs[t].status = "RUNNING" => LeftAlone(t)
      PROVE  Kept(v)
  BY <1>1 DEF Kept, Live, LiveHold, SameClaim, LeftAlone
<1>2. ASSUME NEW s \in Source, Foreground(s) \/ DiscardCommitted(s)
      PROVE  Kept(v)
  <2>1. worker' = worker
    BY <1>2 DEF Foreground, Stage, StageTorn, Publish, Restage, Activate, BeginCompletion,
                CompletePublish, IngestCrash, DiscardCommitted
  <2> QED BY <1>1, <1>2, <2>1, ForegroundFenced
<1>3. ASSUME Loop(v)
      PROVE  Kept(v) \/ Came(v)
  BY <1>3, OwnOrigin
<1>4. ASSUME NEW w \in Worker, w # v, Loop(w)
      PROVE  Kept(v)
  <2>1. worker'[v] = worker[v]
    BY <1>4 DEF TypeOK, Loop, Recovery, Settle, Become, Look, RecoverPublish, RecoverActivate,
                RecoverFail, RecoverRefused, Claim, ClaimRefused, Renew, BeginCommit, L2Commit,
                Complete, FailWaiting, FailAttempt, SettleAs, LoseLease, SettleFails, LateRenew,
                Report, Crash, Restart
  <2>2. Live(v)
    BY <2>1 DEF Live
  <2>3. /\ worker[v].src \in Source /\ jobs[worker[v].src].status = "RUNNING"
        /\ jobs[worker[v].src].worker # w /\ jobs[worker[v].src].ttl > 0
    BY <1>4, <2>2 DEF LiveHold, SameClaim, Untaken
  <2> QED BY <1>4, <2>1, <2>2, <2>3, LeasedToAnother DEF Kept, LeftAlone
<1>5. ASSUME NEW w \in Worker, Operator(w)
      PROVE  Kept(v)
  <2>1. worker'[v] = worker[v]
    BY <1>5 DEF TypeOK, Live, Operator, Retry, RetryAgain, Abandon, AbandonAgain, AbandonTorn,
                Resume, Become, Idle, Stopped
  <2> QED BY <1>1, <1>5, <2>1, OperatorFenced
<1>6. CASE Inspect \/ DropDecision \/ UNCHANGED vars
  BY <1>1, <1>6 DEF Inspect, DropDecision, vars, durable, LeftAlone
<1> QED BY <1>2, <1>3, <1>4, <1>5, <1>6 DEF Work

(* What a step that ages files leaves of them.                              *)
LEMMA TickAges ==
    ASSUME TypeOK, Tick, NEW s \in Source
    PROVE  /\ jobs'[s].status = jobs[s].status /\ jobs'[s].seq = jobs[s].seq
           /\ jobs'[s].gen = jobs[s].gen /\ jobs'[s].worker = jobs[s].worker
           /\ jobs[s].ttl > 1 => jobs'[s].ttl > 0
<1>1. jobs[s] \in Job /\ jobs'[s] = Aged(jobs[s])
  BY DEF TypeOK, Tick
<1> QED BY <1>1 DEF Aged, Job

(* The claims stay.                                                         *)
LEMMA HoldStep ==
    ASSUME OrderInv, LiveHold, Untaken, [Next]_vars
    PROVE  LiveHold'
<1> SUFFICES ASSUME NEW v \in Worker, Live(v)'
             PROVE  \E s \in Source : /\ worker'[v].src = s
                                      /\ IsOldest(s)' /\ SameClaim(v, s)'
  BY DEF LiveHold, IsOldest, SameClaim, Pending
<1>1. TypeOK /\ QueueStep
  BY EveryQueueStep DEF OrderInv
<1>2. \A s \in Source : IsOldest(s) /\ Pending(s)' => IsOldest(s)'
  BY <1>1, OldestStays
<1>3. ASSUME NEW s \in Source, IsOldest(s), SameClaim(v, s), worker'[v].src = s,
             worker'[v].job = worker[v].job,
             jobs'[s].status = jobs[s].status, jobs'[s].seq = jobs[s].seq,
             jobs'[s].gen = jobs[s].gen, jobs'[s].worker = jobs[s].worker
      PROVE  IsOldest(s)' /\ SameClaim(v, s)'
  BY <1>2, <1>3 DEF SameClaim, Pending
<1>4. CASE Tick
  <2>1. Live(v) /\ worker' = worker
    BY <1>4 DEF Tick, Live
  <2>2. PICK s \in Source : s = worker[v].src
    BY <2>1 DEF LiveHold
  <2> QED BY <1>1, <1>3, <1>4, <2>1, <2>2, TickAges DEF LiveHold
<1>5. CASE Kept(v)
  <2>1. PICK s \in Source : s = worker[v].src
    BY <1>5 DEF Kept, LiveHold
  <2>2. IsOldest(s) /\ SameClaim(v, s) /\ jobs[s] \in Job
    BY <1>1, <1>5, <2>1 DEF Kept, LiveHold, TypeOK
  <2>3. /\ jobs'[s].status = jobs[s].status /\ jobs'[s].seq = jobs[s].seq
        /\ jobs'[s].gen = jobs[s].gen /\ jobs'[s].worker = jobs[s].worker
    BY <1>5, <2>1, <2>2 DEF Kept, Renewed, Job
  <2> QED BY <1>3, <1>5, <2>1, <2>2, <2>3 DEF Kept
<1>6. CASE Came(v)
  <2>1. PICK s \in Source : /\ worker'[v].src = s /\ worker'[v].job = Frozen(jobs'[s])
                            /\ IsOldest(s) /\ jobs'[s] = Claimed(jobs[s], v)
    BY <1>6 DEF Came
  <2>2. jobs[s] \in Job
    BY <1>1 DEF TypeOK
  <2>3. /\ jobs'[s].status = "RUNNING" /\ jobs'[s].worker = v
        /\ worker'[v].job.seq = jobs'[s].seq /\ worker'[v].job.gen = jobs'[s].gen
    BY <2>1, <2>2 DEF Claimed, Frozen, Job
  <2> QED BY <1>2, <2>1, <2>3 DEF Pending, SameClaim
<1> QED BY <1>1, <1>4, <1>5, <1>6, LiveOrigin DEF Next

(* Under Timely the leases of workers at work do not run out.               *)
LEMMA LeasedStep ==
    ASSUME OrderInv, LiveHold, Leased, [TimelyNext]_vars
    PROVE  Leased'
<1> SUFFICES ASSUME NEW v \in Worker, Live(v)'
             PROVE  jobs'[worker'[v].src].ttl > 0
  BY DEF Leased
<1>1. TypeOK /\ Untaken
  BY DEF OrderInv, Leased, Untaken
<1>2. CASE Tick /\ Timely
  <2>1. Live(v) /\ worker' = worker
    BY <1>2 DEF Tick, Live
  <2>2. PICK s \in Source : s = worker[v].src
    BY <2>1 DEF LiveHold
  <2>3. jobs[s].ttl > 1
    BY <1>2, <2>1, <2>2 DEF LiveHold, Leased, Timely, Current
  <2> QED BY <1>1, <1>2, <2>1, <2>2, <2>3, TickAges
<1>3. CASE Kept(v)
  <2>1. PICK s \in Source : s = worker[v].src /\ jobs[s].ttl > 0 /\ worker'[v].src = s
    BY <1>3 DEF Kept, LiveHold, Leased
  <2>2. jobs[s] \in Job
    BY <1>1 DEF TypeOK
  <2> QED BY <1>3, <2>1, <2>2, QueueConstants DEF Kept, Renewed, Job
<1>4. CASE Came(v)
  <2>1. PICK s \in Source : worker'[v].src = s /\ jobs'[s] = Claimed(jobs[s], v)
    BY <1>4 DEF Came
  <2>2. jobs[s] \in Job
    BY <1>1 DEF TypeOK
  <2> QED BY <2>1, <2>2, QueueConstants DEF Claimed, Job
<1> QED BY <1>1, <1>2, <1>3, <1>4, LiveOrigin DEF TimelyNext

(* What a step may make of one file, where abandonment matters: a file that *)
(* was being abandoned stays FAILED until it is removed, and what enters    *)
(* has a number above the mark.                                             *)
FileKept(s) ==
    \/ jobs'[s].status = "ABSENT"
    \/ jobs'[s].seq = high + 1
    \/ /\ Present(s) /\ jobs'[s].seq = jobs[s].seq
       /\ jobs[s].status = "FAILED" /\ abandoned[s] # 0 => jobs'[s].status = "FAILED"

(* Nobody but the operator touches a FAILED file.                           *)
LEMMA FailedLeftAlone ==
    ASSUME TypeOK, Work,
           NEW s \in Source, jobs[s].status = "FAILED", abandoned[s] # 0
    PROVE  jobs'[s] \in {jobs[s], NoJob}
<1> USE DEF TypeOK
<1>1. ASSUME NEW t \in Source, Foreground(t) \/ DiscardCommitted(t)
      PROVE  jobs'[s] = jobs[s]
  BY <1>1 DEF Foreground, Stage, StageFile, Present, StageTorn, Publish, Restage, Activate,
              ActivateFile, BeginCompletion, CompletePublish, IngestCrash, DiscardCommitted,
              durable
<1>2. ASSUME NEW w \in Worker, Loop(w)
      PROVE  jobs'[s] = jobs[s]
  <2>1. CASE RecoverActivate(w) \/ RecoverFail(w)
    BY <2>1 DEF RecoverActivate, ActivateFile, RecoverFail
  <2>2. CASE Claim(w)
    BY <2>2 DEF Claim, Claimable
  <2>3. CASE Renew(w)
    BY <2>3 DEF Renew, Current, SameClaim
  <2>4. CASE Settle(w)
    BY <2>4 DEF Settle, Complete, FailWaiting, FailAttempt, SettleAs, Current, SameClaim
  <2>5. CASE \/ Look(w) \/ RecoverPublish(w) \/ RecoverRefused(w) \/ ClaimRefused(w)
             \/ BeginCommit(w) \/ L2Commit(w) \/ LoseLease(w) \/ SettleFails(w)
             \/ LateRenew(w) \/ Report(w) \/ Crash(w) \/ Restart(w)
    BY <2>5 DEF Look, RecoverPublish, RecoverRefused, ClaimRefused, BeginCommit, L2Commit,
                LoseLease, SettleFails, LateRenew, Report, Crash, Restart, durable
  <2> QED BY <1>2, <2>1, <2>2, <2>3, <2>4, <2>5 DEF Loop, Recovery
<1>3. ASSUME NEW w \in Worker, Operator(w)
      PROVE  jobs'[s] \in {jobs[s], NoJob}
  BY <1>3 DEF Operator, Retry, CanRetry, RetryAgain, Abandon, AbandonAgain, AbandonTorn, durable
<1>4. CASE Inspect \/ DropDecision
  BY <1>4 DEF Inspect, DropDecision, durable
<1> QED BY <1>1, <1>2, <1>3, <1>4 DEF Work

(* Every step keeps the files in that sense, and the mark never falls.      *)
LEMMA FilesKept ==
    ASSUME TypeOK, [Next]_vars
    PROVE  /\ \A s \in Source : FileKept(s)
           /\ high' >= high
<1>1. /\ QueueStep /\ high \in Nat /\ jobs \in [Source -> Job]
      /\ \A s \in Source : jobs[s] \in Job
  BY EveryQueueStep DEF TypeOK
<1>2. high' >= high
  BY <1>1 DEF QueueStep, Stays, Ages, Enters, Opens, Cleans, Drops, Moves
<1>3. ASSUME NEW s \in Source, jobs'[s].status # "ABSENT", jobs'[s].seq # high + 1
      PROVE  Present(s) /\ jobs'[s].seq = jobs[s].seq
  <2> USE DEF Present
  <2>1. CASE Stays
    BY <1>3, <2>1 DEF Stays
  <2>2. CASE Ages
    BY <1>1, <1>3, <2>2 DEF Ages, Aged, Job
  <2>3. ASSUME NEW u \in Source, Enters(u)
        PROVE  Present(s) /\ jobs'[s].seq = jobs[s].seq
    BY <1>1, <1>3, <2>3 DEF Enters, NewJob, NoJob
  <2>4. ASSUME NEW u \in Source, Opens(u)
        PROVE  Present(s) /\ jobs'[s].seq = jobs[s].seq
    BY <1>1, <1>3, <2>4 DEF Opens, Activated, Job
  <2>5. ASSUME NEW u \in Source, NEW j \in Job, Moves(u, j)
        PROVE  Present(s) /\ jobs'[s].seq = jobs[s].seq
    BY <1>1, <1>3, <2>5 DEF Moves, IsOldest, Pending
  <2>6. ASSUME NEW u \in Source, Cleans(u) \/ Drops(u)
        PROVE  Present(s) /\ jobs'[s].seq = jobs[s].seq
    BY <1>1, <1>3, <2>6 DEF Cleans, Drops, NoJob
  <2> QED BY <1>1, <2>1, <2>2, <2>3, <2>4, <2>5, <2>6 DEF QueueStep
<1>4. ASSUME NEW s \in Source, jobs[s].status = "FAILED", abandoned[s] # 0,
             jobs'[s].status # "ABSENT"
      PROVE  jobs'[s].status = "FAILED"
  <2>1. CASE Work
    BY <1>4, <2>1, FailedLeftAlone DEF NoJob
  <2>2. CASE Tick
    BY <1>4, <2>2, TickAges
  <2>3. CASE UNCHANGED vars
    BY <1>4, <2>3 DEF vars, durable
  <2> QED BY <2>1, <2>2, <2>3 DEF Next
<1> QED BY <1>2, <1>3, <1>4 DEF FileKept

(* What a step may do to the records and the journals.                      *)
Commits == \E w \in Worker :
    /\ worker[w].phase = "committing"
    /\ l2' = l2 \cup {worker[w].job.seq} /\ abandoned' = abandoned

Abandons == \E s \in Source :
    /\ CanAbandon(s) /\ l2' = l2
    /\ abandoned' = [abandoned EXCEPT ![s] = jobs[s].seq]
    /\ jobs' \in {jobs, [jobs EXCEPT ![s] = NoJob]}

(* Every step commits, abandons, or leaves the records and adds no journal. *)
LEMMA RecordSteps ==
    ASSUME [Next]_vars
    PROVE  Commits \/ Abandons \/ (abandoned' = abandoned /\ l2' \subseteq l2)
<1>1. ASSUME NEW s \in Source, Foreground(s) \/ DiscardCommitted(s)
      PROVE  abandoned' = abandoned /\ l2' \subseteq l2
  BY <1>1 DEF Foreground, Stage, StageTorn, Publish, Restage, Activate, BeginCompletion,
              CompletePublish, IngestCrash, DiscardCommitted, durable
<1>2. ASSUME NEW w \in Worker, Loop(w)
      PROVE  Commits \/ (abandoned' = abandoned /\ l2' \subseteq l2)
  <2>1. CASE L2Commit(w)
    BY <2>1 DEF L2Commit, Commits
  <2>2. CASE Report(w)
    BY <2>2 DEF Report
  <2>3. CASE Recovery(w) \/ Look(w)
    BY <2>3 DEF Recovery, RecoverPublish, RecoverActivate, RecoverFail, RecoverRefused, Look,
                durable
  <2>4. CASE Claim(w) \/ ClaimRefused(w) \/ Renew(w) \/ BeginCommit(w) \/ Settle(w)
    BY <2>4 DEF Claim, ClaimRefused, Renew, BeginCommit, Settle, Complete, FailWaiting,
                FailAttempt, SettleAs, durable
  <2>5. CASE LoseLease(w) \/ SettleFails(w) \/ LateRenew(w) \/ Crash(w) \/ Restart(w)
    BY <2>5 DEF LoseLease, SettleFails, LateRenew, Crash, Restart, durable
  <2> QED BY <1>2, <2>1, <2>2, <2>3, <2>4, <2>5 DEF Loop
<1>3. ASSUME NEW w \in Worker, Operator(w)
      PROVE  Abandons \/ (abandoned' = abandoned /\ l2' \subseteq l2)
  BY <1>3 DEF Operator, Retry, RetryAgain, Abandon, AbandonAgain, AbandonTorn, Abandons, durable
<1>4. CASE Inspect \/ DropDecision \/ Tick \/ UNCHANGED vars
  BY <1>4 DEF Inspect, DropDecision, Tick, vars, durable
<1> QED BY <1>1, <1>2, <1>3, <1>4 DEF Next, Work

(* A commit is of a RUNNING job, and an abandoned one is not RUNNING.       *)
LEMMA OverStep ==
    ASSUME AbandonInv, OrderInv', [Next]_vars
    PROVE  AbandonedIsOver'
<1>1. /\ TypeOK /\ OrderInv /\ OrderInv' /\ LiveHold /\ AbandonedIsOver
      /\ high \in Nat /\ high' \in Nat /\ high' >= high
      /\ \A s \in Source : FileKept(s)
      /\ \A s \in Source : jobs[s].seq \in Nat
      /\ abandoned \in [Source -> Nat]
  BY FilesKept DEF AbandonInv, OrderInv, TypeOK, Job
<1>2. ASSUME NEW t \in Source, abandoned'[t] = abandoned[t], abandoned[t] # 0
      PROVE  /\ abandoned'[t] <= high'
             /\ \A s \in Source : Present(s)' /\ jobs'[s].seq = abandoned'[t]
                                  => s = t /\ jobs'[s].status = "FAILED"
  <2>1. abandoned[t] \in Nat /\ abandoned[t] <= high
    BY <1>1, <1>2 DEF AbandonedIsOver
  <2>2. ASSUME NEW s \in Source, Present(s)', jobs'[s].seq = abandoned'[t]
        PROVE  s = t /\ jobs'[s].status = "FAILED"
    <3>1. jobs'[s].seq # high + 1 /\ jobs'[s].status # "ABSENT"
      BY <1>1, <1>2, <2>1, <2>2 DEF Present
    <3>2. /\ Present(s) /\ jobs[s].seq = abandoned[t]
          /\ jobs[s].status = "FAILED" /\ abandoned[s] # 0 => jobs'[s].status = "FAILED"
      BY <1>1, <1>2, <2>2, <3>1 DEF FileKept
    <3> QED BY <1>1, <1>2, <3>2 DEF AbandonedIsOver
  <2> QED BY <1>1, <1>2, <2>1, <2>2
<1>3. CASE abandoned' = abandoned /\ l2' \subseteq l2
  BY <1>1, <1>2, <1>3 DEF AbandonedIsOver
<1>4. CASE Commits
  <2>1. PICK w \in Worker : /\ worker[w].phase = "committing"
                            /\ l2' = l2 \cup {worker[w].job.seq} /\ abandoned' = abandoned
    BY <1>4 DEF Commits
  <2>2. PICK s \in Source : jobs[s].status = "RUNNING" /\ jobs[s].seq = worker[w].job.seq
    BY <1>1, <2>1 DEF LiveHold, Live, SameClaim
  <2>3. \A t \in Source : abandoned[t] # 0 => abandoned[t] # worker[w].job.seq
    BY <1>1, <2>2 DEF AbandonedIsOver, Present
  <2> QED BY <1>1, <1>2, <2>1, <2>3 DEF AbandonedIsOver
<1>5. CASE Abandons
  <2>1. PICK s \in Source : /\ CanAbandon(s) /\ l2' = l2
                            /\ abandoned' = [abandoned EXCEPT ![s] = jobs[s].seq]
                            /\ jobs' \in {jobs, [jobs EXCEPT ![s] = NoJob]}
    BY <1>5 DEF Abandons
  <2>2. /\ abandoned'[s] = jobs[s].seq /\ jobs[s].seq \notin l2
        /\ \A t \in Source \ {s} : abandoned'[t] = abandoned[t]
        /\ jobs[s].status = "FAILED" /\ jobs[s].seq <= high
    BY <1>1, <2>1 DEF CanAbandon, OrderInv, SequencesUnique
  <2>3. ASSUME NEW u \in Source, Present(u)', jobs'[u].seq = jobs[s].seq
        PROVE  u = s /\ jobs'[u].status = "FAILED"
    <3>1. jobs'[u].seq # high + 1 /\ jobs'[u].status # "ABSENT"
      BY <1>1, <2>2, <2>3 DEF Present
    <3>2. Present(u) /\ jobs[u].seq = jobs[s].seq
      BY <1>1, <2>3, <3>1 DEF FileKept
    <3>3. u = s
      BY <1>1, <2>2, <3>2 DEF OrderInv, SequencesUnique, Present
    <3>4. jobs'[s].status \in {"FAILED", "ABSENT"}
      BY <1>1, <2>1, <2>2 DEF TypeOK, NoJob
    <3> QED BY <3>1, <3>3, <3>4
  <2>4. abandoned'[s] <= high' /\ abandoned'[s] \notin l2'
    BY <1>1, <2>1, <2>2
  <2> QED BY <1>1, <1>2, <2>1, <2>2, <2>3, <2>4 DEF AbandonedIsOver
<1> QED BY <1>3, <1>4, <1>5, RecordSteps

(* Every step keeps AbandonInv while no worker at work can be overtaken.    *)
LEMMA AbandonStep == AbandonInv /\ Untaken /\ [Next]_vars => AbandonInv'
BY OrderStep, HoldStep, OverStep DEF AbandonInv

(* It holds when nothing is staged yet.                                     *)
LEMMA AbandonInit == Init => AbandonInv /\ Leased
<1> SUFFICES ASSUME Init
             PROVE  AbandonInv /\ Leased
  OBVIOUS
<1>1. OrderInv
  <2>1. TypeOK
    BY PlainJobs, RestingWorkers
    DEF Init, TypeOK, GoodJob, NoDecision, IngestPhase
  <2> QED BY <2>1 DEF Init, OrderInv, SequencesUnique, NoOvertaking, Present, Pending, NoJob
<1> QED BY <1>1 DEF Init, AbandonInv, LiveHold, AbandonedIsOver, Leased, Live, Idle

(* As long as the heartbeat keeps the lease of a worker at work (Timely), a *)
(* job that was abandoned is in no COMMITTED journal, for any number of     *)
(* processes on one memory root: the commit does not look at the lease, but *)
(* the lease is what keeps the job RUNNING and the operator away from it.   *)
THEOREM AbandonedStaysOut == FairSpec => []AbandonedNeverCommitted
<1>1. Init => AbandonInv /\ Leased
  BY AbandonInit
<1>2. AbandonInv /\ Leased /\ [TimelyNext]_vars => (AbandonInv /\ Leased)'
  <2>1. [TimelyNext]_vars => [Next]_vars
    BY DEF TimelyNext, Next
  <2>2. Leased => Untaken
    BY DEF Leased, Untaken
  <2> QED BY <2>1, <2>2, AbandonStep, LeasedStep DEF AbandonInv
<1>3. AbandonInv => AbandonedNeverCommitted
  BY DEF AbandonInv, AbandonedIsOver, AbandonedNeverCommitted
<1> QED BY <1>1, <1>2, <1>3, PTL DEF FairSpec

(* With one process on the memory root nobody can take the job over, so it  *)
(* is true however long a commit outlasts its lease.                        *)
THEOREM AloneAbandonedStaysOut ==
    ASSUME \A v, w \in Worker : v = w
    PROVE  Spec => []AbandonedNeverCommitted
<1>1. Init => AbandonInv
  BY AbandonInit
<1>2. AbandonInv /\ [Next]_vars => AbandonInv'
  <2>1. Untaken
    BY DEF Untaken
  <2> QED BY <2>1, AbandonStep
<1>3. AbandonInv => AbandonedNeverCommitted
  BY DEF AbandonInv, AbandonedIsOver, AbandonedNeverCommitted
<1> QED BY <1>1, <1>2, <1>3, PTL DEF Spec
=============================================================================

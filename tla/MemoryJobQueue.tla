--------------------------- MODULE MemoryJobQueue ---------------------------
(***************************************************************************)
(* The memory-root job queue: MemoryJobStore (one JSON file per job plus   *)
(* state.json), the foreground that stages a sealed conversation segment,  *)
(* the MemoryWorker that claims, heartbeats and settles the oldest job,    *)
(* the operator who retries or abandons a FAILED job, and the lifecycle    *)
(* pass that deletes COMMITTED jobs.                                       *)
(*                                                                         *)
(* Every store operation runs under _queue_fence, so it is one step; a     *)
(* crash can fall between two durable writes of one operation, and each    *)
(* such torn operation has an action of its own.  What an actor read under *)
(* an earlier fence (a job snapshot, a lease) is kept in that actor's own  *)
(* state, because it may be stale when it is used.                         *)
(*                                                                         *)
(* Absolute times are kept as what is left of them: ttl is lease_expires_at*)
(* minus now, wait is next_attempt_at minus now, both 0 once the time has  *)
(* come.  Tick is the passing of one time unit.                            *)
(***************************************************************************)
EXTENDS Naturals, FiniteSets

CONSTANTS
    Source,       \* immutable source identities (address, segment, digest)
    Worker,       \* worker ids, one per process
    None,         \* no source / no worker
    MaxAttempts,  \* MemoryJobConfig.max_attempts
    LeaseTTL,     \* lease_ttl_seconds, in ticks
    RetryWait,    \* a retry back-off, in ticks
    ModelWait,    \* a model-wait back-off, in ticks
    MaxSeq,       \* bound: sequences allocated
    MaxGen,       \* bound: claims of one job
    MaxEpoch,     \* bound: times one job is reopened by hand
    MaxWaits,     \* bound: consecutive model waits of one job
    MaxCrashes    \* bound: crashes of all processes together

ASSUME QueueConstants ==
    /\ None \notin Source \cup Worker
    /\ {MaxAttempts, LeaseTTL, RetryWait, ModelWait} \subseteq Nat \ {0}
    /\ {MaxSeq, MaxGen, MaxEpoch, MaxWaits, MaxCrashes} \subseteq Nat

VARIABLES
    jobs,       \* Source -> job file (NoJob: no file)
    high,       \* state.json: last_allocated_memory_sequence
    abandoned,  \* Source -> memory_sequence in its abandonment record, 0: none
    history,    \* sources whose history file is published
    ingest,     \* Source -> where the foreground is in sealing that source
    worker,     \* Worker -> what that process's worker loop holds
    l2,         \* memory_sequence of each COMMITTED transaction journal
    decision,   \* the FAILED snapshot the operator is deciding on
    crashes     \* crashes so far (bounded by MaxCrashes)

durable == <<jobs, high, abandoned, history, l2>>
vars == <<durable, ingest, worker, decision, crashes>>

Status == {"ABSENT", "STAGED", "QUEUED", "RUNNING", "FAILED", "COMMITTED"}

(* error is last_error.  epoch counts retry_failed: with the other   *)
(* fields it stands for updated_at, which makes every rewrite of a job      *)
(* distinguishable from an earlier one when a snapshot is compared.         *)
Job == [status: Status, seq: Nat, attempts: Nat, gen: Nat,
        worker: Worker \cup {None}, ttl: Nat, wait: Nat, waits: Nat,
        error: {"none", "text"}, epoch: Nat]

NoJob == [status |-> "ABSENT", seq |-> 0, attempts |-> 0, gen |-> 0,
          worker |-> None, ttl |-> 0, wait |-> 0, waits |-> 0,
          error |-> "none", epoch |-> 0]

Phase == {"idle", "looked", "recovering", "published", "running",
          "committing", "raised", "settled", "blocked", "dead", "stopped"}

WorkerRecord == [phase: Phase, src: Source \cup {None}, job: Job,
                 exhausted: BOOLEAN]

IngestPhase == {"idle", "staged", "published", "restaged",
                "completing", "completingFailed"}

Idle == [phase |-> "idle", src |-> None, job |-> NoJob, exhausted |-> FALSE]
Blocked == [Idle EXCEPT !.phase = "blocked"]
Dead == [Idle EXCEPT !.phase = "dead"]
Stopped == [Idle EXCEPT !.phase = "stopped"]

NoDecision == [src |-> None, job |-> NoJob]

Present(s) == jobs[s].status # "ABSENT"
Pending(s) == jobs[s].status \notin {"ABSENT", "COMMITTED"}

(* Mutant of IsOldest: a FAILED job no longer blocks the ones behind it.    *)
IsOldestPassingFailed(s) ==
    LET waiting == {t \in Source : Pending(t) /\ jobs[t].status # "FAILED"}
    IN s \in waiting /\ \A t \in waiting : jobs[s].seq <= jobs[t].seq

(* _oldest_uncommitted_unlocked *)
IsOldest(s) ==
    /\ Pending(s)
    /\ \A t \in Source : Pending(t) => jobs[s].seq <= jobs[t].seq

(* A snapshot keeps what identifies a version of a job, not the clocks.     *)
Frozen(j) == [j EXCEPT !.ttl = 0, !.wait = 0]

Init ==
    /\ jobs = [s \in Source |-> NoJob]
    /\ high = 0
    /\ abandoned = [s \in Source |-> 0]
    /\ history = {}
    /\ l2 = {}
    /\ ingest = [s \in Source |-> "idle"]
    /\ worker = [w \in Worker |-> Idle]
    /\ decision = NoDecision
    /\ crashes = 0

(***************************************************************************)
(* The foreground: ConversationMemoryEnqueuer over one segment.            *)
(***************************************************************************)

(* Mutant of NextSequence: taken from the files, not from the durable mark. *)
NextSequenceOfFiles ==
    CHOOSE n \in 1..(high + 1) :
        /\ \A s \in Source : jobs[s].seq < n
        /\ n = 1 \/ \E s \in Source : jobs[s].seq = n - 1

NextSequence == high + 1

NewJob(n) == [NoJob EXCEPT !.status = "STAGED", !.seq = n]

(* MemoryJobStore.stage: an existing file is returned as it is; otherwise   *)
(* the high-water mark is durable before the file is created.               *)
StageFile(s) ==
    \/ /\ Present(s)
       /\ UNCHANGED <<jobs, high>>
    \/ /\ ~Present(s)
       /\ high < MaxSeq
       /\ high' = NextSequence
       /\ jobs' = [jobs EXCEPT ![s] = NewJob(NextSequence)]

(* seal_and_enqueue up to before_history_publish: a segment still in live   *)
(* is staged before its history exists.                                     *)
Stage(s) ==
    /\ ingest[s] = "idle"
    /\ s \notin history
    /\ ~Present(s)
    /\ StageFile(s)
    /\ ingest' = [ingest EXCEPT ![s] = "staged"]
    /\ UNCHANGED <<abandoned, history, l2, worker, decision, crashes>>

(* The process dies after _write_state and before atomic_create_bytes.      *)
StageTorn(s) ==
    /\ ingest[s] = "idle"
    /\ s \notin history
    /\ ~Present(s)
    /\ high < MaxSeq
    /\ crashes < MaxCrashes
    /\ high' = NextSequence
    /\ crashes' = crashes + 1
    /\ UNCHANGED <<jobs, abandoned, history, l2, ingest, worker, decision>>

(* _publish_seal, after before_history_publish returned.                    *)
Publish(s) ==
    /\ ingest[s] = "staged"
    /\ history' = history \cup {s}
    /\ ingest' = [ingest EXCEPT ![s] = "published"]
    /\ UNCHANGED <<jobs, high, abandoned, l2, worker, decision, crashes>>

(* seal_and_enqueue stages again after seal returned.                       *)
Restage(s) ==
    /\ ingest[s] = "published"
    /\ StageFile(s)
    /\ ingest' = [ingest EXCEPT ![s] = "restaged"]
    /\ UNCHANGED <<abandoned, history, l2, worker, decision, crashes>>

Activated(j) == [j EXCEPT !.status = "QUEUED", !.wait = 0, !.error = "none"]

(* MemoryJobStore.activate: only a STAGED file is rewritten.                *)
ActivateFile(s) ==
    IF jobs[s].status = "STAGED"
      THEN jobs' = [jobs EXCEPT ![s] = Activated(jobs[s])]
      ELSE UNCHANGED jobs

(* The last call of seal_and_enqueue; a vanished file is an error.          *)
Activate(s) ==
    /\ ingest[s] = "restaged"
    /\ ActivateFile(s)
    /\ ingest' = [ingest EXCEPT ![s] = "idle"]
    /\ UNCHANGED <<high, abandoned, history, l2, worker, decision, crashes>>

(* _complete_staged lists an interrupted job of the conversation: STAGED,   *)
(* or FAILED before any claim with its history still unpublished.           *)
BeginCompletion(s) ==
    /\ ingest[s] = "idle"
    /\ \/ /\ jobs[s].status = "STAGED"
          /\ ingest' = [ingest EXCEPT ![s] = "completing"]
       \/ /\ jobs[s].status = "FAILED"
          /\ jobs[s].gen = 0
          /\ s \notin history
          /\ ingest' = [ingest EXCEPT ![s] = "completingFailed"]
    /\ UNCHANGED <<durable, worker, decision, crashes>>

(* staged_job_segment publishes at the original boundary; only a job that   *)
(* was STAGED when it was listed is activated afterwards.                   *)
CompletePublish(s) ==
    /\ ingest[s] \in {"completing", "completingFailed"}
    /\ history' = history \cup {s}
    /\ ingest' = [ingest EXCEPT ![s] =
                    IF @ = "completing" THEN "restaged" ELSE "idle"]
    /\ UNCHANGED <<jobs, high, abandoned, l2, worker, decision, crashes>>

(* The foreground call fails or its process dies between two of its steps.  *)
IngestCrash(s) ==
    /\ ingest[s] # "idle"
    /\ crashes < MaxCrashes
    /\ crashes' = crashes + 1
    /\ ingest' = [ingest EXCEPT ![s] = "idle"]
    /\ UNCHANGED <<durable, worker, decision>>

(***************************************************************************)
(* The worker loop: claim_next (look, recover a STAGED job, claim), then   *)
(* run_claimed with its heartbeat, then the settlement it reports.         *)
(***************************************************************************)

Become(w, record) == worker' = [worker EXCEPT ![w] = record]

Holding(w, s, phase) ==
    worker[w].phase = phase /\ worker[w].src = s

(* oldest_uncommitted, and require_staged_ready when that job is STAGED.    *)
Look(w) ==
    /\ worker[w].phase = "idle"
    /\ \E s \in Source :
         /\ IsOldest(s)
         /\ jobs[s].status = "STAGED" => jobs[s].wait = 0
         /\ Become(w, [phase |-> IF jobs[s].status = "STAGED"
                                   THEN "recovering" ELSE "looked",
                       src |-> s, job |-> Frozen(jobs[s]),
                       exhausted |-> FALSE])
    /\ UNCHANGED <<durable, ingest, decision, crashes>>

(* MemoryStagedJobRecovery.recover: publish at the original boundary, which *)
(* waits while the foreground holds the conversation lock between its stage *)
(* and its publish, ...                                                     *)
RecoverPublish(w) == \E s \in Source :
    /\ Holding(w, s, "recovering")
    /\ ingest[s] # "staged"
    /\ history' = history \cup {s}
    /\ Become(w, [worker[w] EXCEPT !.phase = "published"])
    /\ UNCHANGED <<jobs, high, abandoned, l2, ingest, decision, crashes>>

(* ... and activate.  What activate returns is the snapshot claim is given. *)
RecoverActivate(w) == \E s \in Source :
    /\ Holding(w, s, "published")
    /\ Present(s)
    /\ ActivateFile(s)
    /\ Become(w, [worker[w] EXCEPT !.phase = "looked",
                                   !.job = Frozen(jobs'[s])])
    /\ UNCHANGED <<high, abandoned, history, l2, ingest, decision, crashes>>

(* A recovery that failed counts as an attempt; the last one is FAILED.     *)
LastAttempt(j) == j.attempts + 1 >= MaxAttempts

StagedFailure(j) ==
    [j EXCEPT !.status = IF LastAttempt(j) THEN "FAILED" ELSE "STAGED",
              !.attempts = @ + 1,
              !.wait = IF LastAttempt(j) THEN 0 ELSE RetryWait,
              !.error = "text"]

(* record_staged_failure on the very version the worker looked at.          *)
RecoverFail(w) == \E s \in Source :
    /\ worker[w].phase \in {"recovering", "published"}
    /\ worker[w].src = s
    /\ IsOldest(s)
    /\ jobs[s].status = "STAGED"
    /\ Frozen(jobs[s]) = worker[w].job
    /\ jobs' = [jobs EXCEPT ![s] = StagedFailure(jobs[s])]
    /\ Become(w, IF LastAttempt(jobs[s]) THEN Blocked ELSE Idle)
    /\ UNCHANGED <<high, abandoned, history, l2, ingest, decision, crashes>>

(* record_staged_failure refuses: the job changed under the recovery.  Only *)
(* "changed before its failure was recorded" is a MemoryJobBlockedError the *)
(* loop survives; the other refusals end the loop in FAILED.                *)
RecoverRefused(w) == \E s \in Source :
    /\ worker[w].phase \in {"recovering", "published"}
    /\ worker[w].src = s
    /\ \/ /\ ~(IsOldest(s) /\ jobs[s].status = "STAGED")
          /\ Become(w, Dead)
       \/ /\ IsOldest(s)
          /\ jobs[s].status = "STAGED"
          /\ Frozen(jobs[s]) # worker[w].job
          /\ Become(w, Idle)
    /\ UNCHANGED <<durable, ingest, decision, crashes>>

(* Mutant of Claimable: an expired lease is not taken over.                 *)
ClaimableQueued(s) == jobs[s].status = "QUEUED" /\ jobs[s].wait = 0

(* A QUEUED job that is due, or a RUNNING one whose lease has run out.      *)
Claimable(s) ==
    \/ jobs[s].status = "QUEUED" /\ jobs[s].wait = 0
    \/ jobs[s].status = "RUNNING" /\ jobs[s].ttl = 0

(* expired_attempts_exhausted, of the snapshot claim_next was given         *)
Spent(j) == j.status = "RUNNING" /\ j.attempts >= MaxAttempts

Claimed(j, w) ==
    [j EXCEPT !.status = "RUNNING", !.attempts = @ + 1, !.gen = @ + 1,
              !.worker = w, !.ttl = LeaseTTL, !.wait = 0,
              !.error = IF j.status = "RUNNING" THEN "text" ELSE @]

(* claim succeeds. *)
Claim(w) == \E s \in Source :
    /\ Holding(w, s, "looked")
    /\ IsOldest(s)
    /\ Claimable(s)
    /\ jobs[s].gen < MaxGen
    /\ jobs' = [jobs EXCEPT ![s] = Claimed(jobs[s], w)]
    /\ Become(w, [phase |-> "running", src |-> s, job |-> Frozen(jobs'[s]),
                  exhausted |-> Spent(worker[w].job)])
    /\ UNCHANGED <<high, abandoned, history, l2, ingest, decision, crashes>>

(* claim refuses: not the oldest any more (MemoryJobError, the loop ends in *)
(* FAILED), a FAILED oldest job (the loop blocks), or not yet claimable.    *)
ClaimRefused(w) == \E s \in Source :
    /\ Holding(w, s, "looked")
    /\ \/ /\ ~IsOldest(s)
          /\ Become(w, Dead)
       \/ /\ IsOldest(s) /\ jobs[s].status = "FAILED"
          /\ Become(w, Blocked)
       \/ /\ IsOldest(s) /\ jobs[s].status # "FAILED"
          /\ ~Claimable(s)
          /\ Become(w, Idle)
    /\ UNCHANGED <<durable, ingest, decision, crashes>>

(* The job file still carries this worker's claim; (seq, gen) stands for    *)
(* the random claim_id.                                                     *)
SameClaim(w, s) ==
    /\ jobs[s].status = "RUNNING"
    /\ jobs[s].seq = worker[w].job.seq
    /\ jobs[s].gen = worker[w].job.gen
    /\ jobs[s].worker = w

(* Mutant of Current: an expired lease still counts.                        *)
CurrentUntilTakenOver(w, s) == IsOldest(s) /\ SameClaim(w, s)

(* _current_lease_job *)
Current(w, s) == IsOldest(s) /\ SameClaim(w, s) /\ jobs[s].ttl > 0

Executing(w, s) == Holding(w, s, "running") \/ Holding(w, s, "raised")

Renewed(j) == [j EXCEPT !.ttl = LeaseTTL]

(* The heartbeat renews while the execution runs.                           *)
Renew(w) == \E s \in Source :
    /\ Executing(w, s)
    /\ Current(w, s)
    /\ jobs' = [jobs EXCEPT ![s] = Renewed(jobs[s])]
    /\ UNCHANGED <<high, abandoned, history, l2, ingest, worker, decision, crashes>>

(* The execution's last assert_current before editor.commit ...             *)
BeginCommit(w) == \E s \in Source :
    /\ Holding(w, s, "running")
    /\ Current(w, s)
    /\ ~worker[w].exhausted
    /\ jobs[s].seq \notin l2
    /\ Become(w, [worker[w] EXCEPT !.phase = "committing"])
    /\ UNCHANGED <<durable, ingest, decision, crashes>>

(* ... and the commit itself, which blocks the event loop, so no heartbeat  *)
(* runs meanwhile, and does not look at the lease again: it marks the       *)
(* journal COMMITTED or raises.                                             *)
L2Commit(w) ==
    /\ worker[w].phase = "committing"
    /\ \/ /\ l2' = l2 \cup {worker[w].job.seq}
          /\ Become(w, [worker[w] EXCEPT !.phase = "running"])
       \/ /\ UNCHANGED l2
          /\ Become(w, [worker[w] EXCEPT !.phase = "raised"])
    /\ UNCHANGED <<jobs, high, abandoned, history, ingest, decision, crashes>>

(* _finish clears the claim; each disposition sets the rest.                *)
Released(j) == [j EXCEPT !.worker = None, !.ttl = 0, !.waits = 0]

Completed(j) == [Released(j) EXCEPT !.status = "COMMITTED"]

ModelWaiting(j) ==
    [Released(j) EXCEPT !.status = "QUEUED", !.attempts = @ - 1,
                        !.waits = j.waits + 1, !.wait = ModelWait, !.error = "text"]

Failed(j, retryable) ==
    IF ~retryable \/ j.attempts >= MaxAttempts
      THEN [Released(j) EXCEPT !.status = "FAILED", !.error = "text"]
      ELSE [Released(j) EXCEPT !.status = "QUEUED", !.wait = RetryWait, !.error = "text"]

SettleAs(w, s, finished) ==
    /\ Executing(w, s)
    /\ Current(w, s)
    /\ jobs' = [jobs EXCEPT ![s] = finished]
    /\ Become(w, [worker[w] EXCEPT !.phase = "settled", !.job = Frozen(finished)])
    /\ UNCHANGED <<high, abandoned, history, l2, ingest, decision, crashes>>

(* complete: the finalizer, which needs the COMMITTED journal, reached its  *)
(* last step under a live lease.                                            *)
Complete(w) == \E s \in Source :
    /\ worker[w].phase = "running"
    /\ jobs[s].seq \in l2
    /\ SettleAs(w, s, Completed(jobs[s]))

(* run_claimed gives up an exhausted claim that has no COMMITTED journal to *)
(* finalize.                                                                *)
GivesUp(w) == worker[w].exhausted /\ worker[w].job.seq \notin l2

(* fail(waits_for_model): the attempt is given back.                        *)
FailWaiting(w) == \E s \in Source :
    /\ ~GivesUp(w)
    /\ jobs[s].waits < MaxWaits
    /\ SettleAs(w, s, ModelWaiting(jobs[s]))

(* fail(retryable) of any other error.                                      *)
FailAttempt(w) == \E s \in Source, retryable \in BOOLEAN :
    /\ GivesUp(w) => ~retryable
    /\ SettleAs(w, s, Failed(jobs[s], retryable))

(* Any store call of the execution or the heartbeat without a live lease:   *)
(* LeaseLost (the loop goes on), or MemoryJobError when another job is the  *)
(* oldest by then (the loop ends in FAILED).                                *)
LoseLease(w) == \E s \in Source :
    /\ Executing(w, s)
    /\ ~Current(w, s)
    /\ Become(w, IF IsOldest(s) THEN Idle ELSE Dead)
    /\ UNCHANGED <<durable, ingest, decision, crashes>>

(* fail's before_settlement clean-up raises inside the fence: nothing is    *)
(* settled and the loop ends in FAILED, the claim stays until it expires.   *)
SettleFails(w) ==
    /\ worker[w].phase \in {"running", "raised"}
    /\ crashes < MaxCrashes
    /\ crashes' = crashes + 1
    /\ Become(w, Dead)
    /\ UNCHANGED <<durable, ingest, decision>>

(* A renewal that was already under way when the execution settled.  It     *)
(* asks is_settled only after a LeaseLost, and there is none of that once   *)
(* another job, or no job, is the oldest.                                   *)
LateRenew(w) == \E s \in Source :
    /\ Holding(w, s, "settled")
    /\ Become(w, IF ~IsOldest(s) THEN Dead
                 ELSE IF /\ jobs[s].gen = worker[w].job.gen
                         /\ jobs[s].status # "RUNNING"
                        THEN worker[w]
                        ELSE Idle)
    /\ UNCHANGED <<durable, ingest, decision, crashes>>

(* run_claimed returns, after the best-effort discard_terminal of a         *)
(* completed job's journal; a FAILED job blocks the loop.                   *)
Report(w) ==
    /\ worker[w].phase = "settled"
    /\ \/ UNCHANGED l2
       \/ /\ worker[w].job.status = "COMMITTED"
          /\ l2' = l2 \ {worker[w].job.seq}
    /\ Become(w, IF worker[w].job.status = "FAILED" THEN Blocked ELSE Idle)
    /\ UNCHANGED <<jobs, high, abandoned, history, ingest, decision, crashes>>

(* The process dies, or stop() cancels the loop: only files survive.        *)
Crash(w) ==
    /\ worker[w].phase \notin {"dead", "stopped"}
    /\ crashes < MaxCrashes
    /\ crashes' = crashes + 1
    /\ Become(w, Stopped)
    /\ UNCHANGED <<durable, ingest, decision>>

(* start: also how a loop that ended in FAILED runs again.                  *)
Restart(w) ==
    /\ worker[w].phase \in {"dead", "stopped"}
    /\ Become(w, Idle)
    /\ UNCHANGED <<durable, ingest, decision, crashes>>

(***************************************************************************)
(* The operator and the lifecycle pass.                                    *)
(***************************************************************************)

(* failed_memory_job: the full snapshot the later decision is checked with. *)
Inspect == \E s \in Source :
    /\ decision = NoDecision
    /\ IsOldest(s)
    /\ jobs[s].status = "FAILED"
    /\ decision' = [src |-> s, job |-> jobs[s]]
    /\ UNCHANGED <<durable, ingest, worker, crashes>>

(* A running service takes the operator's call only while its loop is       *)
(* BLOCKED, and starts the loop again afterwards; one that is initialized   *)
(* but not started takes it as well.                                        *)
Accepts(w) == worker[w].phase \in {"blocked", "stopped"}

Resume(w) == Become(w, IF worker[w].phase = "blocked" THEN Idle ELSE worker[w])

(* retry_failed: the failed job at the head, unless it is being abandoned.  *)
CanRetry(s) ==
    /\ abandoned[s] = 0
    /\ IsOldest(s)
    /\ jobs[s].status = "FAILED"

(* A job that never ran goes back to STAGED.                                *)
Reopened(j) ==
    [j EXCEPT !.status = IF j.gen = 0 THEN "STAGED" ELSE "QUEUED",
              !.attempts = 0, !.wait = 0, !.error = "none", !.epoch = @ + 1]

(* retry_failed_memory_job with the snapshot that was inspected.  The call  *)
(* may be repeated (a lost answer), so a decision stays in hand after it    *)
(* was carried out.                                                         *)
Retry(w) == \E s \in Source :
    /\ Accepts(w)
    /\ decision.src = s
    /\ CanRetry(s)
    /\ jobs[s] = decision.job
    /\ jobs[s].epoch < MaxEpoch
    /\ jobs' = [jobs EXCEPT ![s] = Reopened(jobs[s])]
    /\ Resume(w)
    /\ UNCHANGED <<high, abandoned, history, l2, ingest, decision, crashes>>

(* The same call again, before the reopened job failed anew: no rewrite.    *)
RetryAgain(w) == \E s \in Source :
    /\ Accepts(w)
    /\ decision.src = s
    /\ abandoned[s] = 0
    /\ IsOldest(s)
    /\ jobs[s].status \in {"STAGED", "QUEUED"}
    /\ jobs[s].attempts = 0 /\ jobs[s].error = "none"
    /\ Resume(w)
    /\ UNCHANGED <<durable, ingest, decision, crashes>>

(* Mutant of CanAbandon: the transaction's journal is not looked at.        *)
CanAbandonCommitted(s) ==
    /\ IsOldest(s)
    /\ jobs[s].status = "FAILED"
    /\ abandoned[s] \in {0, jobs[s].seq}

(* abandon_failed_memory_job: refused while the transaction has a COMMITTED *)
(* journal.  abandon_failed makes the record durable before it removes the  *)
(* job file; a record of the same transaction lets a cut-off call finish.   *)
CanAbandon(s) ==
    /\ IsOldest(s)
    /\ jobs[s].status = "FAILED"
    /\ jobs[s].seq \notin l2
    /\ abandoned[s] \in {0, jobs[s].seq}

Abandon(w) == \E s \in Source :
    /\ Accepts(w)
    /\ decision.src = s
    /\ CanAbandon(s)
    /\ jobs[s] = decision.job
    /\ abandoned' = [abandoned EXCEPT ![s] = jobs[s].seq]
    /\ jobs' = [jobs EXCEPT ![s] = NoJob]
    /\ Resume(w)
    /\ UNCHANGED <<high, history, l2, ingest, decision, crashes>>

(* The same call again after the job is gone.                               *)
AbandonAgain(w) == \E s \in Source :
    /\ Accepts(w)
    /\ decision.src = s
    /\ ~Present(s)
    /\ abandoned[s] = decision.job.seq
    /\ Resume(w)
    /\ UNCHANGED <<durable, ingest, decision, crashes>>

(* The process dies between the record and the unlink.                      *)
AbandonTorn(w) == \E s \in Source :
    /\ Accepts(w)
    /\ decision.src = s
    /\ CanAbandon(s)
    /\ jobs[s] = decision.job
    /\ crashes < MaxCrashes
    /\ crashes' = crashes + 1
    /\ abandoned' = [abandoned EXCEPT ![s] = jobs[s].seq]
    /\ Become(w, Stopped)
    /\ UNCHANGED <<jobs, high, history, l2, ingest, decision>>

(* The operator is done with a decision, carried out or refused.            *)
DropDecision ==
    /\ decision # NoDecision
    /\ decision' = NoDecision
    /\ UNCHANGED <<durable, ingest, worker, crashes>>

(* The lifecycle pass: the left-over journal first, then discard_committed. *)
(* COMMITTED is final, so its snapshot can only be equal or gone.  It needs *)
(* the source history released, long after the call that sealed it.         *)
DiscardCommitted(s) ==
    /\ jobs[s].status = "COMMITTED"
    /\ ingest[s] = "idle"
    /\ jobs[s].seq <= high
    /\ l2' = l2 \ {jobs[s].seq}
    /\ jobs' = [jobs EXCEPT ![s] = NoJob]
    /\ UNCHANGED <<high, abandoned, history, ingest, worker, decision, crashes>>

Aged(j) == [j EXCEPT !.ttl = IF @ = 0 THEN 0 ELSE @ - 1,
                     !.wait = IF @ = 0 THEN 0 ELSE @ - 1]

Tick ==
    /\ \E s \in Source : jobs[s].ttl > 0 \/ jobs[s].wait > 0
    /\ jobs' = [s \in Source |-> Aged(jobs[s])]
    /\ UNCHANGED <<high, abandoned, history, l2, ingest, worker, decision, crashes>>

(***************************************************************************)
(* Specification.                                                          *)
(***************************************************************************)

Foreground(s) ==
    \/ Stage(s) \/ StageTorn(s) \/ Publish(s) \/ Restage(s) \/ Activate(s)
    \/ BeginCompletion(s) \/ CompletePublish(s) \/ IngestCrash(s)

Recovery(w) ==
    \/ RecoverPublish(w) \/ RecoverActivate(w) \/ RecoverFail(w) \/ RecoverRefused(w)

Settle(w) == Complete(w) \/ FailWaiting(w) \/ FailAttempt(w)

Loop(w) ==
    \/ Look(w) \/ Recovery(w) \/ Claim(w) \/ ClaimRefused(w)
    \/ Renew(w) \/ BeginCommit(w) \/ L2Commit(w) \/ Settle(w)
    \/ LoseLease(w) \/ SettleFails(w) \/ LateRenew(w) \/ Report(w)
    \/ Crash(w) \/ Restart(w)

Operator(w) ==
    Retry(w) \/ RetryAgain(w) \/ Abandon(w) \/ AbandonAgain(w) \/ AbandonTorn(w)

Work ==
    \/ \E s \in Source : Foreground(s) \/ DiscardCommitted(s)
    \/ \E w \in Worker : Loop(w) \/ Operator(w)
    \/ Inspect \/ DropDecision

Next == Work \/ Tick

Spec == Init /\ [][Next]_vars

(***************************************************************************)
(* Scheduling.  The worker loop and the foreground keep going, time passes, *)
(* a failed service is restarted, and the heartbeat, whose interval is at   *)
(* most a third of the lease (worker config), renews a live worker's lease  *)
(* before it runs out.                                                      *)
(***************************************************************************)

Live(w) == worker[w].phase \in {"running", "committing", "raised"}

Timely == \A s \in Source, w \in Worker :
    Live(w) /\ worker[w].src = s /\ Current(w, s) => jobs[s].ttl > 1

TimelyNext == Work \/ (Tick /\ Timely)

Attempt(w) == BeginCommit(w) \/ L2Commit(w) \/ Settle(w) \/ LoseLease(w)

Fairness ==
    /\ WF_vars(Tick /\ Timely)
    /\ \A w \in Worker :
         /\ WF_vars(Look(w)) /\ WF_vars(Recovery(w))
         /\ WF_vars(Claim(w) \/ ClaimRefused(w))
         /\ WF_vars(Renew(w) /\ ~Timely) /\ WF_vars(Attempt(w))
         /\ WF_vars(Report(w)) /\ WF_vars(Restart(w))
    /\ \A s \in Source : WF_vars(Publish(s))

FairSpec == Init /\ [][TimelyNext]_vars /\ Fairness

(***************************************************************************)
(* Correctness properties.                                                 *)
(***************************************************************************)

(* What MemoryJob.__post_init__ accepts: the file of every job can be read  *)
(* back.                                                                    *)
WellFormed(j) ==
    /\ j.status = "RUNNING" => /\ j.worker \in Worker
                               /\ j.gen > 0 /\ j.attempts > 0 /\ j.wait = 0
    /\ j.status # "RUNNING" => j.worker = None /\ j.ttl = 0
    /\ j.wait > 0 => j.status \in {"STAGED", "QUEUED"}
    /\ j.waits > 0 => j.status \in {"QUEUED", "RUNNING"}
    /\ j.status = "STAGED" => j.gen = 0 /\ (j.error = "text" <=> j.attempts > 0)
    /\ j.status = "FAILED" => j.error = "text"
    /\ j.status # "ABSENT" => j.seq > 0

(* Types, and that every job a process ever wrote passes the checks of      *)
(* MemoryJob.__post_init__, without which _read_all fails for every caller. *)
TypeOK ==
    /\ jobs \in [Source -> Job]
    /\ high \in Nat
    /\ abandoned \in [Source -> Nat]
    /\ history \subseteq Source
    /\ l2 \subseteq Nat
    /\ ingest \in [Source -> IngestPhase]
    /\ worker \in [Worker -> WorkerRecord]
    /\ decision \in [src: Source \cup {None}, job: Job]
    /\ crashes \in Nat
    /\ \A s \in Source : WellFormed(jobs[s])

(* store.py _read_all and _load_or_initialize_state: two files never carry  *)
(* one memory_sequence, and state.json is never behind a file, whatever     *)
(* crash separated the two writes of stage.                                 *)
SequencesUnique ==
    /\ \A s \in Source : jobs[s].seq <= high
    /\ \A s, t \in Source :
         Present(s) /\ Present(t) /\ jobs[s].seq = jobs[t].seq => s = t

(* "a later job may read old memory only after the earlier job's summary,   *)
(* receipt, L2 ... are all done" (README, MemoryJob queue): a job was ever  *)
(* claimed only if every earlier job still on file is COMMITTED.            *)
NoOvertaking ==
    \A s, t \in Source :
        /\ Pending(s) /\ Present(t) /\ jobs[s].seq < jobs[t].seq
        => jobs[t].status \in {"STAGED", "QUEUED"} /\ jobs[t].gen = 0

(* A worker never runs a job whose history file is not published, through   *)
(* either of the two paths that publish and activate (foreground, worker).  *)
HistoryBeforeRun ==
    \A s \in Source :
        jobs[s].status \in {"QUEUED", "RUNNING", "COMMITTED"} => s \in history

(* abandon_failed_memory_job: "refused while any side effect is pending or  *)
(* committed" (runtime.py, its docstring): what was abandoned never reached *)
(* long-term memory, and never does.                                        *)
AbandonedNeverCommitted ==
    \A s \in Source : abandoned[s] # 0 => abandoned[s] \notin l2

(* A fence on every change: a RUNNING job is rewritten only by the worker   *)
(* that holds its claim before the lease runs out, or taken over after it   *)
(* did, by the next generation.                                             *)
LeaseFencing ==
    [][\A s \in Source :
         jobs[s].status = "RUNNING" =>
           \/ Frozen(jobs'[s]) = Frozen(jobs[s]) /\ jobs'[s].ttl < jobs[s].ttl
           \/ jobs'[s] = jobs[s]
           \/ /\ jobs[s].ttl > 0
              /\ \E w \in Worker : worker[w].src = s /\ SameClaim(w, s)
              /\ jobs'[s].gen = jobs[s].gen
           \/ /\ jobs[s].ttl = 0
              /\ jobs'[s].status = "RUNNING" /\ jobs'[s].gen = jobs[s].gen + 1
      ]_vars

(* What the queue promises to everything behind it: SerialQueue, a queue    *)
(* that hands out each number once and works on the lowest open one only.   *)
OpenSeqs == {jobs[s].seq : s \in {t \in Source : Pending(t)}}
ActiveSeqs == {jobs[s].seq : s \in {t \in Source : jobs[t].status = "RUNNING"}}

Serial == INSTANCE SerialQueue
            WITH issued <- high, open <- OpenSeqs, active <- ActiveSeqs

(* Jobs are worked on one at a time, in the order of memory_sequence, and a *)
(* number is never issued twice, even after its file is gone or a crash fell*)
(* between the mark and the file (README, MemoryJob queue).                 *)
SerialOrder == Serial!Spec

(* "the worker only claims the oldest unfinished job" and a model wait "never
   becomes FAILED" (README): the oldest job does not hold up the queue for
   ever, it is finished or waits for the operator, through crashes, expired
   leases, failed recoveries and a worker loop that ended.                  *)
OldestSettles ==
    \A s \in Source :
        IsOldest(s) ~> (~IsOldest(s) \/ jobs[s].status = "FAILED")
=============================================================================

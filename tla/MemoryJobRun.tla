---------------------------- MODULE MemoryJobRun ----------------------------
(***************************************************************************)
(* One run of a claimed memory job across the stores it writes: the change *)
(* receipt, the transaction journal and L2, the products of the finalizer, *)
(* the job file; and the lifecycle pass that deletes them again.           *)
(*                                                                         *)
(* MemoryJobQueue models the job file and the lease in full and            *)
(* MemoryCommitTransaction the inside of a commit; here a lease is held or *)
(* not, a commit is PREPARED and then ends, and the steps in between are   *)
(* those of run_claimed.  assert_current stands between any two durable    *)
(* writes of a run.  A step is one write and the assert_current after it:  *)
(* a lease that runs out between an assert and the write it was made for   *)
(* is one that is gone when the step begins.                               *)
(***************************************************************************)
EXTENDS Naturals, Sequences, FiniteSets

CONSTANTS
    Worker,      \* service processes, one claim loop each
    Plan,        \* what the model may plan for a segment: receipt and documents
    None,        \* nobody, no plan
    NJobs,       \* bound: sealed segments
    MaxAttempts, \* workflow.jobs.max_attempts
    MaxRecords,  \* editor journal max_records
    MaxFaults,   \* bound: raised operations, dead processes and lost leases
    MaxLapses,   \* bound: leases lost by a worker that goes on
    MaxRetries   \* bound: retry_failed calls

ASSUME RunConstants ==
    /\ None \notin Worker \cup Plan
    /\ NJobs \in Nat \ {0} /\ MaxAttempts \in Nat \ {0} /\ MaxRecords \in Nat \ {0}
    /\ MaxFaults \in Nat /\ MaxLapses \in Nat /\ MaxRetries \in Nat

Job == 1..NJobs   \* by memory_sequence

VARIABLES
    job,      \* Job -> the job file: [status, attempts, lease]
    receipt,  \* Job -> the change receipt: [state, plan]
    journal,  \* Job -> the journal under the job's transaction id: [state, plan]
    txlock,   \* holder of the transaction lock
    applied,  \* history: the committed L2 transactions, [job, plan]
    done,     \* Job -> finalizer products that are stored
    released, \* jobs whose history segment was released
    run,      \* Worker -> where its run_claimed is
    faults, lapses, retries

disk == <<job, receipt, journal, applied, done, released>>
vars == <<disk, txlock, run, faults, lapses, retries>>

Status == {"QUEUED", "RUNNING", "FAILED", "COMMITTED", "deleted"}
Product == {"summary", "summaryVector", "semantic", "vector"}
JournalState == {"absent", "PREPARED", "COMMITTED", "ROLLED_BACK"}
ReceiptState == {"absent", "PREPARED", "COMMITTED"}

NoReceipt == [state |-> "absent", plan |-> None]
NoJournal == [state |-> "absent", plan |-> None]

Stage == {"idle", "claimed", "recovered", "rolledBack", "clearing", "noJournal", "inspected",
          "planned", "prepared", "publishing", "summary", "summaryVector",
          "receipt", "semantic", "vector", "complete", "cleanup", "raised", "waiting"}

Idle == [at |-> "idle", job |-> 0, plan |-> None, base |-> 0, exhausted |-> FALSE]

RunRecord == [at: Stage, job: 0..NJobs, plan: Plan \cup {None}, base: Nat,
              exhausted: BOOLEAN]

Init ==
    /\ job = [j \in Job |-> [status |-> "QUEUED", attempts |-> 0, lease |-> None]]
    /\ receipt = [j \in Job |-> NoReceipt]
    /\ journal = [j \in Job |-> NoJournal]
    /\ txlock = None
    /\ applied = << >>
    /\ done = [j \in Job |-> {}]
    /\ released = {}
    /\ run = [w \in Worker |-> Idle]
    /\ faults = 0
    /\ lapses = 0
    /\ retries = 0

(***************************************************************************)
(* Claim and lease.                                                        *)
(***************************************************************************)

Settled(j) == job[j].status \in {"COMMITTED", "deleted"}

(* Mutant of IsOldest: a FAILED job does not hold up those behind it.       *)
IsOldestPassingFailed(j) ==
    /\ ~Settled(j)
    /\ \A i \in 1..(j - 1) : Settled(i) \/ job[i].status = "FAILED"

(* oldest_uncommitted *)
IsOldest(j) == ~Settled(j) /\ \A i \in 1..(j - 1) : Settled(i)

(* Mutant of Claimable: an expired lease is not taken over.                 *)
ClaimableQueued(j) == job[j].status = "QUEUED"

Claimable(j) == job[j].lease = None /\ job[j].status \in {"QUEUED", "RUNNING"}

(* claim_next: a QUEUED job, or a RUNNING one whose lease ran out.          *)
Claim(w) == \E j \in Job :
    /\ run[w].at = "idle"
    /\ IsOldest(j)
    /\ Claimable(j)
    /\ job' = [job EXCEPT ![j] = [status |-> "RUNNING", lease |-> w,
                                  attempts |-> @.attempts + 1]]
    /\ run' = [run EXCEPT ![w] =
         [Idle EXCEPT !.at = "claimed", !.job = j,
            !.exhausted = /\ job[j].status = "RUNNING"
                          /\ job[j].attempts >= MaxAttempts]]
    /\ UNCHANGED <<receipt, journal, applied, done, released, txlock, faults, lapses, retries>>

(* Whether assert_current returns.                                          *)
Current(w) == job[run[w].job].lease = w

At(w, j, stage) == run[w].at = stage /\ run[w].job = j

(* assert_current after a write: the run goes on, or MemoryJobLeaseLost     *)
(* ends it without a settlement.                                            *)
Continue(w, record) ==
    run' = [run EXCEPT ![w] = IF Current(w) THEN record ELSE Idle]

Goto(w, stage) == Continue(w, [run[w] EXCEPT !.at = stage])

(* An exception inside the run; what follows is store.fail.                 *)
Raise(w) == run' = [run EXCEPT ![w].at = "raised"]

(* A lease runs out (a suspended process, a starved heartbeat) while its    *)
(* worker goes on.                                                          *)
Lapse(w) ==
    /\ lapses < MaxLapses /\ faults + lapses < MaxFaults
    /\ run[w].at # "idle"
    /\ job[run[w].job].lease = w
    /\ lapses' = lapses + 1
    /\ job' = [job EXCEPT ![run[w].job].lease = None]
    /\ UNCHANGED <<receipt, journal, applied, done, released, txlock, run, faults, retries>>

Fault ==
    /\ faults + lapses < MaxFaults
    /\ faults' = faults + 1

(* The process dies; its leases and its lock run out.                       *)
Crash(w) ==
    /\ Fault
    /\ run[w].at # "idle"
    /\ run' = [run EXCEPT ![w] = Idle]
    /\ job' = [j \in Job |-> IF job[j].lease = w THEN [job[j] EXCEPT !.lease = None]
                             ELSE job[j]]
    /\ txlock' = IF txlock = w THEN None ELSE txlock
    /\ UNCHANGED <<receipt, journal, applied, done, released, lapses, retries>>

(***************************************************************************)
(* MemoryJobTransactionRecovery, before the run.                           *)
(***************************************************************************)

Present == {j \in Job : journal[j].state # "absent"}
Pending == {j \in Job : journal[j].state = "PREPARED"}

(* pending() returned, and nothing.                                         *)
ListsNonePending == Cardinality(Present) <= MaxRecords /\ Pending = {}

(* journal.mark(COMMITTED): the moment L2 shows the transaction.            *)
Marked(record) == [record EXCEPT !.state = "COMMITTED"]

Shown(j) == Append(applied, [job |-> j, plan |-> journal[j].plan])

(* recover_pending(discard_terminal=False): pending() reads every journal   *)
(* file, the terminal ones too, and refuses more than max_records; what is  *)
(* PREPARED was cut off before or after its last document.  At most one is: *)
(* a commit refuses to begin while another is PREPARED.                     *)
RecoverPending(w) == \E j \in Job :
    /\ At(w, j, "claimed")
    /\ txlock = None
    /\ \/ /\ Cardinality(Present) > MaxRecords
          /\ Raise(w)
          /\ UNCHANGED <<journal, applied>>
       \/ /\ ListsNonePending
          /\ Goto(w, "recovered")
          /\ UNCHANGED <<journal, applied>>
       \/ /\ Cardinality(Present) <= MaxRecords
          /\ \E i \in Pending :
               \/ /\ journal' = [journal EXCEPT ![i] = Marked(@)]
                  /\ applied' = Shown(i)
               \/ /\ journal' = [journal EXCEPT ![i].state = "ROLLED_BACK"]
                  /\ UNCHANGED applied
          /\ Goto(w, "recovered")
    /\ UNCHANGED <<job, receipt, done, released, txlock, faults, lapses, retries>>

(* The end of inspect: an expired last attempt goes no further.             *)
AfterInspect(w) == IF run[w].exhausted THEN Raise(w) ELSE Goto(w, "inspected")

(* inspect reads the journal of the job ...                                 *)
InspectJournal(w) == \E j \in Job :
    /\ At(w, j, "recovered")
    /\ \/ /\ journal[j].state = "COMMITTED"
          /\ Continue(w, [run[w] EXCEPT !.at = "summary", !.plan = journal[j].plan])
       \/ /\ journal[j].state = "ROLLED_BACK"
          /\ run' = [run EXCEPT ![w].at = "rolledBack"]
       \/ /\ journal[j].state = "absent"
          /\ run' = [run EXCEPT ![w].at = "noJournal"]
       \/ /\ journal[j].state = "PREPARED"
          /\ AfterInspect(w)
    /\ UNCHANGED <<disk, txlock, faults, lapses, retries>>

(* discard_prepared *)
WithoutPrepared(j) ==
    [receipt EXCEPT ![j] = IF @.state = "PREPARED" THEN NoReceipt ELSE @]

(* ... and clears a PREPARED receipt that no commit will need: after a      *)
(* rollback, and then the journal, ...                                      *)
InspectRolledBack(w) == \E j \in Job :
    /\ At(w, j, "rolledBack")
    /\ IF receipt[j].state = "COMMITTED"
         THEN Raise(w) /\ UNCHANGED receipt
         ELSE /\ receipt' = WithoutPrepared(j)
              /\ run' = [run EXCEPT ![w].at = "clearing"]
    /\ UNCHANGED <<job, journal, applied, done, released, txlock, faults, lapses, retries>>

IsTerminal(j) == journal[j].state \in {"COMMITTED", "ROLLED_BACK"}

(* journal.discard_terminal raises unless it finds a terminal journal.      *)
InspectDiscard(w) == \E j \in Job :
    /\ At(w, j, "clearing")
    /\ IF IsTerminal(j)
         THEN journal' = [journal EXCEPT ![j] = NoJournal] /\ AfterInspect(w)
         ELSE UNCHANGED journal /\ Raise(w)
    /\ UNCHANGED <<job, receipt, applied, done, released, txlock, faults, lapses, retries>>

(* ... or where there is no journal.                                        *)
InspectNoJournal(w) == \E j \in Job :
    /\ At(w, j, "noJournal")
    /\ IF receipt[j].state = "COMMITTED"
         THEN Raise(w) /\ UNCHANGED receipt
         ELSE receipt' = WithoutPrepared(j) /\ AfterInspect(w)
    /\ UNCHANGED <<job, journal, applied, done, released, txlock, faults, lapses, retries>>

(***************************************************************************)
(* MemoryJobExecutor.                                                      *)
(***************************************************************************)

(* The model reads memory and plans; the summary is stored on the way.      *)
MakePlan(w) == \E j \in Job, p \in Plan :
    /\ At(w, j, "inspected")
    /\ done' = [done EXCEPT ![j] = @ \cup {"summary"}]
    /\ Continue(w, [run[w] EXCEPT !.at = "planned", !.plan = p, !.base = Len(applied)])
    /\ UNCHANGED <<job, receipt, journal, applied, released, txlock, faults, lapses, retries>>

(* receipts.prepare: created once; one of another plan is a conflict.       *)
PrepareReceipt(w) == \E j \in Job :
    /\ At(w, j, "planned")
    /\ IF receipt[j] = NoReceipt
         THEN /\ receipt' = [receipt EXCEPT ![j] = [state |-> "PREPARED", plan |-> run[w].plan]]
              /\ Goto(w, "prepared")
         ELSE /\ UNCHANGED receipt
              /\ IF receipt[j].plan = run[w].plan THEN Goto(w, "prepared") ELSE Raise(w)
    /\ UNCHANGED <<job, journal, applied, done, released, txlock, faults, lapses, retries>>

(* editor.commit, under the transaction lock and without another look at    *)
(* the lease.  It is refused while a transaction is PREPARED, when a        *)
(* document the plan read has changed, and when the journal exists.         *)
RefuseCommit(w) == \E j \in Job :
    /\ At(w, j, "prepared")
    /\ txlock = None
    /\ ~(ListsNonePending /\ journal[j].state = "absent" /\ Len(applied) = run[w].base)
    /\ Raise(w)
    /\ UNCHANGED <<disk, txlock, faults, lapses, retries>>

BeginCommit(w) == \E j \in Job :
    /\ At(w, j, "prepared")
    /\ txlock = None
    /\ ListsNonePending
    /\ journal[j].state = "absent"
    /\ journal' = [journal EXCEPT ![j] = [state |-> "PREPARED", plan |-> run[w].plan]]
    /\ txlock' = w
    /\ run' = [run EXCEPT ![w].at = "publishing"]
    /\ UNCHANGED <<job, receipt, applied, done, released, faults, lapses, retries>>

EndCommit(w) == \E j \in Job :
    /\ At(w, j, "publishing")
    /\ journal' = [journal EXCEPT ![j] = Marked(@)]
    /\ applied' = Shown(j)
    /\ txlock' = None
    /\ Goto(w, "summary")
    /\ UNCHANGED <<job, receipt, done, released, faults, lapses, retries>>

(* A publication raises: rolled back, or left PREPARED (indeterminate, or   *)
(* the mark of the rollback failed).                                        *)
CommitFails(w) == \E j \in Job, state \in {"ROLLED_BACK", "PREPARED"} :
    /\ Fault
    /\ At(w, j, "publishing")
    /\ journal' = [journal EXCEPT ![j].state = state]
    /\ txlock' = None
    /\ Raise(w)
    /\ UNCHANGED <<job, receipt, applied, done, released, lapses, retries>>

(***************************************************************************)
(* MemoryCommittedJobFinalizer.                                            *)
(***************************************************************************)

Follows(stage) ==
    CASE stage = "summary" -> "summaryVector"
      [] stage = "summaryVector" -> "receipt"
      [] stage = "receipt" -> "semantic"
      [] stage = "semantic" -> "vector"
      [] stage = "vector" -> "complete"

(* summary_service.get_or_create, the two vector publications and the       *)
(* semantic refresh store what they derive and can be repeated.             *)
StoreProduct(w) == \E j \in Job, stage \in Product :
    /\ At(w, j, stage)
    /\ done' = [done EXCEPT ![j] = @ \cup {stage}]
    /\ Goto(w, Follows(stage))
    /\ UNCHANGED <<job, receipt, journal, applied, released, txlock, faults, lapses, retries>>

(* Mutant of Finalizable: the receipt is not compared with the journal.     *)
FinalizableUnread(w, j) == TRUE

(* The receipt was prepared for what the journal says was committed.        *)
Finalizable(w, j) ==
    /\ receipt[j].state # "absent"
    /\ receipt[j].plan = run[w].plan

FinalizeReceipt(w) == \E j \in Job :
    /\ At(w, j, "receipt")
    /\ IF Finalizable(w, j)
         THEN /\ receipt' = [receipt EXCEPT ![j].state = "COMMITTED"]
              /\ Goto(w, Follows("receipt"))
         ELSE UNCHANGED receipt /\ Raise(w)
    /\ UNCHANGED <<job, journal, applied, done, released, txlock, faults, lapses, retries>>

(* store.complete checks the lease and writes in one queue fence.           *)
Complete(w) == \E j \in Job :
    /\ At(w, j, "complete")
    /\ Goto(w, "cleanup")
    /\ job' = IF Current(w)
                THEN [job EXCEPT ![j].status = "COMMITTED", ![j].lease = None]
                ELSE job
    /\ UNCHANGED <<receipt, journal, applied, done, released, txlock, faults, lapses, retries>>

(* Mutant of Cleaned: the journal is left to the lifecycle pass.            *)
CleanedLater(j) == journal

Cleaned(j) == [journal EXCEPT ![j] = IF IsTerminal(j) THEN NoJournal ELSE @]

(* discard_terminal, whose failure is only reported.                        *)
Cleanup(w) == \E j \in Job :
    /\ At(w, j, "cleanup")
    /\ \/ /\ journal' = Cleaned(j)
          /\ UNCHANGED faults
       \/ Fault /\ UNCHANGED journal
    /\ run' = [run EXCEPT ![w] = Idle]
    /\ UNCHANGED <<job, receipt, applied, done, released, txlock, lapses, retries>>

(***************************************************************************)
(* Failure.                                                                *)
(***************************************************************************)

AsksService == {"inspected"} \cup Product

(* Any step of the run can raise, before its write; those that ask a model  *)
(* or the vector store may raise because it is unavailable.                 *)
StepFails(w) ==
    /\ Fault
    /\ run[w].at \in Stage \ {"idle", "publishing", "cleanup", "raised", "waiting"}
    /\ \/ Raise(w)
       \/ /\ run[w].at \in AsksService
          /\ run' = [run EXCEPT ![w].at = "waiting"]
    /\ UNCHANGED <<disk, txlock, lapses, retries>>

(* Mutant of Undecided: only a COMMITTED journal protects the receipt.      *)
UndecidedCommitted(j) == journal[j].state = "COMMITTED"

(* The receipt may still be needed.                                         *)
Undecided(j) == journal[j].state \in {"COMMITTED", "PREPARED"}

(* discard_uncommitted *)
DiscardUncommitted(j) ==
    /\ receipt' = IF Undecided(j) THEN receipt ELSE WithoutPrepared(j)
    /\ journal' = [journal EXCEPT ![j] = IF @.state = "ROLLED_BACK" THEN NoJournal ELSE @]

FailedJob(record, retryable) ==
    [record EXCEPT !.lease = None,
       !.status = IF retryable /\ record.attempts < MaxAttempts THEN "QUEUED" ELSE "FAILED"]

WaitingJob(record) ==
    [record EXCEPT !.lease = None, !.status = "QUEUED", !.attempts = @ - 1]

(* store.fail: the lease, the clean-up and the new status in one fence; a   *)
(* run without the lease leaves everything to its successor.                *)
Fail(w) == \E j \in Job :
    /\ At(w, j, "raised") \/ At(w, j, "waiting")
    /\ run' = [run EXCEPT ![w] = Idle]
    /\ IF Current(w)
         THEN /\ DiscardUncommitted(j)
              /\ \E settled \in IF run[w].at = "waiting" THEN {WaitingJob(job[j])}
                                ELSE {FailedJob(job[j], r) : r \in BOOLEAN} :
                   job' = [job EXCEPT ![j] = settled]
         ELSE UNCHANGED <<job, receipt, journal>>
    /\ UNCHANGED <<applied, done, released, txlock, faults, lapses, retries>>

(* The operator's retry_failed.                                             *)
RetryFailed(j) ==
    /\ retries < MaxRetries
    /\ IsOldest(j)
    /\ job[j].status = "FAILED"
    /\ retries' = retries + 1
    /\ job' = [job EXCEPT ![j].status = "QUEUED", ![j].attempts = 0]
    /\ UNCHANGED <<receipt, journal, applied, done, released, txlock, run, faults, lapses>>

(***************************************************************************)
(* ConversationLifecycleManager.                                           *)
(***************************************************************************)

(* _workflow_is_committed: before the history segment is released.          *)
WorkflowIsCommitted(j) ==
    /\ job[j].status = "COMMITTED"
    /\ receipt[j].state = "COMMITTED"
    /\ journal[j].state \in {"absent", "COMMITTED"}

ReleaseHistory(j) ==
    /\ j \notin released
    /\ WorkflowIsCommitted(j)
    /\ released' = released \cup {j}
    /\ UNCHANGED <<job, receipt, journal, applied, done, txlock, run, faults, lapses, retries>>

(* _delete_expired_committed_jobs removes the journal and then the job; it  *)
(* raises on a PREPARED or ROLLED_BACK journal.                             *)
ExpireJournal(j) ==
    /\ j \in released
    /\ receipt[j].state = "COMMITTED"
    /\ journal[j].state = "COMMITTED"
    /\ journal' = [journal EXCEPT ![j] = NoJournal]
    /\ UNCHANGED <<job, receipt, applied, done, released, txlock, run, faults, lapses, retries>>

ExpireJob(j) ==
    /\ j \in released
    /\ job[j].status = "COMMITTED"
    /\ receipt[j].state = "COMMITTED"
    /\ journal[j].state = "absent"
    /\ job' = [job EXCEPT ![j].status = "deleted"]
    /\ UNCHANGED <<receipt, journal, applied, done, released, txlock, run, faults, lapses, retries>>

(* _delete_expired_committed_receipts, once the job is gone.                *)
ExpireReceipt(j) ==
    /\ j \in released
    /\ job[j].status = "deleted"
    /\ receipt[j].state = "COMMITTED"
    /\ journal[j].state = "absent"
    /\ receipt' = [receipt EXCEPT ![j] = NoReceipt]
    /\ UNCHANGED <<job, journal, applied, done, released, txlock, run, faults, lapses, retries>>

-----------------------------------------------------------------------------

Recover(w) == RecoverPending(w) \/ InspectJournal(w) \/ InspectRolledBack(w)
              \/ InspectDiscard(w) \/ InspectNoJournal(w)

Execute(w) == MakePlan(w) \/ PrepareReceipt(w) \/ RefuseCommit(w) \/ BeginCommit(w)
              \/ EndCommit(w)

Finalize(w) == StoreProduct(w) \/ FinalizeReceipt(w) \/ Complete(w) \/ Cleanup(w)

Lifecycle(j) == ReleaseHistory(j) \/ ExpireJournal(j) \/ ExpireJob(j) \/ ExpireReceipt(j)

RunClaimed(w) == Recover(w) \/ Execute(w) \/ Finalize(w) \/ Fail(w)

Next ==
    \/ \E w \in Worker : \/ Claim(w) \/ RunClaimed(w)
                         \/ CommitFails(w) \/ StepFails(w) \/ Crash(w) \/ Lapse(w)
    \/ \E j \in Job : RetryFailed(j) \/ Lifecycle(j)

Spec == Init /\ [][Next]_vars

(* The loop claims again and again, a run goes on until it ends, and an     *)
(* operator who sees a FAILED job at the head retries it.                   *)
FairSpec ==
    /\ Spec
    /\ \A w \in Worker : WF_vars(Claim(w) \/ RunClaimed(w))
    /\ \A j \in Job : WF_vars(RetryFailed(j))

-----------------------------------------------------------------------------

TypeOK ==
    /\ job \in [Job -> [status: Status, attempts: 0..(MaxAttempts + MaxFaults),
                        lease: Worker \cup {None}]]
    /\ receipt \in [Job -> [state: ReceiptState, plan: Plan \cup {None}]]
    /\ journal \in [Job -> [state: JournalState, plan: Plan \cup {None}]]
    /\ txlock \in Worker \cup {None}
    /\ \A i \in 1..Len(applied) : applied[i] \in [job: Job, plan: Plan]
    /\ done \in [Job -> SUBSET Product]
    /\ released \subseteq Job
    /\ run \in [Worker -> RunRecord]
    /\ \A w \in Worker : run[w].at = "publishing" <=> txlock = w
    /\ \A j \in Job : job[j].lease # None => job[j].status = "RUNNING"

(* A committed transaction of an unfinished job can be finished: its        *)
(* receipt is there, and was made for the documents that were committed     *)
(* ("提交了就靠这份回执补完", recovery.py), as long as no worker went on       *)
(* without its lease.                                                       *)
ReceiptCompletes == \A j \in Job :
    (lapses = 0 /\ journal[j].state = "COMMITTED" /\ ~Settled(j)) =>
        /\ receipt[j].state # "absent"
        /\ receipt[j].plan = journal[j].plan

(* What a job did to memory: the plans of its committed transactions.       *)
AppliedPlans(j) == {applied[i].plan : i \in {k \in 1..Len(applied) : applied[k].job = j}}

(* A COMMITTED job reports what happened: its receipt is COMMITTED, for a   *)
(* plan that memory shows, and its four products are stored.                *)
CommittedIsBacked == \A j \in Job :
    job[j].status = "COMMITTED" =>
        /\ receipt[j].state = "COMMITTED"
        /\ receipt[j].plan \in AppliedPlans(j)
        /\ done[j] = Product

(* A segment is applied to memory once, and after all earlier ones: a later *)
(* job never reads memory that an earlier one still changes                 *)
(* ("a later job may read old memory only after the earlier job's summary,  *)
(* receipt, L2, L0 / L1 and vectors are all done", README.md), as long as    *)
(* no worker went on without its lease.                                     *)
AppliedOnceInOrder ==
  lapses = 0 =>
    /\ \A i, k \in 1..Len(applied) : i < k => applied[i].job < applied[k].job
    /\ \A j \in Job, w \in Worker :
         (j < run[w].job /\ run[w].at # "idle") => j \in {i \in Job : Settled(i)}

(* recover_pending reads every journal file and refuses more than           *)
(* max_records, so they must not pile up: only the head of the queue needs  *)
(* one, and each other file is a clean-up that is under way or was lost to  *)
(* a failure, a death or a worker that went on without its lease.           *)
JournalsBounded ==
    /\ \A j \in Present : Settled(j) \/ IsOldest(j)
    /\ Cardinality({j \in Present : Settled(j)})
         <= faults + lapses + Cardinality({w \in Worker : run[w].at = "cleanup"})

(* Every segment is processed: whatever failed on the way, its job becomes  *)
(* COMMITTED, or is FAILED when the operator has given up retrying.         *)
EveryJobEnds == \A j \in Job :
    <>(Settled(j) \/ \E i \in Job : job[i].status = "FAILED" /\ retries = MaxRetries)

=============================================================================

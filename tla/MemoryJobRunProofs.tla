------------------------- MODULE MemoryJobRunProofs -------------------------
(* The safety properties of MemoryJobRun, for every number of workers and   *)
(* jobs, every plan and every bound on faults, lost leases and retries.     *)
EXTENDS MemoryJobRun, FiniteSetTheorems, TLAPS

(* A run is for a job, and has a plan from the moment it made or found one; *)
(* the transaction lock is held by the run that is publishing.              *)
Unplanned == {"idle", "claimed", "recovered", "rolledBack", "clearing", "noJournal",
              "inspected", "cleanup", "raised", "waiting"}
Whole(r) ==
    /\ r.at # "idle" => r.job \in Job
    /\ r.at \notin Unplanned => r.plan \in Plan
RunsTyped ==
    /\ run \in [Worker -> RunRecord]
    /\ txlock \in Worker \cup {None}
    /\ \A w \in Worker : Whole(run[w])
    /\ \A w \in Worker : run[w].at = "publishing" <=> txlock = w

(* Each attempt beyond MaxAttempts is one that a fault has cost.            *)
JobRecord == [status: Status, attempts: Nat, lease: Worker \cup {None}]
Spent(r) == r.attempts + (IF r.status = "QUEUED" \/ (r.status = "RUNNING" /\ r.lease = None)
                          THEN 1 ELSE 0)
Paid(r, cost) ==
    /\ Spent(r) <= MaxAttempts + cost
    /\ r.lease # None => r.status = "RUNNING"
    /\ r.status = "RUNNING" => r.attempts >= 1
JobsTyped ==
    /\ job \in [Job -> JobRecord]
    /\ faults \in Nat /\ lapses \in Nat /\ retries \in Nat
    /\ faults + lapses <= MaxFaults
    /\ \A j \in Job : Paid(job[j], faults + lapses)

(* A receipt or a journal that is there has a plan.                         *)
ReceiptRecord == [state: ReceiptState, plan: Plan \cup {None}]
ReceiptsTyped ==
    /\ receipt \in [Job -> ReceiptRecord]
    /\ \A j \in Job : IF receipt[j].state = "absent" THEN receipt[j] = NoReceipt
                      ELSE receipt[j].plan \in Plan

JournalRecord == [state: JournalState, plan: Plan \cup {None}]
JournalsTyped ==
    /\ journal \in [Job -> JournalRecord]
    /\ \A j \in Job : journal[j].state # "absent" => journal[j].plan \in Plan
    /\ applied \in Seq([job: Job, plan: Plan])

OthersTyped == done \in [Job -> SUBSET Product] /\ released \subseteq Job

Typed == RunsTyped /\ JobsTyped /\ ReceiptsTyped /\ JournalsTyped /\ OthersTyped

(* The transaction of job j with plan p is part of the log.                 *)
Shows(log, j, p) == \E i \in 1..Len(log) : log[i] = [job |-> j, plan |-> p]

(* What a run has stored when it reaches a stage.                           *)
StoredBy(stage) ==
    CASE stage = "summaryVector" -> {"summary"}
      [] stage \in {"receipt", "semantic"} -> {"summary", "summaryVector"}
      [] stage = "vector" -> {"summary", "summaryVector", "semantic"}
      [] stage = "complete" -> Product
      [] OTHER -> {}

(* A record that says COMMITTED says what memory shows.                     *)
StoreBacked(j) ==
    /\ journal[j].state = "COMMITTED" => Shows(applied, j, journal[j].plan)
    /\ receipt[j].state = "COMMITTED" => Shows(applied, j, receipt[j].plan)
    /\ job[j].status = "COMMITTED" => receipt[j].state = "COMMITTED" /\ done[j] = Product

RunBacked(w) ==
    LET j == run[w].job IN
    /\ run[w].at = "publishing" => journal[j] = [state |-> "PREPARED", plan |-> run[w].plan]
    /\ run[w].at \in {"summary", "summaryVector", "receipt"} => Shows(applied, j, run[w].plan)
    /\ run[w].at \in {"semantic", "vector", "complete"} =>
          receipt[j].state = "COMMITTED" \/ job[j].status = "deleted"
    /\ run[w].at # "idle" => StoredBy(run[w].at) \subseteq done[j]

Backed == (\A j \in Job : StoreBacked(j)) /\ (\A w \in Worker : RunBacked(w))

(* All segments before j are through.                                       *)
Reached(j) == \A i \in 1..(j - 1) : Settled(i)
Through == {j \in Job : Reached(j)}

(* Whatever there is of a job is there because all earlier ones are         *)
(* through.                                                                 *)
HeadOnly ==
    /\ released \subseteq {j \in Job : Settled(j)}
    /\ \A j \in Job :
        /\ job[j].status \in {"RUNNING", "FAILED"} => Reached(j)
        /\ journal[j].state # "absent" => Reached(j)
    /\ \A w \in Worker : run[w].at # "idle" => Reached(run[w].job)
    /\ \A i \in 1..Len(applied) : applied[i].job \in Through

(* What a worker with the lease of its job can rely on.                     *)
Committed == {"summary", "summaryVector", "receipt", "semantic", "vector", "complete"}
LeaseKept(w) ==
    LET j == run[w].job IN
    /\ run[w].at \notin {"idle", "cleanup"} => job[j].lease = w
    /\ run[w].at = "cleanup" => Settled(j)
    /\ run[w].at \in {"rolledBack", "clearing"} => journal[j].state = "ROLLED_BACK"
    /\ run[w].at = "noJournal" => journal[j].state = "absent"
    /\ run[w].at = "prepared" => receipt[j].state # "absent" /\ receipt[j].plan = run[w].plan
    /\ run[w].at \in Committed => journal[j].state = "COMMITTED"

InLog(log, j) == \E i \in 1..Len(log) : log[i].job = j
JournalKept(j) ==
    /\ InLog(applied, j) => journal[j].state = "COMMITTED" \/ Settled(j)
    /\ journal[j].state = "PREPARED" => ~Settled(j)
    /\ (journal[j].state \in {"PREPARED", "COMMITTED"} /\ ~Settled(j)) =>
          receipt[j].state # "absent" /\ receipt[j].plan = journal[j].plan

Kept == lapses = 0 =>
    /\ \A w \in Worker : LeaseKept(w)
    /\ \A j \in Job : JournalKept(j)
    /\ \A i, k \in 1..Len(applied) : i < k => applied[i].job < applied[k].job

IInv == Typed /\ Backed /\ HeadOnly /\ Kept

-----------------------------------------------------------------------------
(* Types.                                                                   *)

LEMMA TypedIsTypeOK == Typed => TypeOK
  <1> SUFFICES ASSUME Typed PROVE TypeOK
    OBVIOUS
  <1>1. job \in [Job -> [status: Status, attempts: 0..(MaxAttempts + MaxFaults),
                         lease: Worker \cup {None}]]
    <2> SUFFICES ASSUME NEW j \in Job PROVE job[j].attempts \in 0..(MaxAttempts + MaxFaults)
      BY DEF Typed, JobsTyped, JobRecord
    <2> QED BY RunConstants DEF Typed, JobsTyped, JobRecord, Paid, Spent
  <1>2. \A j \in Job : job[j].lease # None => job[j].status = "RUNNING"
    BY DEF Typed, JobsTyped, Paid
  <1>3. receipt \in [Job -> [state: ReceiptState, plan: Plan \cup {None}]]
    BY DEF Typed, ReceiptsTyped, ReceiptRecord
  <1>4. journal \in [Job -> [state: JournalState, plan: Plan \cup {None}]]
    BY DEF Typed, JournalsTyped, JournalRecord
  <1>7. \A i \in 1..Len(applied) : applied[i] \in [job: Job, plan: Plan]
    <2> DEFINE Entry == [job: Job, plan: Plan]
    <2>1. applied \in Seq(Entry)
      BY DEF Typed, JournalsTyped
    <2> HIDE DEF Entry
    <2>2. \A i \in 1..Len(applied) : applied[i] \in Entry
      BY <2>1
    <2> QED BY <2>2 DEF Entry
  <1>5. /\ txlock \in Worker \cup {None} /\ run \in [Worker -> RunRecord]
        /\ \A w \in Worker : run[w].at = "publishing" <=> txlock = w
    BY DEF Typed, RunsTyped
  <1>6. done \in [Job -> SUBSET Product] /\ released \subseteq Job
    BY DEF Typed, OthersTyped
  <1> QED BY <1>1, <1>2, <1>3, <1>4, <1>5, <1>6, <1>7 DEF TypeOK

LEMMA InitTyped == Init => Typed
  <1> SUFFICES ASSUME Init PROVE Typed
    OBVIOUS
  <1> USE RunConstants DEF Init
  <1>1. RunsTyped
    BY DEF RunsTyped, Whole, Idle, RunRecord, Stage, Unplanned
  <1>2. JobsTyped
    BY DEF JobsTyped, JobRecord, Paid, Spent, Status
  <1>3. ReceiptsTyped /\ JournalsTyped /\ OthersTyped
    BY DEF ReceiptsTyped, ReceiptRecord, NoReceipt, ReceiptState, JournalsTyped, JournalRecord,
           NoJournal, JournalState, OthersTyped
  <1> QED BY <1>1, <1>2, <1>3 DEF Typed

(* Where a run goes, and that only its own worker moves it.                 *)
Moved(w, stages) ==
    /\ \A v \in Worker \ {w} : run'[v] = run[v]
    /\ \/ run'[w].at = "idle"
       \/ /\ run'[w].at \in stages
          /\ run'[w].job = run[w].job /\ run'[w].plan = run[w].plan

LEMMA RunPut ==
    ASSUME RunsTyped, NEW w \in Worker, NEW r \in RunRecord, Whole(r),
           run' = [run EXCEPT ![w] = r],
           txlock' \in Worker \cup {None},
           r.at = "publishing" <=> txlock' = w,
           \A v \in Worker \ {w} : txlock' = v <=> txlock = v
    PROVE  RunsTyped'
  BY DEF RunsTyped, Whole

LEMMA RunPutPlain ==
    ASSUME RunsTyped, NEW w \in Worker, NEW r \in RunRecord, Whole(r),
           run' = [run EXCEPT ![w] = r], txlock' = txlock,
           run[w].at # "publishing", r.at # "publishing"
    PROVE  RunsTyped'
  BY RunPut DEF RunsTyped

LEMMA IdleWhole == Idle \in RunRecord /\ Whole(Idle) /\ Idle.at = "idle"
  BY RunConstants DEF Idle, RunRecord, Whole, Stage, Unplanned

LEMMA AtWhole ==
    ASSUME RunsTyped, NEW w \in Worker, NEW stage \in Stage,
           run[w].at # "idle", stage \notin Unplanned => run[w].plan \in Plan
    PROVE  /\ [run[w] EXCEPT !.at = stage] \in RunRecord
           /\ Whole([run[w] EXCEPT !.at = stage])
           /\ [run[w] EXCEPT !.at = stage].at = stage
           /\ [run[w] EXCEPT !.at = stage].job = run[w].job
           /\ [run[w] EXCEPT !.at = stage].plan = run[w].plan
  BY DEF RunsTyped, RunRecord, Whole

LEMMA ContinueTyped ==
    ASSUME RunsTyped, NEW w \in Worker, NEW r \in RunRecord, Whole(r), Continue(w, r),
           txlock' = txlock, run[w].at # "publishing", r.at # "publishing"
    PROVE  RunsTyped'
  BY IdleWhole, RunPutPlain DEF Continue

LEMMA RaiseTyped ==
    ASSUME RunsTyped, NEW w \in Worker, NEW stage \in Unplanned,
           run' = [run EXCEPT ![w].at = stage],
           run[w].at \notin {"idle", "publishing"}, txlock' = txlock
    PROVE  RunsTyped'
  <1>1. stage \in Stage /\ stage # "publishing"
    BY DEF Unplanned, Stage
  <1> DEFINE r == [run[w] EXCEPT !.at = stage]
  <1>2. run' = [run EXCEPT ![w] = r]
    OBVIOUS
  <1>3. r \in RunRecord /\ Whole(r) /\ r.at # "publishing"
    BY <1>1, AtWhole
  <1> HIDE DEF r
  <1> QED BY <1>2, <1>3, RunPutPlain

LEMMA GotoTyped ==
    ASSUME RunsTyped, NEW w \in Worker, NEW stage \in Stage \ {"publishing"}, Goto(w, stage),
           stage \notin Unplanned => run[w].plan \in Plan,
           run[w].at \notin {"idle", "publishing"}, txlock' = txlock
    PROVE  RunsTyped'
  BY AtWhole, ContinueTyped DEF Goto

LEMMA AfterInspectTyped ==
    ASSUME RunsTyped, NEW w \in Worker, AfterInspect(w),
           run[w].at \notin {"idle", "publishing"}, txlock' = txlock
    PROVE  RunsTyped'
  <1>1. {"raised", "inspected"} \subseteq Unplanned /\ "inspected" \in Stage \ {"publishing"}
    BY DEF Unplanned, Stage
  <1> QED BY <1>1, RaiseTyped, GotoTyped DEF AfterInspect, Raise


LEMMA RunsTypedStep == Typed /\ [Next]_vars => RunsTyped'
  <1> SUFFICES ASSUME Typed, [Next]_vars PROVE RunsTyped'
    OBVIOUS
  <1> USE DEF Typed
  <1>1. ASSUME NEW w \in Worker, Claim(w) PROVE RunsTyped'
    <2>1. \E j \in Job, ex \in BOOLEAN :
            run' = [run EXCEPT ![w] = [Idle EXCEPT !.at = "claimed", !.job = j, !.exhausted = ex]]
      <3> PICK j \in Job : Claim(w)!(j)
        BY <1>1 DEF Claim
      <3> DEFINE ex == job[j].status = "RUNNING" /\ job[j].attempts >= MaxAttempts
      <3>1. ex \in BOOLEAN
        OBVIOUS
      <3>2. run' = [run EXCEPT ![w] = [Idle EXCEPT !.at = "claimed", !.job = j, !.exhausted = ex]]
        OBVIOUS
      <3> HIDE DEF ex
      <3> QED BY <3>1, <3>2, Zenon
    <2>2. run[w].at = "idle" /\ txlock' = txlock
      BY <1>1 DEF Claim
    <2> PICK j \in Job, ex \in BOOLEAN :
          run' = [run EXCEPT ![w] = [Idle EXCEPT !.at = "claimed", !.job = j, !.exhausted = ex]]
      BY <2>1
    <2> DEFINE r == [Idle EXCEPT !.at = "claimed", !.job = j, !.exhausted = ex]
    <2>3. r \in RunRecord /\ Whole(r) /\ r.at # "publishing"
      <3>1. /\ "claimed" \in Stage /\ j \in 0..NJobs
            /\ 0 \in Nat /\ "claimed" \in Unplanned /\ "claimed" # "publishing"
        BY RunConstants DEF Stage, Unplanned, Job
      <3>2. r \in RunRecord /\ r.at = "claimed" /\ r.job = j
        BY <3>1, IdleWhole DEF RunRecord
      <3> QED BY <3>1, <3>2 DEF Whole
    <2> QED BY <2>2, <2>3, RunPutPlain
  <1>2. ASSUME NEW w \in Worker, RecoverPending(w) PROVE RunsTyped'
    BY <1>2, GotoTyped, RaiseTyped DEF RecoverPending, Raise, At, Stage, Unplanned
  <1>3. ASSUME NEW w \in Worker, InspectJournal(w) PROVE RunsTyped'
    <2> PICK j \in Job : InspectJournal(w)!(j)
      BY <1>3 DEF InspectJournal
    <2>1. CASE journal[j].state = "COMMITTED"
      <3> DEFINE r == [run[w] EXCEPT !.at = "summary", !.plan = journal[j].plan]
      <3>1. r \in RunRecord /\ Whole(r) /\ r.at # "publishing"
        BY <2>1 DEF RunsTyped, JournalsTyped, RunRecord, Whole, Stage, Unplanned, At
      <3>2. Continue(w, r)
        BY <2>1
      <3> QED BY <3>1, <3>2, ContinueTyped DEF At
    <2>2. CASE journal[j].state = "PREPARED"
      BY <2>2, AfterInspectTyped DEF At
    <2> QED BY <2>1, <2>2, RaiseTyped DEF At, Unplanned
  <1>4. ASSUME NEW w \in Worker, InspectRolledBack(w) PROVE RunsTyped'
    BY <1>4, RaiseTyped DEF InspectRolledBack, Raise, At, Unplanned
  <1>5. ASSUME NEW w \in Worker, InspectDiscard(w) PROVE RunsTyped'
    BY <1>5, RaiseTyped, AfterInspectTyped DEF InspectDiscard, Raise, At, Unplanned
  <1>6. ASSUME NEW w \in Worker, InspectNoJournal(w) PROVE RunsTyped'
    BY <1>6, RaiseTyped, AfterInspectTyped DEF InspectNoJournal, Raise, At, Unplanned
  <1>7. ASSUME NEW w \in Worker, MakePlan(w) PROVE RunsTyped'
    <2> PICK j \in Job, p \in Plan : MakePlan(w)!(j, p)
      BY <1>7 DEF MakePlan
    <2> DEFINE r == [run[w] EXCEPT !.at = "planned", !.plan = p, !.base = Len(applied)]
    <2>2. run[w] \in RunRecord /\ run[w].job \in Job /\ Len(applied) \in Nat
      BY DEF RunsTyped, JournalsTyped, Whole, At
    <2>1. r \in RunRecord /\ Whole(r) /\ r.at # "publishing"
      BY <2>2 DEF RunRecord, Whole, Stage, Unplanned
    <2> QED BY <2>1, ContinueTyped DEF At
  <1>8. ASSUME NEW w \in Worker, PrepareReceipt(w) PROVE RunsTyped'
    <2>1. run[w].plan \in Plan /\ run[w].at = "planned" /\ (Goto(w, "prepared") \/ Raise(w)) /\ txlock' = txlock
      BY <1>8 DEF PrepareReceipt, RunsTyped, Whole, Unplanned, At
    <2> QED BY <2>1, GotoTyped, RaiseTyped DEF Raise, Stage, Unplanned
  <1>9. ASSUME NEW w \in Worker, RefuseCommit(w) PROVE RunsTyped'
    BY <1>9, RaiseTyped DEF RefuseCommit, Raise, At, Unplanned
  <1>10. ASSUME NEW w \in Worker, BeginCommit(w) PROVE RunsTyped'
    <2> DEFINE r == [run[w] EXCEPT !.at = "publishing"]
    <2>1. run' = [run EXCEPT ![w] = r] /\ txlock = None /\ txlock' = w /\ run[w].at = "prepared"
      BY <1>10 DEF BeginCommit, At
    <2>2. r \in RunRecord /\ Whole(r) /\ r.at = "publishing"
      BY <2>1 DEF RunsTyped, RunRecord, Whole, Stage, Unplanned
    <2> HIDE DEF r
    <2>3. \A v \in Worker \ {w} : txlock' = v <=> txlock = v
      BY <2>1, RunConstants
    <2> QED BY <2>1, <2>2, <2>3, RunPut
  <1>11. ASSUME NEW w \in Worker, EndCommit(w) PROVE RunsTyped'
    <2> DEFINE r == IF Current(w) THEN [run[w] EXCEPT !.at = "summary"] ELSE Idle
    <2>1. run' = [run EXCEPT ![w] = r] /\ txlock = w /\ txlock' = None /\ run[w].at = "publishing"
      BY <1>11 DEF EndCommit, At, RunsTyped, Goto, Continue
    <2>2. r \in RunRecord /\ Whole(r) /\ r.at # "publishing"
      BY <2>1, IdleWhole DEF RunsTyped, RunRecord, Whole, Stage, Unplanned
    <2> HIDE DEF r
    <2>3. \A v \in Worker \ {w} : txlock' = v <=> txlock = v
      BY <2>1, RunConstants
    <2> QED BY <2>1, <2>2, <2>3, RunPut, RunConstants
  <1>12. ASSUME NEW w \in Worker, CommitFails(w) PROVE RunsTyped'
    <2> DEFINE r == [run[w] EXCEPT !.at = "raised"]
    <2>1. run' = [run EXCEPT ![w] = r] /\ txlock = w /\ txlock' = None /\ run[w].at = "publishing"
      BY <1>12 DEF CommitFails, At, RunsTyped, Raise
    <2>2. r \in RunRecord /\ Whole(r) /\ r.at # "publishing"
      BY <2>1 DEF RunsTyped, RunRecord, Whole, Stage, Unplanned
    <2> HIDE DEF r
    <2>3. \A v \in Worker \ {w} : txlock' = v <=> txlock = v
      BY <2>1, RunConstants
    <2> QED BY <2>1, <2>2, <2>3, RunPut, RunConstants
  <1>13. ASSUME NEW w \in Worker, StoreProduct(w) PROVE RunsTyped'
    <2> PICK j \in Job, stage \in Product : StoreProduct(w)!(j, stage)
      BY <1>13 DEF StoreProduct
    <2>1. /\ Follows(stage) \in Stage \ {"publishing"}
          /\ run[w].at \notin {"idle", "publishing"} /\ run[w].at \notin Unplanned
      BY DEF Follows, Product, Stage, At, Unplanned
    <2> QED BY <2>1, GotoTyped DEF RunsTyped, Whole
  <1>14. ASSUME NEW w \in Worker, FinalizeReceipt(w) PROVE RunsTyped'
    <2>1. run[w].plan \in Plan /\ run[w].at = "receipt" /\ (Goto(w, "semantic") \/ Raise(w)) /\ txlock' = txlock
      BY <1>14 DEF FinalizeReceipt, RunsTyped, Whole, Unplanned, At, Follows
    <2> QED BY <2>1, GotoTyped, RaiseTyped DEF Raise, Stage, Unplanned
  <1>15. ASSUME NEW w \in Worker, Complete(w) PROVE RunsTyped'
    BY <1>15, GotoTyped DEF Complete, At, Stage, Unplanned
  <1>16. ASSUME NEW w \in Worker, Cleanup(w) \/ Fail(w) PROVE RunsTyped'
    BY <1>16, IdleWhole, RunPutPlain DEF Cleanup, Fail, At
  <1>17. ASSUME NEW w \in Worker, StepFails(w) PROVE RunsTyped'
    BY <1>17, RaiseTyped DEF StepFails, Raise, Unplanned
  <1>18. ASSUME NEW w \in Worker, Crash(w) PROVE RunsTyped'
    <2>1. run' = [run EXCEPT ![w] = Idle] /\ txlock' = IF txlock = w THEN None ELSE txlock
      BY <1>18 DEF Crash
    <2>2. txlock' \in Worker \cup {None} /\ txlock' # w
          /\ \A v \in Worker \ {w} : txlock' = v <=> txlock = v
      BY <2>1, RunConstants DEF RunsTyped
    <2> QED BY <2>1, <2>2, RunPut, IdleWhole
  <1>19. ASSUME UNCHANGED <<run, txlock>> PROVE RunsTyped'
    BY <1>19 DEF RunsTyped
  <1>20. ASSUME NEW w \in Worker, Lapse(w) PROVE RunsTyped'
    BY <1>20, <1>19 DEF Lapse
  <1>21. ASSUME NEW j \in Job, RetryFailed(j) \/ Lifecycle(j) PROVE RunsTyped'
    BY <1>21, <1>19 DEF RetryFailed, Lifecycle, ReleaseHistory, ExpireJournal, ExpireJob, ExpireReceipt
  <1> HIDE DEF Typed
  <1> QED BY <1>1, <1>2, <1>3, <1>4, <1>5, <1>6, <1>7, <1>8, <1>9, <1>10, <1>11, <1>12, <1>13,
             <1>14, <1>15, <1>16, <1>17, <1>18, <1>19, <1>20, <1>21
          DEF Next, RunClaimed, Recover, Execute, Finalize, vars

LEMMA JobsPut ==
    ASSUME JobsTyped, NEW j \in Job, NEW r \in JobRecord,
           faults' = faults, lapses' = lapses, retries' \in Nat,
           Paid(r, faults + lapses), job' = [job EXCEPT ![j] = r]
    PROVE  JobsTyped'
  BY DEF JobsTyped, Paid

LEMMA FaultTyped == ASSUME JobsTyped, Fault, UNCHANGED <<job, lapses, retries>> PROVE JobsTyped'
  BY RunConstants DEF JobsTyped, Paid, Spent, Fault, JobRecord

LEMMA JobsTypedStep == Typed /\ [Next]_vars => JobsTyped'
  <1> SUFFICES ASSUME Typed, [Next]_vars PROVE JobsTyped'
    OBVIOUS
  <1> USE DEF Typed
  <1>0. /\ JobsTyped /\ \A j \in Job : job[j] \in JobRecord /\ Paid(job[j], faults + lapses)
        /\ faults + lapses \in Nat /\ MaxAttempts \in Nat \ {0}
    BY RunConstants DEF JobsTyped
  <1>a. ASSUME NEW j \in Job, NEW r \in JobRecord, r.lease = None,
               \/ r.status \in {"COMMITTED", "FAILED", "deleted"} /\ r.attempts = job[j].attempts
               \/ r.status = "QUEUED" /\ r.attempts < MaxAttempts
               \/ r.status = "QUEUED" /\ r.attempts < job[j].attempts
        PROVE  Paid(r, faults + lapses)
    BY <1>0, <1>a DEF JobRecord, Paid, Spent
  <1>1. ASSUME UNCHANGED <<job, faults, lapses, retries>> PROVE JobsTyped'
    BY <1>1 DEF JobsTyped
  <1>2. ASSUME NEW w \in Worker, Claim(w) PROVE JobsTyped'
    <2> PICK j \in Job : Claim(w)!(j)
      BY <1>2 DEF Claim
    <2> DEFINE r == [status |-> "RUNNING", lease |-> w, attempts |-> job[j].attempts + 1]
    <2>1. job' = [job EXCEPT ![j] = r]
      OBVIOUS
    <2>2. r \in JobRecord /\ Paid(r, faults + lapses)
      BY <1>0, RunConstants DEF JobRecord, Status, Paid, Spent, Claimable
    <2>3. UNCHANGED <<faults, lapses, retries>> /\ retries \in Nat
      BY DEF JobsTyped
    <2> HIDE DEF r
    <2> QED BY <2>1, <2>2, <2>3, JobsPut
  <1>3. ASSUME NEW w \in Worker, Lapse(w) PROVE JobsTyped'
    <2> DEFINE k == run[w].job
    <2>1. k \in Job /\ job[k] \in JobRecord /\ job[k].lease = w /\ job[k].status = "RUNNING"
      BY <1>3, <1>0, RunConstants DEF Lapse, RunsTyped, Whole, Paid
    <2>2. job' = [job EXCEPT ![k] = [job[k] EXCEPT !.lease = None]]
      BY <1>3 DEF Lapse
    <2>3. faults' = faults /\ retries' = retries /\ lapses' = lapses + 1 /\ faults + lapses < MaxFaults
      BY <1>3 DEF Lapse
    <2> HIDE DEF k
    <2>4. job' \in [Job -> JobRecord]
      BY <2>1, <2>2 DEF JobsTyped, JobRecord
    <2>5. ASSUME NEW i \in Job PROVE Paid(job[i], faults + lapses)'
      BY <2>1, <2>2, <2>3, <1>0, RunConstants DEF Paid, Spent, JobRecord, JobsTyped
    <2> QED BY <2>3, <2>4, <2>5, RunConstants DEF JobsTyped
  <1>4. ASSUME NEW w \in Worker, Crash(w) PROVE JobsTyped'
    <2>1. faults' = faults + 1 /\ retries' = retries /\ lapses' = lapses /\ faults + lapses < MaxFaults
      BY <1>4 DEF Crash, Fault
    <2>2. job' = [j \in Job |-> IF job[j].lease = w THEN [job[j] EXCEPT !.lease = None]
                                ELSE job[j]]
      BY <1>4 DEF Crash
    <2>3. job' \in [Job -> JobRecord]
      BY <2>2, <1>0 DEF JobsTyped, JobRecord
    <2>4. ASSUME NEW i \in Job PROVE Paid(job[i], faults + lapses)'
      BY <2>1, <2>2, <1>0, RunConstants DEF Paid, Spent, JobRecord, JobsTyped
    <2> QED BY <2>1, <2>3, <2>4, RunConstants DEF JobsTyped
  <1>5. ASSUME NEW w \in Worker, Complete(w) PROVE JobsTyped'
    <2> PICK j \in Job : Complete(w)!(j)
      BY <1>5 DEF Complete
    <2>1. CASE Current(w)
      <3> DEFINE r == [job[j] EXCEPT !.status = "COMMITTED", !.lease = None]
      <3>1. r \in JobRecord /\ Paid(r, faults + lapses)
        <4>1. r \in JobRecord /\ r.lease = None /\ r.status = "COMMITTED"
              /\ r.attempts = job[j].attempts
          BY <1>0 DEF JobRecord, Status
        <4> HIDE DEF r
        <4> QED BY <4>1, <1>a
      <3>2. job' = [job EXCEPT ![j] = r]
        BY <2>1
      <3>3. UNCHANGED <<faults, lapses, retries>> /\ retries \in Nat
        BY DEF JobsTyped
      <3> HIDE DEF r
      <3> QED BY <3>1, <3>2, <3>3, JobsPut
    <2> QED BY <2>1, <1>1
  <1>6. ASSUME NEW w \in Worker, Fail(w) PROVE JobsTyped'
    <2> PICK j \in Job : Fail(w)!(j)
      BY <1>6 DEF Fail
    <2>1. CASE Current(w)
      <3>0. job[j].status = "RUNNING" /\ job[j].attempts >= 1
        BY <2>1, <1>0, RunConstants DEF Current, At, Paid
      <3>1. PICK r \in IF run[w].at = "waiting" THEN {WaitingJob(job[j])}
                       ELSE {FailedJob(job[j], b) : b \in BOOLEAN} :
              job' = [job EXCEPT ![j] = r]
        BY <2>1
      <3>2. r \in JobRecord /\ Paid(r, faults + lapses)
        <4>1. CASE r = WaitingJob(job[j])
          <5>3. job[j] \in JobRecord /\ job[j].attempts - 1 \in Nat
            BY <3>0, <1>0 DEF JobRecord
          <5>1. r \in JobRecord /\ r.lease = None /\ r.status = "QUEUED"
                /\ r.attempts = job[j].attempts - 1
            BY <4>1, <5>3 DEF JobRecord, Status, WaitingJob
          <5>2. r.attempts < job[j].attempts
            BY <5>1, <1>0 DEF JobRecord
          <5> QED BY <5>1, <5>2, <1>a
        <4>2. ASSUME NEW b \in BOOLEAN, r = FailedJob(job[j], b)
              PROVE  r \in JobRecord /\ Paid(r, faults + lapses)
          <5>1. /\ r \in JobRecord /\ r.lease = None /\ r.attempts = job[j].attempts
                /\ r.status = IF b /\ job[j].attempts < MaxAttempts THEN "QUEUED" ELSE "FAILED"
            BY <4>2, <1>0 DEF FailedJob, JobRecord, Status
          <5>2. r.status = "FAILED" \/ (r.status = "QUEUED" /\ r.attempts < MaxAttempts)
            BY <5>1
          <5> QED BY <5>1, <5>2, <1>a
        <4> QED BY <3>1, <4>1, <4>2
      <3>3. UNCHANGED <<faults, lapses, retries>> /\ retries \in Nat
        BY DEF JobsTyped
      <3> QED BY <3>1, <3>2, <3>3, JobsPut
    <2> QED BY <2>1, <1>1
  <1>7. ASSUME NEW j \in Job, RetryFailed(j) PROVE JobsTyped'
    <2> DEFINE r == [job[j] EXCEPT !.status = "QUEUED", !.attempts = 0]
    <2>3. job[j].lease = None
      BY <1>7, <1>0 DEF RetryFailed, Paid
    <2>5. job[j] \in JobRecord /\ 0 \in Nat /\ 0 < MaxAttempts /\ "QUEUED" \in Status
      BY <1>0 DEF Status
    <2>4. r \in JobRecord /\ r.lease = None /\ r.status = "QUEUED" /\ r.attempts < MaxAttempts
      BY <2>3, <2>5 DEF JobRecord
    <2>1. r \in JobRecord /\ Paid(r, faults + lapses)
      <3> HIDE DEF r
      <3> QED BY <2>4, <1>a
    <2>2. job' = [job EXCEPT ![j] = r] /\ UNCHANGED <<faults, lapses>> /\ retries' = retries + 1
          /\ retries \in Nat
      BY <1>7 DEF RetryFailed, JobsTyped
    <2>6. retries' \in Nat
      BY <2>2
    <2> HIDE DEF r
    <2> QED BY <2>1, <2>2, <2>6, JobsPut
  <1>8. ASSUME NEW j \in Job, ExpireJob(j) PROVE JobsTyped'
    <2> DEFINE r == [job[j] EXCEPT !.status = "deleted"]
    <2>1. r \in JobRecord /\ Paid(r, faults + lapses)
      BY <1>8, <1>0, RunConstants DEF ExpireJob, JobRecord, Status, Paid, Spent, JobsTyped
    <2>2. job' = [job EXCEPT ![j] = r] /\ UNCHANGED <<faults, lapses, retries>> /\ retries \in Nat
      BY <1>8 DEF ExpireJob, JobsTyped
    <2> HIDE DEF r
    <2> QED BY <2>1, <2>2, JobsPut
  <1>9. ASSUME NEW w \in Worker, Recover(w) \/ Execute(w) \/ StoreProduct(w) \/ FinalizeReceipt(w)
        PROVE  JobsTyped'
    BY <1>9, <1>1 DEF Recover, RecoverPending, InspectJournal, InspectRolledBack, InspectDiscard,
       InspectNoJournal, Execute, MakePlan, PrepareReceipt, RefuseCommit, BeginCommit, EndCommit,
       StoreProduct, FinalizeReceipt, disk
  <1>10. ASSUME NEW w \in Worker, CommitFails(w) \/ StepFails(w) \/ Cleanup(w) PROVE JobsTyped'
    BY <1>10, <1>1, FaultTyped DEF CommitFails, StepFails, Cleanup, disk
  <1>11. ASSUME NEW j \in Job, ReleaseHistory(j) \/ ExpireJournal(j) \/ ExpireReceipt(j)
         PROVE  JobsTyped'
    BY <1>11, <1>1 DEF ReleaseHistory, ExpireJournal, ExpireReceipt
  <1> HIDE DEF Typed
  <1> QED BY <1>1, <1>2, <1>3, <1>4, <1>5, <1>6, <1>7, <1>8, <1>9, <1>10, <1>11
          DEF Next, RunClaimed, Finalize, Lifecycle, vars, disk

LEMMA ReceiptsPut ==
    ASSUME ReceiptsTyped, NEW j \in Job, NEW r \in ReceiptRecord,
           r = NoReceipt \/ (r.state # "absent" /\ r.plan \in Plan),
           receipt' = [receipt EXCEPT ![j] = r]
    PROVE  ReceiptsTyped'
  BY DEF ReceiptsTyped, NoReceipt

LEMMA DiscardPreparedTyped ==
    ASSUME ReceiptsTyped, NEW j \in Job, receipt' = WithoutPrepared(j) PROVE ReceiptsTyped'
  BY DEF ReceiptsTyped, WithoutPrepared, NoReceipt, ReceiptRecord, ReceiptState

LEMMA ReceiptsTypedStep == Typed /\ [Next]_vars => ReceiptsTyped'
  <1> SUFFICES ASSUME Typed, [Next]_vars PROVE ReceiptsTyped'
    OBVIOUS
  <1> USE DEF Typed
  <1>1. ASSUME UNCHANGED receipt PROVE ReceiptsTyped'
    BY <1>1 DEF ReceiptsTyped
  <1>2. ASSUME NEW w \in Worker, PrepareReceipt(w) PROVE ReceiptsTyped'
    <2> PICK j \in Job : PrepareReceipt(w)!(j)
      BY <1>2 DEF PrepareReceipt
    <2>1. CASE receipt[j] = NoReceipt
      <3> DEFINE r == [state |-> "PREPARED", plan |-> run[w].plan]
      <3>1. r \in ReceiptRecord /\ r.state # "absent" /\ r.plan \in Plan
        BY DEF RunsTyped, Whole, At, Unplanned, ReceiptRecord, ReceiptState
      <3> QED BY <2>1, <3>1, ReceiptsPut
    <2> QED BY <2>1, <1>1
  <1>3. ASSUME NEW w \in Worker, FinalizeReceipt(w) PROVE ReceiptsTyped'
    <2> PICK j \in Job : FinalizeReceipt(w)!(j)
      BY <1>3 DEF FinalizeReceipt
    <2>1. CASE Finalizable(w, j)
      <3> DEFINE r == [receipt[j] EXCEPT !.state = "COMMITTED"]
      <3>1. r \in ReceiptRecord /\ r.state # "absent" /\ r.plan \in Plan
        BY <2>1 DEF ReceiptsTyped, ReceiptRecord, ReceiptState, Finalizable
      <3>2. receipt' = [receipt EXCEPT ![j] = r]
        BY <2>1
      <3> QED BY <3>1, <3>2, ReceiptsPut
    <2> QED BY <2>1, <1>1
  <1>4. ASSUME NEW w \in Worker, InspectRolledBack(w) \/ InspectNoJournal(w) PROVE ReceiptsTyped'
    BY <1>4, <1>1, DiscardPreparedTyped DEF InspectRolledBack, InspectNoJournal
  <1>5. ASSUME NEW w \in Worker, Fail(w) PROVE ReceiptsTyped'
    BY <1>5, <1>1, DiscardPreparedTyped DEF Fail, DiscardUncommitted
  <1>6. ASSUME NEW j \in Job, ExpireReceipt(j) PROVE ReceiptsTyped'
    <2>1. NoReceipt \in ReceiptRecord
      BY DEF NoReceipt, ReceiptRecord, ReceiptState
    <2> QED BY <2>1, <1>6, ReceiptsPut DEF ExpireReceipt
  <1>7. ASSUME NEW w \in Worker, Claim(w) \/ CommitFails(w) \/ StepFails(w) \/ Crash(w) \/ Lapse(w)
        PROVE  ReceiptsTyped'
    BY <1>7, <1>1 DEF Claim, CommitFails, StepFails, Crash, Lapse, disk
  <1>8. ASSUME NEW w \in Worker, RecoverPending(w) \/ InspectJournal(w) \/ InspectDiscard(w)
        PROVE  ReceiptsTyped'
    BY <1>8, <1>1 DEF RecoverPending, InspectJournal, InspectDiscard, disk
  <1>9. ASSUME NEW w \in Worker, MakePlan(w) \/ RefuseCommit(w) \/ BeginCommit(w) \/ EndCommit(w)
        PROVE  ReceiptsTyped'
    BY <1>9, <1>1 DEF MakePlan, RefuseCommit, BeginCommit, EndCommit, disk
  <1>10. ASSUME NEW w \in Worker, StoreProduct(w) \/ Complete(w) \/ Cleanup(w) PROVE ReceiptsTyped'
    BY <1>10, <1>1 DEF StoreProduct, Complete, Cleanup
  <1>11. ASSUME NEW j \in Job, RetryFailed(j) \/ ReleaseHistory(j) \/ ExpireJournal(j) \/ ExpireJob(j)
         PROVE  ReceiptsTyped'
    BY <1>11, <1>1 DEF RetryFailed, ReleaseHistory, ExpireJournal, ExpireJob
  <1> HIDE DEF Typed
  <1> QED BY <1>1, <1>2, <1>3, <1>4, <1>5, <1>6, <1>7, <1>8, <1>9, <1>10, <1>11
          DEF Next, RunClaimed, Recover, Execute, Finalize, Lifecycle, vars, disk

LEMMA JournalsPut ==
    ASSUME JournalsTyped, NEW j \in Job, NEW r \in JournalRecord,
           r.state # "absent" => r.plan \in Plan,
           journal' = [journal EXCEPT ![j] = r], applied' \in Seq([job: Job, plan: Plan])
    PROVE  JournalsTyped'
  BY DEF JournalsTyped

LEMMA NoJournalTyped == NoJournal \in JournalRecord /\ NoJournal.state = "absent"
  BY DEF NoJournal, JournalRecord, JournalState

LEMMA ShowTyped ==
    ASSUME JournalsTyped, NEW j \in Job, journal[j].state = "PREPARED",
           journal' = [journal EXCEPT ![j] = Marked(@)], applied' = Shown(j)
    PROVE  JournalsTyped'
  <1> DEFINE r == [journal[j] EXCEPT !.state = "COMMITTED"]
             e == [job |-> j, plan |-> journal[j].plan]
  <1>1. r \in JournalRecord /\ r.plan \in Plan
    BY DEF JournalsTyped, JournalRecord, JournalState
  <1>2. e \in [job: Job, plan: Plan]
    BY DEF JournalsTyped
  <1>3. applied' \in Seq([job: Job, plan: Plan])
    <2> DEFINE Entry == [job: Job, plan: Plan]
    <2>1. e \in Entry /\ applied \in Seq(Entry) /\ applied' = Append(applied, e)
      BY <1>2 DEF JournalsTyped, Shown
    <2> HIDE DEF e, Entry
    <2>2. applied' \in Seq(Entry)
      BY <2>1
    <2> QED BY <2>2 DEF Entry
  <1>4. journal' = [journal EXCEPT ![j] = r]
    BY DEF Marked
  <1> QED BY <1>1, <1>3, <1>4, JournalsPut

LEMMA JournalsTypedStep == Typed /\ Backed /\ [Next]_vars => JournalsTyped'
  <1> SUFFICES ASSUME Typed, Backed, [Next]_vars PROVE JournalsTyped'
    OBVIOUS
  <1> USE DEF Typed
  <1>1. ASSUME UNCHANGED <<journal, applied>> PROVE JournalsTyped'
    BY <1>1 DEF JournalsTyped
  <1>p. ASSUME NEW w \in Worker, NEW j \in Job, At(w, j, "publishing")
        PROVE  journal[j].state = "PREPARED"
    <2>1. journal[run[w].job] = [state |-> "PREPARED", plan |-> run[w].plan]
      BY <1>p DEF At, Backed, RunBacked
    <2> QED BY <1>p, <2>1 DEF At
  <1>0. ASSUME NEW j \in Job, NEW state \in {"ROLLED_BACK", "PREPARED"},
               journal[j].state # "absent",
               journal' = [journal EXCEPT ![j].state = state], applied' = applied
        PROVE  JournalsTyped'
    BY <1>0 DEF JournalsTyped, JournalRecord, JournalState
  <1>2. ASSUME NEW w \in Worker, RecoverPending(w) PROVE JournalsTyped'
    <2>1. CASE UNCHANGED <<journal, applied>>
      BY <2>1, <1>1
    <2>2. ASSUME NEW i \in Pending, journal' = [journal EXCEPT ![i] = Marked(@)], applied' = Shown(i)
          PROVE  JournalsTyped'
      BY <2>2, ShowTyped DEF Pending
    <2>3. ASSUME NEW i \in Pending, journal' = [journal EXCEPT ![i].state = "ROLLED_BACK"],
                 applied' = applied
          PROVE  JournalsTyped'
      BY <2>3, <1>0 DEF Pending
    <2> QED BY <1>2, <2>1, <2>2, <2>3 DEF RecoverPending
  <1>3. ASSUME NEW w \in Worker, InspectDiscard(w) PROVE JournalsTyped'
    <2>1. applied' \in Seq([job: Job, plan: Plan]) /\ applied' = applied
      BY <1>3 DEF InspectDiscard, JournalsTyped
    <2> QED BY <2>1, <1>3, <1>1, JournalsPut, NoJournalTyped DEF InspectDiscard
  <1>4. ASSUME NEW w \in Worker, BeginCommit(w) PROVE JournalsTyped'
    <2> PICK j \in Job : BeginCommit(w)!(j)
      BY <1>4 DEF BeginCommit
    <2> DEFINE r == [state |-> "PREPARED", plan |-> run[w].plan]
    <2>1. r \in JournalRecord /\ r.plan \in Plan
      BY DEF RunsTyped, Whole, At, Unplanned, JournalRecord, JournalState
    <2>2. applied' \in Seq([job: Job, plan: Plan])
      BY DEF JournalsTyped
    <2> QED BY <2>1, <2>2, JournalsPut
  <1>5. ASSUME NEW w \in Worker, EndCommit(w) PROVE JournalsTyped'
    BY <1>5, <1>p, ShowTyped DEF EndCommit
  <1>6. ASSUME NEW w \in Worker, CommitFails(w) PROVE JournalsTyped'
    <2> PICK j \in Job, state \in {"ROLLED_BACK", "PREPARED"} : CommitFails(w)!(j, state)
      BY <1>6 DEF CommitFails
    <2>1. journal[j].state # "absent"
      BY <1>p
    <2> QED BY <2>1, <1>0
  <1>7. ASSUME NEW w \in Worker, Cleanup(w) PROVE JournalsTyped'
    BY <1>7, <1>1 DEF Cleanup, Cleaned, JournalsTyped, NoJournal, JournalRecord, JournalState
  <1>8. ASSUME NEW w \in Worker, Fail(w) PROVE JournalsTyped'
    BY <1>8, <1>1 DEF Fail, DiscardUncommitted, JournalsTyped, NoJournal, JournalRecord, JournalState
  <1>9. ASSUME NEW j \in Job, ExpireJournal(j) PROVE JournalsTyped'
    <2>1. applied' \in Seq([job: Job, plan: Plan])
      BY <1>9 DEF ExpireJournal, JournalsTyped
    <2> QED BY <2>1, <1>9, JournalsPut, NoJournalTyped DEF ExpireJournal
  <1>10. ASSUME NEW w \in Worker, Claim(w) \/ StepFails(w) \/ Crash(w) \/ Lapse(w)
         PROVE  JournalsTyped'
    BY <1>10, <1>1 DEF Claim, StepFails, Crash, Lapse, disk
  <1>11. ASSUME NEW w \in Worker, InspectJournal(w) \/ InspectRolledBack(w) \/ InspectNoJournal(w)
         PROVE  JournalsTyped'
    BY <1>11, <1>1 DEF InspectJournal, InspectRolledBack, InspectNoJournal, disk
  <1>12. ASSUME NEW w \in Worker, MakePlan(w) \/ RefuseCommit(w) \/ PrepareReceipt(w)
         PROVE  JournalsTyped'
    BY <1>12, <1>1 DEF MakePlan, RefuseCommit, PrepareReceipt, disk
  <1>13. ASSUME NEW w \in Worker, StoreProduct(w) \/ FinalizeReceipt(w) \/ Complete(w)
         PROVE  JournalsTyped'
    BY <1>13, <1>1 DEF StoreProduct, FinalizeReceipt, Complete
  <1>14. ASSUME NEW j \in Job, RetryFailed(j) \/ ReleaseHistory(j) \/ ExpireJob(j) \/ ExpireReceipt(j)
         PROVE  JournalsTyped'
    BY <1>14, <1>1 DEF RetryFailed, ReleaseHistory, ExpireJob, ExpireReceipt
  <1> HIDE DEF Typed
  <1> QED BY <1>1, <1>2, <1>3, <1>4, <1>5, <1>6, <1>7, <1>8, <1>9, <1>10, <1>11, <1>12, <1>13, <1>14
          DEF Next, RunClaimed, Recover, Execute, Finalize, Lifecycle, vars, disk

LEMMA OthersTypedStep == Typed /\ [Next]_vars => OthersTyped'
  <1> SUFFICES ASSUME Typed, [Next]_vars PROVE OthersTyped'
    OBVIOUS
  <1>1. ASSUME UNCHANGED <<done, released>> PROVE OthersTyped'
    BY <1>1, Typed DEF OthersTyped, Typed
  <1>2. ASSUME NEW w \in Worker, MakePlan(w) \/ StoreProduct(w) PROVE OthersTyped'
    <2> PICK j \in Job, stage \in Product : /\ done' = [done EXCEPT ![j] = @ \cup {stage}]
                                           /\ UNCHANGED released
      BY <1>2 DEF MakePlan, StoreProduct, Product
    <2> QED BY Typed DEF OthersTyped, Typed
  <1>3. ASSUME NEW j \in Job, ReleaseHistory(j) PROVE OthersTyped'
    BY <1>3, Typed DEF ReleaseHistory, OthersTyped, Typed
  <1>4. ASSUME NEW w \in Worker, Recover(w) \/ Fail(w) PROVE OthersTyped'
    BY <1>4, <1>1 DEF Recover, RecoverPending, InspectJournal, InspectRolledBack, InspectDiscard,
       InspectNoJournal, Fail, disk
  <1>5. ASSUME NEW w \in Worker, PrepareReceipt(w) \/ RefuseCommit(w) \/ BeginCommit(w) \/ EndCommit(w)
        PROVE  OthersTyped'
    BY <1>5, <1>1 DEF PrepareReceipt, RefuseCommit, BeginCommit, EndCommit, disk
  <1>6. ASSUME NEW w \in Worker, FinalizeReceipt(w) \/ Complete(w) \/ Cleanup(w) PROVE OthersTyped'
    BY <1>6, <1>1 DEF FinalizeReceipt, Complete, Cleanup
  <1>7. ASSUME NEW w \in Worker, Claim(w) \/ CommitFails(w) \/ StepFails(w) \/ Crash(w) \/ Lapse(w)
        PROVE  OthersTyped'
    BY <1>7, <1>1 DEF Claim, CommitFails, StepFails, Crash, Lapse, disk
  <1>8. ASSUME NEW j \in Job, RetryFailed(j) \/ ExpireJournal(j) \/ ExpireJob(j) \/ ExpireReceipt(j)
        PROVE  OthersTyped'
    BY <1>8, <1>1 DEF RetryFailed, ExpireJournal, ExpireJob, ExpireReceipt
  <1> QED BY <1>1, <1>2, <1>3, <1>4, <1>5, <1>6, <1>7, <1>8
          DEF Next, RunClaimed, Execute, Finalize, Lifecycle, vars, disk

LEMMA TypedStep == Typed /\ Backed /\ [Next]_vars => Typed'
  BY RunsTypedStep, JobsTypedStep, ReceiptsTypedStep, JournalsTypedStep, OthersTypedStep DEF Typed

-----------------------------------------------------------------------------
(* What a step never takes back.                                            *)

LEMMA AppliedStep ==
    Typed /\ Backed /\ [Next]_vars =>
        \/ applied' = applied
        \/ \E j \in Job : /\ journal[j].state = "PREPARED" /\ applied' = Shown(j)
                          /\ journal'[j] = Marked(journal[j])
  <1> DEFINE Extended == \E j \in Job : /\ journal[j].state = "PREPARED" /\ applied' = Shown(j)
                                       /\ journal'[j] = Marked(journal[j])
  <1> SUFFICES ASSUME Typed, Backed, [Next]_vars PROVE applied' = applied \/ Extended
    OBVIOUS
  <1>0. journal \in [Job -> JournalRecord]
    BY DEF Typed, JournalsTyped
  <1>1. ASSUME NEW w \in Worker, RecoverPending(w) PROVE applied' = applied \/ Extended
    BY <1>1, <1>0 DEF RecoverPending, Pending
  <1>2. ASSUME NEW w \in Worker, EndCommit(w) PROVE Extended
    <2> PICK j \in Job : EndCommit(w)!(j)
      BY <1>2 DEF EndCommit
    <2>1. journal[j] = [state |-> "PREPARED", plan |-> run[w].plan]
      BY DEF At, Backed, RunBacked
    <2>2. journal[j].state = "PREPARED"
      BY <2>1
    <2> QED BY <2>2, <1>0
  <1> HIDE DEF Extended
  <1>3. ASSUME NEW w \in Worker, Recover(w) PROVE RecoverPending(w) \/ applied' = applied
    BY <1>3 DEF Recover, InspectJournal, InspectRolledBack, InspectDiscard, InspectNoJournal, disk
  <1>4. ASSUME NEW w \in Worker, Execute(w) PROVE EndCommit(w) \/ applied' = applied
    BY <1>4 DEF Execute, MakePlan, PrepareReceipt, RefuseCommit, BeginCommit, disk
  <1>5. ASSUME NEW w \in Worker, Finalize(w) \/ Fail(w) PROVE applied' = applied
    BY <1>5 DEF Finalize, StoreProduct, FinalizeReceipt, Complete, Cleanup, Fail
  <1>6. ASSUME NEW w \in Worker, Claim(w) \/ CommitFails(w) \/ StepFails(w) \/ Crash(w) \/ Lapse(w)
        PROVE  applied' = applied
    BY <1>6 DEF Claim, CommitFails, StepFails, Crash, Lapse, disk
  <1>7. ASSUME NEW j \in Job, RetryFailed(j) \/ Lifecycle(j) PROVE applied' = applied
    BY <1>7 DEF RetryFailed, Lifecycle, ReleaseHistory, ExpireJournal, ExpireJob, ExpireReceipt
  <1> QED BY <1>1, <1>2, <1>3, <1>4, <1>5, <1>6, <1>7 DEF Next, RunClaimed, vars, disk

(* The log with one transaction more.                                       *)
LEMMA ShownIs ==
    ASSUME JournalsTyped, NEW j \in Job, journal[j].state = "PREPARED"
    PROVE  /\ Len(applied) \in Nat /\ Len(Shown(j)) = Len(applied) + 1
           /\ \A i \in 1..Len(applied) : Shown(j)[i] = applied[i] /\ applied[i].job \in Job
           /\ Shown(j)[Len(applied) + 1] = [job |-> j, plan |-> journal[j].plan]
  <1> DEFINE Entry == [job: Job, plan: Plan]
             e == [job |-> j, plan |-> journal[j].plan]
  <1>1. e \in Entry /\ applied \in Seq(Entry) /\ Shown(j) = Append(applied, e)
    BY DEF JournalsTyped, Shown
  <1>2. \A x \in Entry : x.job \in Job
    OBVIOUS
  <1> HIDE DEF e, Entry
  <1>3. /\ Len(applied) \in Nat /\ Len(Shown(j)) = Len(applied) + 1
        /\ \A i \in 1..Len(applied) : Shown(j)[i] = applied[i] /\ applied[i] \in Entry
        /\ Shown(j)[Len(applied) + 1] = e
    BY <1>1
  <1> QED BY <1>2, <1>3 DEF e

LEMMA MemoryGrows ==
    Typed /\ Backed /\ [Next]_vars => \A j, p : Shows(applied, j, p) => Shows(applied', j, p)
  <1> SUFFICES ASSUME Typed, Backed, [Next]_vars, NEW j, NEW p, Shows(applied, j, p)
               PROVE  Shows(applied', j, p)
    OBVIOUS
  <1>1. PICK i \in 1..Len(applied) : applied[i] = [job |-> j, plan |-> p]
    BY DEF Shows
  <1>2. ASSUME NEW k \in Job, journal[k].state = "PREPARED", applied' = Shown(k)
        PROVE  i \in 1..Len(applied') /\ applied'[i] = applied[i]
    <2>1. /\ Len(applied) \in Nat /\ Len(Shown(k)) = Len(applied) + 1
          /\ \A n \in 1..Len(applied) : Shown(k)[n] = applied[n]
      BY <1>2, ShownIs DEF Typed
    <2> QED BY <1>1, <1>2, <2>1
  <1> QED BY <1>1, <1>2, AppliedStep DEF Shows

LEMMA DoneGrows == Typed /\ [Next]_vars => \A j \in Job : done[j] \subseteq done'[j]
  <1> SUFFICES ASSUME Typed, [Next]_vars PROVE \A j \in Job : done[j] \subseteq done'[j]
    OBVIOUS
  <1>1. ASSUME NEW w \in Worker, MakePlan(w) \/ StoreProduct(w)
        PROVE  \A j \in Job : done[j] \subseteq done'[j]
    BY <1>1 DEF MakePlan, StoreProduct, Typed, OthersTyped
  <1>2. ASSUME NEW w \in Worker, Recover(w) \/ Fail(w) PROVE done' = done
    BY <1>2 DEF Recover, RecoverPending, InspectJournal, InspectRolledBack, InspectDiscard,
       InspectNoJournal, Fail, disk
  <1>3. ASSUME NEW w \in Worker, Execute(w) PROVE MakePlan(w) \/ done' = done
    BY <1>3 DEF Execute, PrepareReceipt, RefuseCommit, BeginCommit, EndCommit, disk
  <1>4. ASSUME NEW w \in Worker, Finalize(w) PROVE StoreProduct(w) \/ done' = done
    BY <1>4 DEF Finalize, FinalizeReceipt, Complete, Cleanup
  <1>5. ASSUME NEW w \in Worker, Claim(w) \/ CommitFails(w) \/ StepFails(w) \/ Crash(w) \/ Lapse(w)
        PROVE  done' = done
    BY <1>5 DEF Claim, CommitFails, StepFails, Crash, Lapse, disk
  <1>6. ASSUME NEW j \in Job, RetryFailed(j) \/ Lifecycle(j) PROVE done' = done
    BY <1>6 DEF RetryFailed, Lifecycle, ReleaseHistory, ExpireJournal, ExpireJob, ExpireReceipt
  <1> QED BY <1>1, <1>2, <1>3, <1>4, <1>5, <1>6 DEF Next, RunClaimed, vars, disk

(* What happens to the status of a job: only store.complete makes it        *)
(* COMMITTED, and only of a RUNNING job; only the lifecycle deletes it.     *)
LEMMA StatusStep ==
    Typed /\ [Next]_vars => \A j \in Job :
        \/ job'[j].status = job[j].status
        \/ job[j].status \in {"QUEUED", "RUNNING", "FAILED"} /\ job'[j].status \in {"QUEUED", "RUNNING", "FAILED"}
        \/ \E w \in Worker : Complete(w) /\ run[w].job = j /\ job[j].status = "RUNNING"
                             /\ job'[j].status = "COMMITTED"
        \/ job[j].status = "COMMITTED" /\ job'[j].status = "deleted"
  <1> DEFINE Open == {"QUEUED", "RUNNING", "FAILED"}
             Kind(j) == \/ job'[j].status = job[j].status
                        \/ job[j].status \in Open /\ job'[j].status \in Open
                        \/ \E w \in Worker : Complete(w) /\ run[w].job = j /\ job[j].status = "RUNNING"
                                             /\ job'[j].status = "COMMITTED"
                        \/ job[j].status = "COMMITTED" /\ job'[j].status = "deleted"
  <1> SUFFICES ASSUME Typed, [Next]_vars, NEW j \in Job PROVE Kind(j)
    BY Zenon
  <1>0. job \in [Job -> JobRecord] /\ \A i \in Job : job[i] \in JobRecord /\ (job[i].lease # None => job[i].status = "RUNNING")
    BY DEF Typed, JobsTyped, Paid
  <1>1. ASSUME job' = job PROVE Kind(j)
    BY <1>1
  <1>2. ASSUME NEW w \in Worker, Claim(w) PROVE Kind(j)
    BY <1>0, <1>2 DEF Claim, Claimable
  <1>3. ASSUME NEW w \in Worker, Lapse(w) \/ Crash(w) PROVE Kind(j)
    <2>1. job'[j].status = job[j].status
      <3>1. CASE Crash(w)
        BY <3>1, <1>0 DEF Crash, JobRecord
      <3>2. CASE Lapse(w)
        <4> DEFINE k == run[w].job
        <4>1. job' = [job EXCEPT ![k].lease = None]
          BY <3>2 DEF Lapse
        <4> HIDE DEF k
        <4> QED BY <4>1, <1>0 DEF JobRecord
      <3> QED BY <3>1, <3>2, <1>3
    <2> QED BY <2>1
  <1>4. ASSUME NEW w \in Worker, Complete(w) PROVE Kind(j)
    <2> PICK i \in Job : Complete(w)!(i)
      BY <1>4 DEF Complete
    <2>1. CASE Current(w)
      <3>1. job[i].status = "RUNNING" /\ run[w].job = i
        BY <2>1, <1>0, RunConstants DEF Current, At
      <3>2. job' = [job EXCEPT ![i].status = "COMMITTED", ![i].lease = None]
        BY <2>1
      <3>3. job'[i].status = "COMMITTED" /\ (j # i => job'[j] = job[j])
        BY <3>2, <1>0 DEF JobRecord
      <3> QED BY <3>1, <3>3, <1>4
    <2> QED BY <2>1, <1>1
  <1>5. ASSUME NEW w \in Worker, Fail(w) PROVE Kind(j)
    <2> PICK i \in Job : Fail(w)!(i)
      BY <1>5 DEF Fail
    <2>1. CASE Current(w)
      <3>1. job[i].status = "RUNNING"
        BY <2>1, <1>0, RunConstants DEF Current, At
      <3>2. PICK r \in IF run[w].at = "waiting" THEN {WaitingJob(job[i])}
                       ELSE {FailedJob(job[i], b) : b \in BOOLEAN} :
              job' = [job EXCEPT ![i] = r]
        BY <2>1
      <3>3. r.status \in Open
        BY <3>2, <1>0 DEF WaitingJob, FailedJob, JobRecord
      <3> QED BY <3>1, <3>2, <3>3, <1>0
    <2> QED BY <2>1, <1>1
  <1>6. ASSUME NEW i \in Job, RetryFailed(i) \/ ExpireJob(i) PROVE Kind(j)
    BY <1>0, <1>6 DEF RetryFailed, ExpireJob, JobRecord
  <1>7. ASSUME NEW w \in Worker, Recover(w) \/ Execute(w) \/ StoreProduct(w) \/ FinalizeReceipt(w)
        PROVE  job' = job
    BY <1>7 DEF Recover, RecoverPending, InspectJournal, InspectRolledBack, InspectDiscard,
       InspectNoJournal, Execute, MakePlan, PrepareReceipt, RefuseCommit, BeginCommit, EndCommit,
       StoreProduct, FinalizeReceipt, disk
  <1>8. ASSUME NEW w \in Worker, CommitFails(w) \/ StepFails(w) \/ Cleanup(w) PROVE job' = job
    BY <1>8 DEF CommitFails, StepFails, Cleanup, disk
  <1>9. ASSUME NEW i \in Job, ReleaseHistory(i) \/ ExpireJournal(i) \/ ExpireReceipt(i)
        PROVE  job' = job
    BY <1>9 DEF ReleaseHistory, ExpireJournal, ExpireReceipt
  <1> HIDE DEF Kind
  <1> QED BY <1>1, <1>2, <1>3, <1>4, <1>5, <1>6, <1>7, <1>8, <1>9
          DEF Next, RunClaimed, Finalize, Lifecycle, vars, disk

(* What happens to a receipt: only FinalizeReceipt makes it COMMITTED, and  *)
(* a COMMITTED one is there until its job is deleted.                       *)
LEMMA ReceiptStep ==
    Typed /\ [Next]_vars => \A j \in Job :
        \/ receipt'[j] = receipt[j]
        \/ receipt[j].state # "COMMITTED" /\ receipt'[j].state # "COMMITTED"
        \/ \E w \in Worker : At(w, j, "receipt") /\ receipt[j].plan = run[w].plan
                             /\ receipt'[j] = [receipt[j] EXCEPT !.state = "COMMITTED"]
        \/ job[j].status = "deleted" /\ receipt[j].state = "COMMITTED" /\ receipt'[j] = NoReceipt
  <1> DEFINE Kind(j) ==
        \/ receipt'[j] = receipt[j]
        \/ receipt[j].state # "COMMITTED" /\ receipt'[j].state # "COMMITTED"
        \/ \E w \in Worker : At(w, j, "receipt") /\ receipt[j].plan = run[w].plan
                             /\ receipt'[j] = [receipt[j] EXCEPT !.state = "COMMITTED"]
        \/ job[j].status = "deleted" /\ receipt[j].state = "COMMITTED" /\ receipt'[j] = NoReceipt
  <1> SUFFICES ASSUME Typed, [Next]_vars, NEW j \in Job PROVE Kind(j)
    BY Zenon
  <1>0. receipt \in [Job -> ReceiptRecord]
    BY DEF Typed, ReceiptsTyped
  <1>1. ASSUME receipt' = receipt PROVE Kind(j)
    BY <1>1
  <1>2. ASSUME NEW i \in Job, receipt' = WithoutPrepared(i) PROVE Kind(j)
    BY <1>2, <1>0 DEF WithoutPrepared, NoReceipt
  <1>3. ASSUME NEW w \in Worker, PrepareReceipt(w) PROVE Kind(j)
    <2> PICK i \in Job : PrepareReceipt(w)!(i)
      BY <1>3 DEF PrepareReceipt
    <2>1. \/ /\ receipt[i] = NoReceipt
             /\ receipt' = [receipt EXCEPT ![i] = [state |-> "PREPARED", plan |-> run[w].plan]]
          \/ receipt' = receipt
      OBVIOUS
    <2> QED BY <2>1, <1>0 DEF NoReceipt
  <1>4. ASSUME NEW w \in Worker, FinalizeReceipt(w) PROVE Kind(j)
    <2> PICK i \in Job : FinalizeReceipt(w)!(i)
      BY <1>4 DEF FinalizeReceipt
    <2>1. CASE Finalizable(w, i) /\ i = j
      <3>1. At(w, j, "receipt") /\ receipt[j].plan = run[w].plan
            /\ receipt'[j] = [receipt[j] EXCEPT !.state = "COMMITTED"]
        BY <2>1, <1>0 DEF Finalizable
      <3> QED BY <3>1
    <2>2. CASE ~(Finalizable(w, i) /\ i = j)
      <3>1. receipt'[j] = receipt[j]
        BY <2>2, <1>0
      <3> QED BY <3>1
    <2> QED BY <2>1, <2>2
  <1>5. ASSUME NEW w \in Worker, InspectRolledBack(w) \/ InspectNoJournal(w) PROVE Kind(j)
    BY <1>5, <1>1, <1>2 DEF InspectRolledBack, InspectNoJournal
  <1>6. ASSUME NEW w \in Worker, Fail(w) PROVE Kind(j)
    BY <1>6, <1>1, <1>2 DEF Fail, DiscardUncommitted
  <1>7. ASSUME NEW i \in Job, ExpireReceipt(i) PROVE Kind(j)
    BY <1>7, <1>0 DEF ExpireReceipt
  <1>8. ASSUME NEW w \in Worker, Claim(w) \/ CommitFails(w) \/ StepFails(w) \/ Crash(w) \/ Lapse(w)
        PROVE  receipt' = receipt
    BY <1>8 DEF Claim, CommitFails, StepFails, Crash, Lapse, disk
  <1>9. ASSUME NEW w \in Worker, RecoverPending(w) \/ InspectJournal(w) \/ InspectDiscard(w)
        PROVE  receipt' = receipt
    BY <1>9 DEF RecoverPending, InspectJournal, InspectDiscard, disk
  <1>10. ASSUME NEW w \in Worker, MakePlan(w) \/ RefuseCommit(w) \/ BeginCommit(w) \/ EndCommit(w)
         PROVE  receipt' = receipt
    BY <1>10 DEF MakePlan, RefuseCommit, BeginCommit, EndCommit, disk
  <1>11. ASSUME NEW w \in Worker, StoreProduct(w) \/ Complete(w) \/ Cleanup(w) PROVE receipt' = receipt
    BY <1>11 DEF StoreProduct, Complete, Cleanup
  <1>12. ASSUME NEW i \in Job, RetryFailed(i) \/ ReleaseHistory(i) \/ ExpireJournal(i) \/ ExpireJob(i)
         PROVE  receipt' = receipt
    BY <1>12 DEF RetryFailed, ReleaseHistory, ExpireJournal, ExpireJob
  <1> HIDE DEF Kind
  <1> QED BY <1>1, <1>3, <1>4, <1>5, <1>6, <1>7, <1>8, <1>9, <1>10, <1>11, <1>12
          DEF Next, RunClaimed, Recover, Execute, Finalize, Lifecycle, vars, disk

(* What happens to a journal file.                                          *)
JournalMoves(j) ==
    \/ journal'[j] = journal[j]
    \/ /\ txlock = None \/ At(txlock, j, "publishing")
       /\ txlock' = None /\ journal[j].state = "PREPARED"
       /\ \/ journal'[j] = Marked(journal[j]) /\ applied' = Shown(j)
          \/ journal'[j].state \in {"PREPARED", "ROLLED_BACK"} /\ journal'[j].plan = journal[j].plan
    \/ \E w \in Worker : /\ At(w, j, "prepared") /\ txlock = None /\ ListsNonePending
                         /\ journal[j].state = "absent"
                         /\ journal'[j] = [state |-> "PREPARED", plan |-> run[w].plan]
                         /\ run'[w].at = "publishing"
    \/ /\ IsTerminal(j) /\ journal'[j] = NoJournal
       /\ \/ j \in released
          \/ \E w \in Worker : /\ At(w, j, "clearing") \/ At(w, j, "cleanup")
                               /\ run'[w] # run[w]
          \/ journal[j].state = "ROLLED_BACK" /\ \E w \in Worker :
                run[w].job = j /\ run[w].at \in {"raised", "waiting"} /\ Current(w)

LEMMA JournalStep == Typed /\ Backed /\ [Next]_vars => \A j \in Job : JournalMoves(j)
  <1> SUFFICES ASSUME Typed, Backed, [Next]_vars, NEW j \in Job PROVE JournalMoves(j)
    OBVIOUS
  <1>0. journal \in [Job -> JournalRecord]
    BY DEF Typed, JournalsTyped
  <1>p. ASSUME NEW w \in Worker, NEW i \in Job, At(w, i, "publishing")
        PROVE  journal[i].state = "PREPARED" /\ txlock = w
    <2>1. journal[run[w].job] = [state |-> "PREPARED", plan |-> run[w].plan]
      BY <1>p DEF At, Backed, RunBacked
    <2> QED BY <1>p, <2>1 DEF At, Typed, RunsTyped
  <1>1. ASSUME journal' = journal PROVE JournalMoves(j)
    BY <1>1 DEF JournalMoves
  <1>2. ASSUME NEW w \in Worker, RecoverPending(w) PROVE JournalMoves(j)
    <2>1. ASSUME NEW i \in Pending, journal' = [journal EXCEPT ![i] = Marked(@)], applied' = Shown(i),
                 txlock = None, txlock' = None
          PROVE  JournalMoves(j)
      BY <2>1, <1>0 DEF Pending, JournalMoves
    <2>2. ASSUME NEW i \in Pending, journal' = [journal EXCEPT ![i].state = "ROLLED_BACK"],
                 txlock = None, txlock' = None
          PROVE  JournalMoves(j)
      <3>1. CASE i = j
        <4>1. journal[j].state = "PREPARED" /\ journal'[j].state = "ROLLED_BACK"
              /\ journal'[j].plan = journal[j].plan
          BY <2>2, <3>1, <1>0 DEF Pending, JournalRecord
        <4> QED BY <4>1, <2>2 DEF JournalMoves
      <3>2. CASE i # j
        BY <2>2, <3>2, <1>0 DEF JournalMoves
      <3> QED BY <3>1, <3>2
    <2> QED BY <1>2, <1>1, <2>1, <2>2 DEF RecoverPending
  <1>3. ASSUME NEW w \in Worker, InspectDiscard(w) PROVE JournalMoves(j)
    <2> PICK i \in Job : InspectDiscard(w)!(i)
      BY <1>3 DEF InspectDiscard
    <2>1. CASE IsTerminal(i) /\ i = j
      <3>1. run'[w].at # "clearing"
        BY <2>1 DEF AfterInspect, Raise, Goto, Continue, Idle, Typed, RunsTyped, RunRecord
      <3>2. At(w, j, "clearing") /\ run'[w] # run[w] /\ journal'[j] = NoJournal
        BY <2>1, <3>1, <1>0 DEF At
      <3> QED BY <2>1, <3>2 DEF JournalMoves
    <2>2. CASE ~(IsTerminal(i) /\ i = j)
      BY <2>2, <1>0 DEF JournalMoves
    <2> QED BY <2>1, <2>2
  <1>4. ASSUME NEW w \in Worker, BeginCommit(w) PROVE JournalMoves(j)
    <2> PICK i \in Job : BeginCommit(w)!(i)
      BY <1>4 DEF BeginCommit
    <2>1. CASE i = j
      <3>1. run'[w].at = "publishing"
        BY DEF Typed, RunsTyped, RunRecord
      <3>2. journal'[j] = [state |-> "PREPARED", plan |-> run[w].plan]
        BY <2>1, <1>0
      <3> QED BY <2>1, <3>1, <3>2 DEF JournalMoves
    <2>2. CASE i # j
      BY <2>2, <1>0 DEF JournalMoves
    <2> QED BY <2>1, <2>2
  <1>5. ASSUME NEW w \in Worker, EndCommit(w) PROVE JournalMoves(j)
    <2> PICK i \in Job : EndCommit(w)!(i)
      BY <1>5 DEF EndCommit
    <2>1. journal[i].state = "PREPARED" /\ txlock = w
      BY <1>p
    <2> QED BY <2>1, <1>0 DEF JournalMoves
  <1>6. ASSUME NEW w \in Worker, CommitFails(w) PROVE JournalMoves(j)
    <2> PICK i \in Job, state \in {"ROLLED_BACK", "PREPARED"} : CommitFails(w)!(i, state)
      BY <1>6 DEF CommitFails
    <2>1. journal[i].state = "PREPARED" /\ txlock = w
      BY <1>p
    <2>2. CASE i = j
      <3>1. journal'[j].state = state /\ journal'[j].plan = journal[j].plan
        BY <2>2, <1>0 DEF JournalRecord
      <3> QED BY <2>1, <2>2, <3>1 DEF JournalMoves
    <2>3. CASE i # j
      BY <2>3, <1>0 DEF JournalMoves
    <2> QED BY <2>2, <2>3
  <1>7. ASSUME NEW w \in Worker, Cleanup(w) PROVE JournalMoves(j)
    <2> PICK i \in Job : Cleanup(w)!(i)
      BY <1>7 DEF Cleanup
    <2>1. At(w, i, "cleanup") /\ run'[w] # run[w]
      BY DEF At, Idle, Typed, RunsTyped
    <2>2. journal' = Cleaned(i) \/ journal' = journal
      OBVIOUS
    <2> QED BY <2>1, <2>2, <1>0 DEF Cleaned, JournalMoves
  <1>8. ASSUME NEW w \in Worker, Fail(w) PROVE JournalMoves(j)
    <2> PICK i \in Job : Fail(w)!(i)
      BY <1>8 DEF Fail
    <2>1. CASE Current(w) /\ i = j /\ journal[j].state = "ROLLED_BACK"
      <3>1. journal'[j] = NoJournal /\ IsTerminal(j)
        BY <2>1, <1>0 DEF DiscardUncommitted, IsTerminal
      <3>2. run[w].job = j /\ run[w].at \in {"raised", "waiting"} /\ Current(w)
        BY <2>1 DEF At
      <3> QED BY <2>1, <3>1, <3>2 DEF JournalMoves
    <2>2. CASE ~(Current(w) /\ i = j /\ journal[j].state = "ROLLED_BACK")
      <3>1. journal'[j] = journal[j]
        BY <2>2, <1>0 DEF DiscardUncommitted
      <3> QED BY <3>1 DEF JournalMoves
    <2> QED BY <2>1, <2>2
  <1>9. ASSUME NEW i \in Job, ExpireJournal(i) PROVE JournalMoves(j)
    BY <1>9, <1>0 DEF ExpireJournal, JournalMoves, IsTerminal
  <1>10. ASSUME NEW w \in Worker, Claim(w) \/ StepFails(w) \/ Crash(w) \/ Lapse(w)
         PROVE  journal' = journal
    BY <1>10 DEF Claim, StepFails, Crash, Lapse, disk
  <1>11. ASSUME NEW w \in Worker, InspectJournal(w) \/ InspectRolledBack(w) \/ InspectNoJournal(w)
         PROVE  journal' = journal
    BY <1>11 DEF InspectJournal, InspectRolledBack, InspectNoJournal, disk
  <1>12. ASSUME NEW w \in Worker, MakePlan(w) \/ RefuseCommit(w) \/ PrepareReceipt(w)
         PROVE  journal' = journal
    BY <1>12 DEF MakePlan, RefuseCommit, PrepareReceipt, disk
  <1>13. ASSUME NEW w \in Worker, StoreProduct(w) \/ FinalizeReceipt(w) \/ Complete(w)
         PROVE  journal' = journal
    BY <1>13 DEF StoreProduct, FinalizeReceipt, Complete
  <1>14. ASSUME NEW i \in Job, RetryFailed(i) \/ ReleaseHistory(i) \/ ExpireJob(i) \/ ExpireReceipt(i)
         PROVE  journal' = journal
    BY <1>14 DEF RetryFailed, ReleaseHistory, ExpireJob, ExpireReceipt
  <1> QED BY <1>1, <1>2, <1>3, <1>4, <1>5, <1>6, <1>7, <1>8, <1>9, <1>10, <1>11, <1>12, <1>13, <1>14
          DEF Next, RunClaimed, Recover, Execute, Finalize, Lifecycle, vars, disk

(* Where a run gets to: of the stages whose state means something, each is  *)
(* reached in one way.                                                      *)
Vouching == {"publishing"} \cup Committed

LEMMA RunStep ==
    Typed /\ [Next]_vars => \A w \in Worker :
        \/ run'[w] = run[w]
        \/ run'[w].at \in Stage \ Vouching
        \/ InspectJournal(w) \/ BeginCommit(w) \/ EndCommit(w) \/ StoreProduct(w) \/ FinalizeReceipt(w)
  <1> SUFFICES ASSUME Typed, [Next]_vars, NEW w \in Worker,
                      run'[w] # run[w],
                      ~(InspectJournal(w) \/ BeginCommit(w) \/ EndCommit(w) \/ StoreProduct(w)
                        \/ FinalizeReceipt(w))
               PROVE  run'[w].at \in Stage \ Vouching
    OBVIOUS
  <1>0. run \in [Worker -> RunRecord]
    BY DEF Typed, RunsTyped
  <1> DEFINE Plain == Stage \ Vouching
  <1>1. /\ {"idle", "claimed", "recovered", "rolledBack", "clearing", "noJournal", "inspected",
            "planned", "prepared", "cleanup", "raised", "waiting"} \subseteq Plain
        /\ Idle.at \in Plain
    BY DEF Stage, Vouching, Committed, Idle
  <1>2. ASSUME NEW v \in Worker, NEW r, Continue(v, r), r.at \in Plain PROVE run'[w].at \in Plain
    BY <1>0, <1>1, <1>2 DEF Continue
  <1>3. ASSUME NEW v \in Worker, NEW stage \in Plain, run' = [run EXCEPT ![v].at = stage]
        PROVE  run'[w].at \in Plain
    BY <1>0, <1>3 DEF RunRecord
  <1>4. ASSUME NEW v \in Worker, NEW stage \in Plain, Goto(v, stage) PROVE run'[w].at \in Plain
    <2> DEFINE r == [run[v] EXCEPT !.at = stage]
    <2>1. r.at = stage
      BY <1>0 DEF RunRecord
    <2>2. Continue(v, r)
      BY <1>4 DEF Goto
    <2> HIDE DEF r
    <2> QED BY <2>1, <2>2, <1>2
  <1>5. ASSUME NEW v \in Worker, AfterInspect(v) \/ Raise(v) PROVE run'[w].at \in Plain
    BY <1>5, <1>1, <1>3, <1>4 DEF AfterInspect, Raise
  <1>6. ASSUME NEW v \in Worker, run' = [run EXCEPT ![v] = Idle] PROVE run'[w].at \in Plain
    BY <1>0, <1>1, <1>6
  <1>7. ASSUME NEW v \in Worker, v # w, NEW r, run' = [run EXCEPT ![v] = r] PROVE FALSE
    BY <1>0, <1>7
  <1> HIDE DEF Plain
  <1>8. ASSUME NEW v \in Worker, Claim(v) PROVE run'[w].at \in Plain
    <2> PICK j \in Job : Claim(v)!(j)
      BY <1>8 DEF Claim
    <2>1. CASE v = w
      BY <2>1, <1>0, <1>1 DEF Idle
    <2> QED BY <2>1, <1>7
  <1>9. ASSUME NEW v \in Worker, RecoverPending(v) PROVE run'[w].at \in Plain
    BY <1>9, <1>1, <1>4, <1>5 DEF RecoverPending
  <1>10. ASSUME NEW v \in Worker, InspectJournal(v) PROVE FALSE
    <2>1. v # w
      BY <1>10
    <2>2. ASSUME NEW stage, Goto(v, stage) \/ run' = [run EXCEPT ![v].at = stage] PROVE FALSE
      BY <2>1, <2>2, <1>7 DEF Goto, Continue
    <2> QED BY <1>10, <2>1, <2>2, <1>7 DEF InspectJournal, AfterInspect, Raise, Continue
  <1>11. ASSUME NEW v \in Worker, InspectRolledBack(v) \/ InspectDiscard(v) \/ InspectNoJournal(v)
         PROVE  run'[w].at \in Plain
    BY <1>11, <1>1, <1>3, <1>5 DEF InspectRolledBack, InspectDiscard, InspectNoJournal
  <1>12. ASSUME NEW v \in Worker, MakePlan(v) PROVE run'[w].at \in Plain
    <2> PICK j \in Job, p \in Plan : MakePlan(v)!(j, p)
      BY <1>12 DEF MakePlan
    <2> DEFINE r == [run[v] EXCEPT !.at = "planned", !.plan = p, !.base = Len(applied)]
    <2>1. r.at = "planned"
      BY <1>0 DEF RunRecord
    <2> HIDE DEF r
    <2> QED BY <2>1, <1>1, <1>2 DEF r
  <1>13. ASSUME NEW v \in Worker, PrepareReceipt(v) \/ RefuseCommit(v) PROVE run'[w].at \in Plain
    BY <1>13, <1>1, <1>4, <1>5 DEF PrepareReceipt, RefuseCommit
  <1>14. ASSUME NEW v \in Worker, BeginCommit(v) \/ EndCommit(v) \/ StoreProduct(v) \/ FinalizeReceipt(v)
         PROVE  FALSE
    <2>1. v # w
      BY <1>14
    <2>2. ASSUME NEW stage, Goto(v, stage) \/ run' = [run EXCEPT ![v].at = stage] PROVE FALSE
      BY <2>1, <2>2, <1>7 DEF Goto, Continue
    <2> QED BY <1>14, <2>2 DEF BeginCommit, EndCommit, StoreProduct, FinalizeReceipt, Raise
  <1>15. ASSUME NEW v \in Worker, Complete(v) \/ Cleanup(v) \/ Fail(v) \/ Crash(v)
         PROVE  run'[w].at \in Plain
    BY <1>15, <1>1, <1>4, <1>6 DEF Complete, Cleanup, Fail, Crash
  <1>16. ASSUME NEW v \in Worker, CommitFails(v) \/ StepFails(v) PROVE run'[w].at \in Plain
    BY <1>16, <1>1, <1>3, <1>5 DEF CommitFails, StepFails
  <1>17. ASSUME NEW v \in Worker, Lapse(v) PROVE run' = run
    BY <1>17 DEF Lapse
  <1>18. ASSUME NEW j \in Job, RetryFailed(j) \/ Lifecycle(j) PROVE run' = run
    BY <1>18 DEF RetryFailed, Lifecycle, ReleaseHistory, ExpireJournal, ExpireJob, ExpireReceipt
  <1> QED BY <1>8, <1>9, <1>10, <1>11, <1>12, <1>13, <1>14, <1>15, <1>16, <1>17, <1>18
          DEF Next, RunClaimed, Recover, Execute, Finalize, vars, Plain

LEMMA StoredByIs ==
    /\ \A stage \in Stage \ {"summaryVector", "receipt", "semantic", "vector", "complete"} : StoredBy(stage) = {}
    /\ StoredBy("summaryVector") = {"summary"}
    /\ StoredBy("receipt") = {"summary", "summaryVector"}
    /\ StoredBy("semantic") = {"summary", "summaryVector"}
    /\ StoredBy("vector") = {"summary", "summaryVector", "semantic"}
    /\ StoredBy("complete") = Product
  BY DEF StoredBy, Stage

-----------------------------------------------------------------------------
(* The records and memory agree.                                            *)

LEMMA StoreBackedStep == Typed /\ Backed /\ [Next]_vars => \A j \in Job : StoreBacked(j)'
  <1> SUFFICES ASSUME Typed, Backed, [Next]_vars, NEW j \in Job PROVE StoreBacked(j)'
    OBVIOUS
  <1>0. StoreBacked(j) /\ \A w \in Worker : RunBacked(w)
    BY DEF Backed
  <1>g. \A p : Shows(applied, j, p) => Shows(applied', j, p)
    BY MemoryGrows
  <1>1. (journal[j].state = "COMMITTED" => Shows(applied, j, journal[j].plan))'
    <2> SUFFICES ASSUME journal'[j].state = "COMMITTED" PROVE Shows(applied', j, journal'[j].plan)
      OBVIOUS
    <2>1. CASE journal'[j] = journal[j]
      BY <2>1, <1>0, <1>g DEF StoreBacked
    <2>2. CASE journal[j].state = "PREPARED" /\ journal'[j] = Marked(journal[j]) /\ applied' = Shown(j)
      <3>1. journal[j] \in JournalRecord
        BY DEF Typed, JournalsTyped
      <3>2. journal'[j].plan = journal[j].plan
        BY <2>2, <3>1 DEF Marked, JournalRecord
      <3>3. CASE journal[j].state = "PREPARED"
        <4>1. /\ Len(applied') = Len(applied) + 1 /\ Len(applied) \in Nat
              /\ applied'[Len(applied) + 1] = [job |-> j, plan |-> journal[j].plan]
          BY <2>2, <3>3, ShownIs DEF Typed
        <4>2. Len(applied) + 1 \in 1..Len(applied')
          BY <4>1
        <4> QED BY <3>2, <4>1, <4>2 DEF Shows
      <3> QED BY <3>3, <2>2
    <2>3. CASE /\ journal'[j] # journal[j]
               /\ ~(journal[j].state = "PREPARED" /\ journal'[j] = Marked(journal[j]) /\ applied' = Shown(j))
      <3>1. journal'[j].state \in {"PREPARED", "ROLLED_BACK", "absent"}
        <4>1. JournalMoves(j)
          BY JournalStep
        <4>2. NoJournal.state = "absent"
          BY DEF NoJournal
        <4>3. ASSUME NEW w \in Worker, journal'[j] = [state |-> "PREPARED", plan |-> run[w].plan]
              PROVE  journal'[j].state = "PREPARED"
          BY <4>3
        <4>4. \/ journal'[j].state \in {"PREPARED", "ROLLED_BACK"}
              \/ \E w \in Worker : journal'[j] = [state |-> "PREPARED", plan |-> run[w].plan]
              \/ journal'[j] = NoJournal
          BY <2>3, <4>1, Zenon DEF JournalMoves
        <4> QED BY <4>2, <4>3, <4>4
      <3> QED BY <3>1
    <2> QED BY <2>1, <2>2, <2>3
  <1>2. (receipt[j].state = "COMMITTED" => Shows(applied, j, receipt[j].plan))'
    <2> SUFFICES ASSUME receipt'[j].state = "COMMITTED" PROVE Shows(applied', j, receipt'[j].plan)
      OBVIOUS
    <2>1. CASE receipt'[j] = receipt[j]
      BY <2>1, <1>0, <1>g DEF StoreBacked
    <2>2. ASSUME NEW w \in Worker, At(w, j, "receipt"), receipt[j].plan = run[w].plan,
                 receipt'[j] = [receipt[j] EXCEPT !.state = "COMMITTED"]
          PROVE  Shows(applied', j, receipt'[j].plan)
      <3>1. Shows(applied, j, run[w].plan)
        BY <2>2, <1>0 DEF RunBacked, At
      <3>2. receipt'[j].plan = run[w].plan
        BY <2>2 DEF Typed, ReceiptsTyped, ReceiptRecord
      <3> QED BY <3>1, <3>2, <1>g
    <2> QED BY <2>1, <2>2, ReceiptStep DEF NoReceipt
  <1>3. (job[j].status = "COMMITTED" => receipt[j].state = "COMMITTED" /\ done[j] = Product)'
    <2> SUFFICES ASSUME job'[j].status = "COMMITTED"
                 PROVE  receipt'[j].state = "COMMITTED" /\ done'[j] = Product
      OBVIOUS
    <2>1. done[j] \subseteq done'[j] /\ done'[j] \subseteq Product
      BY DoneGrows, OthersTypedStep DEF OthersTyped
    <2>2. CASE job[j].status = "COMMITTED"
      <3>1. receipt[j].state = "COMMITTED" /\ done[j] = Product
        BY <2>2, <1>0 DEF StoreBacked
      <3>2. receipt'[j].state = "COMMITTED"
        BY <2>2, <3>1, ReceiptStep DEF Typed, ReceiptsTyped, ReceiptRecord
      <3> QED BY <2>1, <3>1, <3>2
    <2>3. ASSUME NEW w \in Worker, Complete(w), run[w].job = j, job[j].status = "RUNNING"
          PROVE  receipt'[j].state = "COMMITTED" /\ done'[j] = Product
      <3>1. run[w].at = "complete" /\ receipt' = receipt
        BY <2>3 DEF Complete, At
      <3>2. receipt[j].state = "COMMITTED" /\ StoredBy("complete") \subseteq done[j]
        BY <2>3, <3>1, <1>0 DEF RunBacked
      <3> QED BY <2>1, <3>1, <3>2, StoredByIs
    <2> QED BY <2>2, <2>3, StatusStep
  <1> QED BY <1>1, <1>2, <1>3 DEF StoreBacked

LEMMA RunBackedStep == Typed /\ Backed /\ [Next]_vars => \A w \in Worker : RunBacked(w)'
  <1> SUFFICES ASSUME Typed, Backed, [Next]_vars, NEW w \in Worker PROVE RunBacked(w)'
    OBVIOUS
  <1>0. RunBacked(w) /\ (run[w].at # "idle" => run[w].job \in Job)
        /\ (run[w].at = "publishing" => txlock = w) /\ RunsTyped' /\ run \in [Worker -> RunRecord]
    BY RunsTypedStep DEF Backed, Typed, RunsTyped, Whole
  <1>m. \A j, p : Shows(applied, j, p) => Shows(applied', j, p)
    BY MemoryGrows
  <1>d. \A j \in Job : done[j] \subseteq done'[j]
    BY DoneGrows
  <1>r. \A j \in Job : receipt[j].state = "COMMITTED" \/ job[j].status = "deleted"
                       => receipt'[j].state = "COMMITTED" \/ job'[j].status = "deleted"
    <2> TAKE j \in Job
    <2>1. job[j].status = "deleted" => job'[j].status = "deleted"
      BY StatusStep
    <2>2. receipt[j].state = "COMMITTED" => receipt'[j].state = "COMMITTED" \/ job[j].status = "deleted"
      BY ReceiptStep DEF Typed, ReceiptsTyped, ReceiptRecord
    <2> QED BY <2>1, <2>2
  <1>1. CASE run'[w] = run[w]
    <2> SUFFICES ASSUME run[w].at # "idle" PROVE RunBacked(w)'
      BY <1>1 DEF RunBacked, Committed
    <2> DEFINE j == run[w].job
    <2>1. j \in Job
      BY <1>0
    <2>2. ASSUME run[w].at = "publishing" PROVE journal'[j] = [state |-> "PREPARED", plan |-> run[w].plan]
      <3>1. journal[j] = [state |-> "PREPARED", plan |-> run[w].plan] /\ txlock = w /\ w # None
        BY <2>2, <1>0, RunConstants DEF RunBacked
      <3>2. JournalMoves(j)
        BY <2>1, JournalStep
      <3>3. ~IsTerminal(j) /\ journal[j].state = "PREPARED"
        BY <3>1 DEF IsTerminal
      <3>4. txlock' = w
        BY <1>0, <1>1, <2>2 DEF RunsTyped
      <3> QED BY <3>1, <3>2, <3>3, <3>4, RunConstants DEF JournalMoves
    <2> QED BY <1>0, <1>1, <1>m, <1>d, <1>r, <2>1, <2>2 DEF RunBacked

  <1>2. CASE run'[w].at \in Stage \ Vouching
    <2>1. run'[w].at \notin Vouching /\ StoredBy(run'[w].at) = {}
      BY <1>2, StoredByIs DEF Vouching, Committed
    <2> QED BY <2>1 DEF RunBacked, Vouching, Committed
  <1>3. CASE InspectJournal(w)
    <2> SUFFICES ASSUME run'[w] # run[w], run'[w].at \notin Stage \ Vouching PROVE RunBacked(w)'
      BY <1>1, <1>2
    <2> PICK j \in Job : InspectJournal(w)!(j)
      BY <1>3 DEF InspectJournal
    <2>0. /\ "raised" \in Stage \ Vouching /\ "inspected" \in Stage \ Vouching
          /\ "rolledBack" \in Stage \ Vouching /\ "noJournal" \in Stage \ Vouching
          /\ "idle" \in Stage \ Vouching
      BY DEF Stage, Vouching, Committed
    <2>1. journal[j].state = "COMMITTED"
          /\ run'[w] = [run[w] EXCEPT !.at = "summary", !.plan = journal[j].plan]
      BY <1>0, <2>0 DEF AfterInspect, Goto, Raise, Continue, Idle, RunRecord
    <2>2. run'[w].at = "summary" /\ run'[w].job = j /\ run'[w].plan = journal[j].plan
      BY <2>1, <1>0 DEF RunRecord, At
    <2>3. Shows(applied', j, journal'[j].plan)
      <3>1. Shows(applied, j, journal[j].plan)
        BY <2>1 DEF Backed, StoreBacked
      <3> QED BY <3>1, <1>m DEF disk
    <2>4. Shows(applied', j, run'[w].plan)
      BY <2>2, <2>3 DEF disk
    <2>5. StoredBy("summary") = {}
      BY StoredByIs DEF Stage
    <2> QED BY <2>2, <2>4, <2>5 DEF RunBacked
  <1>4. CASE BeginCommit(w)
    <2> PICK j \in Job : BeginCommit(w)!(j)
      BY <1>4 DEF BeginCommit
    <2>1. run'[w].at = "publishing" /\ run'[w].job = j /\ run'[w].plan = run[w].plan
      BY <1>0 DEF RunRecord, At
    <2>2. journal'[j] = [state |-> "PREPARED", plan |-> run[w].plan]
      BY DEF Typed, JournalsTyped
    <2>3. StoredBy("publishing") = {}
      BY StoredByIs DEF Stage
    <2> QED BY <2>1, <2>2, <2>3 DEF RunBacked
  <1>5. CASE EndCommit(w)
    <2> PICK j \in Job : EndCommit(w)!(j)
      BY <1>5 DEF EndCommit
    <2> SUFFICES ASSUME run'[w].at # "idle" PROVE RunBacked(w)'
      BY DEF RunBacked
    <2>1. run'[w].at = "summary" /\ run'[w].job = j /\ run'[w].plan = run[w].plan
      BY <1>0 DEF RunRecord, At, Goto, Continue, Idle
    <2>2. journal[j] = [state |-> "PREPARED", plan |-> run[w].plan] /\ journal[j] \in JournalRecord
      BY <1>0 DEF At, RunBacked, Typed, JournalsTyped
    <2>3. journal'[j].state = "COMMITTED" /\ journal'[j].plan = run[w].plan
      BY <2>2 DEF Typed, JournalsTyped, Marked
    <2>4. Shows(applied', j, run'[w].plan)
      BY <2>1, <2>3, StoreBackedStep DEF StoreBacked
    <2>5. StoredBy("summary") = {}
      BY StoredByIs DEF Stage
    <2> QED BY <2>1, <2>4, <2>5 DEF RunBacked
  <1>6. CASE StoreProduct(w)
    <2> PICK j \in Job, stage \in Product : StoreProduct(w)!(j, stage)
      BY <1>6 DEF StoreProduct
    <2> SUFFICES ASSUME run'[w].at # "idle" PROVE RunBacked(w)'
      BY DEF RunBacked
    <2>1. run'[w].at = Follows(stage) /\ run'[w].job = j /\ run'[w].plan = run[w].plan
      BY <1>0 DEF RunRecord, At, Goto, Continue, Idle
    <2>2. done'[j] = done[j] \cup {stage} /\ StoredBy(stage) \subseteq done[j]
      BY <1>0 DEF Typed, OthersTyped, At, RunBacked, Product
    <2>3. CASE stage \in {"summary", "summaryVector"}
      <3>1. Shows(applied, j, run[w].plan)
        BY <2>3, <1>0 DEF At, RunBacked
      <3>2. Shows(applied', j, run'[w].plan)
        BY <3>1, <2>1, <1>m
      <3>3. StoredBy(Follows(stage)) \subseteq done'[j] /\ Follows(stage) \in {"summaryVector", "receipt"}
        BY <2>2, <2>3, StoredByIs DEF Follows, Stage
      <3> QED BY <2>1, <3>2, <3>3 DEF RunBacked
    <2>4. CASE stage \in {"semantic", "vector"}
      <3>1. receipt'[j].state = "COMMITTED" \/ job'[j].status = "deleted"
        BY <2>4, <1>0, <1>r DEF At, RunBacked
      <3>3. StoredBy(Follows(stage)) \subseteq done'[j] /\ Follows(stage) \in {"vector", "complete"}
        BY <2>2, <2>4, StoredByIs DEF Follows, Stage, Product
      <3> QED BY <2>1, <3>1, <3>3 DEF RunBacked
    <2> QED BY <2>3, <2>4 DEF Product
  <1>7. CASE FinalizeReceipt(w)
    <2> SUFFICES ASSUME run'[w].at \notin Stage \ Vouching PROVE RunBacked(w)'
      BY <1>2
    <2> PICK j \in Job : FinalizeReceipt(w)!(j)
      BY <1>7 DEF FinalizeReceipt
    <2>0. "raised" \in Stage \ Vouching /\ "idle" \in Stage \ Vouching
      BY DEF Stage, Vouching, Committed
    <2>1. /\ receipt' = [receipt EXCEPT ![j].state = "COMMITTED"]
          /\ run'[w] = [run[w] EXCEPT !.at = "semantic"]
      BY <1>0, <2>0 DEF Goto, Raise, Continue, Idle, RunRecord, Follows
    <2>2. run'[w].at = "semantic" /\ run'[w].job = j
      BY <2>1, <1>0 DEF RunRecord, At
    <2>3. receipt'[j].state = "COMMITTED"
      BY <2>1 DEF Typed, ReceiptsTyped, ReceiptRecord
    <2>4. StoredBy("semantic") \subseteq done'[j]
      BY <1>0, StoredByIs DEF At, RunBacked
    <2> QED BY <2>2, <2>3, <2>4 DEF RunBacked
  <1> QED BY <1>1, <1>2, <1>3, <1>4, <1>5, <1>6, <1>7, RunStep

LEMMA BackedStep == Typed /\ Backed /\ [Next]_vars => Backed'
  BY StoreBackedStep, RunBackedStep DEF Backed

-----------------------------------------------------------------------------
(* One job after the other.                                                 *)

LEMMA SettledKept == Typed /\ [Next]_vars => \A j \in Job : Settled(j) => Settled(j)'
  BY StatusStep DEF Settled

LEMMA ReachedKept == Typed /\ [Next]_vars => \A j \in Job : Reached(j) => Reached(j)'
  BY SettledKept, RunConstants DEF Reached, Job

(* A run ends, or is a new one of a claim, or goes on with its job.         *)
OwnStep(w) == Recover(w) \/ Execute(w) \/ Finalize(w) \/ CommitFails(w) \/ StepFails(w)

LEMMA RunMoves ==
    Typed /\ [Next]_vars => \A w \in Worker :
        \/ run'[w] = run[w]
        \/ run'[w] = Idle
        \/ Claim(w)
        \/ OwnStep(w) /\ run'[w].job = run[w].job /\ run[w].at # "idle"
  <1> SUFFICES ASSUME Typed, [Next]_vars, NEW w \in Worker,
                      run'[w] # run[w], run'[w] # Idle, ~Claim(w)
               PROVE  OwnStep(w) /\ run'[w].job = run[w].job /\ run[w].at # "idle"
    OBVIOUS
  <1>0. run \in [Worker -> RunRecord]
    BY DEF Typed, RunsTyped
  <1>1. ASSUME NEW v \in Worker, NEW r, run' = [run EXCEPT ![v] = r] PROVE v = w /\ run'[w] = r
    BY <1>0, <1>1
  <1>2. ASSUME NEW v \in Worker, NEW r, Continue(v, r) PROVE v = w /\ run'[w] = r
    BY <1>0, <1>2 DEF Continue
  <1> DEFINE Goes(v) == v = w /\ run'[w].job = run[w].job
  <1>3. ASSUME NEW v \in Worker, NEW stage, Goto(v, stage) PROVE Goes(v)
    BY <1>0, <1>3, <1>2 DEF Goto, RunRecord
  <1>4. ASSUME NEW v \in Worker, NEW stage, run' = [run EXCEPT ![v].at = stage] PROVE Goes(v)
    BY <1>0, <1>4, <1>1 DEF RunRecord
  <1>5. ASSUME NEW v \in Worker, AfterInspect(v) \/ Raise(v) PROVE Goes(v)
    BY <1>5, <1>3, <1>4 DEF AfterInspect, Raise
  <1>6. ASSUME NEW v \in Worker, OwnStep(v) PROVE Goes(v) /\ run[v].at # "idle"
    <2> HIDE DEF Goes
    <2>1. CASE RecoverPending(v)
      BY <2>1, <1>3, <1>5 DEF RecoverPending, At
    <2>2. CASE InspectJournal(v)
      <3> PICK j \in Job : InspectJournal(v)!(j)
        BY <2>2 DEF InspectJournal
      <3>1. CASE Continue(v, [run[v] EXCEPT !.at = "summary", !.plan = journal[j].plan])
        <4> DEFINE r == [run[v] EXCEPT !.at = "summary", !.plan = journal[j].plan]
        <4>1. r.job = run[v].job
          BY <1>0 DEF RunRecord
        <4> HIDE DEF r
        <4>2. Continue(v, r)
          BY <3>1 DEF r
        <4> QED BY <4>1, <4>2, <1>2 DEF Goes, At
      <3> QED BY <3>1, <1>4, <1>5 DEF At
    <2>3. CASE InspectRolledBack(v) \/ InspectDiscard(v) \/ InspectNoJournal(v)
      BY <2>3, <1>4, <1>5 DEF InspectRolledBack, InspectDiscard, InspectNoJournal, At
    <2>4. CASE MakePlan(v)
      <3> PICK j \in Job, p \in Plan : MakePlan(v)!(j, p)
        BY <2>4 DEF MakePlan
      <3> DEFINE r == [run[v] EXCEPT !.at = "planned", !.plan = p, !.base = Len(applied)]
      <3>1. r.job = run[v].job
        BY <1>0 DEF RunRecord
      <3> HIDE DEF r
      <3>2. Continue(v, r)
        BY DEF r
      <3> QED BY <3>1, <3>2, <1>2 DEF Goes, At
    <2>5. CASE PrepareReceipt(v) \/ RefuseCommit(v) \/ BeginCommit(v) \/ EndCommit(v)
      BY <2>5, <1>3, <1>4, <1>5 DEF PrepareReceipt, RefuseCommit, BeginCommit, EndCommit, At
    <2>6. CASE StoreProduct(v)
      BY <2>6, <1>3 DEF StoreProduct, At, Product
    <2>7. CASE FinalizeReceipt(v) \/ Complete(v)
      BY <2>7, <1>3, <1>5 DEF FinalizeReceipt, Complete, At
    <2>8. CASE Cleanup(v)
      BY <2>8, <1>1 DEF Cleanup
    <2>9. CASE CommitFails(v) \/ StepFails(v)
      BY <2>9, <1>4, <1>5 DEF CommitFails, StepFails, At
    <2> QED BY <1>6, <2>1, <2>2, <2>3, <2>4, <2>5, <2>6, <2>7, <2>8, <2>9
            DEF OwnStep, Recover, Execute, Finalize
  <1>7. ASSUME NEW v \in Worker, Claim(v) \/ Fail(v) \/ Crash(v) \/ Lapse(v) PROVE FALSE
    <2>1. CASE Claim(v)
      BY <2>1, <1>1 DEF Claim
    <2>2. CASE Fail(v) \/ Crash(v)
      BY <2>2, <1>1 DEF Fail, Crash
    <2> QED BY <1>7, <2>1, <2>2 DEF Lapse
  <1>8. ASSUME NEW j \in Job, RetryFailed(j) \/ Lifecycle(j) PROVE FALSE
    BY <1>8 DEF RetryFailed, Lifecycle, ReleaseHistory, ExpireJournal, ExpireJob, ExpireReceipt
  <1> HIDE DEF Goes
  <1>9. PICK v \in Worker : OwnStep(v)
    BY <1>7, <1>8 DEF Next, RunClaimed, OwnStep, vars
  <1> QED BY <1>6, <1>9 DEF Goes

LEMMA HeadOnlyStep == Typed /\ Backed /\ HeadOnly /\ [Next]_vars => HeadOnly'
  <1> SUFFICES ASSUME Typed, Backed, HeadOnly, [Next]_vars PROVE HeadOnly'
    OBVIOUS
  <1>k. \A j \in Job : (Settled(j) => Settled(j)') /\ (Reached(j) => Reached(j)')
    BY SettledKept, ReachedKept
  <1>1. (released \subseteq {j \in Job : Settled(j)})'
    <2>1. released \subseteq {j \in Job : Settled(j)'}
      BY <1>k DEF HeadOnly
    <2>2. ASSUME NEW j \in Job, ReleaseHistory(j) PROVE released' \subseteq {i \in Job : Settled(i)'}
      <3>1. released' = released \cup {j} /\ Settled(j)
        BY <2>2 DEF ReleaseHistory, WorkflowIsCommitted, Settled
      <3> QED BY <2>1, <3>1, <1>k
    <2>3. (\E j \in Job : ReleaseHistory(j)) \/ released' = released
      <3>1. ASSUME NEW w \in Worker, Recover(w) \/ Fail(w) PROVE released' = released
        BY <3>1 DEF Recover, RecoverPending, InspectJournal, InspectRolledBack, InspectDiscard,
           InspectNoJournal, Fail, disk
      <3>2. ASSUME NEW w \in Worker, Execute(w) PROVE released' = released
        BY <3>2 DEF Execute, MakePlan, PrepareReceipt, RefuseCommit, BeginCommit, EndCommit, disk
      <3>3. ASSUME NEW w \in Worker, Finalize(w) PROVE released' = released
        BY <3>3 DEF Finalize, StoreProduct, FinalizeReceipt, Complete, Cleanup
      <3>4. ASSUME NEW w \in Worker, Claim(w) \/ CommitFails(w) \/ StepFails(w) \/ Crash(w) \/ Lapse(w)
            PROVE  released' = released
        BY <3>4 DEF Claim, CommitFails, StepFails, Crash, Lapse, disk
      <3>5. ASSUME NEW j \in Job, RetryFailed(j) \/ ExpireJournal(j) \/ ExpireJob(j) \/ ExpireReceipt(j)
            PROVE  released' = released
        BY <3>5 DEF RetryFailed, ExpireJournal, ExpireJob, ExpireReceipt
      <3> QED BY <3>1, <3>2, <3>3, <3>4, <3>5 DEF Next, RunClaimed, Lifecycle, vars, disk
    <2> QED BY <2>1, <2>2, <2>3
  <1>2. ASSUME NEW j \in Job PROVE (job[j].status \in {"RUNNING", "FAILED"} => Reached(j))'
    <2> SUFFICES ASSUME job'[j].status \in {"RUNNING", "FAILED"}, job[j].status \notin {"RUNNING", "FAILED"}
                 PROVE  Reached(j)'
      BY <1>k DEF HeadOnly
    <2>0. job \in [Job -> JobRecord]
          /\ \A i \in Job : job[i].lease # None => job[i].status = "RUNNING"
      BY DEF Typed, JobsTyped, Paid
    <2>1. ASSUME NEW w \in Worker, Claim(w) PROVE Reached(j)
      BY <2>0, <2>1 DEF Claim, IsOldest, Reached
    <2>2. ASSUME NEW w \in Worker, Fail(w) PROVE FALSE
      <3> PICK i \in Job : Fail(w)!(i)
        BY <2>2 DEF Fail
      <3>1. i = j
        BY <2>0
      <3>2. job[j].status = "RUNNING"
        BY <2>0, <3>1, RunConstants DEF Current, At
      <3> QED BY <3>2
    <2>3. ASSUME NEW w \in Worker, Lapse(w) \/ Crash(w) \/ Complete(w) PROVE FALSE
      <3>1. CASE Lapse(w)
        BY <2>0, <3>1 DEF Lapse, JobRecord
      <3>2. CASE Crash(w)
        BY <2>0, <3>2 DEF Crash, JobRecord
      <3>3. CASE Complete(w)
        BY <2>0, <3>3 DEF Complete, JobRecord
      <3> QED BY <2>3, <3>1, <3>2, <3>3
    <2>4. ASSUME NEW i \in Job, RetryFailed(i) \/ ExpireJob(i) PROVE FALSE
      BY <2>0, <2>4 DEF RetryFailed, ExpireJob, JobRecord
    <2>5. ASSUME job' = job PROVE FALSE
      BY <2>5
    <2>6. ASSUME NEW w \in Worker, Recover(w) \/ Execute(w) \/ StoreProduct(w) \/ FinalizeReceipt(w)
          PROVE  job' = job
      BY <2>6 DEF Recover, RecoverPending, InspectJournal, InspectRolledBack, InspectDiscard,
         InspectNoJournal, Execute, MakePlan, PrepareReceipt, RefuseCommit, BeginCommit, EndCommit,
         StoreProduct, FinalizeReceipt, disk
    <2>7. ASSUME NEW w \in Worker, CommitFails(w) \/ StepFails(w) \/ Cleanup(w) PROVE job' = job
      BY <2>7 DEF CommitFails, StepFails, Cleanup, disk
    <2>8. ASSUME NEW i \in Job, ReleaseHistory(i) \/ ExpireJournal(i) \/ ExpireReceipt(i)
          PROVE  job' = job
      BY <2>8 DEF ReleaseHistory, ExpireJournal, ExpireReceipt
    <2>9. Reached(j)
      BY <2>1, <2>2, <2>3, <2>4, <2>5, <2>6, <2>7, <2>8
         DEF Next, RunClaimed, Finalize, Lifecycle, vars, disk
    <2> QED BY <2>9, <1>k
  <1>3. ASSUME NEW j \in Job PROVE (journal[j].state # "absent" => Reached(j))'
    <2>1. CASE journal[j].state # "absent"
      BY <2>1, <1>k DEF HeadOnly
    <2>2. CASE journal[j].state = "absent" /\ journal'[j].state # "absent"
      <3>1. ~IsTerminal(j) /\ journal[j].state # "PREPARED" /\ JournalMoves(j)
        BY <2>2, JournalStep DEF IsTerminal
      <3>2. PICK w \in Worker : At(w, j, "prepared")
        BY <2>2, <3>1 DEF JournalMoves
      <3> QED BY <3>2, <1>k DEF HeadOnly, At
    <2> QED BY <2>1, <2>2
  <1>4. ASSUME NEW w \in Worker PROVE (run[w].at # "idle" => Reached(run[w].job))'
    <2>1. CASE Claim(w)
      <3> PICK j \in Job : Claim(w)!(j)
        BY <2>1 DEF Claim
      <3>1. run'[w].job = j
        BY DEF Typed, RunsTyped, Idle
      <3>2. Reached(j)
        BY DEF IsOldest, Reached
      <3> QED BY <3>1, <3>2, <1>k DEF Reached
    <2>2. CASE run'[w].job = run[w].job /\ run[w].at # "idle"
      <3>1. run[w].job \in Job /\ Reached(run[w].job)
        BY <2>2 DEF HeadOnly, Typed, RunsTyped, Whole
      <3> QED BY <2>2, <3>1, <1>k DEF Reached
    <2>3. CASE run'[w] = Idle \/ (run'[w] = run[w] /\ run[w].at = "idle")
      BY <2>3 DEF Idle
    <2> QED BY <2>1, <2>2, <2>3, RunMoves
  <1>5. (\A i \in 1..Len(applied) : applied[i].job \in Through)'
    <2>1. Through \subseteq Through' /\ \A i \in 1..Len(applied) : applied[i].job \in Through
      BY <1>k DEF HeadOnly, Through
    <2>2. ASSUME NEW j \in Job, journal[j].state = "PREPARED", applied' = Shown(j)
          PROVE  \A i \in 1..Len(applied') : applied'[i].job \in Through'
      <3>1. j \in Through
        BY <2>2 DEF HeadOnly, Through
      <3>2. /\ Len(applied) \in Nat /\ Len(applied') = Len(applied) + 1
            /\ \A i \in 1..Len(applied) : applied'[i] = applied[i]
            /\ applied'[Len(applied) + 1].job = j
        <4>1. /\ Len(applied) \in Nat /\ Len(Shown(j)) = Len(applied) + 1
              /\ \A i \in 1..Len(applied) : Shown(j)[i] = applied[i]
              /\ Shown(j)[Len(applied) + 1] = [job |-> j, plan |-> journal[j].plan]
          BY <2>2, ShownIs DEF Typed
        <4> QED BY <2>2, <4>1
      <3> QED BY <2>1, <3>1, <3>2
    <2> QED BY <2>1, <2>2, AppliedStep
  <1> QED BY <1>1, <1>2, <1>3, <1>4, <1>5 DEF HeadOnly

-----------------------------------------------------------------------------
(* The lease, as long as none is lost by a worker that goes on.             *)

LEMMA NoLapse ==
    Typed /\ [Next]_vars /\ lapses' = 0 => lapses = 0 /\ \A w \in Worker : ~Lapse(w)
  <1> SUFFICES ASSUME Typed, [Next]_vars, lapses' = 0
               PROVE  lapses = 0 /\ \A w \in Worker : ~Lapse(w)
    OBVIOUS
  <1>0. lapses \in Nat
    BY DEF Typed, JobsTyped
  <1>1. ASSUME NEW w \in Worker, Lapse(w) PROVE FALSE
    BY <1>0, <1>1 DEF Lapse
  <1>2. ASSUME NEW w \in Worker, Recover(w) PROVE lapses' = lapses
    BY <1>2 DEF Recover, RecoverPending, InspectJournal, InspectRolledBack, InspectDiscard, InspectNoJournal
  <1>3. ASSUME NEW w \in Worker, Execute(w) PROVE lapses' = lapses
    BY <1>3 DEF Execute, MakePlan, PrepareReceipt, RefuseCommit, BeginCommit, EndCommit
  <1>4. ASSUME NEW w \in Worker, Finalize(w) \/ Fail(w) PROVE lapses' = lapses
    BY <1>4 DEF Finalize, StoreProduct, FinalizeReceipt, Complete, Cleanup, Fail
  <1>5. ASSUME NEW w \in Worker, Claim(w) \/ CommitFails(w) \/ StepFails(w) \/ Crash(w)
        PROVE  lapses' = lapses
    BY <1>5 DEF Claim, CommitFails, StepFails, Crash
  <1>6. ASSUME NEW j \in Job, RetryFailed(j) \/ Lifecycle(j) PROVE lapses' = lapses
    BY <1>6 DEF RetryFailed, Lifecycle, ReleaseHistory, ExpireJournal, ExpireJob, ExpireReceipt
  <1> QED BY <1>1, <1>2, <1>3, <1>4, <1>5, <1>6 DEF Next, RunClaimed, vars

(* A lease ends with the run of its worker, or is lost.                     *)
LEMMA LeaseStep ==
    Typed /\ [Next]_vars => \A w \in Worker, j \in Job :
        job[j].lease = w =>
            \/ job'[j].lease = w
            \/ Lapse(w)
            \/ run'[w] = Idle
            \/ Complete(w) /\ At(w, j, "complete")
  <1> SUFFICES ASSUME Typed, [Next]_vars, NEW w \in Worker, NEW j \in Job, job[j].lease = w,
                      job'[j].lease # w, ~Lapse(w), run'[w] # Idle
               PROVE  Complete(w) /\ At(w, j, "complete")
    OBVIOUS
  <1>0. /\ job \in [Job -> JobRecord] /\ run \in [Worker -> RunRecord] /\ w # None
        /\ job[j].status = "RUNNING"
    BY RunConstants DEF Typed, JobsTyped, RunsTyped, Paid
  <1>1. ASSUME job' = job PROVE FALSE
    BY <1>1
  <1>2. ASSUME NEW v \in Worker, Claim(v) PROVE FALSE
    BY <1>0, <1>2 DEF Claim, Claimable
  <1>3. ASSUME NEW v \in Worker, Lapse(v) PROVE FALSE
    <2>1. v # w
      BY <1>3
    <2> DEFINE k == run[v].job
    <2>2. job[k].lease = v /\ job' = [job EXCEPT ![k].lease = None]
      BY <1>3 DEF Lapse
    <2> HIDE DEF k
    <2> QED BY <2>1, <2>2, <1>0
  <1>4. ASSUME NEW v \in Worker, Crash(v) PROVE FALSE
    BY <1>0, <1>4 DEF Crash
  <1>5. ASSUME NEW v \in Worker, Complete(v) PROVE Complete(w) /\ At(w, j, "complete")
    <2> PICK i \in Job : Complete(v)!(i)
      BY <1>5 DEF Complete
    <2>1. Current(v) /\ i = j
      BY <1>0 DEF JobRecord
    <2>2. v = w
      BY <2>1 DEF Current, At
    <2> QED BY <1>5, <2>1, <2>2
  <1>6. ASSUME NEW v \in Worker, Fail(v) PROVE FALSE
    <2> PICK i \in Job : Fail(v)!(i)
      BY <1>6 DEF Fail
    <2>1. Current(v) /\ i = j
      BY <1>0 DEF JobRecord
    <2>2. v = w
      BY <2>1 DEF Current, At
    <2> QED BY <1>0, <2>2
  <1>7. ASSUME NEW i \in Job, RetryFailed(i) \/ ExpireJob(i) PROVE FALSE
    BY <1>0, <1>7 DEF RetryFailed, ExpireJob, JobRecord
  <1>8. ASSUME NEW v \in Worker, Recover(v) \/ Execute(v) \/ StoreProduct(v) \/ FinalizeReceipt(v)
        PROVE  job' = job
    BY <1>8 DEF Recover, RecoverPending, InspectJournal, InspectRolledBack, InspectDiscard,
       InspectNoJournal, Execute, MakePlan, PrepareReceipt, RefuseCommit, BeginCommit, EndCommit,
       StoreProduct, FinalizeReceipt, disk
  <1>9. ASSUME NEW v \in Worker, CommitFails(v) \/ StepFails(v) \/ Cleanup(v) PROVE job' = job
    BY <1>9 DEF CommitFails, StepFails, Cleanup, disk
  <1>10. ASSUME NEW i \in Job, ReleaseHistory(i) \/ ExpireJournal(i) \/ ExpireReceipt(i)
         PROVE  job' = job
    BY <1>10 DEF ReleaseHistory, ExpireJournal, ExpireReceipt
  <1> QED BY <1>1, <1>2, <1>3, <1>4, <1>5, <1>6, <1>7, <1>8, <1>9, <1>10
          DEF Next, RunClaimed, Finalize, Lifecycle, vars, disk

(* Who may take a receipt away.                                             *)
LEMMA ReceiptKept ==
    Typed /\ [Next]_vars => \A j \in Job :
        receipt[j].state # "absent" =>
            \/ receipt'[j].state # "absent" /\ receipt'[j].plan = receipt[j].plan
            \/ \E w \in Worker : At(w, j, "rolledBack") \/ At(w, j, "noJournal")
            \/ ~Undecided(j) /\ \E w \in Worker :
                  run[w].job = j /\ run[w].at \in {"raised", "waiting"} /\ Current(w)
            \/ job[j].status = "deleted"
  <1> SUFFICES ASSUME Typed, [Next]_vars, NEW j \in Job, receipt[j].state # "absent",
                      ~(receipt'[j].state # "absent" /\ receipt'[j].plan = receipt[j].plan),
                      job[j].status # "deleted"
               PROVE  \/ \E w \in Worker : At(w, j, "rolledBack") \/ At(w, j, "noJournal")
                      \/ ~Undecided(j) /\ \E w \in Worker :
                            run[w].job = j /\ run[w].at \in {"raised", "waiting"} /\ Current(w)
    OBVIOUS
  <1>0. receipt \in [Job -> ReceiptRecord]
    BY DEF Typed, ReceiptsTyped
  <1>1. ASSUME receipt' = receipt PROVE FALSE
    BY <1>1
  <1>2. ASSUME NEW i \in Job, receipt' = WithoutPrepared(i) PROVE i = j
    BY <1>2, <1>0 DEF WithoutPrepared
  <1>3. ASSUME NEW w \in Worker, PrepareReceipt(w) PROVE FALSE
    BY <1>3, <1>0 DEF PrepareReceipt, NoReceipt
  <1>4. ASSUME NEW w \in Worker, FinalizeReceipt(w) PROVE FALSE
    BY <1>4, <1>0 DEF FinalizeReceipt, ReceiptRecord
  <1>5. ASSUME NEW w \in Worker, InspectRolledBack(w) \/ InspectNoJournal(w)
        PROVE  At(w, j, "rolledBack") \/ At(w, j, "noJournal")
    BY <1>5, <1>1, <1>2 DEF InspectRolledBack, InspectNoJournal
  <1>6. ASSUME NEW w \in Worker, Fail(w)
        PROVE  ~Undecided(j) /\ run[w].job = j /\ run[w].at \in {"raised", "waiting"} /\ Current(w)
    <2> PICK i \in Job : Fail(w)!(i)
      BY <1>6 DEF Fail
    <2>1. Current(w) /\ ~Undecided(i) /\ receipt' = WithoutPrepared(i)
      BY <1>1 DEF DiscardUncommitted
    <2> QED BY <2>1, <1>2 DEF At
  <1>7. ASSUME NEW i \in Job, ExpireReceipt(i) PROVE FALSE
    BY <1>7, <1>0 DEF ExpireReceipt
  <1>8. ASSUME NEW w \in Worker, Claim(w) \/ CommitFails(w) \/ StepFails(w) \/ Crash(w) \/ Lapse(w)
        PROVE  receipt' = receipt
    BY <1>8 DEF Claim, CommitFails, StepFails, Crash, Lapse, disk
  <1>9. ASSUME NEW w \in Worker, RecoverPending(w) \/ InspectJournal(w) \/ InspectDiscard(w)
        PROVE  receipt' = receipt
    BY <1>9 DEF RecoverPending, InspectJournal, InspectDiscard, disk
  <1>10. ASSUME NEW w \in Worker, MakePlan(w) \/ RefuseCommit(w) \/ BeginCommit(w) \/ EndCommit(w)
         PROVE  receipt' = receipt
    BY <1>10 DEF MakePlan, RefuseCommit, BeginCommit, EndCommit, disk
  <1>11. ASSUME NEW w \in Worker, StoreProduct(w) \/ Complete(w) \/ Cleanup(w) PROVE receipt' = receipt
    BY <1>11 DEF StoreProduct, Complete, Cleanup
  <1>12. ASSUME NEW i \in Job, RetryFailed(i) \/ ReleaseHistory(i) \/ ExpireJournal(i) \/ ExpireJob(i)
         PROVE  receipt' = receipt
    BY <1>12 DEF RetryFailed, ReleaseHistory, ExpireJournal, ExpireJob
  <1> QED BY <1>1, <1>3, <1>4, <1>5, <1>6, <1>7, <1>8, <1>9, <1>10, <1>11, <1>12
          DEF Next, RunClaimed, Recover, Execute, Finalize, Lifecycle, vars, disk

(* The steps of a run after which there is something to rely on.            *)
LEMMA TellingStep ==
    Typed => \A w \in Worker :
        OwnStep(w) =>
            \/ run'[w].at \in {"idle", "recovered", "inspected", "planned", "publishing", "raised", "waiting"}
            \/ InspectJournal(w) \/ InspectRolledBack(w) \/ PrepareReceipt(w) \/ EndCommit(w)
            \/ StoreProduct(w) \/ FinalizeReceipt(w) \/ Complete(w)
  <1> DEFINE Free == {"idle", "recovered", "inspected", "planned", "publishing", "raised", "waiting"}
  <1> SUFFICES ASSUME Typed, NEW w \in Worker, OwnStep(w),
                      ~(\/ InspectJournal(w) \/ InspectRolledBack(w) \/ PrepareReceipt(w) \/ EndCommit(w)
                        \/ StoreProduct(w) \/ FinalizeReceipt(w) \/ Complete(w))
               PROVE  run'[w].at \in Free
    OBVIOUS
  <1>0. run \in [Worker -> RunRecord]
    BY DEF Typed, RunsTyped
  <1>1. ASSUME NEW r, Continue(w, r), r.at \in Free PROVE run'[w].at \in Free
    BY <1>0, <1>1 DEF Continue, Idle
  <1>2. ASSUME NEW stage \in Free, Goto(w, stage) PROVE run'[w].at \in Free
    <2> DEFINE r == [run[w] EXCEPT !.at = stage]
    <2>1. r.at = stage
      BY <1>0 DEF RunRecord
    <2> HIDE DEF r
    <2>2. Continue(w, r)
      BY <1>2 DEF Goto, r
    <2> QED BY <2>1, <2>2, <1>1
  <1>3. ASSUME NEW stage \in Free, run' = [run EXCEPT ![w].at = stage] PROVE run'[w].at \in Free
    BY <1>0, <1>3 DEF RunRecord
  <1>4. ASSUME AfterInspect(w) \/ Raise(w) PROVE run'[w].at \in Free
    BY <1>4, <1>2, <1>3 DEF AfterInspect, Raise
  <1>5. CASE RecoverPending(w)
    BY <1>5, <1>2, <1>4 DEF RecoverPending
  <1>6. CASE InspectDiscard(w) \/ InspectNoJournal(w) \/ RefuseCommit(w)
    BY <1>6, <1>4 DEF InspectDiscard, InspectNoJournal, RefuseCommit
  <1>7. CASE MakePlan(w)
    <2> PICK j \in Job, p \in Plan : MakePlan(w)!(j, p)
      BY <1>7 DEF MakePlan
    <2> DEFINE r == [run[w] EXCEPT !.at = "planned", !.plan = p, !.base = Len(applied)]
    <2>1. r.at = "planned"
      BY <1>0 DEF RunRecord
    <2> HIDE DEF r
    <2>2. Continue(w, r)
      BY DEF r
    <2> QED BY <2>1, <2>2, <1>1
  <1>8. CASE BeginCommit(w)
    BY <1>8, <1>3 DEF BeginCommit
  <1>9. CASE Cleanup(w)
    BY <1>9, <1>0 DEF Cleanup, Idle
  <1>10. CASE CommitFails(w) \/ StepFails(w)
    BY <1>10, <1>3, <1>4 DEF CommitFails, StepFails
  <1> QED BY <1>5, <1>6, <1>7, <1>8, <1>9, <1>10 DEF OwnStep, Recover, Execute, Finalize

(* A run that is under way owns its job.                                    *)
LEMMA Owned ==
    ASSUME Typed, NEW w \in Worker, LeaseKept(w), run[w].at \notin {"idle", "cleanup"},
           NEW j \in Job, run[w].job = j
    PROVE  /\ job[j].lease = w /\ job[j].status = "RUNNING" /\ ~Settled(j)
           /\ \A v \in Worker : LeaseKept(v) /\ run[v].at # "idle" /\ run[v].job = j => v = w
  <1>1. job[j].lease = w /\ job[j].status = "RUNNING"
    BY RunConstants DEF LeaseKept, Typed, JobsTyped, Paid
  <1>2. ~Settled(j)
    BY <1>1 DEF Settled
  <1>3. ASSUME NEW v \in Worker, LeaseKept(v), run[v].at # "idle", run[v].job = j PROVE v = w
    BY <1>1, <1>2, <1>3 DEF LeaseKept
  <1> QED BY <1>1, <1>2, <1>3

(* A journal that is not the run's own to clear goes with a settled job.    *)
LEMMA ClearedJournal ==
    ASSUME Typed, Backed, HeadOnly, \A w \in Worker : LeaseKept(w), NEW j \in Job, JournalMoves(j),
           journal[j].state = "COMMITTED"
    PROVE  journal'[j] = journal[j] \/ Settled(j)
  BY DEF JournalMoves, HeadOnly, LeaseKept, At

LEMMA CompleteMoves ==
    ASSUME Typed, NEW w \in Worker, Complete(w) PROVE run'[w].at \in {"idle", "cleanup"} /\ run'[w] # run[w]
  <1>1. run[w].at = "complete" /\ Goto(w, "cleanup")
    BY DEF Complete, At
  <1>2. run'[w] = [run[w] EXCEPT !.at = "cleanup"] \/ run'[w] = Idle
    BY <1>1 DEF Goto, Continue, Typed, RunsTyped
  <1>3. run'[w].at \in {"idle", "cleanup"}
    BY <1>2 DEF Typed, RunsTyped, RunRecord, Idle
  <1> QED BY <1>1, <1>3

LEMMA StillKept ==
    ASSUME Typed, Backed, HeadOnly, [Next]_vars, \A v \in Worker : LeaseKept(v) /\ ~Lapse(v),
           NEW w \in Worker, run'[w] = run[w], run[w].at # "idle"
    PROVE  LeaseKept(w)'
  <1> DEFINE j == run[w].job
  <1>0. j \in Job /\ LeaseKept(w) /\ run'[w] # Idle
    BY DEF Typed, RunsTyped, Whole, Idle
  <1>1. CASE run[w].at = "cleanup"
    <2>1. Settled(j)'
      BY <1>0, <1>1, SettledKept DEF LeaseKept
    <2> QED BY <1>1, <2>1 DEF LeaseKept, Committed, Settled
  <1>2. CASE run[w].at # "cleanup"
    <2>1. /\ job[j].lease = w /\ job[j].status = "RUNNING" /\ ~Settled(j)
          /\ \A v \in Worker : run[v].at # "idle" /\ run[v].job = j => v = w
      BY <1>0, <1>2, Owned
    <2>2. job'[j].lease = w
      <3>1. ~(Complete(w) /\ At(w, j, "complete"))
        BY CompleteMoves
      <3> QED BY <1>0, <2>1, <3>1, LeaseStep
    <2>3. JournalMoves(j)
      BY <1>0, JournalStep
    <2>4. run[w].at \in {"rolledBack", "clearing", "noJournal"} \cup Committed => journal'[j] = journal[j]
      BY <1>0, <2>1, <2>3 DEF JournalMoves, LeaseKept, HeadOnly, At, Committed, IsTerminal
    <2>5. run[w].at = "prepared" => receipt'[j].state # "absent" /\ receipt'[j].plan = run[w].plan
      BY <1>0, <2>1, ReceiptKept DEF LeaseKept, At
    <2> QED BY <1>0, <1>2, <2>2, <2>4, <2>5 DEF LeaseKept, Committed
  <1> QED BY <1>1, <1>2

LEMMA NextKept ==
    ASSUME Typed, Backed, HeadOnly, [Next]_vars, \A v \in Worker : LeaseKept(v) /\ ~Lapse(v),
           NEW w \in Worker, OwnStep(w), run'[w].job = run[w].job, run[w].at # "idle"
    PROVE  LeaseKept(w)'
  <1> SUFFICES ASSUME run'[w].at # "idle" PROVE LeaseKept(w)'
    BY DEF LeaseKept, Committed
  <1> DEFINE j == run[w].job
  <1>0. /\ j \in Job /\ LeaseKept(w) /\ run'[w] # Idle
        /\ run \in [Worker -> RunRecord] /\ job \in [Job -> JobRecord]
        /\ journal \in [Job -> JournalRecord] /\ receipt \in [Job -> ReceiptRecord]
    BY DEF Typed, RunsTyped, Whole, Idle, JobsTyped, JournalsTyped, ReceiptsTyped
  <1>1. run[w].at # "cleanup" /\ job[j].lease = w
    <2>1. CASE run[w].at = "cleanup"
      <3>1. run' = [run EXCEPT ![w] = Idle]
        BY <2>1 DEF OwnStep, Recover, RecoverPending, InspectJournal, InspectRolledBack, InspectDiscard,
           InspectNoJournal, Execute, MakePlan, PrepareReceipt, RefuseCommit, BeginCommit, EndCommit,
           Finalize, StoreProduct, FinalizeReceipt, Complete, Cleanup, CommitFails, StepFails, At, Product
      <3> QED BY <3>1, <1>0
    <2> QED BY <2>1, <1>0 DEF LeaseKept
  <1>2. job'[j].lease = w \/ Complete(w)
    BY <1>0, <1>1, LeaseStep
  <1>3. CASE run'[w].at \in {"idle", "recovered", "inspected", "planned", "publishing", "raised", "waiting"}
    <2>1. ~Complete(w)
      BY <1>3, CompleteMoves
    <2> QED BY <1>2, <1>3, <2>1 DEF LeaseKept, Committed
  <1>4. CASE Complete(w)
    <2> PICK i \in Job : Complete(w)!(i)
      BY <1>4 DEF Complete
    <2>1. i = j /\ Current(w)
      BY <1>1 DEF At, Current
    <2>2. run'[w].at = "cleanup" /\ job'[j].status = "COMMITTED"
      BY <2>1, <1>0 DEF Goto, Continue, RunRecord, JobRecord
    <2> QED BY <2>2 DEF LeaseKept, Committed, Settled
  <1>5. CASE InspectJournal(w) /\ ~Complete(w)
    <2>1. /\ journal' = journal
          /\ \/ run'[w].at \in {"raised", "inspected"}
             \/ run'[w].at = "summary" /\ journal[j].state = "COMMITTED"
             \/ run'[w].at = "rolledBack" /\ journal[j].state = "ROLLED_BACK"
             \/ run'[w].at = "noJournal" /\ journal[j].state = "absent"
      <3> PICK i \in Job : InspectJournal(w)!(i)
        BY <1>5 DEF InspectJournal
      <3>0. i = j /\ journal' = journal
        BY DEF At, disk
      <3>1. CASE journal[i].state = "COMMITTED"
        BY <3>0, <3>1, <1>0 DEF Continue, RunRecord
      <3>2. CASE journal[i].state = "PREPARED"
        BY <3>0, <3>2, <1>0 DEF AfterInspect, Raise, Goto, Continue, RunRecord
      <3>3. CASE journal[i].state \in {"ROLLED_BACK", "absent"}
        BY <3>0, <3>3, <1>0 DEF RunRecord
      <3>4. journal[i].state \in JournalState
        BY <1>0 DEF JournalRecord
      <3> QED BY <3>0, <3>1, <3>2, <3>3, <3>4 DEF JournalState
    <2> QED BY <2>1, <1>2, <1>5 DEF LeaseKept, Committed
  <1>6. CASE InspectRolledBack(w) /\ ~Complete(w)
    <2>1. journal' = journal /\ run'[w].at \in {"raised", "clearing"} /\ run[w].at = "rolledBack"
      BY <1>0, <1>6 DEF InspectRolledBack, Raise, At, RunRecord
    <2> QED BY <2>1, <1>0, <1>2, <1>6 DEF LeaseKept, Committed
  <1>7. CASE PrepareReceipt(w) /\ ~Complete(w)
    <2> PICK i \in Job : PrepareReceipt(w)!(i)
      BY <1>7 DEF PrepareReceipt
    <2>0. i = j /\ run'[w].at \in {"raised", "prepared"}
      BY <1>0 DEF Raise, Goto, Continue, At, RunRecord
    <2>1. run'[w].at = "prepared" => run'[w].plan = run[w].plan
      BY <1>0 DEF Raise, Goto, Continue, At, RunRecord
    <2>2. run'[w].at = "prepared" => receipt'[j].state # "absent" /\ receipt'[j].plan = run[w].plan
      <3>1. CASE receipt[j] = NoReceipt
        BY <3>1, <2>0, <1>0
      <3>2. CASE receipt[j] # NoReceipt /\ run'[w].at = "prepared"
        <4>1. receipt' = receipt /\ receipt[j].plan = run[w].plan
          BY <3>2, <2>0, <1>0 DEF Raise, RunRecord
        <4>2. receipt[j].state # "absent"
          BY <3>2, <1>0 DEF Typed, ReceiptsTyped
        <4> QED BY <4>1, <4>2
      <3> QED BY <3>1, <3>2
    <2> QED BY <2>0, <2>1, <2>2, <1>2, <1>7 DEF LeaseKept, Committed
  <1>8. CASE EndCommit(w) /\ ~Complete(w)
    <2>1. run'[w].at = "summary" /\ journal'[j].state = "COMMITTED"
      BY <1>0, <1>8 DEF EndCommit, Goto, Continue, At, RunRecord, Marked, JournalRecord
    <2> QED BY <2>1, <1>2, <1>8 DEF LeaseKept, Committed
  <1>9. CASE (StoreProduct(w) \/ FinalizeReceipt(w)) /\ ~Complete(w)
    <2>1. journal' = journal /\ run[w].at \in Committed /\ run'[w].at \in {"raised"} \cup Committed
      <3>1. CASE StoreProduct(w)
        <4> PICK i \in Job, stage \in Product : StoreProduct(w)!(i, stage)
          BY <3>1 DEF StoreProduct
        <4>1. Follows(stage) \in Committed /\ stage \in Committed
          BY DEF Follows, Product, Committed
        <4> QED BY <4>1, <1>0 DEF Goto, Continue, At, RunRecord
      <3>2. CASE FinalizeReceipt(w)
        BY <3>2, <1>0 DEF FinalizeReceipt, Follows, Raise, Goto, Continue, At, RunRecord, Committed
      <3> QED BY <1>9, <3>1, <3>2
    <2> QED BY <2>1, <1>0, <1>2, <1>9 DEF LeaseKept, Committed
  <1> QED BY <1>3, <1>4, <1>5, <1>6, <1>7, <1>8, <1>9, TellingStep

LEMMA LeasesKeptStep ==
    ASSUME Typed, Backed, HeadOnly, [Next]_vars, \A v \in Worker : LeaseKept(v) /\ ~Lapse(v),
           NEW w \in Worker
    PROVE  LeaseKept(w)'
  <1>0. run \in [Worker -> RunRecord] /\ job \in [Job -> JobRecord]
    BY DEF Typed, RunsTyped, JobsTyped
  <1>1. CASE run'[w].at = "idle"
    BY <1>1 DEF LeaseKept, Committed
  <1>2. CASE run'[w] = run[w] /\ run[w].at # "idle"
    BY <1>2, StillKept
  <1>3. CASE Claim(w)
    <2> PICK j \in Job : Claim(w)!(j)
      BY <1>3 DEF Claim
    <2>1. run'[w].at = "claimed" /\ run'[w].job = j
      BY <1>0 DEF Idle
    <2>2. job'[j].lease = w
      BY <1>0
    <2> QED BY <2>1, <2>2 DEF LeaseKept, Committed
  <1>4. CASE OwnStep(w) /\ run'[w].job = run[w].job /\ run[w].at # "idle"
    BY <1>4, NextKept
  <1> QED BY <1>1, <1>2, <1>3, <1>4, RunMoves DEF Idle

LEMMA JournalsKeptStep ==
    ASSUME Typed, Backed, HeadOnly, [Next]_vars, \A v \in Worker : LeaseKept(v) /\ ~Lapse(v),
           \A i \in Job : JournalKept(i), NEW j \in Job
    PROVE  JournalKept(j)'
  <1>0. /\ journal \in [Job -> JournalRecord] /\ journal' \in [Job -> JournalRecord]
        /\ JournalKept(j) /\ JournalMoves(j)
    BY JournalsTypedStep, JournalStep DEF Typed, JournalsTyped
  <1>s. Settled(j) => Settled(j)'
    BY SettledKept
  <1>a. ASSUME NEW w \in Worker, run[w].job = j, run[w].at \notin {"idle", "cleanup"}
        PROVE  /\ job[j].status = "RUNNING" /\ ~Settled(j)
               /\ \A v \in Worker : run[v].at # "idle" /\ run[v].job = j => v = w
    BY <1>a, Owned
  <1>c. ASSUME Settled(j)', ~Settled(j) PROVE \E w \in Worker : At(w, j, "complete")
    <2>1. PICK w \in Worker : Complete(w) /\ run[w].job = j
      BY <1>c, StatusStep DEF Settled
    <2> QED BY <2>1 DEF Complete, At
  <1>m. journal[j].state # "absent" /\ journal'[j].state # "absent" => journal'[j].plan = journal[j].plan
    BY <1>0 DEF JournalMoves, NoJournal, Marked, JournalRecord
  <1>1. (InLog(applied, j) => journal[j].state = "COMMITTED" \/ Settled(j))'
    <2> SUFFICES ASSUME InLog(applied', j), ~Settled(j)' PROVE journal'[j].state = "COMMITTED"
      OBVIOUS
    <2>1. CASE InLog(applied, j)
      <3>1. journal[j].state = "COMMITTED" /\ ~Settled(j)
        BY <2>1, <1>0, <1>s DEF JournalKept
      <3> QED BY <3>1, <1>0, ClearedJournal
    <2>2. ASSUME NEW k \in Job, journal[k].state = "PREPARED", applied' = Shown(k),
                 journal'[k] = Marked(journal[k]), ~InLog(applied, j)
          PROVE  journal'[j].state = "COMMITTED"
      <3>1. /\ Len(applied) \in Nat /\ Len(applied') = Len(applied) + 1
            /\ \A i \in 1..Len(applied) : applied'[i] = applied[i]
            /\ applied'[Len(applied) + 1] = [job |-> k, plan |-> journal[k].plan]
        BY <2>2, ShownIs DEF Typed
      <3>2. k = j
        BY <2>2, <3>1 DEF InLog
      <3> QED BY <2>2, <3>2, <1>0 DEF Marked, JournalRecord
    <2> QED BY <2>1, <2>2, AppliedStep
  <1>2. (journal[j].state = "PREPARED" => ~Settled(j))'
    <2> SUFFICES ASSUME journal'[j].state = "PREPARED", Settled(j)' PROVE FALSE
      OBVIOUS
    <2>1. CASE journal[j].state = "PREPARED"
      <3>1. PICK w \in Worker : At(w, j, "complete")
        BY <2>1, <1>0, <1>c DEF JournalKept
      <3> QED BY <2>1, <3>1 DEF LeaseKept, At, Committed
    <2>2. CASE journal[j].state # "PREPARED"
      <3>1. PICK w \in Worker : At(w, j, "prepared")
        BY <2>2, <1>0 DEF JournalMoves, NoJournal, Marked
      <3>2. ~Settled(j) /\ \A v \in Worker : run[v].at # "idle" /\ run[v].job = j => v = w
        BY <3>1, <1>a DEF At
      <3>3. PICK v \in Worker : At(v, j, "complete")
        BY <3>2, <1>c
      <3> QED BY <3>1, <3>2, <3>3 DEF At
    <2> QED BY <2>1, <2>2
  <1>3. ((journal[j].state \in {"PREPARED", "COMMITTED"} /\ ~Settled(j)) =>
            receipt[j].state # "absent" /\ receipt[j].plan = journal[j].plan)'
    <2> SUFFICES ASSUME journal'[j].state \in {"PREPARED", "COMMITTED"}, ~Settled(j)'
                 PROVE  receipt'[j].state # "absent" /\ receipt'[j].plan = journal'[j].plan
      OBVIOUS
    <2>0. ~Settled(j) /\ job[j].status # "deleted"
      BY <1>s DEF Settled
    <2>1. CASE journal[j].state = "absent"
      <3>1. PICK w \in Worker : /\ At(w, j, "prepared")
                                /\ journal'[j] = [state |-> "PREPARED", plan |-> run[w].plan]
        BY <2>1, <1>0 DEF JournalMoves, IsTerminal
      <3>2. receipt[j].state # "absent" /\ receipt[j].plan = journal'[j].plan
        BY <3>1 DEF LeaseKept, At
      <3>3. \A v \in Worker : run[v].at # "idle" /\ run[v].job = j => v = w
        BY <3>1, <1>a DEF At
      <3> QED BY <2>0, <3>1, <3>2, <3>3, ReceiptKept DEF At
    <2>2. CASE journal[j].state # "absent"
      <3>1. journal[j].state \in {"PREPARED", "COMMITTED"} /\ journal'[j].plan = journal[j].plan
        BY <2>2, <1>0, <1>m DEF JournalMoves, NoJournal, JournalRecord, JournalState
      <3>2. receipt[j].state # "absent" /\ receipt[j].plan = journal'[j].plan
        BY <2>0, <3>1, <1>0 DEF JournalKept
      <3>3. \A v \in Worker : ~At(v, j, "rolledBack") /\ ~At(v, j, "noJournal")
        BY <3>1 DEF LeaseKept, At
      <3> QED BY <2>0, <3>1, <3>2, <3>3, ReceiptKept DEF Undecided
    <2> QED BY <2>1, <2>2
  <1> QED BY <1>1, <1>2, <1>3 DEF JournalKept

LEMMA OrderStep ==
    ASSUME Typed, Backed, HeadOnly, [Next]_vars, \A i \in Job : JournalKept(i),
           \A i, k \in 1..Len(applied) : i < k => applied[i].job < applied[k].job
    PROVE  (\A i, k \in 1..Len(applied) : i < k => applied[i].job < applied[k].job)'
  <1>1. ASSUME NEW j \in Job, journal[j].state = "PREPARED", applied' = Shown(j)
        PROVE  (\A i, k \in 1..Len(applied) : i < k => applied[i].job < applied[k].job)'
    <2>1. /\ Len(applied) \in Nat /\ Len(applied') = Len(applied) + 1
          /\ \A i \in 1..Len(applied) : applied'[i] = applied[i] /\ applied[i].job \in Job
          /\ applied'[Len(applied) + 1].job = j
      <3>1. /\ Len(applied) \in Nat /\ Len(Shown(j)) = Len(applied) + 1
            /\ \A i \in 1..Len(applied) : Shown(j)[i] = applied[i] /\ applied[i].job \in Job
            /\ Shown(j)[Len(applied) + 1] = [job |-> j, plan |-> journal[j].plan]
        BY <1>1, ShownIs DEF Typed
      <3> QED BY <1>1, <3>1
    <2>2. ASSUME NEW i \in 1..Len(applied) PROVE applied[i].job < j
      <3> DEFINE m == applied[i].job
      <3>1. m \in Job /\ ~Settled(j) /\ Reached(m)
        BY <1>1, <2>1 DEF HeadOnly, Through, JournalKept
      <3>2. journal[m].state = "COMMITTED" \/ Settled(m)
        BY <3>1 DEF JournalKept, InLog
      <3>3. m # j
        BY <1>1, <3>1, <3>2
      <3>4. ~(j < m)
        BY <3>1, RunConstants DEF Reached, Job
      <3> HIDE DEF m
      <3>5. m < j
        BY <3>1, <3>3, <3>4, RunConstants DEF Job
      <3> QED BY <3>5 DEF m
    <2> QED BY <2>1, <2>2
  <1> QED BY <1>1, AppliedStep

LEMMA KeptStep == Typed /\ Backed /\ HeadOnly /\ Kept /\ [Next]_vars => Kept'
  <1> SUFFICES ASSUME Typed, Backed, HeadOnly, Kept, [Next]_vars, lapses' = 0
               PROVE  (/\ \A w \in Worker : LeaseKept(w)
                       /\ \A j \in Job : JournalKept(j)
                       /\ \A i, k \in 1..Len(applied) : i < k => applied[i].job < applied[k].job)'
    BY DEF Kept
  <1>1. lapses = 0 /\ \A w \in Worker : ~Lapse(w)
    BY NoLapse
  <1>2. /\ \A w \in Worker : LeaseKept(w) /\ ~Lapse(w)
        /\ \A j \in Job : JournalKept(j)
        /\ \A i, k \in 1..Len(applied) : i < k => applied[i].job < applied[k].job
    BY <1>1 DEF Kept
  <1> QED BY <1>2, LeasesKeptStep, JournalsKeptStep, OrderStep

-----------------------------------------------------------------------------
(* The invariant.                                                           *)

(* No run has begun, and nothing is stored.                                 *)
LEMMA InitIInv == Init => IInv
  <1> SUFFICES ASSUME Init PROVE IInv
    OBVIOUS
  <1>1. Typed
    BY InitTyped
  <1>2. Backed
    BY DEF Init, Backed, StoreBacked, RunBacked, NoJournal, NoReceipt, Idle
  <1>3. HeadOnly
    BY DEF Init, HeadOnly, NoJournal, Idle
  <1>4. Kept
    BY DEF Init, Kept, LeaseKept, JournalKept, InLog, NoJournal, Idle, Committed
  <1> QED BY <1>1, <1>2, <1>3, <1>4 DEF IInv

(* Every step of a worker, an operator or the clean-up keeps all four parts.*)
LEMMA NextIInv == IInv /\ [Next]_vars => IInv'
  BY TypedStep, BackedStep, HeadOnlyStep, KeptStep DEF IInv

(* What a run has done is stored and stays stored, jobs are taken in order, *)
(* and the holder of a lease finds its journal and receipt as it left them. *)
THEOREM RunInvariant == Spec => []IInv
  BY InitIInv, NextIInv, PTL DEF Spec

(* The stores, the runs and the counters have their types, whatever faults  *)
(* and however many workers: a lease belongs to a RUNNING job, and the      *)
(* transaction lock to the one run that is publishing.                      *)
THEOREM RunTypeCorrect == Spec => []TypeOK
  <1>1. IInv => TypeOK
    BY TypedIsTypeOK DEF IInv
  <1> QED BY <1>1, RunInvariant, PTL

(* A COMMITTED job reports what happened: its receipt is COMMITTED for a    *)
(* plan that memory shows, and the finalizer stored its four products, also *)
(* after deaths, lost leases and two workers on one job.                    *)
THEOREM CommittedBacked == Spec => []CommittedIsBacked
  <1>1. IInv => CommittedIsBacked
    <2> SUFFICES ASSUME IInv, NEW j \in Job, job[j].status = "COMMITTED"
                 PROVE  /\ receipt[j].state = "COMMITTED"
                        /\ receipt[j].plan \in AppliedPlans(j)
                        /\ done[j] = Product
      BY DEF CommittedIsBacked
    <2>1. /\ receipt[j].state = "COMMITTED" /\ done[j] = Product
          /\ Shows(applied, j, receipt[j].plan)
      BY DEF IInv, Backed, StoreBacked
    <2>2. PICK i \in 1..Len(applied) : applied[i] = [job |-> j, plan |-> receipt[j].plan]
      BY <2>1 DEF Shows
    <2>3. applied[i].job = j /\ applied[i].plan = receipt[j].plan
      BY <2>2
    <2> QED BY <2>1, <2>3 DEF AppliedPlans
  <1> QED BY <1>1, RunInvariant, PTL

(* What was committed for an unfinished job can be finished: the receipt of *)
(* exactly that plan is there, as long as no worker went on without a lease.*)
THEOREM CommittedCompletes == Spec => []ReceiptCompletes
  <1>1. IInv => ReceiptCompletes
    BY DEF IInv, Kept, JournalKept, ReceiptCompletes
  <1> QED BY <1>1, RunInvariant, PTL

(* A segment goes into memory once and after all earlier ones, and no later *)
(* run starts before, as long as no worker went on without a lease.         *)
THEOREM AppliedInOrder == Spec => []AppliedOnceInOrder
  <1>1. IInv => AppliedOnceInOrder
    <2> SUFFICES ASSUME IInv, lapses = 0 PROVE AppliedOnceInOrder
      BY DEF AppliedOnceInOrder
    <2>1. \A i, k \in 1..Len(applied) : i < k => applied[i].job < applied[k].job
      BY DEF IInv, Kept
    <2>2. ASSUME NEW j \in Job, NEW w \in Worker, j < run[w].job, run[w].at # "idle"
          PROVE  j \in {i \in Job : Settled(i)}
      <3>1. run[w].job \in Job /\ Reached(run[w].job)
        BY <2>2 DEF IInv, HeadOnly, Typed, RunsTyped, Whole
      <3> QED BY <2>2, <3>1, RunConstants DEF Reached, Job
    <2> QED BY <2>1, <2>2 DEF AppliedOnceInOrder
  <1> QED BY <1>1, RunInvariant, PTL

-----------------------------------------------------------------------------
(* The number of journals.                                                  *)

(* What leaves a journal behind, or may: a run that went on without its     *)
(* lease; a run that takes its transaction for committed while the journal  *)
(* says otherwise; and the journal of a settled job nobody is cleaning up.  *)
Astray(j) == \E w \in Worker :
    run[w].at \notin {"idle", "cleanup"} /\ run[w].job = j /\ job[j].lease # w

Mistaken(j) == \E w \in Worker :
    /\ run[w].at \in Committed \cup {"cleanup"} /\ run[w].job = j
    /\ journal[j].state \in {"PREPARED", "ROLLED_BACK"}

LeftBehind(j) == Settled(j) /\ j \in Present /\ ~\E w \in Worker : At(w, j, "cleanup")

Costly == {j \in Job : Astray(j) \/ Mistaken(j) \/ LeftBehind(j)}

(* Each such job has cost a fault or a lost lease.                          *)
Cleaning == {w \in Worker : run[w].at = "cleanup"}

Accounted ==
    /\ \A w \in Cleaning : Settled(run[w].job)
    /\ IsFiniteSet(Cleaning)
    /\ Cardinality(Costly) <= faults + lapses

(* A run that cleans up has completed its job ...                           *)
LEMMA CleanerComes ==
    ASSUME Typed, [Next]_vars, NEW w \in Worker, run'[w].at = "cleanup", run[w].at # "cleanup"
    PROVE  /\ Complete(w) /\ run'[w].job = run[w].job
           /\ job'[run[w].job].status = "COMMITTED"
           /\ \A v \in Worker \ {w} : run'[v] = run[v]
  <1>0. run \in [Worker -> RunRecord] /\ job \in [Job -> JobRecord]
    BY DEF Typed, RunsTyped, JobsTyped
  <1>1. Complete(w)
    <2> SUFFICES ASSUME ~Complete(w) PROVE FALSE
      OBVIOUS
    <2>1. ASSUME NEW v \in Worker, NEW r, run' = [run EXCEPT ![v] = r], r.at # "cleanup" PROVE FALSE
      BY <1>0, <2>1
    <2>2. ASSUME NEW v \in Worker, NEW r, Continue(v, r), r.at # "cleanup" PROVE FALSE
      BY <2>1, <2>2 DEF Continue, Idle
    <2>3. ASSUME NEW v \in Worker, NEW stage, Goto(v, stage), stage # "cleanup" PROVE FALSE
      BY <1>0, <2>2, <2>3 DEF Goto, RunRecord
    <2>4. ASSUME NEW v \in Worker, NEW stage, run' = [run EXCEPT ![v].at = stage], stage # "cleanup"
          PROVE  FALSE
      BY <1>0, <2>1, <2>4 DEF RunRecord
    <2>5. ASSUME NEW v \in Worker, AfterInspect(v) \/ Raise(v) PROVE FALSE
      BY <2>5, <2>3, <2>4 DEF AfterInspect, Raise
    <2>6. PICK v \in Worker : OwnStep(v) \/ Claim(v)
      BY RunMoves DEF Idle
    <2>7. ASSUME run' = run PROVE FALSE
      BY <2>7
    <2>8. CASE Claim(v)
      <3> PICK j \in Job : Claim(v)!(j)
        BY <2>8 DEF Claim
      <3> DEFINE r == [Idle EXCEPT !.at = "claimed", !.job = j,
                         !.exhausted = job[j].status = "RUNNING" /\ job[j].attempts >= MaxAttempts]
      <3>1. r.at = "claimed"
        BY DEF Idle
      <3>2. run' = [run EXCEPT ![v] = r]
        OBVIOUS
      <3> HIDE DEF r
      <3> QED BY <3>1, <3>2, <2>1
    <2>9. CASE Recover(v)
      <3>1. CASE RecoverPending(v) \/ InspectRolledBack(v) \/ InspectDiscard(v) \/ InspectNoJournal(v)
        BY <3>1, <2>3, <2>4, <2>5 DEF RecoverPending, InspectRolledBack, InspectDiscard, InspectNoJournal
      <3>2. CASE InspectJournal(v)
        <4> PICK j \in Job : InspectJournal(v)!(j)
          BY <3>2 DEF InspectJournal
        <4>1. CASE Continue(v, [run[v] EXCEPT !.at = "summary", !.plan = journal[j].plan])
          <5> DEFINE r == [run[v] EXCEPT !.at = "summary", !.plan = journal[j].plan]
          <5>1. r.at = "summary"
            BY <1>0 DEF RunRecord
          <5> HIDE DEF r
          <5>2. Continue(v, r)
            BY <4>1 DEF r
          <5> QED BY <5>1, <5>2, <2>2
        <4> QED BY <4>1, <2>4, <2>5
      <3> QED BY <2>9, <3>1, <3>2 DEF Recover
    <2>10. CASE Execute(v)
      <3>1. CASE MakePlan(v)
        <4> PICK j \in Job, p \in Plan : MakePlan(v)!(j, p)
          BY <3>1 DEF MakePlan
        <4> DEFINE r == [run[v] EXCEPT !.at = "planned", !.plan = p, !.base = Len(applied)]
        <4>1. r.at = "planned"
          BY <1>0 DEF RunRecord
        <4> HIDE DEF r
        <4>2. Continue(v, r)
          BY DEF r
        <4> QED BY <4>1, <4>2, <2>2
      <3>2. CASE PrepareReceipt(v) \/ RefuseCommit(v) \/ BeginCommit(v) \/ EndCommit(v)
        BY <3>2, <2>3, <2>4, <2>5 DEF PrepareReceipt, RefuseCommit, BeginCommit, EndCommit
      <3> QED BY <2>10, <3>1, <3>2 DEF Execute
    <2>11. CASE StoreProduct(v)
      <3>1. \A stage \in Product : Follows(stage) # "cleanup"
        BY DEF Product, Follows
      <3> QED BY <2>11, <3>1, <2>3 DEF StoreProduct
    <2>12. CASE FinalizeReceipt(v)
      <3>1. Follows("receipt") # "cleanup"
        BY DEF Follows
      <3> QED BY <2>12, <3>1, <2>3, <2>5 DEF FinalizeReceipt
    <2>13. CASE Complete(v)
      <3>1. v # w
        BY <2>13
      <3>2. Goto(v, "cleanup")
        BY <2>13 DEF Complete
      <3> QED BY <1>0, <3>1, <3>2 DEF Goto, Continue
    <2>14. CASE Cleanup(v)
      BY <2>14, <2>1 DEF Cleanup, Idle
    <2>15. CASE CommitFails(v) \/ StepFails(v)
      BY <2>15, <2>4, <2>5 DEF CommitFails, StepFails
    <2> QED BY <2>6, <2>8, <2>9, <2>10, <2>11, <2>12, <2>13, <2>14, <2>15 DEF OwnStep, Finalize
  <1>2. PICK j \in Job : Complete(w)!(j)
    BY <1>1 DEF Complete
  <1>3. Current(w) /\ run' = [run EXCEPT ![w] = [run[w] EXCEPT !.at = "cleanup"]]
    BY <1>0, <1>2 DEF Goto, Continue, Idle
  <1>4. [run[w] EXCEPT !.at = "cleanup"].job = run[w].job
    BY <1>0 DEF RunRecord
  <1>5. job'[j].status = "COMMITTED" /\ run[w].job = j
    BY <1>0, <1>2, <1>3 DEF JobRecord, At
  <1> QED BY <1>0, <1>1, <1>3, <1>4, <1>5

(* ... and ends by the clean-up or by its death.                            *)
LEMMA CleanerLeaves ==
    ASSUME Typed, [Next]_vars, NEW w \in Worker, run[w].at = "cleanup", run'[w] # run[w]
    PROVE  Cleanup(w) \/ Crash(w)
  <1>0. run \in [Worker -> RunRecord]
    BY DEF Typed, RunsTyped
  <1>1. ASSUME NEW v \in Worker, NEW r, run' = [run EXCEPT ![v] = r] PROVE v = w
    BY <1>0, <1>1
  <1>2. ASSUME NEW v \in Worker, NEW r, Continue(v, r) PROVE v = w
    BY <1>0, <1>2 DEF Continue
  <1>3. ASSUME NEW v \in Worker, NEW stage, Goto(v, stage) PROVE v = w
    BY <1>3, <1>2 DEF Goto
  <1>4. ASSUME NEW v \in Worker, NEW stage, run' = [run EXCEPT ![v].at = stage] PROVE v = w
    BY <1>0, <1>4
  <1>5. ASSUME NEW v \in Worker, AfterInspect(v) \/ Raise(v) PROVE v = w
    BY <1>5, <1>3, <1>4 DEF AfterInspect, Raise
  <1>6. ASSUME NEW v \in Worker, Recover(v) PROVE FALSE
    BY <1>2, <1>3, <1>4, <1>5, <1>6 DEF Recover, RecoverPending, InspectJournal, InspectRolledBack,
       InspectDiscard, InspectNoJournal, At
  <1>7. ASSUME NEW v \in Worker, Execute(v) \/ StoreProduct(v) \/ FinalizeReceipt(v) PROVE FALSE
    BY <1>2, <1>3, <1>4, <1>5, <1>7 DEF Execute, MakePlan, PrepareReceipt, RefuseCommit, BeginCommit,
       EndCommit, StoreProduct, FinalizeReceipt, At, Product
  <1>8. ASSUME NEW v \in Worker, Complete(v) \/ CommitFails(v) \/ StepFails(v) \/ Fail(v) \/ Claim(v)
        PROVE FALSE
    BY <1>1, <1>3, <1>4, <1>5, <1>8 DEF Complete, CommitFails, StepFails, Fail, Claim, At
  <1>9. ASSUME NEW v \in Worker, Cleanup(v) \/ Crash(v) PROVE Cleanup(w) \/ Crash(w)
    BY <1>1, <1>9 DEF Cleanup, Crash
  <1>10. ASSUME NEW v \in Worker, Lapse(v) PROVE FALSE
    BY <1>10 DEF Lapse
  <1>11. ASSUME NEW j \in Job, RetryFailed(j) \/ Lifecycle(j) PROVE FALSE
    BY <1>11 DEF RetryFailed, Lifecycle, ReleaseHistory, ExpireJournal, ExpireJob, ExpireReceipt
  <1> QED BY <1>6, <1>7, <1>8, <1>9, <1>10, <1>11 DEF Next, RunClaimed, Finalize, vars

(* A run that takes its transaction for committed did so before, or its     *)
(* journal says so.                                                         *)
LEMMA Entering ==
    ASSUME Typed, [Next]_vars, NEW w \in Worker, run'[w].at \in Committed \cup {"cleanup"}
    PROVE  \/ run[w].at \in Committed \cup {"cleanup"} /\ run[w].job = run'[w].job
           \/ journal'[run'[w].job].state = "COMMITTED"
  <1>0. /\ run \in [Worker -> RunRecord] /\ journal \in [Job -> JournalRecord]
        /\ Committed \cap {"idle", "cleanup", "publishing"} = {}
    BY DEF Typed, RunsTyped, JournalsTyped, Committed
  <1>1. CASE run'[w] = run[w]
    BY <1>1
  <1>2. CASE run'[w] # run[w] /\ run'[w].at = "cleanup" /\ run[w].at # "cleanup"
    <2>1. Complete(w) /\ run'[w].job = run[w].job
      BY <1>2, CleanerComes
    <2> QED BY <2>1 DEF Complete, At, Committed
  <1>3. CASE run'[w] # run[w] /\ run'[w].at \in Committed
    <2>0. run'[w] # Idle /\ run'[w].at \notin Stage \ Vouching
      BY <1>0, <1>3 DEF Idle, Vouching
    <2>1. InspectJournal(w) \/ BeginCommit(w) \/ EndCommit(w) \/ StoreProduct(w) \/ FinalizeReceipt(w)
      BY <1>3, <2>0, RunStep
    <2>2. run'[w].job = run[w].job
      <3>1. ~Claim(w)
        BY <2>1 DEF Claim, InspectJournal, BeginCommit, EndCommit, StoreProduct, FinalizeReceipt, At,
                    Product
      <3> QED BY <1>3, <2>0, <3>1, RunMoves
    <2>3. CASE InspectJournal(w)
      <3> PICK j \in Job : InspectJournal(w)!(j)
        BY <2>3 DEF InspectJournal
      <3>1. journal'[j] = journal[j] /\ run[w].job = j
        BY DEF disk, At
      <3>2. CASE journal[j].state = "COMMITTED"
        BY <2>2, <3>1, <3>2
      <3>3. CASE journal[j].state # "COMMITTED"
        <4>1. run' = [run EXCEPT ![w].at = "rolledBack"] \/ run' = [run EXCEPT ![w].at = "noJournal"]
              \/ AfterInspect(w)
          BY <3>3
        <4>2. run'[w].at \in {"rolledBack", "noJournal", "raised", "inspected", "idle"}
          BY <1>0, <4>1 DEF AfterInspect, Raise, Goto, Continue, RunRecord, Idle
        <4> QED BY <1>3, <4>2 DEF Committed
      <3> QED BY <3>2, <3>3
    <2>4. CASE BeginCommit(w)
      <3>1. run'[w].at = "publishing"
        BY <1>0, <2>4 DEF BeginCommit, RunRecord
      <3> QED BY <1>0, <1>3, <3>1
    <2>5. CASE EndCommit(w)
      <3> PICK j \in Job : EndCommit(w)!(j)
        BY <2>5 DEF EndCommit
      <3>1. journal'[j].state = "COMMITTED" /\ run[w].job = j
        BY <1>0 DEF Marked, JournalRecord, At
      <3> QED BY <2>2, <3>1
    <2>6. CASE StoreProduct(w)
      <3>1. PICK j \in Job, stage \in Product : At(w, j, stage) /\ Goto(w, Follows(stage))
        BY <2>6 DEF StoreProduct
      <3>2. run[w].at \in Committed
        BY <3>1 DEF At, Product, Committed
      <3> QED BY <2>2, <3>2
    <2>7. CASE FinalizeReceipt(w)
      <3>1. run[w].at \in Committed
        BY <2>7 DEF FinalizeReceipt, At, Committed
      <3> QED BY <2>2, <3>1
    <2> QED BY <2>1, <2>3, <2>4, <2>5, <2>6, <2>7
  <1>4. CASE run'[w] # run[w] /\ run'[w].at = "cleanup" /\ run[w].at = "cleanup"
    <2>1. Cleanup(w) \/ Crash(w)
      BY <1>4, CleanerLeaves
    <2>2. run'[w] = Idle
      BY <1>0, <2>1 DEF Cleanup, Crash
    <2> QED BY <1>4, <2>2 DEF Idle
  <1> QED BY <1>1, <1>2, <1>3, <1>4

(* What makes a job costly: the run loses its lease, or dies, or its        *)
(* clean-up fails.                                                          *)
Price(w) ==
    /\ run[w].at # "idle"
    /\ faults' + lapses' = faults + lapses + 1
    /\ Lapse(w) \/ run' = [run EXCEPT ![w] = Idle]

(* A lost lease, a crash and a clean-up that fails each pay the price of    *)
(* one costly job.                                                          *)
LEMMA Costs ==
    ASSUME Typed, NEW w \in Worker, Lapse(w) \/ Crash(w) \/ (Cleanup(w) /\ Fault)
    PROVE  Price(w)
  <1>0. faults \in Nat /\ lapses \in Nat
    BY DEF Typed, JobsTyped
  <1>1. CASE Lapse(w)
    BY <1>0, <1>1 DEF Lapse, Price
  <1>2. CASE Crash(w)
    BY <1>0, <1>2 DEF Crash, Fault, Price
  <1>3. CASE Cleanup(w) /\ Fault
    BY <1>0, <1>3 DEF Cleanup, Fault, Price, At
  <1> QED BY <1>1, <1>2, <1>3

(* The lease of a run that goes on stays, or is lost.                       *)
LEMMA NewlyAstray ==
    ASSUME Typed, [Next]_vars, NEW j \in Job, ~Astray(j), Astray(j)'
    PROVE  \E w \in Worker : run[w].job = j /\ Price(w)
  <1>1. PICK w \in Worker : /\ run'[w].at \notin {"idle", "cleanup"} /\ run'[w].job = j
                            /\ job'[j].lease # w
    BY DEF Astray
  <1>0. run \in [Worker -> RunRecord] /\ job \in [Job -> JobRecord] /\ run'[w] # Idle
    BY <1>1 DEF Typed, RunsTyped, JobsTyped, Idle
  <1>2. ~Claim(w)
    <2>1. ASSUME Claim(w) PROVE FALSE
      <3> PICK i \in Job : Claim(w)!(i)
        BY <2>1 DEF Claim
      <3>1. job'[i].lease = w
        BY <1>0
      <3>2. run'[w].job = i
        BY <1>0 DEF Idle
      <3> QED BY <1>1, <3>1, <3>2
    <2> QED BY <2>1
  <1>3. run[w].job = j /\ run[w].at \notin {"idle", "cleanup"}
    <2>1. CASE run'[w] = run[w]
      BY <1>1, <2>1
    <2>2. CASE run'[w] # run[w]
      <3>1. OwnStep(w) /\ run'[w].job = run[w].job /\ run[w].at # "idle"
        BY <1>0, <1>2, <2>2, RunMoves
      <3>2. run[w].at # "cleanup"
        <4>1. ASSUME run[w].at = "cleanup" PROVE FALSE
          <5>1. Cleanup(w) \/ Crash(w)
            BY <2>2, <4>1, CleanerLeaves
          <5> QED BY <1>0, <5>1 DEF Cleanup, Crash
        <4> QED BY <4>1
      <3> QED BY <1>1, <3>1, <3>2
    <2> QED BY <2>1, <2>2
  <1>4. job[j].lease = w
    BY <1>3 DEF Astray
  <1>5. ~Complete(w)
    BY <1>1, CompleteMoves
  <1>6. Lapse(w)
    BY <1>0, <1>1, <1>4, <1>5, LeaseStep
  <1> QED BY <1>3, <1>6, Costs

(* A run is never mistaken about its journal, unless it was or its job was  *)
(* worked on without a lease.                                               *)
LEMMA NeverNewlyMistaken ==
    ASSUME Typed, Backed, [Next]_vars, \A w \in Cleaning : Settled(run[w].job),
           NEW j \in Job, ~Astray(j), ~Mistaken(j)
    PROVE  ~Mistaken(j)'
  <1> SUFFICES ASSUME NEW w \in Worker,
                      run'[w].at \in Committed \cup {"cleanup"}, run'[w].job = j,
                      journal'[j].state \in {"PREPARED", "ROLLED_BACK"}
               PROVE  FALSE
    BY DEF Mistaken
  <1>0. /\ journal \in [Job -> JournalRecord] /\ JournalMoves(j)
        /\ Committed \cap {"idle", "cleanup", "publishing", "prepared"} = {}
        /\ job[j].lease # None => job[j].status = "RUNNING"
        /\ None \notin Worker
    BY JournalStep, RunConstants DEF Typed, JournalsTyped, JobsTyped, Paid, Committed
  <1>1. run[w].at \in Committed \cup {"cleanup"} /\ run[w].job = j
    BY Entering
  <1>2. journal[j].state \notin {"PREPARED", "ROLLED_BACK"}
    BY <1>1 DEF Mistaken
  <1>3. PICK v \in Worker : At(v, j, "prepared")
    <2>1. journal'[j] # journal[j] /\ journal'[j] # NoJournal
      BY <1>2 DEF NoJournal
    <2> QED BY <1>0, <1>2, <2>1 DEF JournalMoves
  <1>4. v # w /\ job[j].lease = v
    BY <1>0, <1>1, <1>3 DEF At, Astray
  <1>5. job[j].lease # w
    BY <1>4
  <1>6. run[w].at = "cleanup"
    BY <1>0, <1>1, <1>5 DEF Astray
  <1>7. Settled(j)
    BY <1>1, <1>6 DEF Cleaning
  <1> QED BY <1>0, <1>4, <1>7 DEF Settled

(* A journal is left behind by a clean-up that failed or a worker that died *)
(* before it, unless the job was costly before.                             *)
LEMMA NewlyLeft ==
    ASSUME Typed, Backed, [Next]_vars,
           NEW j \in Job, ~Astray(j), ~Mistaken(j), ~LeftBehind(j), LeftBehind(j)'
    PROVE  \E w \in Worker : run[w].job = j /\ Price(w)
  <1>0. /\ run \in [Worker -> RunRecord] /\ journal \in [Job -> JournalRecord]
        /\ job \in [Job -> JobRecord] /\ JournalMoves(j)
        /\ job[j].lease # None => job[j].status = "RUNNING"
        /\ None \notin Worker
    BY JournalStep, RunConstants DEF Typed, RunsTyped, JournalsTyped, JobsTyped, Paid
  <1>1. /\ Settled(j)' /\ journal'[j].state # "absent"
        /\ \A w \in Worker : ~(run'[w].at = "cleanup" /\ run'[w].job = j)
    BY DEF LeftBehind, Present, At
  <1>2. CASE ~Settled(j)
    <2>1. PICK w \in Worker : Complete(w) /\ run[w].job = j /\ job[j].status = "RUNNING"
                              /\ job'[j].status = "COMMITTED"
      BY <1>1, <1>2, StatusStep DEF Settled
    <2>2. PICK i \in Job : Complete(w)!(i)
      BY <2>1 DEF Complete
    <2>3. Current(w) /\ run[w].job = j
      BY <2>1, <2>2 DEF At
    <2>4. run' = [run EXCEPT ![w] = [run[w] EXCEPT !.at = "cleanup"]]
      BY <2>2, <2>3 DEF Goto, Continue
    <2>5. run'[w].at = "cleanup" /\ run'[w].job = j
      BY <1>0, <2>3, <2>4 DEF RunRecord
    <2> QED BY <1>1, <2>5
  <1>3. CASE Settled(j) /\ journal[j].state # "absent"
    <2>1. PICK w \in Worker : At(w, j, "cleanup")
      BY <1>3 DEF LeftBehind, Present
    <2>2. run'[w] # run[w]
      BY <1>1, <2>1 DEF At
    <2>3. Cleanup(w) \/ Crash(w)
      BY <2>1, <2>2, CleanerLeaves DEF At
    <2>4. CASE Crash(w) \/ (Cleanup(w) /\ Fault)
      BY <2>1, <2>4, Costs DEF At
    <2>5. CASE Cleanup(w) /\ ~Fault
      <3>1. PICK i \in Job : At(w, i, "cleanup") /\ journal' = Cleaned(i)
        BY <2>5 DEF Cleanup
      <3>2. i = j
        BY <2>1, <3>1 DEF At
      <3>3. IsTerminal(j)
        <4>1. journal[j].state \notin {"PREPARED", "ROLLED_BACK"}
          BY <2>1 DEF Mistaken, At
        <4>2. journal[j].state \in JournalState
          BY <1>0 DEF JournalRecord
        <4> QED BY <1>3, <4>1, <4>2 DEF IsTerminal, JournalState
      <3>4. journal'[j] = NoJournal
        BY <1>0, <3>1, <3>2, <3>3 DEF Cleaned
      <3> QED BY <1>1, <3>4 DEF NoJournal
    <2> QED BY <2>3, <2>4, <2>5
  <1>4. CASE Settled(j) /\ journal[j].state = "absent"
    <2>1. PICK v \in Worker : At(v, j, "prepared")
      <3>1. journal'[j] # journal[j] /\ journal'[j] # NoJournal
        BY <1>1, <1>4 DEF NoJournal
      <3> QED BY <1>0, <1>4, <3>1 DEF JournalMoves
    <2>2. job[j].lease = v
      BY <2>1 DEF Astray, At
    <2> QED BY <1>0, <1>4, <2>2 DEF Settled
  <1> QED BY <1>2, <1>3, <1>4

(* The counters never fall.                                                 *)
LEMMA CountersGrow == Typed /\ [Next]_vars => faults' + lapses' >= faults + lapses
  <1> SUFFICES ASSUME Typed, [Next]_vars PROVE faults' >= faults /\ lapses' >= lapses
                                               /\ faults' \in Nat /\ lapses' \in Nat
    BY DEF Typed, JobsTyped
  <1>0. faults \in Nat /\ lapses \in Nat
    BY DEF Typed, JobsTyped
  <1>1. ASSUME NEW w \in Worker, Lapse(w) PROVE faults' = faults /\ lapses' = lapses + 1
    BY <1>0, <1>1 DEF Lapse
  <1>2. ASSUME NEW w \in Worker, Recover(w) \/ Execute(w) \/ Claim(w) \/ Fail(w)
        PROVE faults' = faults /\ lapses' = lapses
    BY <1>2 DEF Recover, RecoverPending, InspectJournal, InspectRolledBack, InspectDiscard, InspectNoJournal,
       Execute, MakePlan, PrepareReceipt, RefuseCommit, BeginCommit, EndCommit, Claim, Fail
  <1>3. ASSUME NEW w \in Worker, Finalize(w) PROVE faults' \in {faults, faults + 1} /\ lapses' = lapses
    BY <1>3 DEF Finalize, StoreProduct, FinalizeReceipt, Complete, Cleanup, Fault
  <1>4. ASSUME NEW w \in Worker, CommitFails(w) \/ StepFails(w) \/ Crash(w)
        PROVE  faults' = faults + 1 /\ lapses' = lapses
    BY <1>4 DEF CommitFails, StepFails, Crash, Fault
  <1>5. ASSUME NEW j \in Job, RetryFailed(j) \/ Lifecycle(j) PROVE faults' = faults /\ lapses' = lapses
    BY <1>5 DEF RetryFailed, Lifecycle, ReleaseHistory, ExpireJournal, ExpireJob, ExpireReceipt
  <1>6. ASSUME UNCHANGED vars PROVE faults' = faults /\ lapses' = lapses
    BY <1>6 DEF vars
  <1> QED BY <1>0, <1>1, <1>2, <1>3, <1>4, <1>5, <1>6 DEF Next, RunClaimed

(* A step makes at most one job costly.                                     *)
LEMMA OnePrice ==
    ASSUME Typed, NEW v \in Worker, NEW w \in Worker, Price(v), Price(w)
    PROVE  run[v].job = run[w].job
  <1>0. /\ run \in [Worker -> RunRecord] /\ job \in [Job -> JobRecord]
        /\ run[v].job \in Job /\ run[w].job \in Job /\ None \notin Worker
    BY RunConstants DEF Typed, RunsTyped, JobsTyped, Whole, Price
  <1>1. CASE Lapse(v) /\ Lapse(w)
    <2> PICK a \in Job, b \in Job : a = run[v].job /\ b = run[w].job
      BY <1>0
    <2>1. job' = [job EXCEPT ![a].lease = None] /\ job' = [job EXCEPT ![b].lease = None]
          /\ job[a].lease = v
      BY <1>1 DEF Lapse
    <2> QED BY <1>0, <2>1 DEF JobRecord
  <1>2. ASSUME NEW x \in Worker, NEW y \in Worker, Price(x), Lapse(y), run' = [run EXCEPT ![x] = Idle]
        PROVE  FALSE
    BY <1>0, <1>2 DEF Lapse, Price, Idle
  <1>3. CASE run' = [run EXCEPT ![v] = Idle] /\ run' = [run EXCEPT ![w] = Idle]
    <2>1. v = w
      BY <1>0, <1>3 DEF Price, Idle
    <2> QED BY <2>1
  <1> QED BY <1>1, <1>2, <1>3 DEF Price

(* The accounts stay balanced.                                              *)
LEMMA AccountedStep == Typed /\ Backed /\ Accounted /\ [Next]_vars => Accounted'
  <1> SUFFICES ASSUME Typed, Backed, Accounted, [Next]_vars PROVE Accounted'
    OBVIOUS
  <1>0. /\ faults \in Nat /\ lapses \in Nat /\ Costly \subseteq Job /\ Costly' \subseteq Job
        /\ IsFiniteSet(Job) /\ run \in [Worker -> RunRecord]
    BY FS_Interval, RunConstants DEF Typed, RunsTyped, JobsTyped, Costly, Job
  <1>1. (\A w \in Cleaning : Settled(run[w].job))'
    <2> SUFFICES ASSUME NEW w \in Worker, run'[w].at = "cleanup"
                 PROVE  job'[run'[w].job].status \in {"COMMITTED", "deleted"}
      BY DEF Cleaning, Settled
    <2>1. CASE run[w].at = "cleanup"
      <3>1. run'[w] = run[w]
        <4> SUFFICES ASSUME run'[w] # run[w] PROVE FALSE
          OBVIOUS
        <4>1. run'[w] = Idle
          BY <1>0, <2>1, CleanerLeaves DEF Cleanup, Crash
        <4> QED BY <4>1 DEF Idle
      <3>2. PICK j \in Job : j = run[w].job
        BY <2>1 DEF Typed, RunsTyped, Whole
      <3>3. Settled(j)'
        BY <2>1, <3>2, SettledKept DEF Accounted, Cleaning
      <3> QED BY <3>1, <3>2, <3>3 DEF Settled
    <2>2. CASE run[w].at # "cleanup"
      BY <2>2, CleanerComes DEF Settled
    <2> QED BY <2>1, <2>2
  <1>2. IsFiniteSet(Cleaning')
    <2>1. CASE Cleaning' \subseteq Cleaning
      BY <2>1, FS_Subset DEF Accounted
    <2>2. CASE ~(Cleaning' \subseteq Cleaning)
      <3>1. PICK w \in Worker : run'[w].at = "cleanup" /\ run[w].at # "cleanup"
        BY <2>2 DEF Cleaning
      <3>2. \A v \in Worker \ {w} : run'[v] = run[v]
        BY <3>1, CleanerComes
      <3>3. Cleaning' \subseteq Cleaning \cup {w}
        BY <3>2 DEF Cleaning
      <3>4. IsFiniteSet(Cleaning \cup {w})
        BY FS_AddElement DEF Accounted
      <3> QED BY <3>3, <3>4, FS_Subset
    <2> QED BY <2>1, <2>2
  <1>3. \A j \in Costly' \ Costly : \E w \in Worker : run[w].job = j /\ Price(w)
    <2> SUFFICES ASSUME NEW j \in Costly', j \notin Costly
                 PROVE  \E w \in Worker : run[w].job = j /\ Price(w)
      OBVIOUS
    <2>1. j \in Job /\ ~Astray(j) /\ ~Mistaken(j) /\ ~LeftBehind(j)
      BY <1>0 DEF Costly
    <2>2. ~Mistaken(j)'
      BY <2>1, NeverNewlyMistaken DEF Accounted
    <2>3. Astray(j)' \/ LeftBehind(j)'
      BY <2>2 DEF Costly
    <2> QED BY <2>1, <2>3, NewlyAstray, NewlyLeft
  <1>4. IsFiniteSet(Costly) /\ Cardinality(Costly) \in Nat
    BY <1>0, FS_Subset, FS_CardinalityType
  <1>5. CASE Costly' \subseteq Costly
    <2>1. IsFiniteSet(Costly') /\ Cardinality(Costly') <= Cardinality(Costly)
      BY <1>4, <1>5, FS_Subset
    <2>2. /\ Cardinality(Costly') \in Nat /\ faults' + lapses' >= faults + lapses
          /\ faults' \in Nat /\ lapses' \in Nat
      <3>1. Cardinality(Costly') \in Nat
        BY <2>1, FS_CardinalityType
      <3>2. faults' \in Nat /\ lapses' \in Nat
        BY TypedStep DEF Typed, JobsTyped
      <3> QED BY <3>1, <3>2, CountersGrow
    <2>3. Cardinality(Costly) <= faults + lapses
      BY DEF Accounted
    <2>4. \A a, b, c, d \in Int : a <= b /\ b <= c /\ d >= c => a <= d
      OBVIOUS
    <2>5. \A m \in Nat, n \in Nat : m + n \in Int /\ m \in Int
      OBVIOUS
    <2>6. faults \in Nat /\ lapses \in Nat
      BY <1>0
    <2>7. /\ faults + lapses \in Int /\ faults' + lapses' \in Int
          /\ Cardinality(Costly) \in Int /\ Cardinality(Costly') \in Int
      BY <2>2, <2>5, <2>6, <1>4
    <2>8. Cardinality(Costly') <= faults' + lapses'
      BY <2>1, <2>2, <2>3, <2>4, <2>7
    <2> QED BY <1>1, <1>2, <2>8 DEF Accounted
  <1>6. CASE ~(Costly' \subseteq Costly)
    <2>1. PICK j \in Costly' : j \notin Costly
      BY <1>6
    <2>2. PICK w \in Worker : run[w].job = j /\ Price(w)
      BY <1>3, <2>1
    <2>3. Costly' \subseteq Costly \cup {j}
      BY <1>3, <2>2, OnePrice
    <2>4. /\ IsFiniteSet(Costly \cup {j})
          /\ Cardinality(Costly \cup {j}) = Cardinality(Costly) + 1
      BY <1>4, <2>1, FS_AddElement
    <2>5. IsFiniteSet(Costly') /\ Cardinality(Costly') <= Cardinality(Costly) + 1
      BY <2>3, <2>4, FS_Subset
    <2>6. faults' + lapses' = faults + lapses + 1 /\ Cardinality(Costly') \in Nat
      BY <2>2, <2>5, FS_CardinalityType DEF Price
    <2>7. Cardinality(Costly') <= faults' + lapses'
      BY <1>0, <1>4, <2>5, <2>6 DEF Accounted
    <2> QED BY <1>1, <1>2, <2>7 DEF Accounted
  <1> QED BY <1>5, <1>6

(* No more jobs are being cleaned up than runs clean up.                    *)
LEMMA CleanedJobs ==
    ASSUME IsFiniteSet(Cleaning)
    PROVE  /\ IsFiniteSet({run[w].job : w \in Cleaning})
           /\ Cardinality({run[w].job : w \in Cleaning}) <= Cardinality(Cleaning)
  <1> DEFINE jobs == {run[w].job : w \in Cleaning}
             f == [w \in Cleaning |-> run[w].job]
  <1>1. f \in Surjection(Cleaning, jobs)
    BY DEF Surjection
  <1> HIDE DEF jobs, f
  <1>2. IsFiniteSet(jobs) /\ Cardinality(jobs) <= Cardinality(Cleaning)
    BY <1>1, FS_Surjection
  <1> QED BY <1>2 DEF jobs

(* Only the head of the queue needs its journal.  Every other file is one   *)
(* that a run is about to remove, or has cost a fault or a lost lease: the  *)
(* files cannot pile up to max_records while the program runs undisturbed,  *)
(* for any number of workers and jobs.                                      *)
THEOREM FewJournals == Spec => []JournalsBounded
  <1>1. Init => Accounted
    <2> SUFFICES ASSUME Init PROVE Accounted
      OBVIOUS
    <2>1. Cleaning = {} /\ Costly = {} /\ faults + lapses = 0
      BY DEF Init, Cleaning, Costly, Astray, Mistaken, LeftBehind, Present, Idle, NoJournal, Committed
    <2> QED BY <2>1, FS_EmptySet DEF Accounted
  <1>2. IInv /\ Accounted /\ [Next]_vars => Accounted'
    BY AccountedStep DEF IInv
  <1>3. IInv /\ Accounted => JournalsBounded
    <2> SUFFICES ASSUME IInv, Accounted PROVE JournalsBounded
      OBVIOUS
    <2> DEFINE Finished == {j \in Present : Settled(j)}
               Cleaned_ == {run[w].job : w \in Cleaning}
    <2>1. \A j \in Present : Settled(j) \/ IsOldest(j)
      BY DEF IInv, HeadOnly, Present, Reached, IsOldest
    <2>2. Finished \subseteq Costly \cup Cleaned_
      <3> SUFFICES ASSUME NEW j \in Job, j \in Present, Settled(j), j \notin Cleaned_
                   PROVE  j \in Costly
        BY DEF Present
      <3>1. LeftBehind(j)
        BY DEF LeftBehind, At, Cleaning
      <3> QED BY <3>1 DEF Costly
    <2>3. IsFiniteSet(Cleaned_) /\ Cardinality(Cleaned_) <= Cardinality(Cleaning)
      BY CleanedJobs DEF Accounted
    <2>4. IsFiniteSet(Costly)
      <3>1. Costly \subseteq Job /\ IsFiniteSet(Job)
        BY FS_Interval, RunConstants DEF Costly, Job
      <3> QED BY <3>1, FS_Subset
    <2> HIDE DEF Finished, Cleaned_
    <2>5. /\ IsFiniteSet(Costly \cup Cleaned_)
          /\ Cardinality(Costly \cup Cleaned_)
               = Cardinality(Costly) + Cardinality(Cleaned_) - Cardinality(Costly \cap Cleaned_)
      BY <2>3, <2>4, FS_Union
    <2>6. IsFiniteSet(Finished) /\ Cardinality(Finished) <= Cardinality(Costly \cup Cleaned_)
      BY <2>2, <2>5, FS_Subset
    <2>7. /\ Cardinality(Costly) \in Nat /\ Cardinality(Cleaned_) \in Nat
          /\ Cardinality(Cleaning) \in Nat /\ Cardinality(Finished) \in Nat
          /\ faults \in Nat /\ lapses \in Nat
      BY <2>3, <2>4, <2>6, FS_CardinalityType DEF Accounted, IInv, Typed, JobsTyped
    <2>8. Cardinality(Costly \cap Cleaned_) \in Nat
      <3>1. IsFiniteSet(Costly \cap Cleaned_)
        BY <2>4, FS_Subset
      <3> QED BY <3>1, FS_CardinalityType
    <2>9. Cardinality(Finished) <= faults + lapses + Cardinality(Cleaning)
      BY <2>3, <2>5, <2>6, <2>7, <2>8 DEF Accounted
    <2> QED BY <2>1, <2>9 DEF JournalsBounded, Finished, Cleaning
  <1> QED BY <1>1, <1>2, <1>3, RunInvariant, PTL DEF Spec
=============================================================================

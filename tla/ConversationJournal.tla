------------------------- MODULE ConversationJournal -------------------------
(***************************************************************************)
(* The message journal of one conversation (memory/conversation/messages)  *)
(* with its ingress receipts, the foreground that appends deliveries and   *)
(* seals segments into the job outbox (memory/workflow/ingest), the worker *)
(* that completes staged jobs (memory/workflow/recovery) and the lifecycle *)
(* that releases history (memory/workflow/lifecycle).                      *)
(*                                                                         *)
(* A file of messages is a function from consecutive sequence numbers to   *)
(* bodies; a history file is named by its range, so the function stands    *)
(* for name, content and digest.  Every operation runs inside the fence of *)
(* the conversation lock, one caller at a time; each durable write is a    *)
(* step of its own, and a caller may stop between any two of them, as it   *)
(* does when the process dies or a write raises.  seal leaves the fence    *)
(* around its outbox callback: there its lease may be lost.                *)
(***************************************************************************)
EXTENDS Integers, FiniteSets, FiniteSetsExt, Functions

CONSTANTS
    Request,      \* deliveries: records [id, batch], batch a file of messages
    InStep,       \* TRUE: the host never sends a delivery that leaves a gap
    Foreground,   \* threads that append deliveries and enqueue segments
    MaxFaults     \* bound: callers that stop half-way, leases that are lost,
                  \* jobs that fail after they were claimed

DeliveryId == {r.id : r \in Request}
Empty == [n \in {} |-> 0]
Lo(f) == Min(DOMAIN f)
Hi(f) == Max(DOMAIN f)

\* bound: sequence numbers and bodies are those of the requests
Sequence == UNION {DOMAIN r.batch : r \in Request}
Body == UNION {Range(r.batch) : r \in Request}
Ranges == {a..b : a, b \in Sequence} \ {{}}
Segment == UNION {[s -> Body] : s \in Ranges}

ASSUME JournalConstants ==
    /\ \A r \in Request : \E a, b \in Sequence : a <= b /\ r.batch \in [a..b -> Body]
    /\ Sequence \subseteq Nat
    /\ {"worker", "keeper"} \cap Foreground = {}
    /\ InStep \in BOOLEAN /\ MaxFaults \in Nat

Caller == Foreground \cup {"worker", "keeper"}

VARIABLES
    live,       \* live.jsonl
    history,    \* the history files
    cursor,     \* state.json: archived_through, released_through, latest segment
    receipts,   \* DeliveryId -> the ingress receipt file
    jobs,       \* segment -> the status of its MemoryJob, for the jobs there are
    abandoned,  \* the segments with a record of abandonment
    callers,    \* Caller -> where it is in its operation
    acked,      \* requests whose append returned
    faults      \* faults so far

vars == <<live, history, cursor, receipts, jobs, abandoned, callers, acked, faults>>
disk == <<live, history, cursor, receipts>>

NoReceipt == [state |-> "none", batch |-> Empty]
NoCursor == [archived |-> -1, released |-> -1, latest |-> Empty]
Idle == [phase |-> "idle", req |-> CHOOSE r \in Request : TRUE, through |-> 0,
         seg |-> Empty, job |-> Empty, why |-> "new", todo |-> {},
         checked |-> FALSE, completed |-> FALSE]

Fenced == {"append", "prepared", "written", "plan", "read", "seal", "created", "trimmed", "list", "release", "unlink", "purge"}
Holding == Fenced \cup {"staging", "staged"}

\* The lock admits one caller, from its first fence until it returns.
Free(c) == \A d \in Caller \ {c} : callers[d].phase \notin Holding

Go(c, change) == callers' = [callers EXCEPT ![c] = change]
Return(c) == Go(c, Idle)

-----------------------------------------------------------------------------
(* Reading the files back.                                                  *)

Merge(files) == [n \in UNION {DOMAIN f : f \in files} |->
                    (CHOOSE f \in files : n \in DOMAIN f)[n]]

Newer == {s \in history : Lo(s) > cursor.archived}

\* _load_state: an interrupted seal left history newer than the cursor.
Repaired ==
    IF Newer = {} THEN cursor
    ELSE LET last == CHOOSE s \in Newer : \A t \in Newer : Lo(t) <= Lo(s)
         IN  [cursor EXCEPT !.archived = Hi(last), !.latest = last]

Active(cur) == {s \in history : Hi(s) > cur.released /\ Hi(s) <= cur.archived}

\* _history_references and _load_state accept the files.
Crosses(n) == \E s \in history : Lo(s) <= n /\ n < Hi(s)
Loadable ==
    LET cur == Repaired
    IN  /\ \A s, t \in history : s # t => DOMAIN s \cap DOMAIN t = {}
        /\ ~Crosses(cursor.archived) /\ ~Crosses(cursor.released)
        /\ Newer # {} =>
              UNION {DOMAIN s : s \in Newer} = (cursor.archived + 1)..cur.archived
        /\ cur.archived > cur.released =>
              /\ UNION {DOMAIN s : s \in Active(cur)} = (cur.released + 1)..cur.archived
              /\ cur.latest \in Active(cur) /\ Hi(cur.latest) = cur.archived

\* _latest_retained_segment
Latest(cur) == IF cur.archived <= cur.released THEN Empty ELSE cur.latest

\* Messages that live shares with the latest segment after an interrupted seal.
Overlap(cur) == DOMAIN live \cap DOMAIN Latest(cur)

Rest(cur) == Restrict(live, DOMAIN live \ DOMAIN Latest(cur))

\* _recover_archived_prefix and _require_tail_continuity accept the live file.
Joined ==
    LET cur == Repaired
    IN  /\ \A n \in Overlap(cur) : live[n] = cur.latest[n]
        /\ DOMAIN live # {} /\ DOMAIN Latest(cur) # {} => Lo(live) >= Lo(cur.latest)
        /\ DOMAIN Rest(cur) # {} => Lo(Rest(cur)) = cur.archived + 1

next_sequence == IF DOMAIN live # {} THEN Hi(live) + 1 ELSE cursor.archived + 1

(* The first writes of an operation: _load_state stores the repaired cursor,*)
(* _recover_archived_prefix rewrites live without what is archived.         *)
Repair(c) ==
    /\ callers[c].phase \in {"append", "plan", "read", "seal", "staged", "list",
                             "trimmed", "release", "purge"}
    /\ Newer # {} /\ Loadable
    /\ cursor' = Repaired
    /\ UNCHANGED <<live, history, receipts, jobs, abandoned, callers, acked, faults>>

Trim(c) ==
    /\ callers[c].phase \in {"append", "plan", "seal", "staged"}
    /\ Newer = {} /\ Loadable /\ Joined
    /\ Overlap(cursor) # {}
    /\ live' = Rest(cursor)
    /\ UNCHANGED <<history, cursor, receipts, jobs, abandoned, callers, acked, faults>>

Loaded == Newer = {} /\ Loadable
Opened == Loaded /\ Joined /\ Overlap(cursor) = {}

-----------------------------------------------------------------------------
(* Ingress receipts.                                                        *)

\* Every message the recovery of a receipt finds, released files included.
Found(range) ==
    LET files == {live} \cup history
    IN  Restrict(Merge(files), range \cap UNION {DOMAIN f : f \in files})

Prepared == {d \in DeliveryId : receipts[d].state = "prepared"}

\* _recover_all_prepared_ingress went through every receipt.
Settled == Prepared = {}

\* _recover_ingress_receipt
RecoveredReceipt(receipt) ==
    LET found == Found(DOMAIN receipt.batch)
    IN  IF DOMAIN found = {} THEN NoReceipt ELSE [receipt EXCEPT !.state = "committed"]

\* Mutant of Recoverable: what is found is not compared with the receipt.
RecoverableAny(receipt) == TRUE

Recoverable(receipt) ==
    LET found == Found(DOMAIN receipt.batch)
    IN  IF DOMAIN found = {}
        THEN next_sequence <= Lo(receipt.batch)
        ELSE found = receipt.batch

\* append looks at its own receipt, seal and list_history at every one.
Examines(c, d) ==
    /\ d \in Prepared
    /\ CASE callers[c].phase = "append" -> Opened /\ callers[c].req.id = d
         [] callers[c].phase \in {"seal", "staged"} -> Opened
         [] callers[c].phase = "list" -> Loaded
         [] OTHER -> FALSE

RecoverReceipt(c, d) ==
    /\ Examines(c, d)
    /\ Recoverable(receipts[d])
    /\ receipts' = [receipts EXCEPT ![d] = RecoveredReceipt(@)]
    /\ UNCHANGED <<live, history, cursor, jobs, abandoned, callers, acked, faults>>

-----------------------------------------------------------------------------
(* append *)

StartAppend(c, r) ==
    /\ callers[c].phase = "idle" /\ Free(c)
    /\ InStep => Lo(r.batch) <= next_sequence
    /\ Go(c, [Idle EXCEPT !.phase = "append", !.req = r])
    /\ UNCHANGED <<disk, jobs, abandoned, acked, faults>>

\* The delivery is known: it is acknowledged again, or its id is taken.
AppendKnown(c) ==
    LET r == callers[c].req
    IN  /\ callers[c].phase = "append" /\ Opened
        /\ receipts[r.id].state = "committed"
        /\ acked' = IF receipts[r.id].batch = r.batch THEN acked \cup {r} ELSE acked
        /\ Return(c)
        /\ UNCHANGED <<disk, jobs, abandoned, faults>>

PreparedReceipt(r) == [state |-> "prepared", batch |-> r.batch]

Prepare(c) ==
    LET r == callers[c].req
    IN  /\ callers[c].phase = "append" /\ Opened
        /\ receipts[r.id].state = "none"
        /\ receipts' = [receipts EXCEPT ![r.id] = PreparedReceipt(r)]
        /\ Go(c, [callers[c] EXCEPT !.phase = "prepared"])
        /\ UNCHANGED <<live, history, cursor, jobs, abandoned, acked, faults>>

\* _known_for_append and the checks of append: a replay repeats what is stored
\* and is still retained, and new messages continue the sequence.
Acceptable(batch) ==
    LET known == Merge({live} \cup history)
    IN  /\ Lo(batch) <= next_sequence
        /\ Lo(batch) < next_sequence => Lo(batch) > cursor.released
        /\ \A n \in DOMAIN batch : n < next_sequence => known[n] = batch[n]

Unseen(batch) == {n \in DOMAIN batch : n >= next_sequence}

AppendRefused(c) ==
    /\ callers[c].phase = "prepared"
    /\ ~Acceptable(callers[c].req.batch)
    /\ Return(c)
    /\ UNCHANGED <<disk, jobs, abandoned, acked, faults>>

AppendedLive(batch) == Merge({live, Restrict(batch, Unseen(batch))})

WriteLive(c) ==
    LET batch == callers[c].req.batch
    IN  /\ callers[c].phase = "prepared"
        /\ Acceptable(batch)
        /\ live' = IF Unseen(batch) = {} THEN live ELSE AppendedLive(batch)
        /\ Go(c, [callers[c] EXCEPT !.phase = "written"])
        /\ UNCHANGED <<history, cursor, receipts, jobs, abandoned, acked, faults>>

CommitReceipt(c) ==
    LET r == callers[c].req
    IN  /\ callers[c].phase = "written"
        /\ receipts' = [receipts EXCEPT ![r.id].state = "committed"]
        /\ acked' = acked \cup {r}
        /\ Return(c)
        /\ UNCHANGED <<live, history, cursor, jobs, abandoned, faults>>

-----------------------------------------------------------------------------
(* enqueue_ready_segments: plan a boundary, complete the staged jobs of the *)
(* conversation once, then seal and enqueue.                                *)

StartPass(c) ==
    /\ callers[c].phase = "idle" /\ Free(c)
    /\ Go(c, [Idle EXCEPT !.phase = "plan"])
    /\ UNCHANGED <<disk, jobs, abandoned, acked, faults>>

\* The planner's boundary is any message of live, or there is nothing to seal.
Plan(c) ==
    /\ callers[c].phase = "plan" /\ Opened
    /\ \/ Return(c)
       \/ \E n \in DOMAIN live :
             Go(c, [callers[c] EXCEPT !.phase = IF callers[c].checked THEN "boundary" ELSE "listing",
                                      !.through = n])
    /\ UNCHANGED <<disk, jobs, abandoned, acked, faults>>

\* Mutant of Unfinished: staged jobs are not looked for.
UnfinishedNone == {}

Unfinished == {s \in DOMAIN jobs : jobs[s] \in {"STAGED", "FAILED"}}

\* _complete_staged takes the list before it touches any of the jobs.
ListStaged(c) ==
    /\ callers[c].phase = "listing"
    /\ Go(c, [callers[c] EXCEPT !.phase = "completing", !.checked = TRUE,
                 !.todo = {[seg |-> s, exhausted |-> jobs[s] = "FAILED"] : s \in Unfinished}])
    /\ UNCHANGED <<disk, jobs, abandoned, acked, faults>>

CompleteNext(c) ==
    /\ callers[c].phase = "completing"
    /\ \E t \in callers[c].todo :
          /\ \A u \in callers[c].todo : Lo(t.seg) <= Lo(u.seg)
          /\ Free(c)
          /\ Go(c, [callers[c] EXCEPT !.phase = "read", !.job = t.seg, !.todo = @ \ {t},
                       !.why = IF t.exhausted THEN "exhausted" ELSE "complete"])
    /\ UNCHANGED <<disk, jobs, abandoned, acked, faults>>

\* Everything staged is completed: plan again when a segment was sealed, else
\* go on with the boundary that was planned.
CompletedAll(c) ==
    /\ callers[c].phase = "completing" /\ callers[c].todo = {}
    /\ IF callers[c].completed
       THEN Free(c) /\ Go(c, [Idle EXCEPT !.phase = "plan", !.checked = TRUE])
       ELSE Go(c, [Idle EXCEPT !.phase = "boundary", !.through = callers[c].through,
                               !.checked = TRUE])
    /\ UNCHANGED <<disk, jobs, abandoned, acked, faults>>

-----------------------------------------------------------------------------
(* seal *)

\* jobs.stage: an existing job is returned as it is.
StageJob(s) == IF s \in DOMAIN jobs THEN jobs
               ELSE [t \in DOMAIN jobs \cup {s} |-> IF t = s THEN "STAGED" ELSE jobs[t]]

\* jobs.activate rewrites only a STAGED job.
ActivateJob(s) ==
    [t \in DOMAIN jobs |-> IF t = s /\ jobs[t] = "STAGED" THEN "QUEUED" ELSE jobs[t]]

StartSeal(c) ==
    /\ callers[c].phase = "boundary" /\ Free(c)
    /\ Go(c, [callers[c] EXCEPT !.phase = "seal"])
    /\ UNCHANGED <<disk, jobs, abandoned, acked, faults>>

\* _prepare_seal: the live prefix up to the boundary, or the segment that
\* already ends there; Empty when the boundary selects nothing.
Selects(t) == DOMAIN live # {} /\ t \in DOMAIN live
SealPlan(t) ==
    IF Selects(t) THEN Restrict(live, Lo(live)..t)
    ELSE IF DOMAIN Latest(cursor) # {} /\ (DOMAIN live # {} => t < Lo(live))
            /\ Hi(Latest(cursor)) = t
         THEN Latest(cursor) ELSE Empty
SealReady(c) == Opened /\ Settled /\ SealPlan(callers[c].through) # Empty

\* Mutant of NeedsOutbox: every seal publishes without its callback.
NeedsOutboxNever(c) == FALSE

\* Only the worker's recovery seals without a callback.
NeedsOutbox(c) == callers[c].why # "recover"

SealFirst(c) ==
    LET t == callers[c].through
        seg == SealPlan(t)
    IN  /\ callers[c].phase = "seal" /\ SealReady(c)
        /\ IF ~Selects(t)
           THEN /\ Go(c, [callers[c] EXCEPT !.phase = "sealed", !.seg = seg])
                /\ UNCHANGED history
           ELSE IF NeedsOutbox(c)
           THEN /\ Go(c, [callers[c] EXCEPT !.phase = "staging", !.seg = seg])
                /\ UNCHANGED history
           ELSE /\ history' = history \cup {seg}
                /\ Go(c, [callers[c] EXCEPT !.phase = "created", !.seg = seg])
        /\ UNCHANGED <<live, cursor, receipts, jobs, abandoned, acked, faults>>

(* The outbox callback, outside the fence: seal_and_enqueue stages the job, *)
(* _complete_staged compares the segment with the job's.  checkpoint then   *)
(* raises when the lease was lost.                                          *)
Callback(c) ==
    LET v == callers[c]
    IN  /\ v.phase \in {"staging", "lost"}
        /\ IF v.why = "new" THEN jobs' = StageJob(v.seg) ELSE UNCHANGED jobs
        /\ IF v.phase = "staging" /\ (v.why # "new" => v.seg = v.job)
           THEN Go(c, [v EXCEPT !.phase = "staged"])
           ELSE Return(c)
        /\ UNCHANGED <<disk, abandoned, acked, faults>>

LoseLease(c) ==
    /\ callers[c].phase \in {"staging", "staged"}
    /\ faults < MaxFaults /\ faults' = faults + 1
    /\ IF callers[c].phase = "staging"
       THEN Go(c, [callers[c] EXCEPT !.phase = "lost"]) ELSE Return(c)
    /\ UNCHANGED <<disk, jobs, abandoned, acked>>

\* The second fence prepares the seal again; nothing came in between.
SealSecond(c) ==
    /\ callers[c].phase = "staged" /\ SealReady(c)
    /\ SealPlan(callers[c].through) = callers[c].seg
    /\ history' = history \cup {callers[c].seg}
    /\ Go(c, [callers[c] EXCEPT !.phase = "created"])
    /\ UNCHANGED <<live, cursor, receipts, jobs, abandoned, acked, faults>>

\* Mutant of Retained: one message too many is taken off live.
RetainedShort(seg) == Restrict(live, DOMAIN live \ (0..(Hi(seg) + 1)))

Retained(seg) == Restrict(live, DOMAIN live \ DOMAIN seg)

TruncateLive(c) ==
    /\ callers[c].phase = "created"
    /\ live' = Retained(callers[c].seg)
    /\ Go(c, [callers[c] EXCEPT !.phase = "trimmed"])
    /\ UNCHANGED <<history, cursor, receipts, jobs, abandoned, acked, faults>>

SealReturns(c) ==
    /\ callers[c].phase = "trimmed" /\ Newer = {}
    /\ Go(c, [callers[c] EXCEPT !.phase = "sealed"])
    /\ UNCHANGED <<disk, jobs, abandoned, acked, faults>>

-----------------------------------------------------------------------------
(* After a seal: seal_and_enqueue, _complete_staged and the worker.         *)

Restage(c) ==
    /\ callers[c].phase = "sealed" /\ callers[c].why = "new"
    /\ jobs' = StageJob(callers[c].seg)
    /\ Go(c, [callers[c] EXCEPT !.phase = "enqueued"])
    /\ UNCHANGED <<disk, abandoned, acked, faults>>

\* Activated: plan again without looking for staged jobs a second time.  An
\* abandoned job is not there to activate: the pass raises.
Enqueue(c) ==
    /\ callers[c].phase = "enqueued"
    /\ jobs' = ActivateJob(callers[c].seg)
    /\ IF callers[c].seg \in DOMAIN jobs
       THEN Free(c) /\ Go(c, [Idle EXCEPT !.phase = "plan", !.checked = TRUE])
       ELSE Return(c)
    /\ UNCHANGED <<disk, abandoned, acked, faults>>

Completed(c) ==
    LET v == callers[c]
    IN  /\ v.phase = "sealed" /\ v.why # "new" /\ v.seg = v.job
        /\ jobs' = IF v.why = "exhausted" THEN jobs ELSE ActivateJob(v.job)
        /\ IF v.why = "recover" \/ (v.why = "complete" /\ v.job \notin DOMAIN jobs)
           THEN Return(c)
           ELSE Go(c, [v EXCEPT !.phase = "completing", !.completed = TRUE])
        /\ UNCHANGED <<disk, abandoned, acked, faults>>

(* staged_job_segment: read_state decides between the published file and a  *)
(* seal at the job's boundary; an exhausted job that is published is left.  *)
StagedSegment(c) ==
    LET v == callers[c]
    IN  /\ v.phase = "read" /\ Loaded
        /\ IF v.why = "exhausted" /\ cursor.archived >= Hi(v.job)
           THEN Go(c, [v EXCEPT !.phase = "completing"])
           ELSE IF cursor.archived > Hi(v.job)
           THEN v.job \in history /\ Go(c, [v EXCEPT !.phase = "sealed", !.seg = v.job])
           ELSE Go(c, [v EXCEPT !.phase = "boundary", !.through = Hi(v.job)])
        /\ UNCHANGED <<disk, jobs, abandoned, acked, faults>>

\* MemoryStagedJobRecovery.recover
StartRecovery(s) ==
    /\ callers["worker"].phase = "idle" /\ Free("worker")
    /\ jobs[s] = "STAGED"
    /\ Go("worker", [Idle EXCEPT !.phase = "read", !.job = s, !.why = "recover"])
    /\ UNCHANGED <<disk, jobs, abandoned, acked, faults>>

\* record_staged_failure: the last attempt fails the job.
Failure(c) ==
    IF c = "worker" /\ callers[c].job \in DOMAIN jobs /\ jobs[callers[c].job] = "STAGED"
    THEN \E status \in {"STAGED", "FAILED"} : jobs' = [jobs EXCEPT ![callers[c].job] = status]
    ELSE UNCHANGED jobs

(* What the operations refuse: a receipt that cannot be recovered, a        *)
(* boundary that selects nothing, a staged job whose segment is not there.  *)
Refuses(c) ==
    LET v == callers[c]
    IN  \/ \E d \in DeliveryId : Examines(c, d) /\ ~Recoverable(receipts[d])
        \/ /\ v.phase = "seal" /\ Opened /\ Settled
           /\ SealPlan(v.through) = Empty
        \/ /\ v.phase = "read" /\ Loaded /\ cursor.archived > Hi(v.job)
           /\ v.why # "exhausted" /\ v.job \notin history
        \/ v.phase = "sealed" /\ v.why # "new" /\ v.seg # v.job
Refuse(c) ==
    /\ Refuses(c)
    /\ Failure(c)
    /\ Return(c)
    /\ UNCHANGED <<disk, abandoned, acked, faults>>

\* A caller stops: the process dies, or a write or an integrity check raises.
Stop(c) ==
    /\ callers[c].phase # "idle"
    /\ faults < MaxFaults /\ faults' = faults + 1
    /\ Failure(c)
    /\ Return(c)
    /\ UNCHANGED <<disk, abandoned, acked>>

-----------------------------------------------------------------------------
(* The rest of a job's life, and the lifecycle that releases history.       *)

\* MemoryJobQueue says how; the worker reads the segment before it commits.
CommitJob(s) ==
    /\ jobs[s] = "QUEUED" /\ s \in history
    /\ jobs' = [jobs EXCEPT ![s] = "COMMITTED"]
    /\ UNCHANGED <<disk, abandoned, callers, acked, faults>>

\* A claimed job fails for good: "BLOCKED" is FAILED with a claim_generation,
\* "FAILED" without.
FailJob(s) ==
    /\ jobs[s] = "QUEUED"
    /\ faults < MaxFaults /\ faults' = faults + 1
    /\ jobs' = [jobs EXCEPT ![s] = "BLOCKED"]
    /\ UNCHANGED <<disk, abandoned, callers, acked>>

\* The operator decides on a failed job while the worker is blocked and idle.  A
\* record, which outlives the job it was written for, refuses both decisions.
Undecided(s) ==
    /\ jobs[s] \in {"FAILED", "BLOCKED"} /\ s \notin abandoned
    /\ callers["worker"].phase = "idle"

RetryFailed(s) ==
    /\ Undecided(s)
    /\ jobs' = [jobs EXCEPT ![s] = IF @ = "FAILED" THEN "STAGED" ELSE "QUEUED"]
    /\ UNCHANGED <<disk, abandoned, callers, acked, faults>>

\* abandon_failed: the record, then the unlink.  A call cut off in between only
\* leaves the job to be abandoned and not retried (see MemoryJobQueue): one step.
AbandonFailed(s) ==
    /\ Undecided(s)
    /\ abandoned' = abandoned \cup {s}
    /\ jobs' = Restrict(jobs, DOMAIN jobs \ {s})
    /\ UNCHANGED <<disk, callers, acked, faults>>

\* _delete_expired_committed_jobs, committed_job_retention_days after the commit:
\* no caller that met the job is still running.
DiscardJob(s) ==
    /\ jobs[s] = "COMMITTED" /\ Hi(s) <= cursor.released
    /\ \A c \in Caller : callers[c].phase = "idle"
    /\ jobs' = Restrict(jobs, DOMAIN jobs \ {s})
    /\ UNCHANGED <<disk, abandoned, callers, acked, faults>>

StartKeeping ==
    /\ callers["keeper"].phase = "idle" /\ Free("keeper")
    /\ \E p \in {"list", "purge"} : Go("keeper", [Idle EXCEPT !.phase = p])
    /\ UNCHANGED <<disk, jobs, abandoned, acked, faults>>

\* _workflow_is_committed
Releasable(s) == s \in DOMAIN jobs /\ jobs[s] = "COMMITTED"

\* list_history, and the oldest segments whose jobs are committed.
ChooseRelease ==
    LET v == callers["keeper"]
    IN  /\ v.phase = "list" /\ Loaded /\ Settled
        /\ \/ Return("keeper")
           \/ \E n \in {Hi(s) : s \in Active(cursor)} :
                 LET chosen == {s \in Active(cursor) : Hi(s) <= n}
                 IN  /\ \A s \in chosen : Releasable(s)
                     /\ Go("keeper", [v EXCEPT !.phase = "chosen", !.through = n])
        /\ UNCHANGED <<disk, jobs, abandoned, acked, faults>>

StartRelease ==
    /\ callers["keeper"].phase = "chosen" /\ Free("keeper")
    /\ Go("keeper", [callers["keeper"] EXCEPT !.phase = "release"])
    /\ UNCHANGED <<disk, jobs, abandoned, acked, faults>>

ReleasedCursor(n) == [cursor EXCEPT !.released = n]

\* release_history_prefix: first the cursor, then the files one by one.
ReleasePrefix ==
    LET v == callers["keeper"]
    IN  /\ v.phase = "release" /\ Loaded
        /\ cursor' = ReleasedCursor(v.through)
        /\ Go("keeper", [v EXCEPT !.phase = "unlink", !.todo = {[seg |-> s, exhausted |-> FALSE] :
                             s \in {t \in Active(cursor) : Hi(t) <= v.through}}])
        /\ UNCHANGED <<live, history, receipts, jobs, abandoned, acked, faults>>

Unlink ==
    LET v == callers["keeper"]
    IN  /\ v.phase = "unlink"
        /\ \/ v.todo = {} /\ Return("keeper") /\ UNCHANGED history
           \/ \E t \in v.todo :
                 /\ \A u \in v.todo : Lo(t.seg) <= Lo(u.seg)
                 /\ history' = history \ {t.seg}
                 /\ Go("keeper", [v EXCEPT !.todo = @ \ {t}])
        /\ UNCHANGED <<live, cursor, receipts, jobs, abandoned, acked, faults>>

Stale == {s \in history : Hi(s) <= cursor.released}

\* purge_released_history, at most max_items files
Purge ==
    /\ callers["keeper"].phase = "purge" /\ Loaded
    /\ \/ Return("keeper") /\ UNCHANGED history
       \/ \E s \in Stale :
             /\ \A t \in Stale : Lo(s) <= Lo(t)
             /\ history' = history \ {s}
             /\ UNCHANGED callers
    /\ UNCHANGED <<live, cursor, receipts, jobs, abandoned, acked, faults>>

-----------------------------------------------------------------------------
Init ==
    /\ live = Empty /\ history = {} /\ cursor = NoCursor
    /\ receipts = [d \in DeliveryId |-> NoReceipt]
    /\ jobs = Empty /\ abandoned = {}
    /\ callers = [c \in Caller |-> Idle]
    /\ acked = {} /\ faults = 0

Foregrounds(c) ==
    \/ \E r \in Request : StartAppend(c, r)
    \/ AppendKnown(c) \/ Prepare(c) \/ AppendRefused(c) \/ WriteLive(c) \/ CommitReceipt(c)
    \/ StartPass(c) \/ Plan(c) \/ ListStaged(c) \/ CompleteNext(c) \/ CompletedAll(c)
    \/ Callback(c) \/ LoseLease(c) \/ SealSecond(c) \/ Restage(c) \/ Enqueue(c)

Seals(c) ==
    \/ StagedSegment(c) \/ StartSeal(c) \/ SealFirst(c) \/ TruncateLive(c)
    \/ SealReturns(c) \/ Completed(c)

Keeping == StartKeeping \/ ChooseRelease \/ StartRelease \/ ReleasePrefix \/ Unlink \/ Purge

Next ==
    \/ \E c \in Foreground : Foregrounds(c)
    \/ \E c \in Foreground \cup {"worker"} : Seals(c)
    \/ \E c \in Caller :
          \/ Repair(c) \/ Trim(c) \/ Refuse(c) \/ Stop(c)
          \/ \E d \in DeliveryId : RecoverReceipt(c, d)
    \/ \E s \in DOMAIN jobs :
          \/ StartRecovery(s) \/ CommitJob(s) \/ FailJob(s) \/ DiscardJob(s)
          \/ RetryFailed(s) \/ AbandonFailed(s)
    \/ Keeping

Spec == Init /\ [][Next]_vars

-----------------------------------------------------------------------------
(* Properties *)

File == Segment \cup {Empty}

TypeOK ==
    /\ live \in File
    /\ history \subseteq Segment
    /\ cursor.archived \in Sequence \cup {-1} /\ cursor.released \in Sequence \cup {-1}
    /\ cursor.latest \in File
    /\ \A d \in DeliveryId : /\ receipts[d].state \in {"none", "prepared", "committed"}
                             /\ receipts[d].batch \in File
    /\ DOMAIN jobs \subseteq Segment
    /\ \A s \in DOMAIN jobs : jobs[s] \in {"STAGED", "QUEUED", "FAILED", "BLOCKED", "COMMITTED"}
    /\ abandoned \subseteq Segment
    /\ \A c \in Caller : /\ callers[c].seg \in File /\ callers[c].job \in File
                         /\ callers[c].through \in Sequence \cup {0}
    /\ acked \subseteq Request
    /\ faults \in 0..MaxFaults

(* What the conversation's readers see: the unreleased history and live.    *)
Content == Merge({s \in history : Hi(s) > cursor.released} \cup {live})

(* The journal implements the log: appended messages never change, are     *)
(* never lost or duplicated across live and history, and leave only by a    *)
(* release of what is sealed, whatever the callers were stopped at.         *)
Log == INSTANCE MessageLog WITH content <- Content, sealed <- Repaired.archived,
                                released <- cursor.released
ImplementsLog == Log!Spec

(* An acknowledged delivery is stored whole and unaltered until released.   *)
AckedIsStored ==
    \A r \in acked : \A n \in DOMAIN r.batch :
        n > cursor.released => n \in DOMAIN Content /\ Content[n] = r.batch[n]

(* A published segment that is not released has its job, for the outbox is  *)
(* written first, unless the operator abandoned that job: then there is the *)
(* record, and without a COMMITTED job the lifecycle never releases it.     *)
OutboxCoversHistory ==
    \A s \in history : Hi(s) > cursor.released => s \in DOMAIN jobs \cup abandoned

(* A staged job can still be completed at its own boundary: it is           *)
(* published, or the next messages of live are its messages.                *)
StagedIsCompletable ==
    \A s \in DOMAIN jobs : jobs[s] \in {"STAGED", "FAILED"} =>
        \/ s \in history
        \/ Lo(s) = Repaired.archived + 1 /\ IsRestriction(s, live)

=============================================================================

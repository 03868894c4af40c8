# A TLA+ development of Habitus

Habitus is a local-first service for coding agents.  It records conversations,
turns them into long-term memory documents, and learns from behaviour to
predict what is needed next.  This directory holds TLA+ models of the parts
where order, crashes and concurrency decide whether it is correct, the TLC
configurations that check them, and proofs of what matters most.  All paths
below are relative to the repository root.

## 1. The system

### 1.1 Components and the state they keep

| Component | Code | Durable state | Operations that change it |
|---|---|---|---|
| Conversation source ledger | `habitus/conversation/source/` | one envelope per captured turn, pending markers, per-consumer watermarks, outcomes, outputs, lock rows, salvage marks | append, deliver, confirm, release, recover, salvage |
| Conversation journal | `habitus/memory/conversation/` | `live` messages, immutable `history` segments, ingress receipts, summaries, access records | append, seal, retire, compact, index |
| Memory ingest | `habitus/memory/workflow/ingest.py` | none of its own: it drives the journal and the job queue | append, seal and enqueue, complete an interrupted seal |
| Memory job queue | `habitus/memory/workflow/jobs/` | `state.json` (high-water mark), one job file per source, abandonment records | stage, activate, claim, renew, complete, fail, retry, abandon, discard |
| Memory worker and runner | `habitus/runtime/worker.py`, `habitus/memory/workflow/{runner,execution,completion,recovery,failure}.py` | none: a lease in memory | loop, heartbeat, execute, finalize, settle |
| Memory commit transaction | `habitus/memory/editor/transaction*.py` | L2 documents, one journal file per transaction, visibility generation | commit, roll back, recover, discard |
| Memory change receipt | `habitus/memory/workflow/receipt/` | one receipt per transaction | prepare, finalize, discard |
| Memory lifecycle | `habitus/memory/workflow/lifecycle.py` | deletes jobs, receipts, journals, history | one maintenance pass |
| Semantic layers, indexing, vectors | `habitus/memory/{semantic,indexing,compaction}`, `habitus/infrastructure/vector/` | L0/L1 files, vector generations, hot and cold L2, retry ledger | refresh, publish, compact |
| Recall | `habitus/memory/{recall,retrieval}` | use records | read under a visibility generation |
| Behaviour | `habitus/behavior/` | observations, sessions, kinds, retry ledger | fuse, classify, reduce, revise |
| Foresight | `habitus/foresight/`, `habitus/runtime/foresight_*` | prediction ledger, deliveries, settlements | trigger, judge, deliver, settle |
| Lock store and durable I/O | `habitus/infrastructure/store/` | leased lock rows in sqlite, files | acquire, renew, release; atomic create, replace, unlink |
| Services | `habitus/integrations/`, `habitus/runtime/` | per-root instance lock | start, stop, API calls, nightly and tick scheduling |

The remaining parts (documents and schema, scene, series, temporal,
conditions, model client, configuration, observability, benchmark, plugins)
are computation, transport or measurement with no protocol of their own;
`PROJECT.json` lists each with the reason it is left out.

### 1.2 How they interact

A client appends a turn to the source ledger.  The memory consumer copies its
messages to the conversation journal.  When a segment of `live` is complete
the ingest *stages* a job for it, publishes the segment as a history file and
*activates* the job.  One worker per process claims the oldest unfinished job
of the memory root, renews its lease from a heartbeat, plans the changes with
a model, prepares a receipt, commits the changes through the transaction
journal, refreshes L0/L1 and the vectors, finalizes the receipt and settles
the job.  A FAILED job blocks everything behind it until an operator retries
or abandons it.  Receipts, journals and COMMITTED jobs are deleted by the
lifecycle pass years later.

### 1.3 What is hard

* Every store operation runs under a file-system fence and is atomic with
  respect to other processes, but an *actor's* decision spans several of them:
  the worker looks, recovers and claims under three fences, executes for
  minutes under a lease, and commits after its last look at that lease.
* An operation that writes two files (stage, abandon, commit) can be cut off
  in between; the order of the writes is the recovery protocol.
* Three actors (foreground, worker, operator) act on one job with snapshots
  they read earlier; a fourth (lifecycle) deletes it.
* One stuck job stops all of long-term memory, so liveness of the head of the
  queue is as important as its safety.

## 2. What each component must guarantee

* Queue: a sequence is issued once; the oldest unfinished job is the only one
  worked on; only the holder of a live lease rewrites a RUNNING job; a job
  runs only when its history is published; the oldest job is eventually
  settled or needs the operator, who can always resolve it.
* Transaction: all documents of a commit change or none, whatever crash or
  failure cuts it; nothing is committed over an unresolved commit; a reader
  never combines documents of two states.
* Job run: exactly one commit per job whatever takes it over; receipt,
  journal and job agree at every crash point.
* Seal: every message is in exactly one of live and history, and every
  history segment gets exactly one job.
* Source ledger: a turn reaches every consumer at least once and in order;
  it is released only after all of them confirmed it.
* Foresight: a prediction is delivered at most once and settled once.

## 3. Modules

### 3.1 `MemoryJobQueue`

The memory-root queue with everybody who touches it.

| Variable | In the code |
|---|---|
| `jobs[s]` | the job file of source `s` (address, segment id, digest); `NoJob` when there is none |
| `high` | `state.json`, `last_allocated_memory_sequence` |
| `abandoned[s]` | the abandonment record of `s`: the sequence it names, 0 when there is none |
| `history` | sources whose history file is published |
| `l2` | sequences whose transaction journal is COMMITTED, or would be found so by `recover_pending` |
| `ingest[s]` | where the foreground is in `seal_and_enqueue` or `_complete_staged` |
| `worker[w]` | what the loop of process `w` holds: the snapshot it looked at, or its lease |
| `decision` | the FAILED snapshot the operator is deciding on |
| `crashes` | bound on crashes |

A job record keeps the fields the transitions depend on.  Absolute times are
kept as what is left of them (`ttl`, `wait`), so `Tick` is the passing of
time; `(seq, gen)` stands for the random `claim_id`; `epoch` together with the
other fields stands for `updated_at`, which makes each rewrite distinguishable
when a snapshot is compared.

Actions follow the code one to one.  *Foreground*: `Stage`, `Publish`,
`Restage`, `Activate` are the four steps of `seal_and_enqueue`;
`BeginCompletion` and `CompletePublish` those of `_complete_staged`.
*Worker*: `Look`, `RecoverPublish`, `RecoverActivate`, `RecoverFail`,
`RecoverRefused`, `Claim` and `ClaimRefused` are `claim_next`; `Renew` the
heartbeat; `BeginCommit` and `L2Commit` the last lease check and the commit
behind it; `Complete`, `FailWaiting`, `FailAttempt`, `SettleFails` and
`LoseLease` the ways a run ends; `LateRenew` a renewal that was under way when
the run settled; `Report` what the loop does with the result; `Crash` and
`Restart` the process.  *Operator*: `Inspect`, `Retry`, `RetryAgain`,
`Abandon`, `AbandonAgain`, `DropDecision`.  *Lifecycle*: `DiscardCommitted`.
`StageTorn` and `AbandonTorn` are the crash between two durable writes.

Points where the code was decisive:

* `claim` re-reads the job under its fence, but `claim_next` computes
  `expired_attempts_exhausted` from the snapshot it was given.
* `MemoryJobBlockedError` and `MemoryJobLeaseLostError` let the loop go on;
  any other `MemoryJobError` ends it in FAILED (phase `dead`).
* The commit runs on the event loop, so no heartbeat runs during it.
* `Stage` and `Publish` of one seal hold the conversation lock
  (`messages.py`, `seal`), which is why `RecoverPublish` waits for the
  foreground in phase `staged`.
* A running service takes the operator's call only while its loop is BLOCKED;
  an initialized one that was never started takes it as well (`stopped`).
* The HTTP service holds an exclusive lock per memory root
  (`integrations/local_service/instance_lock.py`).  Two processes on one root
  are therefore two embeddings of the runtime as a library, which the store
  is written for (its fence is a lock across processes).

### 3.2 `SerialQueue`

What the queue promises: numbers are issued in order and never again, only
the lowest open number is worked on, and it is finished, put back, or dropped
while nobody works on it.  `MemoryJobQueue` implements it with `issued <-
high`, `open` the sequences of unfinished jobs and `active` those of RUNNING
ones (`SerialOrder`).

### 3.3 `MemoryCommitTransaction`

`commit`, its rollback, `recover_pending`, `discard_terminal` and the readers
that take no lock (`habitus/memory/editor/transaction.py`,
`transaction_log.py`, `habitus/memory/snapshot.py`).

| Variable | In the code |
|---|---|
| `docs` | the L2 documents on disk |
| `journal[t]` | the journal file of transaction `t`: its state and the attempt whose entries it holds |
| `generation` | `visibility.json` |
| `lock` | holder of the fenced transaction lock: an attempt, the recovery, or nobody |
| `phase[a]`, `plan[a]` | where the call `a` of `commit` is, and its `MemoryCommitPlan` |
| `todo` | documents the lock holder still has to write |
| `rec` | `recover_pending`: records left, the one in hand, its verdict |
| `reader[r]` | where a `_read_consistent` is, and what it has seen |
| `log` | history variable: the committed states and who made them |
| `faults` | bound on failures and crashes |

A step is one durable write (a document, a journal, the generation) or one
read that a concurrent write can tear.  *Commit*: `Build` (the plan), `Begin`
(lock, nothing pending, `_assert_current`), `Prepare`, `Publish` per document
(writes before deletes), `Verify`, `Advance`, `Mark`, `Return`.  *Rollback*:
`Undo` per document, `UndoVerify`, `UndoAdvance`, `UndoMark`.  *Failure*:
`PrepareFails`, `PublishFails`, `FinishFails`, `UndoFails`, `UndoMarkFails`,
one per exception handler, and `Crash`.  *Recovery*: `RecoverBegin`,
`RecoverInspect`, `Restore` per document, `RestoreVerify`, `RecoverAdvance`,
`RecoverMark`, `RecoverReturn`, `RecoverFails`.  *Reader*: `ReadBegin`,
`ReadJournal` and `ReadDocument` one file at a time, `ReadEnd`, and `ReadOver`
(which includes the refusal of `MemoryTree._read_visible`).

* The content of a document is the attempt that wrote it: each write carries
  a new revision and timestamp, so no two attempts write the same bytes.
* A plan's `before` is merged from batches that were read at different times,
  so each document is as *some* committed state had it.
* The fence is a sqlite write transaction that is held for the whole section
  (`infrastructure/store/sqlite/lock_store.py`, `fenced`), so the sections of
  two processes exclude each other; a crash frees it.
* Acquisition that times out is an attempt that was `refused`, and the limit
  of 16 read attempts is a reader that gives up.
* Not modelled: documents edited by hand below the tree, which the code
  reports as an unknown state.

### 3.4 `AtomicStore`

What commits promise: one state of all documents, replaced as a whole by a
proposal whose read set is current at that moment, once per attempt.
`MemoryCommitTransaction` implements it with `state <- View`, the documents
as `_overlay_prepared` shows them (`CommitsAtomically`).

### 3.5 `LockStore`

The leased rows of `locks.db` (`infrastructure/store/sqlite/lock_store.py`) as
the path locks use them (`infrastructure/store/locking/path_lock.py`).

| Variable | In the code |
|---|---|
| `row[k]` | the row of key `k`: token, expiry, fence number; `NoRow` when it was deleted |
| `guard[c]` | the tokens the lease guard of caller `c` holds |
| `writer`, `body` | the caller whose fenced section holds the SQLite write lock, and its keys |
| `now`, `steps` | the wall clock and how often it was set back |
| `granted[k]` | number of grants; stands for the random token |

Every call is one SQLite transaction, hence one action: `Acquire`, `Renew`,
`Release`, `DiscardIdle`.  A fenced section is two (`EnterFenced`, then
`ExitFenced` or `AbortFenced`), because it keeps the write lock while its body
runs and checks the rows again before it commits.  A call reads the clock
before it gets the write lock, so its reading may be up to `BusyWait` old
(`ReadInstant`).  `DiscardIdle` deletes a row, after which fence numbers start
again at 1: only the token tells two grants with the same number apart.
Its `InitLocks`, `NextLocks` and `LocksSpec` are named so that the module can be
extended next to another component's.

### 3.6 `SourceLedger`

The ledger of one address (`conversation/source/`): `put`, the delivery tasks
of both consumers, the retry ledger, recovery, salvage and release.

| Variable | In the code |
|---|---|
| `index`, `pending` | markers in the index of the address and in the shared pending directory |
| `envelope`, `outcome`, `output`, `salvaged` | the envelope, the consumers' records, Behavior's output, the salvage mark |
| `watermark` | `released_through`; 0 when there is none, so the end sequences are shifted by one |
| `aged` | markers older than `orphan_grace` |
| `retry` | the retry ledger |
| `task[t]` | a delivery task: source, consumer and what started it, its step, its lease |
| `put`, `reaping`, `releaser` | the put, the reaping of an orphan and the release in progress |
| `accepted`, `ingested`, `gone`, `replayed` | history variables |

Every durable create or unlink is a step.  *Put*: `PutIndex`, `PutPending`,
`PutEnvelope`, `PutRefused` (the pending directory is full).  *Task*: `Look`,
`Acquire`, `Recheck`, `Execute` (or `ExecuteSkips`, `ExecuteFails`), `Publish`,
`Commit`, `GiveUpWaiting`, `LoseLease`, `Fenced`.  *Recovery*: `ClearSettled`,
`ClearReleased`, `ReapOrphan`, `ReapPending`, `ReapIndexMarker`, `ReapRetry`,
`Attempt`, `Salvage`, `Forgive`, `BackoffEnds`.  *Releaser*: `ReleaseScan` to
`ReleaseIndex`, one file class each, and `ReleaseAborts`.  *Faults*: `Crash`,
`Age`, `LoseOutput`.

* The plugin delivers in order and repeats at most its newest batch; after a
  loss of its state it may deliver a source again with other content
  (`Released0`).
* Memory takes sources in order (`PredecessorsDone`), Behavior in any order; a
  failed Behavior is abandoned and salvaged, a failed Memory waits for the
  operator.
* The locks are read off the tasks that hold a lease.  The lease time of the
  releaser's own lock is not modelled; waiting too long for a lock counts as a
  failed attempt, as in the code.
* The `busy` filter of the recovery scan only leaves work out and is omitted:
  the model attempts more than the code does.
* What fails is chosen from `Budgets`, a set of combinations of faults.

### 3.7 `ConversationJournal` and `MessageLog`

The files of one conversation (`memory/conversation/messages.py`) with
everybody who writes them: the foreground's append and seal
(`memory/workflow/ingest.py`), the worker's completion of a staged job and the
lifecycle's release.

| Variable | In the code |
|---|---|
| `live`, `history` | `live.jsonl` and the history files, as functions from sequence to body |
| `cursor` | `state.json`: archived and released through, latest segment |
| `receipts[d]` | the ingress receipt of delivery `d` |
| `jobs` | the status of the job of each segment; BLOCKED is FAILED after its segment was published |
| `abandoned` | the segments with the record of an abandonment |
| `callers[c]` | where a foreground, the worker or the keeper is in its operation |
| `acked` | requests whose append returned |

Every durable write is a step.  *Append*: `StartAppend`, `AppendKnown`,
`Prepare`, `WriteLive`, `CommitReceipt`, `AppendRefused`.  *Seal*:
`StartPass`, `Plan`, `ListStaged`, `CompleteNext`, `StartSeal`, `SealFirst`,
`Callback`, `SealSecond`, `TruncateLive`, `SealReturns`, `Restage`, `Enqueue`,
`Completed`.  *Loading* repairs what a stop left: `Repair`, `Trim`,
`RecoverReceipt`.  *Release*: `StartKeeping` to `Purge`.  *Jobs*: `CommitJob`,
`FailJob` and the refused recovery of a staged job; the operator's
`RetryFailed` and `AbandonFailed`, which removes the job and leaves the record.

* A seal spans two fenced sections with the outbox callback between them; its
  lease may be lost there (`LoseLease`), and `SealSecond` continues from what
  it then reads.
* The conversation lock admits one caller at a time.  A caller may `Stop`
  between any two writes.
* The retention planner may choose any message of `live` as the boundary.
  Summaries and the extraction of tool results are not modelled.  An append
  always carries a delivery id.

`MessageLog` is what the files promise together: one log to which messages are
appended, a prefix of which is sealed and a prefix of that forgotten; no
message changes once it is there.  `ConversationJournal` implements it with
`content <- Content`, the messages of the unreleased history files and of
`live` (`ImplementsLog`).

### 3.8 `MemoryJobRun`

`run_claimed` over the stores it writes: the job file, the change receipt, the
transaction journal and the derived products
(`memory/workflow/{runner,execution,completion,recovery,failure}.py`,
`memory/workflow/receipt/`), and the lifecycle pass that deletes them.

| Variable | In the code |
|---|---|
| `job[j]` | status, attempts and lease of the job file |
| `receipt[j]`, `journal[j]` | the change receipt and the transaction journal of the job's id |
| `txlock` | holder of the transaction lock |
| `applied` | history: the transactions that took effect, in order |
| `done[j]`, `released` | derived products that are stored; segments whose history was released |
| `run[w]` | step, job and plan of worker `w` |

A step is one durable write with the `assert_current` behind it, in the order
of the code: recovery of what an earlier run left (`RecoverPending`,
`InspectJournal`, `InspectRolledBack`, `InspectDiscard`, `InspectNoJournal`),
execution (`MakePlan`, `PrepareReceipt`, `BeginCommit`, `EndCommit`,
`CommitFails`, `RefuseCommit`), finalizing (`StoreProduct` four times,
`FinalizeReceipt`, `Complete`, `Cleanup`) and failure (`StepFails`, `Fail`).
`Lapse` takes a lease away between any two steps, `Crash` ends the process.
The lifecycle is `ReleaseHistory`, `ExpireJournal`, `ExpireJob` and
`ExpireReceipt` under the guards the code gives them.

It composes two components at their abstract level: the claim is one step, as
`SerialQueue` allows (3.2), and a commit becomes visible in one step, as
`AtomicStore` allows (3.4); a commit that fails leaves its journal PREPARED or
ROLLED_BACK.  A plan is a model value.  Abandonment is part of
`MemoryJobQueue` and `ConversationJournal`.

### 3.9 `MemoryIndex`

One directory of the memory tree, its L0/L1 layers (`memory/semantic/`), and
the vector collection that indexes it (`memory/indexing/index.py`,
`infrastructure/vector/`).

| Variable | In the code |
|---|---|
| `docs`, `layer` | the L2 documents, and the layer file with the snapshot it was written from |
| `recs`, `dim`, `state`, `claim` | records and metadata of the collection |
| `config` | the embedding model of the process |
| `job`, `upkeep`, `run` | the memory job, the upkeep operation, and where each caller is |
| `indexLock`, `pubLock` | the asyncio lock of an index object, and the publication lock |
| `published` | history: the records `state` was published with |
| `reworded` | history: the layers were worded last by a finalization repeated after its increment was published |

Callers are the job, the upkeep and a search.  *Layers*: `Snapshot`,
`RefreshLayers`.  *Publication*: `Ensure`, `Rebuild`, `Synchronize`, `Compare`,
`ReadState`, `Walk`, `Replace`, `Claim`, `DeleteAll`, `UpsertAll`, `Apply`,
`Upsert`, `Delete`, `WriteState`, `Open`.  *Search*: `Load`, `Query`, `Verify`,
`Answer`.  `Stop` cuts a caller off between any two backend transactions,
`Reconfigure` restarts the process with another embedding model.

Contents and wordings are numbers; a record is what it was made of.  Each
backend call is one SQLite transaction.  `OneIndex` says that all callers
share one index object, as in the deployment the README describes
(`README.md:589`).  `ReadAttempts` is 8 in the code.  The summary index follows
the same protocol and has no module of its own; chunking and ranking are left
out.

### 3.10 `MemoryCompaction`

The life of one memory document (`memory/compaction/`): shortened when it is
cold, restored when it is used, retired when it stays cold.

| Variable | In the code |
|---|---|
| `doc` | the document: revision, incarnation (`born`), content `k`, whether it is shortened, age |
| `row`, `base`, `op` | its recall state, the baseline with the original, the unfinished operation |
| `lock`, `run`, `keep` | the operation lock, where each caller is, the version the model judged KEEP |
| `owed` | a deletion job has yet to forget the recall state |
| `idle`, `served` | history: time since the last real use; what contexts received |

Four stores, each write a step.  *Upkeep*: `StartScan`, `Rank`,
`MarkRetirement`, `PrepareRetire`, `ModelShortens` or `ModelKeeps`,
`SaveBaseline`, `PrepareCompact`.  *The three operations* with their phases:
compact (`CommitShort` to `PublishDone`), restore (`CommitOriginal` to
`AcknowledgeRestore`), retire (`DeleteRetired` to `AdvanceRetire`), each of
which `Resume` continues from the phase on disk, and `StartFinish` to
`FinishOp`.  *Use*: `StartUse`, `LockUse`, `CheckUse`, `CheckRow`, `RecordUse`,
`PrepareRestore`, `ReturnRestored`.  *Jobs*: `JobEdit`, `JobCreate`,
`JobDelete`, `JobForget`.  `Stop` ends a caller between two writes.

Ages count the periods of the configuration: 1 is cold, 2 is past retirement,
and another period is the grace; `Tick` ages everything while no caller is in
the middle of an operation.  Locks asked for with no wait are refusals, those
asked for with five seconds block.  `Advance` refuses what the code refuses: an
earlier phase than the caller's copy, another operation, and a phase past
PREPARED without a target.  Hotness, the scan cursor with its
back-off and quotas, probes of a compacted memory and the disabled
configuration are not modelled.

### 3.11 `ReminderOutlet`

From the tick's decision to the question a session asked
(`runtime/foresight_delivery.py`, `runtime/foresight_outlet.py`,
`foresight/delivery.py`).

| Variable | In the code |
|---|---|
| `reason`, `spoken`, `response` | the ledger: the latest decision, the calls recorded as its question, the fixed answers |
| `open`, `claim`, `asked` | `open.json`, the claims and the questions asked, under `outlet/` |
| `tick`, `obs` | the tick and the transcript observation in progress |
| `turn`, `known`, `mail`, `done` | the sessions: current turn, what is in the context, transcripts, how many are consumed |
| `now`, `seen`, `alive` | the clock, what is visibly done, whether a host fetches |
| `mute` | the expectations whose relation has no voice in the night's table (`foresight/units.py`, `voiced`) |
| `lost` | history: bases a tick found without a voice while they were still to be said |

*Tick*: `TickRead`, `TickAwait`, `TickSubsume`, `TickClose`, `TickDefer`,
`TickOpen`, `TickPublish`, `TickFail`.  *Sessions*: `Prompt`, `Ask`, `Put`,
`Reply`, `EndTurn`.  *Observation of a transcript*, one ledger write a step:
`ObserveStart`, `SettleQuestion`, `RecordSpoken`, `MarkSpoken`, `DropOpen`,
`RecordAnswer`, `TakeReply`, `WriteReply`, `ReleaseUnasked`, `ObserveEnd`;
`RecordFails` and `ObserveFails` are the refused writes the consumer swallows,
`ObserveAgain` a transcript that is delivered again.  *Around them*: `Pass`,
`Night`, `LeaseLapses`, `HostsGone`, `Crash`.

`publish`, `claim` and `sweep` of the outlet run under its in-process lock and
are one step each.  The clock is only compared with `WindowEnd` and `Deadline`.
The deadline itself counts both ways, as in the code: what was asked or
waited for then is in time (`Late`: `now > deadline`), but sweep, claim and
handover take up nothing at it any more (`Elapsed`: `deadline <= now`).  A
turn number stands for `claimed_at`; a question the text matching does not
recognise is no question; "other" is any reason to stay silent.

A basis can speak while the relation behind it is established and no
coincidence.  `Night` is a new table that changes this for some of
`Wavering`.  A basis without a voice records a shadow ("other") when it is
decided, and counts as unsaid from then on whatever its latest reason is,
unless that is "happened" (`UnsaidBasis`); its heirs take over at once, one
with a voice before one without (`Handover`).

The daily cap, unit levels, settlement, broken files and unknown hosts are not
modelled.

### 3.12 `MC...` and `...Proofs`

The instances for TLC and the proofs (section 5).

## 4. Runs

| Run | Instance | Shows |
|---|---|---|
| `queue_two_workers` | 2 sources, 2 workers, 2 claims, 1 wait, 1 crash | `NoOvertaking`, `LeaseFencing`, refinement of `SerialQueue` (`SerialOrder`) under takeover |
| `queue_one_worker` | 2 sources, 1 worker, reopening, abandonment, 1 crash, `FairSpec` | `AbandonedNeverCommitted`, `OldestSettles` |
| `commit` | 2 documents, 1 attempt, 1 reader, 2 faults, `FairSpec` | `ReadsAreConsistent`, refinement of `AtomicStore` (`CommitsAtomically`), `PendingIsResolved` |
| `lock` | 2 callers, 2 keys, 2 grants each, time to 4, the clock set back once, `FairSpec` | `FencedIsCurrent`, `NoEviction`, `AbandonedLeaseEnds` |
| `source_faults` | 2 sources, 2 tasks and one more when a put overlaps, one scenario of faults | `MemoryInOrder`, `NeverReplayed`, `NothingForgotten`, `KeptUntilConsumed` |
| `source_liveness` | 1 source, 2 attempts, a failure, a crash and an aged marker, `FairSpec` | `AcceptedIsProcessed` |
| `journal` | 2 deliveries that overlap, one id used twice, 2 stops, lost leases or failed jobs, the operator's decisions | `AckedIsStored`, `OutboxCoversHistory`, `StagedIsCompletable`, refinement of `MessageLog` (`ImplementsLog`) |
| `job_run` | 2 workers, 2 jobs, 2 plans, 2 faults, 1 lost lease, 1 reopening, `FairSpec` | `ReceiptCompletes`, `AppliedOnceInOrder`, `CommittedIsBacked`, `JournalsBounded`, `EveryJobEnds` |
| `index` | 1 document with its layers in 2 wordings, 2 embedding models of different dimension, 1 stop, `FairSpec` | `PublicationIsWhole`, `AnswersOnePublication`, `IndexFollowsTree`, `OwedIsFinished` |
| `compaction` | 1 user, 2 contents, 2 incarnations, 4 ticks, 1 stop, `FairSpec` | `OriginalKept`, `EditsSurvive`, `ReturnsOriginal`, `RetiredWasUnused`, `EndsUnlessOvertaken` |
| `outlet_said` | 1 expectation, 2 sessions, a crash, a failed tick, a refused write | `SpokenOnce`, `QuestionRecognised`, `AnswersKept` |
| `outlet_moment` | a basis and two members, 1 session, a failed tick or a basis that loses its voice, `FairSpec` | `OneOpenPerMoment`, `UnsaidIsHandedOver`, `AwaitingEnds` |

Deadlock is checked in `journal`, where a new pass can always start.  In the
other instances sequences, claims, grants, ticks, turns and faults are bounded,
so a behaviour may end.

**Bounds.**  Two sources are enough for an order to be violated, and two
workers for a takeover; a lease of one tick can expire anywhere; two claims of
one job are a claim and its takeover.  A crash or a stop falls at every point
of every operation, and two of them cut off an operation and then its
recovery.  Two documents are enough for a commit to be half published and for
a reader to mix two states; several attempts at once are covered by the proof
of `CommitsAreAtomic`.  Two grants and time to 4 let a lease run out while its
body runs and be granted again.  Two sources and one scenario of faults give
the source ledger a predecessor, its successor and something going wrong
between them; liveness of one address needs one source with both of its
consumers.  Two overlapping deliveries with three messages give live, latest
and older segments.  The second memory model of `index` has another dimension,
so that changing it clears the collection; the two differ in nothing else, so
the run starts with one of them.  Two wordings are enough for the index and
the tree to differ.  Four ticks take a memory through
cold, retirement and grace.  Three expectations are the smallest moment in
which two members compete for what the basis left unsaid; their windows close
and their deadlines pass one after another, so either member can be the heir,
and one deadline is left when the clock stops.  The one event of `MaxFailures`
is a failed or deferred tick, a host that falls silent, or a night in which
the basis loses or finds its voice.

**Fairness.**

* Queue: what the process does by itself.  The loop polls (`Look`, `Recovery`,
  `Claim`), an execution ends (`Attempt`), the loop reports, a stopped service
  is started again, time passes, and the foreground finishes a seal it began
  (or crashes).  `Timely` says that the heartbeat, whose interval the
  configuration limits to a third of the lease (`runtime/worker.py:64`,
  `config/root.py:324`), renews a live worker's lease before it runs out.  No
  fairness is assumed of the operator: `OldestSettles` ends at FAILED.
  `MaxWaits` bounds consecutive model waits; they do not use up attempts, so
  without it the job would wait for ever, as the code intends.
* Transaction: a commit or a recovery that holds the lock goes on, and
  `recover_pending` is called again and again (`run_claimed` calls it before
  each job, and the runtime initializes it when the queue is empty).
* Lock: time passes and a body that runs ends.
* Source ledger: the event loop's tasks go on, the recovery loop comes round
  again (strongly, because a lock may be held at one round and free at the
  next) and a back-off ends.  Memory's given-up retries wait for the operator,
  of whom nothing is assumed.
* Job run: the claim loop and a run go on, and the operator reopens a FAILED
  job while the bound allows.
* Index: the worker repeats a job and the hourly upkeep its operation until
  they succeed; a search is carried on.
* Compaction: the hourly upkeep, and a use that was started ends.
* Outlet: the worker's tick and the conversation consumer go on, and the clock
  moves.

`ConversationJournal` states no liveness: its foreground acts on request only.

## 5. Proofs

### 5.1 `MemoryJobQueueProofs`

It holds for any sets of sources and workers and any
values of the bounds (`QueueConstants`), under `Spec` with no fairness, except
`AbandonedStaysOut`.

* `TypeCorrect`: `Spec => []TypeOK`.  `TypeOK` contains `WellFormed`, what
  `MemoryJob.__post_init__` accepts, which is itself inductive.
* `NobodyOvertakes`, `SequencesAreUnique`: neither is inductive alone.
  `OrderInv == TypeOK /\ SequencesUnique /\ NoOvertaking` is: that a claim
  takes the *lowest* sequence excludes an overtaken job only because no two
  files share one and a new one lies above all of them.
* `HistoryComesFirst`: `HistoryInv` adds that a foreground past its publish
  and a worker in phase `published`, or holding an activated snapshot, have
  the history.
* `QueueIsSerial`: the initial state maps to `SerialQueue`'s, and every
  action is classified (`QueueStep`) as one that leaves, enters, opens,
  moves or drops sequences; `OrderInv` turns each into a `SerialQueue` step.

* `LeaseFences` (`LeaseFencing`) needs the types only: every step leaves a
  job alone, ages its lease, is made by the holder of the lease, or takes over
  a lease that has run out (`Fenced`), also when the worker that acts works on
  a snapshot another has overtaken.
* `AloneAbandonedStaysOut` and `AbandonedStaysOut` (`AbandonedNeverCommitted`):
  for one worker under `Spec`, and for any number under `FairSpec`, of which
  only `Timely` is used: a worker with a live claim renews it in time.  With two
  workers and no such promise it is false (divergence 2).  `AbandonInv` is
  `OrderInv` with two parts.  `LiveHold`: a worker at work still holds the job
  it claimed, because nobody else is there or because no lease under a worker
  runs out.  `AbandonedIsOver`: what was abandoned is in no journal, and a file
  that still has its sequence, left between the record and the unlink, is FAILED
  for good.

The lemmas have one step per action.  `TypeOK`, `SequencesUnique` and
`HistoryBeforeRun` are in no run any more: the proof covers every instance.
`AbandonInv` was model-checked with two sources and two workers under
`TimelyNext` before it was proved.  Left to TLC: `OldestSettles` (liveness).

### 5.2 `MemoryCommitTransactionProofs`

For any documents, ids, attempts and readers and any number of faults
(`TransactionConstants`), under `Spec`.  One inductive invariant, `AtomicInv`,
carries four theorems: `TypeCorrect`, `TransactionsAreRecoverable`
(`AlwaysRecoverable`), `OutcomesAreTrue` (`OutcomeIsTrue`) and
`CommitsAreAtomic` (`CommitsAtomically`).  The first three are in no run: the
proof covers every instance.

None of the properties is inductive.  `AtomicInv` adds: a plan really changes
what it says it changes (`PlansMakeSense`, which rests on content being new,
`ContentIsNew`); a journal has an author that got past its checks; one
transaction is unresolved at a time, and its documents are old or new while
those it only read are old (`UnresolvedIsMixed`); how far the attempt or the
recovery that holds the lock has come; what took effect is no longer
unresolved; and what was reported rolled back has all its old documents as
long as its journal is PREPARED.  That last part is why a failed mark after a
rollback cannot be completed by the recovery.

Actions are grouped into kinds of step (`Moves`, `RecoveryMoves`, `Writes`,
`Opens`, `Settles`, `Build`, `Discard`, reads); a lemma per kind shows that it
keeps `AtomicInv`, and `StepRefines` that it is a step of `AtomicStore`: only
`Settles(_, "COMMITTED")` changes the view.

`SnapshotsAreConsistent` (`ReadsAreConsistent`) has an inductive invariant of
its own on top, `ReadInv`, because a reader looks at the generation and the
journals twice and reads the documents in between, and a settlement is several
steps.  A reader is *doomed* when its two looks at the journals must differ; then
what it reads does not matter, it will begin again.  `ReadInv` says of one that is not
doomed, and whose generation is still the present one, that what it has read
so far is the last committed state (`ReadingCurrent`) and what it returns is a
committed state since it began (`AfterCommitted`, `DoneCommitted`).
`SettlingSeen` is what makes that inductive: whoever is about to settle a journal has
already advanced the generation, so a reader of that generation has seen the
journal or is going to.  `ReadInv` was model-checked with two attempts at two
transactions before it was proved.

Left to TLC: `PendingIsResolved` (liveness).

### 5.3 `JournalAndLockProofs`: the locks

The module holds the proofs of two components that meet at the path locks; each
half is about its own specification.  For any callers and keys and any lease
time, wait and bounds (`LockConstants`), under `LocksSpec`.

* `LockTypeCorrect`: `LocksTypeOK`.
* `BodiesAreCurrent`: `FencedIsCurrent`.  While a section holds the write lock
  nobody else writes, so the rows it accepted on entry stay those it accepted:
  the inductive part is that every key of `body` still carries the token of
  the guard that entered.
* `OwnersAreUnique` (`OneOwner`): a token was granted at most once.  This
  needs that a row and every guard hold tokens at most as new as the last
  grant (`granted`), because fence numbers start again when a row is deleted.
* `NobodyIsEvicted` (`NoEviction`): an action property, from the type
  invariant and the guards of the calls: a row with a running lease is changed
  by its owner only.  It speaks of the time a call has read, which may be up to
  `BusyWait` old.

Left to TLC: `AbandonedLeaseEnds` (liveness).

### 5.4 `MemoryJobRunProofs`

For any number of jobs, workers, plans and faults (`RunConstants`), under
`Spec`.  `IInv == Typed /\ Backed /\ HeadOnly /\ Kept` is inductive
(`RunInvariant`) and gives:

* `RunTypeCorrect` (`TypeOK`) and `CommittedBacked` (`CommittedIsBacked`),
  whatever the leases do.  `Backed` says what a run at each stage has already
  stored and what its journal and receipt say by then; none of it can be taken
  back by another worker.
* `CommittedCompletes` (`ReceiptCompletes`) and `AppliedInOrder`
  (`AppliedOnceInOrder`), for behaviours without a lost lease.  `HeadOnly` says
  that a job leaves a trace only once every earlier one is through.  `Kept`
  says what the holder of a lease can rely on: the journal of its job is where
  its own stage left it, and a committed journal of an unsettled job has the
  receipt of its plan.  With a lost lease `Kept` is false (divergence 5), which
  is why both properties name `lapses`.

* `FewJournals` (`JournalsBounded`) counts.  A job is *costly* when a run went on
  without its lease (`Astray`), when a run takes its transaction for committed
  while the journal says otherwise (`Mistaken`), or when it is settled, its
  journal is there and nobody is cleaning up (`LeftBehind`).  A step makes at most one
  job costly and pays a fault or a lost lease for it (`Price`, `OnePrice`), so
  there are never more of them than faults and lapses (`Accounted`).  By
  `HeadOnly` every other journal is the head's or belongs to a run in its
  cleanup.

Left to TLC: `EveryJobEnds` (liveness).

### 5.5 `MemoryIndexProofs`

For any documents, dimensions, embedding models and bounds
(`IndexAssumption`: a finite set of documents, and a name for the layers that is
none of theirs).  Two inductive invariants.

`IInv` (`IndexInvariant`) needs no more: `Roles` says which operation may be
where and that the publication lock has one holder; `Publishing`, what each
step of a publication has done of it; `Dimensions`, whose dimension the backend
has; `Reading`, that a search's publication is the present one or an older
generation, in which case the answer is refused.  It gives `IndexTypeCorrect`,
`PublicationsAreWhole` (`PublicationIsWhole`) and `AnswersAreWhole`
(`AnswersOnePublication`).

`FInv` (`CoverageInvariant`) assumes `OneIndex`: one process has one index
object, whose lock keeps a job's increment and an upkeep's rebuild apart.  With
two, the generation returns to an earlier value after a change of dimension,
an operation takes the newer publication for the one it read, and the tree and
the index part.  `FInv` accounts for every difference between the collection and the tree by
an operation that still owes it: the job, as long as its checkpoint is not
published, for the documents it changed and the layers (`Coverage`,
`Checkpoints`), or the upkeep, until it has read the tree; and it says which
operation owes the layers their rewording (`Overviews`).  Record sets are
compared to the letter, except that the layers may differ in wording, not in
their sources, while `reworded` holds (`Alike`).  `SettledIsTree`
(`IndexFollowsTree`) follows, for any set of wordings.

Left to TLC: `OwedIsFinished` (liveness).

### 5.6 `ReminderOutletProofs`

For any finite set of expectations, sessions, moments and bounds
(`OutletAssumption`), under `Spec`.  One inductive invariant, `IInv`
(`OutletInvariant`):

* `Planned`: what a tick is about to decide is still what it read, although it
  decides much later: nobody else writes reasons, and an expectation is in one
  part of the plan only.
* `Succession`: a member of a moment is active only when its basis is over or
  has lost its voice, and of the active members all but at most one are over.
  The handover reads it once and chooses at most one heir; that what is over
  stays over, and that `lost` only grows, does the rest.  A basis that lost its
  voice may still be on the list; the members have no such branch in the code,
  so two of them never are.  With `Planned` it gives `OneOnTheList`
  (`OneOpenPerMoment`).
* `Recorded` gives `OneQuestion` (`SpokenOnce`): the question is written under
  the outlet's lock after a look at the ledger, and steps that repeat a
  transcript meet the earlier question.
* `Holding`: a session that was given a request stays among its holders while
  the request is in time and not done, however its lease ends.  With `Asking`
  (a late question is late) every question in time is among those the observer
  takes up, and `Recognised` follows it from there: `Recognition`
  (`QuestionRecognised`).
* `Answered`: between question and answer the observer is at work, unless it
  crashed or a write was refused: `AnswersRecorded` (`AnswersKept`).

Left to TLC: `AwaitingEnds` and `UnsaidIsHandedOver` (liveness).

### 5.7 `SourceLedgerProofs`

For any finite set of sources, any order of delivery along increasing end
sequences, and any bounds and combinations of faults (`SourceConstants`), under
`Spec`.  The four safety properties of `source_faults` are proved; all but
`ReleasedIsNotReplayed` under `Released0 = 0`, without which they are false
(divergence 6).  `RecordInvariant` needs no such hypothesis, `LedgerInvariant`
adds the rest:

* `Locks`: one task, or the releaser, works on the records of a source and a
  consumer.  `Records` rests on it: a task that runs found no outcome and keeps
  finding none, so an outcome is written once and fits its output.
* `Gone` and `Replays` give `ReleasedIsNotReplayed` (`NeverReplayed`): the
  watermark is above whatever is gone, the second look under the lock sees it,
  and the deletion needs the lock of the task that has looked.
* `Arrivals`: what was accepted is a prefix of the order of delivery, and a put
  is of its newest element or of the next one.
* `Behind`: whatever is below the watermark or on the releaser's list has an
  accepted successor, so no put brings its envelope back, and both consumers
  are done with it.  This is why a release may act on what it judged before it
  had the locks: `ReleasedIsConsumed` (`KeptUntilConsumed`).
* `Marks`: as long as no orphan was reaped, markers go only where `Behind`
  holds or where both outcomes are there: `MarkersFindIt`
  (`NothingForgotten`).
* `Ingests` and `InOrder`: what is accepted is in its envelope or taken by
  Memory; with `Marks` the look at the predecessors misses none, and since
  what is taken stays taken, a task may act on that look after it has lost its
  lease: `MemoryTakesInOrder` (`MemoryInOrder`).

Left to TLC: `AcceptedIsProcessed` (liveness).

### 5.8 `MemoryCompactionProofs`

For any set of uses and any numbers of contents, incarnations, periods and stops
(`CompactionAssumption`), under `Spec`.  `CompactionInvariant` is inductive with
one lemma per action; the four safety properties of the run `compaction`, and
`CompactionTypeCorrect`, follow from it.  Its parts:

* `Past`, `Copied`: a document is named by its revision and its incarnation, and
  nothing brings a past name back.  What a caller read is therefore the document
  as it is, or one that will not return; an operation whose source is past can
  only fail its comparisons (`Planned`).  This and the fence of the commit give
  `EditsAlwaysSurvive` (`EditsSurvive`).
* `Compacting`, `Published`, `BasePast`: where the original of a short text is
  at each phase of the compaction that wrote it, and afterwards:
  `OriginalIsKept` (`OriginalKept`).  `UpkeepDrives`, `Driven` and `Locked` say
  why no clean-up deletes it: whoever deletes a baseline either drives the only
  operation in the store or holds the lock and saw a document that is not short.
* `Shortened`, `Using`, `Warm`, `Serving`: a short text is cold; a document that
  changed while a use was going on is not, so a use that read the original, or
  waited for its restoration, never ends with a short one.  A use that read the
  short text finds its row marked, because nobody is about to write a row of an
  older document: `OriginalsAreReturned` (`ReturnsOriginal`).
* `FreshRow`, `Candidates`, `Scanned`, `Retiring`: the ages a row shows are never
  older than the last use or edit, a mark is only set or kept while the memory
  stays idle, and the version of the row tells the scan when a use came in
  between: `OnlyUnusedRetire` (`RetiredWasUnused`).

Left to TLC: `EndsUnlessOvertaken` (liveness).

### 5.9 `JournalAndLockProofs`: the journal

For any conversation, requests, foregrounds and number of stops
(`JournalConstants`), under `Spec`.  `DiskInv` is inductive (`DiskAlways`):

* `FilesInv` is the shape of the files.  `Tiled`: every history file is
  released, listed, or left by a seal that was cut off, and the listed ones
  cover every sequence number from the released to the archived one.  `Joins`:
  the live file goes on where the history ends, or still begins with the last
  segment, because it is rewritten last.
* `CallersInv`: one caller at a time holds the conversation's lock.  What a
  caller relies on under it (`Relies`) nobody else can change; what it knows
  after letting it go (`Knows`: a segment is cut off, or published) nobody can
  take back (`Stable`).
* `JobsInv`: a job is activated only when its segment is published and off the
  live file.

Every action is shown to be a `Move` of the files (`Repairs`, `Shortens`,
`Extends`, `Publishes`, `Releases`, `Drops`, or none), made by the holder of the
lock, and one lemma per move keeps `FilesInv`.  On top of it:

* `JournalTyped` (`TypeOK`).
* `AckedStays` (`AckedIsStored`): `AckInv` says that a committed receipt, and an
  append that has written, has its batch in the files.  Moves keep
  messages stored until they are released, so nothing else has to be followed.
* `JournalIsLog` (`ImplementsLog`): `ContentShows` replaces the `CHOOSE` in
  `Content` by "stored above the released messages", after which each move is a
  step of `MessageLog` or a stutter: `Extends` appends, `Publishes` seals,
  `Releases` releases; repairs and truncations show nothing.
* `OutboxCovers` (`OutboxCoversHistory`) and `StagedCompletes`
  (`StagedIsCompletable`) assume `OneForeground`, which the lock of the source
  ledger gives and the run instantiates; with two they are false (divergence
  11).  `OutboxInv` says that at most one job is open, staged with no published
  segment, and that it is the next segment of the live file (`NextUp`); that a
  foreground that is about to stage has looked, each open job it found is still
  ahead of it, and at most one segment ahead of it is unpublished (`Looks`,
  `Due`); that the jobs it deals with are there or were abandoned (`Booked`),
  the worker's own job always is (`HasJob`), and a segment it sealed stays until
  its job is committed (`Stands`); and that whatever the lifecycle has chosen
  was committed (`Chosen`).  `Kind` sorts the steps by what they do to jobs and files
  together.  `OutboxInv` was model-checked on the instance of the run
  before it was proved.

### 5.10 Only model-checked

* Liveness: `OldestSettles`, `PendingIsResolved`, `AbandonedLeaseEnds`,
  `AcceptedIsProcessed`, `EveryJobEnds`, `OwedIsFinished`,
  `EndsUnlessOvertaken`, `UnsaidIsHandedOver`, `AwaitingEnds`.  The installed
  provers cannot reason about `ENABLED`, on which fairness rests.
* Every safety property and refinement the runs check has a theorem, some of
  them under a hypothesis their section names (`OneForeground`, `OneIndex`,
  `Released0 = 0`, one worker or `Timely`); the runs satisfy it.

## 6. Divergences found while modelling

Places where a comment, a document or a test says more than the code does, or
where two parts of the code disagree.  The properties of section 4 are stated
so that they hold of the code; each of these is the part they leave out, and
the condition in the property names it.

*Queue, with two processes on one root.*

1. A stale snapshot lets a job run once more than `max_attempts`
   (`memory/workflow/runner.py:119`, against `src/README.md:263`).
2. The commit is not fenced by the job's lease
   (`memory/workflow/execution.py:115`), so an abandoned job may still be
   committed (against the comment at `runtime/runtime.py:772`).

*Queue, with one process.*

3. A segment staged again after its abandonment and FAILED again can be
   neither retried nor abandoned (`memory/workflow/jobs/store.py:474`, `:486`).
4. A renewal under way when the run settles meets a plain `MemoryJobError` and
   ends the worker loop (`store.py:602`; `tests/unit/runtime/test_worker.py:251`
   expects the loop to go on).

*Job run, when a lease is lost between the last check and the commit.*

5. A commit of the worker that lost the job takes effect after the next worker
   looked at the journal.  Its receipt may then be gone, and the segment may be
   applied twice (`execution.py:115`).  `ReceiptCompletes` and
   `AppliedOnceInOrder` therefore speak of runs without a lost lease.

*Source ledger.*

6. A source delivered again below the watermark, after the plugin lost its
   state, is released before any consumer saw it (instance: `Released0 = 1`).
7. A COMMITTED outcome whose Output file is lost is released without salvage.
8. A put that meets the reaping of an orphan past its grace ends with an
   envelope and no markers: recovery does not see it, and Memory may take a
   later source first.  `MemoryInOrder` and `AcceptedIsProcessed` leave aged
   markers out for this reason.
9. The comment of `_released` in `conversation/source/recovery.py` describes an
   order of deletion that `release.py` does not follow; nothing depends on it.

*Conversation journal.*

10. An append that was cut off and overlaps what is there, or collides with
    it, leaves a PREPARED receipt that no later load can recover.  `Recoverable`
    is the condition under which the load does.
11. With two foregrounds, the second may seal past a boundary the first has
    staged and not yet published.  The source ledger's lock of a
    conversation admits one Memory delivery at a time, so the run has one; a
    flush over the API at the same moment is the second
    (`runtime/runtime.py:616`).
12. A segment whose job failed and was abandoned is never released: the
    lifecycle asks for its job and raises (`memory/workflow/lifecycle.py:409`),
    at every pass, while the abandonment's record says that the operator has
    decided.  `OutboxCoversHistory` counts the record as an answer for the
    segment.

*Index.*

13. When a job is finalized a second time after its increment was published,
    its layers are worded anew, and `synchronize` finds the job's own checkpoint
    and returns (`memory/indexing/index.py:96`): the collection keeps the earlier
    wording until something republishes the layers.  `reworded` in
    `IndexFollowsTree` names this case.

*Compaction.*

14. An operation whose document was edited, or whose row was marked for
    retirement under it, never ends: every upkeep resumes and refuses it
    (`memory/compaction/lifecycle.py:513`, `:577`).  `Overtaken` names these
    states.
15. `advance` compares the new phase with the caller's copy of the operation,
    not with the one it reads, so a phase on disk can go back
    (`memory/compaction/operation.py:290`).
16. A memory that is deleted and created again under a use can return the
    shortened text (`lifecycle.py:333`); `ReturnsOriginal` speaks of memories
    that were not deleted.

*Outlet.*

17. A basis and a member of the same moment may both be said: the tick hands
    the moment over from the ledger alone, while a question asked in time is
    still to be observed (`runtime/foresight_delivery.py:779`).
18. A session whose lease ran out takes the claim again without a look at
    `max_attempts` (`runtime/foresight_outlet.py:324`).
19. An answer is lost when the process dies after its question was marked as
    said: the observation that is repeated stops at `already_spoken`
    (`foresight_outlet.py:504`).  `AnswersKept` speaks of answers with no crash
    and no refused write in between.
20. A basis that is void silences its members (`foresight/delivery.py:162`,
    against `docs/rulings/README.md:1481`).  `UnsaidIsHandedOver` speaks of
    bases no host was there for or fetched.
21. A basis that is on the list and loses its voice in the next night's table
    counts as unsaid at once (`foresight/delivery.py:159`,
    `runtime/foresight_delivery.py:771`): its heir is published while the basis
    can still be fetched and asked, against "同一刻只说一次" at
    `foresight_delivery.py:760`.  The ruling describes the handover
    (`docs/rulings/README.md:1481`) for a basis that recorded a shadow, not for
    one a host may be fetching.  `lost` names these bases in
    `OneOpenPerMoment`.

A transcript that arrives after the sweep of its claim is not recognised; that
is by design.

## 7. Plan, and what is not modelled

Next, in order:

1. `BehaviorReduction`: the reduction of observations with its retry ledger
   (`behavior/reduction/runner.py`).
2. Summaries and their retirement, and the settlement of foresight.

Not modelled, because they have no protocol of their own: documents, schema and
paths; the editor's planning, the extraction of tool results and the
conversation adapters (parsing and prompting); retrieval and its ranking;
scene, series, temporal and conditions (computation over documents); the model
client, seen as a call that succeeds, fails or asks to wait; configuration,
whose limits are the assumptions on the constants; HTTP transport and process
supervision; observability; the benchmark.  They are most of the code by
length, which is why the map covers a small share of it: what is modelled is
what several actors or a crash can reorder.

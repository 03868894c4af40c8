---------------------------- MODULE SourceLedger ----------------------------
(***************************************************************************)
(* The conversation source ledger of one address (conversation/source): a  *)
(* delivered batch becomes a durable envelope with an index marker and a   *)
(* pending marker, is handed to the Memory and the Behavior consumer, is   *)
(* recovered when a delivery fails or the process dies, and is released    *)
(* once both consumers are done and a later source was committed.          *)
(*                                                                         *)
(* Files are sets of the sources that have one: index, pending, envelope,  *)
(* salvaged; outcome and output hold the two consumers' records.  Every    *)
(* durable create or unlink is a step of its own; delivery tasks, the      *)
(* releaser, the recovery scan and put run in different threads and        *)
(* interleave.  A task holds its locks from Acquire until it ends or its   *)
(* lease is lost, so the lock rows are read off the tasks.                 *)
(***************************************************************************)
EXTENDS Naturals, Sequences, FiniteSets, Functions

CONSTANTS
    Source,       \* the sources delivered to the address
    NoSource,     \* no source
    Order,        \* the order in which the plugin delivers them, a sequence
    End,          \* Source -> its end_sequence
    Released0,    \* released_through at the start (0: nothing was released)
    MaxTasks,     \* bound: delivery tasks alive at a time, one more when a put overlaps with them
    MaxAttempts,  \* RetryLedger.max_attempts
    MaxMarkers,   \* SourceIndex.max_markers_per_address
    Budgets       \* bound: the combinations of faults and overlaps that may happen, [FaultKind -> Nat]

Consumer == {"memory", "behavior"}

\* Failing consumer runs, process restarts, lost leases, outputs lost to outside forces, markers
\* left longer than orphan_grace, a pending directory filled by other addresses, and puts whose
\* tasks start while earlier ones still run.
FaultKind == {"failure", "crash", "lost", "damage", "aged", "full", "overlap"}

\* bound: one task a put started and one that recovery started for a delivery
Task == [src: Source, con: Consumer, by: {"put", "recovery"}]
ordered_within_conversation(c) == c = "memory"
\* Mutant of skips_released_sources: Behavior runs whatever it is given.
skips_released_sourcesNever(c) == FALSE

skips_released_sources(c) == c = "behavior"

abandons(c) == c = "behavior"
salvages(c) == c = "behavior"

ASSUME SourceConstants ==
    /\ IsFiniteSet(Source) /\ NoSource \notin Source
    /\ Order \in Seq(Source)
    /\ End \in [Source -> Nat \ {0}]
    \* Batches continue the sequence of the conversation; one that starts over lies below Released0.
    /\ \A i, j \in DOMAIN Order : i < j => End[Order[i]] < End[Order[j]]
    /\ {Released0, MaxTasks, MaxAttempts, MaxMarkers} \subseteq Nat
    /\ Budgets \subseteq [FaultKind -> Nat]

VARIABLES
    watermark,    \* released_through of the address, 0 for none
    index,        \* sources with an index marker
    pending,      \* sources with a pending marker
    envelope,     \* sources with an envelope
    aged,         \* markers older than orphan_grace, pairs <<source, directory>>
    outcome,      \* Source -> Consumer -> the Outcome file
    output,       \* Source -> Consumer -> there is an Output file
    salvaged,     \* sources with a salvaged marker (Behavior)
    retry,        \* Source -> Consumer -> the entry of the retry ledger
    task,         \* Task -> where it is, what for, and whether it has its lease
    put,          \* the put in progress
    reaping,      \* an expired orphan whose pending marker is about to go
    releaser,     \* what the releaser is doing
    accepted,     \* history: sources whose put succeeded
    ingested,     \* history: sources in the order Memory took them
    gone,         \* history: sources released, their coverage records with them
    replayed,     \* history: sources Behavior wrote again after that
    faults        \* bounded faults so far

vars == <<watermark, index, pending, envelope, aged, outcome, output, salvaged, retry, task, put,
          reaping, releaser, accepted, ingested, gone, replayed, faults>>

ledger == <<watermark, index, pending, aged>>
records == <<envelope, outcome, output, salvaged>>
actors == <<put, reaping, releaser>>
history == <<accepted, ingested, gone, replayed>>

NoRetry == [attempts |-> 0, kind |-> "none"]

Idle == [pc |-> "off", abandon |-> FALSE, lease |-> FALSE]
NoPut == [src |-> NoSource, pc |-> "off"]
Resting == [todo |-> <<>>, pc |-> "off"]

Init ==
    /\ watermark = Released0
    /\ index = {} /\ pending = {} /\ envelope = {} /\ aged = {} /\ salvaged = {}
    /\ outcome = [s \in Source |-> [c \in Consumer |-> "none"]]
    /\ output = [s \in Source |-> [c \in Consumer |-> FALSE]]
    /\ retry = [s \in Source |-> [c \in Consumer |-> NoRetry]]
    /\ task = [t \in Task |-> Idle]
    /\ put = NoPut
    /\ reaping = NoSource
    /\ releaser = Resting
    /\ accepted = {} /\ ingested = <<>> /\ gone = {} /\ replayed = {}
    /\ faults = [k \in FaultKind |-> 0]

-----------------------------------------------------------------------------
(* What the files say                                                      *)

\* A fault may happen once more; it is counted.
Fault(kind) ==
    LET counted == [faults EXCEPT ![kind] = @ + 1]
    IN  /\ \E b \in Budgets : \A k \in FaultKind : counted[k] <= b[k]
        /\ faults' = counted

Before(a, b) == End[a] < End[b]
released(s) == End[s] <= watermark

\* The markers of the address that come before the source.
Earlier(s) == {p \in index : Before(p, s)}

\* The joint reading of the Outcome and the Output of one consumer.
inspect(s, c) ==
    CASE outcome[s][c] = "none"      /\ ~output[s][c] -> "PENDING"
      [] outcome[s][c] = "none"      /\  output[s][c] -> "OUTPUT_READY"
      [] outcome[s][c] = "COMMITTED" /\  output[s][c] -> "COMMITTED"
      [] outcome[s][c] = "COMMITTED" /\ ~output[s][c] -> "BROKEN_OUTCOME"
      [] outcome[s][c] = "SKIPPED"   /\ ~output[s][c] -> "SKIPPED"
      [] OTHER                                         -> "CORRUPTED"

Terminal == {"COMMITTED", "SKIPPED"}
Broken == {"BROKEN_OUTCOME", "CORRUPTED"}

\* The consumer needs nothing more of the source, as recovery sees it.
Settled(s, c) == (salvages(c) /\ s \in salvaged) \/ inspect(s, c) \in Terminal

\* Mutant of PredecessorsDone: a marker without an envelope never makes anyone wait.
PredecessorsDoneLoose(s, c) ==
    \A p \in index \cap envelope : Before(p, s) => inspect(p, c) \notin {"OUTPUT_READY"}

\* Every earlier source of the address is COMMITTED for the ordered consumer, or was released.
PredecessorsDone(s, c) ==
    \A p \in Earlier(s) : IF p \in envelope THEN inspect(p, c) = "COMMITTED" ELSE released(p)

Alive == {t \in Task : task[t].pc # "off"}
Holding(t, s, c) == task[t].lease /\ t.src = s /\ t.con = c
ReleaserHolds(s) ==
    releaser.pc \in {"mark", "envelope", "outcomes", "outputs"} /\ Head(releaser.todo) = s
Locked(s, c) == ReleaserHolds(s) \/ \E t \in Task : Holding(t, s, c)
OrderLocked == \E t \in Task : task[t].lease /\ ordered_within_conversation(t.con)

-----------------------------------------------------------------------------
(* ConversationSourceStore.put, then ConversationSourceCoordinator.start    *)

\* The plugin sends a conversation's deliveries strictly in order and repeats only the newest.
Deliverable(s) ==
    \E i \in DOMAIN Order :
        /\ Order[i] = s
        /\ \A j \in 1..(i - 1) : Order[j] \in accepted
        /\ \A j \in (i + 1)..Len(Order) : Order[j] \notin accepted

PutIndex(s) ==
    /\ put = NoPut /\ Deliverable(s)
    /\ s \in index \/ Cardinality(index) < MaxMarkers
    /\ index' = index \cup {s}
    /\ put' = [src |-> s, pc |-> "pending"]
    /\ UNCHANGED <<watermark, pending, aged, records, retry, task, reaping, releaser, history, faults>>

PutPending ==
    /\ put.pc = "pending"
    /\ pending' = pending \cup {put.src}
    /\ put' = [put EXCEPT !.pc = "envelope"]
    /\ UNCHANGED <<watermark, index, aged, records, retry, task, reaping, releaser, history, faults>>

\* The pending directory, which all addresses share, is full: the put is refused and its index
\* marker stays behind.
PutRefused ==
    /\ put.pc = "pending" /\ put.src \notin pending
    /\ Fault("full")
    /\ put' = NoPut
    /\ UNCHANGED <<ledger, records, retry, task, reaping, releaser, history>>

\* create_task(ensure_outcome(...)) for the deliveries ts.
Started(ts, abandon) ==
    [t \in Task |-> IF t \in ts THEN [pc |-> "look", abandon |-> abandon, lease |-> FALSE] ELSE task[t]]

PutEnvelope ==
    /\ put.pc = "envelope"
    /\ LET started == {t \in Task : t.src = put.src /\ t.by = "put"}
       IN  /\ started \cap Alive = {} /\ Cardinality(Alive) < MaxTasks
           /\ task' = Started(started, FALSE)
    /\ IF Cardinality(Alive) + 2 <= MaxTasks THEN UNCHANGED faults ELSE Fault("overlap")
    /\ envelope' = envelope \cup {put.src}
    /\ accepted' = accepted \cup {put.src}
    /\ put' = NoPut
    /\ UNCHANGED <<ledger, outcome, output, salvaged, retry, reaping, releaser, ingested, gone, replayed>>

-----------------------------------------------------------------------------
(* ConversationConsumerDelivery._ensure_outcome, run by one task            *)

At(t, pc) == task[t].pc = pc
Move(t, pc) == task' = [task EXCEPT ![t].pc = pc]

\* The delivery returns a durable Outcome; a recovery then clears its retry entry.
Finish(t) ==
    LET s == t.src
        c == t.con
    IN  /\ task' = [task EXCEPT ![t] = Idle]
        /\ retry' = IF t.by = "put" THEN retry ELSE [retry EXCEPT ![s][c] = NoRetry]

\* RetryLedger.record_failure: out of attempts, or an error that will not go away, gives up.
Failed(entry, deterministic) ==
    LET attempts == IF entry.attempts < MaxAttempts THEN entry.attempts + 1 ELSE MaxAttempts
    IN  [attempts |-> attempts,
         kind |-> IF deterministic \/ attempts >= MaxAttempts THEN "given up" ELSE "backoff"]

\* The delivery raises: a recovery records it and, having given up, abandons at once where the
\* consumer can.
Raise(t, deterministic) ==
    LET s == t.src
        c == t.con
        entry == Failed(retry[s][c], deterministic)
    IN  IF t.by = "put" \/ task[t].abandon
        THEN task' = [task EXCEPT ![t] = Idle] /\ UNCHANGED retry
        ELSE /\ retry' = [retry EXCEPT ![s][c] = entry]
             /\ task' = [task EXCEPT ![t] =
                    IF entry.kind = "given up" /\ abandons(c)
                    THEN [pc |-> "look", abandon |-> TRUE, lease |-> FALSE]
                    ELSE Idle]

\* Waiting for an earlier source is no failure.
Wait(t) == task' = [task EXCEPT ![t] = Idle] /\ UNCHANGED retry

\* The checks made before the locks and again under them; what follows a healthy PENDING or
\* OUTPUT_READY is Go.
Checked(t, Go) ==
    LET s == t.src
        c == t.con
        state == inspect(s, c)
        blockers == {p \in Earlier(s) \cap envelope : inspect(p, c) \in Broken \cup {"SKIPPED"}}
    IN  IF state \in Terminal THEN Finish(t)
        ELSE IF state \in Broken THEN Raise(t, FALSE)
        ELSE IF ~ordered_within_conversation(c) \/ PredecessorsDone(s, c) THEN Go
        ELSE IF blockers # {} THEN Raise(t, FALSE)
        ELSE Wait(t)

Look(t) ==
    /\ At(t, "look")
    /\ Checked(t, Move(t, "wait") /\ UNCHANGED retry)
    /\ UNCHANGED <<ledger, records, actors, history, faults>>

\* ConversationConsumerExecutionFence.acquire: the order lock first, then the consumer lock.
Acquire(t) ==
    LET s == t.src
        c == t.con
    IN  /\ At(t, "wait")
        /\ ~Locked(s, c)
        /\ ordered_within_conversation(c) => ~OrderLocked
        /\ task' = [task EXCEPT ![t].pc = "held", ![t].lease = TRUE]
        /\ UNCHANGED <<ledger, records, retry, actors, history, faults>>

\* wait_seconds passed and a lock is still taken.
GiveUpWaiting(t) ==
    LET s == t.src
        c == t.con
    IN  /\ At(t, "wait")
        /\ Locked(s, c) \/ (ordered_within_conversation(c) /\ OrderLocked)
        /\ Raise(t, FALSE)
        /\ UNCHANGED <<ledger, records, actors, history, faults>>

\* The second look under the locks, then what to do: record a skip, adopt the Output, or run.
Recheck(t) ==
    LET s == t.src
        c == t.con
        skip == skips_released_sources(c) /\ inspect(s, c) = "PENDING" /\ released(s)
        next == IF skip THEN "skip" ELSE IF inspect(s, c) = "OUTPUT_READY" THEN "commit" ELSE "run"
    IN  /\ At(t, "held") /\ task[t].lease
        /\ Checked(t, Move(t, next) /\ UNCHANGED retry)
        /\ UNCHANGED <<ledger, records, actors, history, faults>>

\* The consumer's own effect, outside the fence: Memory appends once per delivery, Behavior
\* writes turns its coverage records do not name yet.
Execute(t) ==
    LET s == t.src
        c == t.con
    IN  /\ At(t, "run")
        /\ Move(t, "publish")
        /\ ingested' = IF c = "memory" /\ s \notin Range(ingested) THEN Append(ingested, s) ELSE ingested
        /\ replayed' = IF c = "behavior" /\ s \in gone THEN replayed \cup {s} ELSE replayed
        /\ UNCHANGED <<ledger, records, retry, actors, accepted, gone, faults>>

\* Behavior has nothing to process: disabled, a subagent's conversation, or no turn.
ExecuteSkips(t) ==
    /\ At(t, "run") /\ t.con = "behavior"
    /\ Move(t, "skip")
    /\ UNCHANGED <<ledger, records, retry, actors, history, faults>>

ExecuteFails(t) ==
    /\ At(t, "run")
    /\ Fault("failure")
    /\ \E deterministic \in BOOLEAN : Raise(t, deterministic)
    /\ UNCHANGED <<ledger, records, actors, history>>

\* output_store.put inside run_fenced; an Output that is already there is reused.
Publish(t) ==
    /\ At(t, "publish") /\ task[t].lease
    /\ output' = [output EXCEPT ![t.src][t.con] = TRUE]
    /\ Move(t, "commit")
    /\ UNCHANGED <<ledger, envelope, outcome, salvaged, retry, actors, history, faults>>

\* _commit_run and _create_output_outcome inside run_fenced: create_first keeps the first Outcome.
Commit(t) ==
    LET s == t.src
        c == t.con
        wanted == IF At(t, "skip") THEN "SKIPPED" ELSE "COMMITTED"
        agrees == inspect(s, c) = (IF At(t, "skip") THEN "PENDING" ELSE "OUTPUT_READY")
    IN  /\ task[t].pc \in {"skip", "commit"} /\ task[t].lease
        /\ IF agrees
           THEN outcome' = [outcome EXCEPT ![s][c] = wanted] /\ Finish(t)
           ELSE UNCHANGED outcome /\ Raise(t, FALSE)
        /\ UNCHANGED <<ledger, envelope, output, salvaged, actors, history, faults>>

\* The heartbeat fails and the lease runs out; the task does not know until its next fenced step.
LoseLease(t) ==
    /\ task[t].lease
    /\ Fault("lost")
    /\ task' = [task EXCEPT ![t].lease = FALSE]
    /\ UNCHANGED <<ledger, records, retry, actors, history>>

\* run_fenced of a task without its lease.
Fenced(t) ==
    /\ task[t].pc \in {"held", "skip", "publish", "commit"} /\ ~task[t].lease
    /\ Raise(t, FALSE)
    /\ UNCHANGED <<ledger, records, actors, history, faults>>

-----------------------------------------------------------------------------
(* ConversationSourceRecovery: the scan, and what it starts                 *)

waiting(s, c) == s \in pending \cap envelope /\ ~Settled(s, c)

Unmark(s) ==
    /\ pending' = pending \ {s}
    /\ aged' = aged \ {<<s, "pending">>}

Unindex(s) ==
    /\ index' = index \ {s}
    /\ aged' = aged \ {<<s, "index">>}

\* Both consumers are done: the pending marker goes.
ClearSettled(s) ==
    /\ s \in pending \cap envelope
    /\ \A c \in Consumer : Settled(s, c)
    /\ Unmark(s)
    /\ UNCHANGED <<watermark, index, records, retry, task, actors, history, faults>>

\* No envelope, and the index marker is gone or covered: a release that got this far.
ClearReleased(s) ==
    /\ s \in pending \ envelope
    /\ s \notin index \/ released(s)
    /\ Unmark(s)
    /\ UNCHANGED <<watermark, index, records, retry, task, actors, history, faults>>

\* An orphan past its grace: the index marker first ...
ReapOrphan(s) ==
    /\ reaping = NoSource
    /\ s \in (pending \cap index) \ envelope
    /\ ~released(s) /\ <<s, "pending">> \in aged
    /\ Unindex(s)
    /\ reaping' = s
    /\ UNCHANGED <<watermark, pending, records, retry, task, put, releaser, history, faults>>

\* ... then the pending marker, whatever happened in between.
ReapPending ==
    /\ reaping # NoSource
    /\ Unmark(reaping)
    /\ reaping' = NoSource
    /\ UNCHANGED <<watermark, index, records, retry, task, put, releaser, history, faults>>

\* An index marker alone, past its grace, at an address that has a source waiting.
ReapIndexMarker(s) ==
    /\ s \in index \ (pending \cup envelope)
    /\ ~released(s) /\ <<s, "index">> \in aged
    /\ \E w \in Source, c \in Consumer : waiting(w, c)
    /\ Unindex(s)
    /\ UNCHANGED <<watermark, pending, records, retry, task, actors, history, faults>>

\* RetryLedger.reap drops the entries of what is no longer waiting.
ReapRetry(s, c) ==
    /\ retry[s][c] # NoRetry /\ ~waiting(s, c)
    /\ retry' = [retry EXCEPT ![s][c] = NoRetry]
    /\ UNCHANGED <<ledger, records, task, actors, history, faults>>

blocked(s, c) == retry[s][c].kind \in {"backoff", "given up"}
abandoning(s, c) == abandons(c) /\ retry[s][c].kind = "given up"
Held(s, c) ==
    ordered_within_conversation(c)
    /\ \E p \in Source : Before(p, s) /\ waiting(p, c) /\ (inspect(p, c) \in Broken \/ blocked(p, c))

\* plan puts the entry in the batch, the batch is dispatched: one more task.
Attempt(s, c) ==
    /\ Cardinality(Alive) < MaxTasks
    /\ waiting(s, c) /\ ~Held(s, c)
    /\ inspect(s, c) \notin Broken
    /\ abandoning(s, c) \/ ~blocked(s, c)
    /\ LET t == [src |-> s, con |-> c, by |-> "recovery"]
       IN  t \notin Alive /\ task' = Started({t}, abandoning(s, c))
    /\ UNCHANGED <<ledger, records, retry, actors, history, faults>>

\* The Behavior records are broken: its salvager runs, then the source counts as settled.
Salvage(s, c) ==
    /\ salvages(c) /\ waiting(s, c) /\ inspect(s, c) \in Broken
    /\ salvaged' = salvaged \cup {s}
    /\ UNCHANGED <<ledger, envelope, outcome, output, retry, task, actors, history, faults>>

\* Mutant of BackoffEnds: an entry never becomes due.
BackoffEndsNever(s, c) == FALSE /\ UNCHANGED vars

BackoffEnds(s, c) ==
    /\ retry[s][c].kind = "backoff"
    /\ retry' = [retry EXCEPT ![s][c].kind = "due"]
    /\ UNCHANGED <<ledger, records, task, actors, history, faults>>

\* forgive, after somebody repaired the cause.
Forgive(s, c) ==
    /\ retry[s][c].kind = "given up"
    /\ retry' = [retry EXCEPT ![s][c] = NoRetry]
    /\ UNCHANGED <<ledger, records, task, actors, history, faults>>

-----------------------------------------------------------------------------
(* ConversationSourceReleaser                                               *)

recorded(s, c) == (salvages(c) /\ s \in salvaged) \/ outcome[s][c] \in Terminal
\* Mutant of terminal: only the ordered consumer is asked.
terminalForMemory(s) == s \in envelope /\ recorded(s, "memory")

terminal(s) == s \in envelope /\ \A c \in Consumer : recorded(s, c)

ordered_committed(s) == outcome[s]["memory"] = "COMMITTED"

Covered(s) == released(s) /\ (s \notin envelope \/ terminal(s))
Ripe(s) == terminal(s) /\ \E l \in index : Before(s, l) /\ ordered_committed(l)

\* Covered markers, and the ripe sources up to the first that is not.
Releasable ==
    LET free == {s \in index : ~released(s)}
    IN  {s \in index : Covered(s)} \cup {s \in free : \A p \in free : ~Before(s, p) => Ripe(p)}

\* Mutant of SettlePending: one consumer's record is enough.
SettlePendingForOne(s) ==
    /\ s \in pending
    /\ \E c \in Consumer : recorded(s, c)
    /\ Unmark(s)
    /\ UNCHANGED <<watermark, index, records, retry, task, actors, history, faults>>

\* settle_pending: the newest source of an address is not released, its pending marker still goes.
SettlePending(s) ==
    /\ s \in pending
    /\ \A c \in Consumer : recorded(s, c)
    /\ Unmark(s)
    /\ UNCHANGED <<watermark, index, records, retry, task, actors, history, faults>>

\* markers_in: the sources of a set, sorted.
Sorted(S) == {q \in [1..Cardinality(S) -> S] : \A i, j \in DOMAIN q : i < j => Before(q[i], q[j])}

ReleaseScan ==
    /\ releaser = Resting /\ Releasable # {}
    /\ \E todo \in Sorted(Releasable) : releaser' = [todo |-> todo, pc |-> "lock"]
    /\ UNCHANGED <<ledger, records, retry, task, put, reaping, history, faults>>

\* Both consumer locks or none: with one of them taken the round of this address is over.
ReleaseLock ==
    LET s == Head(releaser.todo)
    IN  /\ releaser.pc = "lock"
        /\ releaser' = IF \E c \in Consumer : Locked(s, c) THEN Resting ELSE [releaser EXCEPT !.pc = "mark"]
        /\ UNCHANGED <<ledger, records, retry, task, put, reaping, history, faults>>

ReleaseMark ==
    LET s == Head(releaser.todo)
    IN  /\ releaser.pc = "mark"
        /\ watermark' = IF released(s) THEN watermark ELSE End[s]
        /\ releaser' = [releaser EXCEPT !.pc = "envelope"]
        /\ UNCHANGED <<index, pending, aged, records, retry, task, put, reaping, history, faults>>

ReleaseEnvelope ==
    LET s == Head(releaser.todo)
    IN  /\ releaser.pc = "envelope"
        /\ envelope' = envelope \ {s}
        /\ gone' = gone \cup {s}
        /\ releaser' = [releaser EXCEPT !.pc = "outcomes"]
        /\ UNCHANGED <<ledger, outcome, output, salvaged, retry, task, put, reaping, accepted, ingested,
                       replayed, faults>>

ReleaseOutcomes ==
    LET s == Head(releaser.todo)
    IN  /\ releaser.pc = "outcomes"
        /\ outcome' = [outcome EXCEPT ![s] = [c \in Consumer |-> "none"]]
        /\ releaser' = [releaser EXCEPT !.pc = "outputs"]
        /\ UNCHANGED <<ledger, envelope, output, salvaged, retry, task, put, reaping, history, faults>>

ReleaseOutputs ==
    LET s == Head(releaser.todo)
    IN  /\ releaser.pc = "outputs"
        /\ output' = [output EXCEPT ![s] = [c \in Consumer |-> FALSE]]
        /\ releaser' = [releaser EXCEPT !.pc = "pending"]
        /\ UNCHANGED <<ledger, envelope, outcome, salvaged, retry, task, put, reaping, history, faults>>

\* The locks are back, their rows discarded: the salvaged and the pending marker go.
ReleasePending ==
    LET s == Head(releaser.todo)
    IN  /\ releaser.pc = "pending"
        /\ salvaged' = salvaged \ {s}
        /\ Unmark(s)
        /\ releaser' = [releaser EXCEPT !.pc = "index"]
        /\ UNCHANGED <<watermark, index, envelope, outcome, output, retry, task, put, reaping, history,
                       faults>>

ReleaseIndex ==
    LET s == Head(releaser.todo)
    IN  /\ releaser.pc = "index"
        /\ Unindex(s)
        /\ releaser' = IF Len(releaser.todo) = 1 THEN Resting
                       ELSE [todo |-> Tail(releaser.todo), pc |-> "lock"]
        /\ UNCHANGED <<watermark, pending, records, retry, task, put, reaping, history, faults>>

\* assert_owned or the fence raises: the lifecycle lease is lost and the locks are given back.
ReleaseAborts ==
    /\ releaser # Resting
    /\ Fault("lost")
    /\ releaser' = Resting
    /\ UNCHANGED <<ledger, records, retry, task, put, reaping, history>>

-----------------------------------------------------------------------------
(* Faults from outside                                                      *)

Crash ==
    /\ Fault("crash")
    /\ task' = [t \in Task |-> Idle]
    /\ put' = NoPut /\ reaping' = NoSource /\ releaser' = Resting
    /\ UNCHANGED <<ledger, records, retry, history>>

\* A put broke off and nobody delivered again for orphan_grace.
Age(s) ==
    /\ s \in (index \cup pending) \ envelope
    /\ put.src # s
    /\ Fault("aged")
    /\ aged' = aged \cup ({<<i, "index">> : i \in index \cap {s}} \cup {<<p, "pending">> : p \in pending \cap {s}})
    /\ UNCHANGED <<watermark, index, pending, records, retry, task, actors, history>>

\* A committed Output disappears (a restored backup, a half-done migration).
LoseOutput(s) ==
    /\ outcome[s]["behavior"] = "COMMITTED" /\ output[s]["behavior"] /\ s \in envelope
    /\ Fault("damage")
    /\ output' = [output EXCEPT ![s]["behavior"] = FALSE]
    /\ UNCHANGED <<ledger, envelope, outcome, salvaged, retry, task, actors, history>>

-----------------------------------------------------------------------------
Put == PutPending \/ PutRefused \/ PutEnvelope \/ \E s \in Source : PutIndex(s)

Deliver(t) ==
    Look(t) \/ Acquire(t) \/ GiveUpWaiting(t) \/ Recheck(t) \/ Execute(t) \/ ExecuteSkips(t)
    \/ ExecuteFails(t) \/ Publish(t) \/ Commit(t) \/ LoseLease(t) \/ Fenced(t)

Recover(s) ==
    \/ ClearSettled(s) \/ SettlePending(s) \/ ClearReleased(s) \/ ReapOrphan(s) \/ ReapIndexMarker(s)
    \/ \E c \in Consumer :
        ReapRetry(s, c) \/ Attempt(s, c) \/ Salvage(s, c) \/ BackoffEnds(s, c) \/ Forgive(s, c)

Release ==
    ReleaseScan \/ ReleaseLock \/ ReleaseMark \/ ReleaseEnvelope \/ ReleaseOutcomes \/ ReleaseOutputs
    \/ ReleasePending \/ ReleaseIndex \/ ReleaseAborts

Next ==
    \/ Put \/ ReapPending \/ Release \/ Crash
    \/ \E t \in Task : Deliver(t)
    \/ \E s \in Source : Recover(s) \/ Age(s) \/ LoseOutput(s)

Spec == Init /\ [][Next]_vars

\* The event loop runs its tasks, the lifecycle loop recovers round after round, and backoff ends;
\* only the operator's Forgive, repeated deliveries and faults are not promised.
Fairness ==
    /\ WF_vars(PutPending) /\ WF_vars(PutEnvelope) /\ WF_vars(ReapPending)
    /\ \A t \in Task :
        /\ WF_vars(Look(t) \/ Recheck(t) \/ Execute(t) \/ Publish(t) \/ Commit(t) \/ Fenced(t))
        /\ SF_vars(Acquire(t))
    /\ \A s \in Source, c \in Consumer :
        SF_vars(Attempt(s, c)) /\ WF_vars(Salvage(s, c)) /\ WF_vars(BackoffEnds(s, c))

FairSpec == Spec /\ Fairness

-----------------------------------------------------------------------------
(* Properties                                                               *)

TypeOK ==
    /\ watermark \in Nat
    /\ index \subseteq Source /\ pending \subseteq Source /\ envelope \subseteq Source
    /\ aged \subseteq Source \X {"index", "pending"} /\ salvaged \subseteq Source
    /\ outcome \in [Source -> [Consumer -> Terminal \cup {"none"}]]
    /\ output \in [Source -> [Consumer -> BOOLEAN]]
    /\ retry \in [Source -> [Consumer -> [attempts: 0..MaxAttempts,
                                          kind: {"none", "backoff", "due", "given up"}]]]
    /\ task \in [Task -> [pc: {"off", "look", "wait", "held", "run", "publish", "skip", "commit"},
                          abandon: BOOLEAN, lease: BOOLEAN]]
    /\ put \in [src: Source \cup {NoSource}, pc: {"off", "pending", "envelope"}]
    /\ reaping \in Source \cup {NoSource}
    /\ releaser.pc \in {"off", "lock", "mark", "envelope", "outcomes", "outputs", "pending", "index"}
    /\ accepted \subseteq Source /\ gone \subseteq Source /\ replayed \subseteq Source

\* Release deletes an envelope only when both consumers are durably done with it: nobody's input
\* disappears before it was used, as long as no Output disappears from outside.
KeptUntilConsumed ==
    [][faults["damage"] = 0 =>
        \A s \in envelope \ envelope' : \A c \in Consumer : Settled(s, c)]_vars

\* A source that some consumer still has to process is found by recovery (pending) and by the
\* ordering and release checks (index), whatever crashed in between, as long as nothing was left
\* for longer than orphan_grace.
NothingForgotten ==
    faults["aged"] = 0 =>
        \A s \in envelope :
            (\E c \in Consumer : outcome[s][c] = "none") => s \in index \cap pending

\* Memory takes the sources of a conversation in sequence, also when tasks, retries and
\* recoveries overlap, as long as nothing was left for longer than orphan_grace.
MemoryInOrder ==
    faults["aged"] = 0 => \A i, j \in DOMAIN ingested : i < j => Before(ingested[i], ingested[j])

\* Behavior, which cannot repeat itself safely once its coverage records are gone, never runs on
\* a source that was released, as long as every task keeps its lease.
NeverReplayed == faults["lost"] = 0 => replayed = {}

Done(s) == s \in gone \/ \A c \in Consumer : Settled(s, c)
AwaitsRepair(s) == retry[s]["memory"].kind = "given up"

\* A source the store accepted is processed by both consumers, through failures, lost leases and
\* restarts, unless Memory gave it or an earlier one up and waits for the operator, or something
\* was left for longer than orphan_grace.
AcceptedIsProcessed ==
    \A s \in Source :
        (s \in accepted) ~> (\/ Done(s) \/ faults["aged"] > 0
                            \/ \E p \in Source : ~Before(s, p) /\ AwaitsRepair(p))
=============================================================================

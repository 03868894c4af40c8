---------------------- MODULE MemoryCommitTransaction -----------------------
(***************************************************************************)
(* Multi-document commits of long-term memory: MemoryCommitTransaction, its *)
(* MemoryTransactionJournal, and MemorySnapshotReader, which reads without  *)
(* the lock the transactions take.                                         *)
(*                                                                         *)
(* An attempt is one call of commit, with a transaction id that a job uses *)
(* again for its next attempt.  Everything between Begin and the end of an *)
(* attempt, and of a recovery, runs under the fenced transaction lock; what*)
(* can come in between are readers, crashes, and discard_terminal.  A step *)
(* is one durable write (a document, a journal, the generation) or one     *)
(* read that a concurrent write can tear.                                  *)
(*                                                                         *)
(* The content of a document is the attempt that wrote it: every write has *)
(* a new revision and timestamp, so no two attempts write equal documents. *)
(***************************************************************************)
EXTENDS Naturals, Sequences, FiniteSets

CONSTANTS
    Doc,        \* URIs of L2 documents
    Txn,        \* transaction ids
    JobTxn,     \* those of memory jobs (retain_journal); the others are uuids
    Attempt,    \* calls of commit
    Reader,     \* snapshot readers
    None,       \* nobody
    Missing,    \* content of a document that does not exist
    Old,        \* content of a document from before the first attempt
    Recovery,   \* lock holder: recover_pending
    MaxFaults   \* bound: failed operations and crashes

ASSUME TransactionConstants ==
    /\ JobTxn \subseteq Txn
    /\ None \notin Attempt \cup Txn \cup {Recovery}
    /\ Missing # Old /\ Missing \notin Attempt /\ Old \notin Attempt
    /\ Recovery \notin Attempt
    /\ MaxFaults \in Nat

VARIABLES
    docs,        \* Doc -> content on disk
    journal,     \* Txn -> [state, by]: the journal file
    generation,  \* visibility.json
    lock,        \* holder of the fenced transaction lock
    phase,       \* Attempt -> where that commit is
    plan,        \* Attempt -> its MemoryCommitPlan
    todo,        \* documents the lock holder still has to write
    rec,         \* recover_pending: its phase, the records left, the verdict
    reader,      \* Reader -> where its _read_consistent is
    log,         \* history: committed states, in commit order, and who made them
    faults       \* bounded by MaxFaults

disk == <<docs, journal, generation>>
vars == <<disk, lock, phase, plan, todo, rec, reader, log, faults>>

Content == Attempt \cup {Missing, Old}

JournalState == {"absent", "PREPARED", "COMMITTED", "ROLLED_BACK"}
JournalRecord == [state: JournalState, by: Attempt \cup {None}]
NoRecord == [state |-> "absent", by |-> None]

(* What the attempt read and what it writes: after is before where nothing  *)
(* is changed, and Missing for a retired document.                          *)
Plan == [txn: Txn \cup {None}, scope: SUBSET Doc, changed: SUBSET Doc,
         before: [Doc -> Content], after: [Doc -> Content]]

(* The outcomes: committed, rolledback (MemoryCommitError), refused         *)
(* (nothing was prepared), unknown (any other error, or a crash).           *)
Ended == {"committed", "rolledback", "refused", "unknown"}
Working == {"checked", "publishing", "verified", "advanced", "marked",
            "undoing", "undone", "undoAdvanced"}
AttemptPhase == {"new", "planned"} \cup Working \cup Ended

RecoveryPhase == {"idle", "next", "restoring", "decided", "advanced"}
RecoveryRecord == [phase: RecoveryPhase, queue: SUBSET Txn, txn: Txn \cup {None},
                   verdict: {"absent", "COMMITTED", "ROLLED_BACK"}]
NoRecovery == [phase |-> "idle", queue |-> {}, txn |-> None, verdict |-> "absent"]

ReaderPhase == {"idle", "before", "reading", "after", "done"}
ReaderRecord == [phase: ReaderPhase, gen: Nat, from: Nat, first: SUBSET Attempt,
                 second: SUBSET Attempt, left: SUBSET (Txn \cup Doc),
                 got: [Doc -> Content]]

LogEntry == [by: Attempt \cup {None}, state: [Doc -> Content]]

IsPrepared(t) == journal[t].state = "PREPARED"
Pending == {t \in Txn : IsPrepared(t)}

Init ==
    /\ docs \in [Doc -> {Missing, Old}]
    /\ journal = [t \in Txn |-> NoRecord]
    /\ generation = 0
    /\ lock = None
    /\ phase = [a \in Attempt |-> "new"]
    /\ plan = [a \in Attempt |-> [txn |-> None, scope |-> {}, changed |-> {},
                                  before |-> docs, after |-> docs]]
    /\ todo = {}
    /\ rec = NoRecovery
    /\ log = << [by |-> None, state |-> docs] >>
    /\ reader = [r \in Reader |->
                   [phase |-> "idle", gen |-> 0, first |-> {}, second |-> {},
                    left |-> {}, got |-> docs, from |-> 1]]
    /\ faults = 0

(***************************************************************************)
(* commit                                                                  *)
(***************************************************************************)

(* The documents as _overlay_prepared shows them to a public reader.        *)
View == [d \in Doc |->
    IF \E t \in Pending : d \in plan[journal[t].by].changed
      THEN plan[journal[CHOOSE t \in Pending :
                          d \in plan[journal[t].by].changed].by].before[d]
      ELSE docs[d]]

PlanOf(a, t, scope, changed, before, retired) ==
    [txn |-> t, scope |-> scope, changed |-> changed, before |-> before,
     after |-> [d \in Doc |-> IF d \in retired THEN Missing
                              ELSE IF d \in changed THEN a ELSE before[d]]]

(* MemoryCommitPlan.build merges snapshot batches that were read one after  *)
(* another, so each document is as some committed state had it.  Only a job *)
(* commits without a change; a uuid is used once.                           *)
Build(a) ==
    /\ phase[a] = "new"
    /\ \E t \in Txn, scope \in SUBSET Doc, before \in [Doc -> Content] :
         /\ \A d \in Doc : IF d \in scope
                             THEN \E i \in 1..Len(log) : before[d] = log[i].state[d]
                             ELSE before[d] = Missing
         /\ \E changed \in SUBSET scope :
              /\ t \notin JobTxn => /\ changed # {}
                                    /\ \A b \in Attempt : plan[b].txn # t
              /\ \E retired \in SUBSET {d \in changed : before[d] # Missing} :
                   plan' = [plan EXCEPT ![a] =
                              PlanOf(a, t, scope, changed, before, retired)]
    /\ phase' = [phase EXCEPT ![a] = "planned"]
    /\ UNCHANGED <<disk, lock, todo, rec, reader, log, faults>>

Enter(a, next) == phase' = [phase EXCEPT ![a] = next]

(* The end of an attempt: the lock is released.                             *)
Leave(a, outcome) ==
    /\ Enter(a, outcome)
    /\ lock' = None
    /\ todo' = {}

NothingPending == Pending = {}

(* _assert_current *)
ReadsCurrent(a) == \A d \in plan[a].scope : docs[d] = plan[a].before[d]

(* The lock set is taken and fenced; the two checks before the journal.     *)
Begin(a) ==
    /\ phase[a] = "planned"
    /\ lock = None
    /\ IF NothingPending /\ ReadsCurrent(a)
         THEN lock' = a /\ Enter(a, "checked")
         ELSE UNCHANGED lock /\ Enter(a, "refused")
    /\ UNCHANGED <<disk, plan, todo, rec, reader, log, faults>>

(* journal.prepare creates the file, and is refused when one exists.        *)
Prepare(a) == \E t \in Txn :
    /\ phase[a] = "checked"
    /\ plan[a].txn = t
    /\ \/ /\ journal[t].state = "absent"
          /\ journal' = [journal EXCEPT ![t] = [state |-> "PREPARED", by |-> a]]
          /\ Enter(a, "publishing")
          /\ todo' = plan[a].changed
          /\ UNCHANGED lock
       \/ /\ journal[t].state # "absent"
          /\ UNCHANGED journal
          /\ Leave(a, "refused")
    /\ UNCHANGED <<docs, generation, plan, rec, reader, log, faults>>

(* tree.write of every changed document, then tree.delete of the retired.   *)
Publish(a) == \E d \in todo :
    /\ phase[a] = "publishing"
    /\ plan[a].after[d] = Missing => \A e \in todo : plan[a].after[e] = Missing
    /\ docs' = [docs EXCEPT ![d] = plan[a].after[d]]
    /\ todo' = todo \ {d}
    /\ UNCHANGED <<journal, generation, lock, phase, plan, rec, reader, log, faults>>

(* _verify_committed *)
Verify(a) ==
    /\ phase[a] = "publishing"
    /\ todo = {}
    /\ \A d \in plan[a].scope : docs[d] = plan[a].after[d]
    /\ Enter(a, "verified")
    /\ UNCHANGED <<disk, lock, plan, todo, rec, reader, log, faults>>

(* advance_visibility_generation, before the mark.                          *)
Advance(a) ==
    /\ phase[a] = "verified"
    /\ generation' = generation + 1
    /\ Enter(a, "advanced")
    /\ UNCHANGED <<docs, journal, lock, plan, todo, rec, reader, log, faults>>

(* mark: the step at which the new state is the state of memory.            *)
Commits(t) ==
    /\ journal' = [journal EXCEPT ![t].state = "COMMITTED"]
    /\ log' = Append(log, [by |-> journal[t].by, state |-> docs])

Mark(a) ==
    /\ phase[a] = "advanced"
    /\ Commits(plan[a].txn)
    /\ Enter(a, "marked")
    /\ UNCHANGED <<docs, generation, lock, plan, todo, rec, reader, faults>>

Return(a) ==
    /\ phase[a] = "marked"
    /\ Leave(a, "committed")
    /\ UNCHANGED <<disk, plan, rec, reader, log, faults>>

(* _rollback writes the old documents back ...                              *)
Undo(a) == \E d \in todo :
    /\ phase[a] = "undoing"
    /\ docs' = [docs EXCEPT ![d] = plan[a].before[d]]
    /\ todo' = todo \ {d}
    /\ UNCHANGED <<journal, generation, lock, phase, plan, rec, reader, log, faults>>

(* ... and compares the whole read set.                                     *)
UndoVerify(a) ==
    /\ phase[a] = "undoing"
    /\ todo = {}
    /\ ReadsCurrent(a)
    /\ Enter(a, "undone")
    /\ UNCHANGED <<disk, lock, plan, todo, rec, reader, log, faults>>

UndoAdvance(a) ==
    /\ phase[a] = "undone"
    /\ generation' = generation + 1
    /\ Enter(a, "undoAdvanced")
    /\ UNCHANGED <<docs, journal, lock, plan, todo, rec, reader, log, faults>>

UndoMark(a) ==
    /\ phase[a] = "undoAdvanced"
    /\ journal' = [journal EXCEPT ![plan[a].txn].state = "ROLLED_BACK"]
    /\ Leave(a, "rolledback")
    /\ UNCHANGED <<docs, generation, plan, rec, reader, log, faults>>

(***************************************************************************)
(* What can go wrong in a commit.                                          *)
(***************************************************************************)

Fault ==
    /\ faults < MaxFaults
    /\ faults' = faults + 1

(* prepare raises; the file may have been created all the same.             *)
PrepareFails(a) ==
    /\ Fault
    /\ phase[a] = "checked"
    /\ journal[plan[a].txn].state = "absent"
    /\ journal' \in {journal,
         [journal EXCEPT ![plan[a].txn] = [state |-> "PREPARED", by |-> a]]}
    /\ Leave(a, "unknown")
    /\ UNCHANGED <<docs, generation, plan, rec, reader, log>>

(* A write, a delete or the read-back raises: rolled back, unless no        *)
(* publication was attempted; then the journal just stays PREPARED.         *)
PublishFails(a) ==
    /\ Fault
    /\ phase[a] = "publishing"
    /\ IF plan[a].changed = {}
         THEN Leave(a, "rolledback")
         ELSE /\ Enter(a, "undoing")
              /\ todo' = plan[a].changed
              /\ UNCHANGED lock
    /\ UNCHANGED <<disk, plan, rec, reader, log>>

(* The generation, the mark or the release raises after the read-back: the  *)
(* outcome is indeterminate.                                                *)
FinishFails(a) ==
    /\ Fault
    /\ phase[a] \in {"verified", "advanced", "marked"}
    /\ Leave(a, "unknown")
    /\ UNCHANGED <<disk, plan, rec, reader, log>>

(* MemoryCommitRollbackError *)
UndoFails(a) ==
    /\ Fault
    /\ phase[a] = "undoing"
    /\ Leave(a, "unknown")
    /\ UNCHANGED <<disk, plan, rec, reader, log>>

(* The generation or the mark of a rollback raises, which is swallowed.     *)
UndoMarkFails(a) ==
    /\ Fault
    /\ phase[a] \in {"undone", "undoAdvanced"}
    /\ Leave(a, "rolledback")
    /\ UNCHANGED <<disk, plan, rec, reader, log>>

(* The process dies; its lock lapses.                                       *)
Crash(a) ==
    /\ Fault
    /\ phase[a] \in Working
    /\ Leave(a, "unknown")
    /\ UNCHANGED <<disk, plan, rec, reader, log>>

(***************************************************************************)
(* recover_pending, and the deletion of finished journals.                 *)
(***************************************************************************)

Entries(t) == plan[journal[t].by].changed
BeforeEntry(t, d) == docs[d] = plan[journal[t].by].before[d]
AfterEntry(t, d) == docs[d] = plan[journal[t].by].after[d]

(* The records are listed once, under the lock.                             *)
RecoverBegin ==
    /\ lock = None
    /\ Pending # {}
    /\ lock' = Recovery
    /\ rec' = [NoRecovery EXCEPT !.phase = "next", !.queue = Pending]
    /\ UNCHANGED <<disk, phase, plan, todo, reader, log, faults>>

RecoverEnd(outcome) ==
    /\ lock' = None
    /\ rec' = outcome
    /\ todo' = {}

(* Mutant of Complete: one document that made it is taken for all.          *)
CompleteOnce(t) == Entries(t) # {} => \E d \in Entries(t) : AfterEntry(t, d)

Complete(t) == \A d \in Entries(t) : AfterEntry(t, d)

(* Mutant of Restorable: half-published transactions are not restored.      *)
RestorableUntouched(t) == \A d \in Entries(t) : BeforeEntry(t, d)

Restorable(t) == \A d \in Entries(t) : BeforeEntry(t, d) \/ AfterEntry(t, d)

(* _entry_state of every entry: all new, to be restored, or an error.       *)
RecoverInspect == \E t \in rec.queue :
    /\ rec.phase = "next"
    /\ \/ /\ Complete(t)
          /\ rec' = [rec EXCEPT !.phase = "decided", !.txn = t,
                                !.verdict = "COMMITTED"]
          /\ UNCHANGED <<todo, lock>>
       \/ /\ ~Complete(t)
          /\ IF Restorable(t)
               THEN /\ rec' = [rec EXCEPT !.phase = "restoring", !.txn = t,
                                          !.verdict = "ROLLED_BACK"]
                    /\ todo' = Entries(t)
                    /\ UNCHANGED lock
               ELSE RecoverEnd(NoRecovery)
    /\ UNCHANGED <<disk, phase, plan, reader, log, faults>>

(* _restore_entries *)
Restore == \E d \in todo :
    /\ rec.phase = "restoring"
    /\ docs' = [docs EXCEPT ![d] = plan[journal[rec.txn].by].before[d]]
    /\ todo' = todo \ {d}
    /\ UNCHANGED <<journal, generation, lock, phase, plan, rec, reader, log, faults>>

RestoreVerify ==
    /\ rec.phase = "restoring"
    /\ todo = {}
    /\ \A d \in Entries(rec.txn) : BeforeEntry(rec.txn, d)
    /\ rec' = [rec EXCEPT !.phase = "decided"]
    /\ UNCHANGED <<disk, lock, phase, plan, todo, reader, log, faults>>

RecoverAdvance ==
    /\ rec.phase = "decided"
    /\ generation' = generation + 1
    /\ rec' = [rec EXCEPT !.phase = "advanced"]
    /\ UNCHANGED <<docs, journal, lock, phase, plan, todo, reader, log, faults>>

RecoverMark ==
    /\ rec.phase = "advanced"
    /\ IF rec.verdict = "COMMITTED"
         THEN Commits(rec.txn)
         ELSE /\ journal' = [journal EXCEPT ![rec.txn].state = "ROLLED_BACK"]
              /\ UNCHANGED log
    /\ rec' = [NoRecovery EXCEPT !.phase = "next", !.queue = rec.queue \ {rec.txn}]
    /\ UNCHANGED <<docs, generation, lock, phase, plan, todo, reader, faults>>

RecoverReturn ==
    /\ rec.phase = "next"
    /\ rec.queue = {}
    /\ RecoverEnd(NoRecovery)
    /\ UNCHANGED <<disk, phase, plan, reader, log, faults>>

(* An error or the death of the process, anywhere in the recovery.          *)
RecoverFails ==
    /\ Fault
    /\ rec.phase # "idle"
    /\ RecoverEnd(NoRecovery)
    /\ UNCHANGED <<disk, phase, plan, reader, log>>

(* discard_terminal, which takes no lock: commit's own last step unless the *)
(* journal is retained, else the job's clean-up.                            *)
Discard(t) ==
    /\ journal[t].state \in {"COMMITTED", "ROLLED_BACK"}
    /\ journal' = [journal EXCEPT ![t] = NoRecord]
    /\ UNCHANGED <<docs, generation, lock, phase, plan, todo, rec, reader, log, faults>>

(***************************************************************************)
(* _read_consistent, with no lock.  The journal files are read one by one, *)
(* and so are the documents.  from is where the log stood when it began.   *)
(***************************************************************************)

Reads(r, record) ==
    /\ reader' = [reader EXCEPT ![r] = record]
    /\ UNCHANGED <<disk, lock, phase, plan, todo, rec, log, faults>>

NoRead == [phase |-> "idle", gen |-> 0, first |-> {}, second |-> {},
           left |-> {}, got |-> log[1].state, from |-> 1]

ReadBegin(r) ==
    /\ reader[r].phase = "idle"
    /\ Reads(r, [NoRead EXCEPT !.phase = "before", !.gen = generation,
                               !.left = Txn, !.from = Len(log)])

Seen(t) == IF IsPrepared(t) THEN {journal[t].by} ELSE {}

ReadJournal(r) == \E t \in reader[r].left :
    LET rest == reader[r].left \ {t}
    IN \/ /\ reader[r].phase = "before"
          /\ Reads(r, [reader[r] EXCEPT !.first = @ \cup Seen(t),
               !.phase = IF rest = {} THEN "reading" ELSE "before",
               !.left = IF rest = {} THEN Doc ELSE rest])
       \/ /\ reader[r].phase = "after"
          /\ Reads(r, [reader[r] EXCEPT !.second = @ \cup Seen(t), !.left = rest])

ReadDocument(r) == \E d \in reader[r].left :
    /\ reader[r].phase = "reading"
    /\ LET rest == reader[r].left \ {d}
       IN Reads(r, [reader[r] EXCEPT !.got[d] = docs[d],
             !.phase = IF rest = {} THEN "after" ELSE "reading",
             !.left = IF rest = {} THEN Txn ELSE rest])

(* Mutant of Unmoved: the generation is not compared.                       *)
UnmovedPending(r) == reader[r].first = reader[r].second

Unmoved(r) == reader[r].gen = generation /\ reader[r].first = reader[r].second

(* _overlay_prepared *)
Overlaid(r) == [d \in Doc |->
    IF \E a \in reader[r].first : d \in plan[a].changed
      THEN plan[CHOOSE a \in reader[r].first : d \in plan[a].changed].before[d]
      ELSE reader[r].got[d]]

(* The second look at the generation: return, or try again (16 times).      *)
ReadEnd(r) ==
    /\ reader[r].phase = "after"
    /\ reader[r].left = {}
    /\ Reads(r, IF Unmoved(r)
                  THEN [NoRead EXCEPT !.phase = "done", !.got = Overlaid(r),
                                      !.from = reader[r].from]
                  ELSE NoRead)

(* The caller has its snapshot; or MemoryTree._read_visible, the same       *)
(* protocol but refused as soon as a prepared transaction is seen.          *)
ReadOver(r) ==
    /\ \/ reader[r].phase = "done"
       \/ reader[r].phase = "reading" /\ reader[r].first # {}
    /\ Reads(r, NoRead)

(***************************************************************************)
(* Specification.                                                          *)
(***************************************************************************)

Forward(a) ==
    Prepare(a) \/ Publish(a) \/ Verify(a) \/ Advance(a) \/ Mark(a) \/ Return(a)

Backward(a) == Undo(a) \/ UndoVerify(a) \/ UndoAdvance(a) \/ UndoMark(a)

Failure(a) ==
    \/ PrepareFails(a) \/ PublishFails(a) \/ FinishFails(a)
    \/ UndoFails(a) \/ UndoMarkFails(a) \/ Crash(a)

Recover ==
    \/ RecoverInspect \/ Restore \/ RestoreVerify \/ RecoverAdvance
    \/ RecoverMark \/ RecoverReturn

Read(r) ==
    ReadBegin(r) \/ ReadJournal(r) \/ ReadDocument(r) \/ ReadEnd(r) \/ ReadOver(r)

Next ==
    \/ \E a \in Attempt : Build(a) \/ Begin(a) \/ Forward(a) \/ Backward(a) \/ Failure(a)
    \/ RecoverBegin \/ Recover \/ RecoverFails
    \/ \E t \in Txn : Discard(t)
    \/ \E r \in Reader : Read(r)

Spec == Init /\ [][Next]_vars

(* A commit that holds the lock goes on, and so does a recovery.  Every job *)
(* run begins with recover_pending, and so does a start with an empty queue,*)
(* so a recovery comes again and again.                                     *)
FairSpec ==
    /\ Spec
    /\ \A a \in Attempt : WF_vars(Forward(a) \/ Backward(a))
    /\ WF_vars(RecoverBegin) /\ WF_vars(Recover)

(***************************************************************************)
(* Correctness properties.                                                 *)
(***************************************************************************)

(* The lock is held by exactly the attempt or the recovery that is at work: *)
(* no error path and no early return keeps it.                              *)
LockHeld ==
    /\ \A a \in Attempt : lock = a <=> phase[a] \in Working
    /\ lock = Recovery <=> rec.phase # "idle"

(* Types, and the lock as above.                                            *)
TypeOK ==
    /\ docs \in [Doc -> Content]
    /\ journal \in [Txn -> JournalRecord]
    /\ generation \in Nat
    /\ lock \in Attempt \cup {None, Recovery}
    /\ phase \in [Attempt -> AttemptPhase]
    /\ plan \in [Attempt -> Plan]
    /\ todo \subseteq Doc
    /\ rec \in RecoveryRecord
    /\ reader \in [Reader -> ReaderRecord]
    /\ log \in Seq(LogEntry) /\ log # <<>>
    /\ faults \in Nat
    /\ LockHeld

Applied == {log[i].by : i \in 2..Len(log)}

(* transaction.py, recover_pending: "prepared transaction overlaps an       *)
(* unknown later document state" never happens: whatever cut a commit, its  *)
(* rollback or an earlier recovery, every document of a PREPARED transaction*)
(* is as it was before or as it is to be, and there is one such transaction.*)
AlwaysRecoverable ==
    \A t \in Pending : Restorable(t) /\ \A u \in Pending : u = t

(* "one lock set, one CAS and one recovery journal publish all changes"     *)
(* (MemoryCommitTransaction): what a public reader may be shown changes only*)
(* as a whole, by a plan whose read set is still current, once per attempt. *)
Store == INSTANCE AtomicStore WITH
    state <- View,
    proposals <- {[by |-> a, scope |-> plan[a].scope, changed |-> plan[a].changed,
                   before |-> plan[a].before, after |-> plan[a].after] :
                     a \in {b \in Attempt : phase[b] # "new"}},
    applied <- Applied

CommitsAtomically == Store!Spec

(* A snapshot is one committed state, and not one that was over before the  *)
(* read began, although documents and journal are read without the lock.    *)
ReadsAreConsistent ==
    \A r \in Reader :
        reader[r].phase = "done" =>
          \E i \in reader[r].from..Len(log) : log[i].state = reader[r].got

(* What the caller was told stays true: "failed and was rolled back" is     *)
(* never resurrected by a later recovery, and a returned result was applied.*)
OutcomeIsTrue ==
    \A a \in Attempt :
        /\ phase[a] = "committed" => a \in Applied
        /\ phase[a] \in {"refused", "rolledback"} /\ plan[a].changed # {}
             => a \notin Applied

(* A transaction that was cut off does not stay PREPARED, where it refuses  *)
(* every later commit and every tree read.                                  *)
PendingIsResolved == \A t \in Txn : IsPrepared(t) ~> ~IsPrepared(t)
=============================================================================

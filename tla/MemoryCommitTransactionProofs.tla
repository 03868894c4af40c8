------------------- MODULE MemoryCommitTransactionProofs --------------------
(***************************************************************************)
(* Proofs about MemoryCommitTransaction for any sets of documents, ids,    *)
(* attempts and readers and any number of faults.                          *)
(***************************************************************************)
EXTENDS MemoryCommitTransaction, TLAPS

(***************************************************************************)
(* The inductive invariant.                                                *)
(***************************************************************************)

(* a wrote the journal of its transaction, and it is still unresolved.      *)
Owns(a) ==
    /\ plan[a].txn \in Txn
    /\ journal[plan[a].txn] = [state |-> "PREPARED", by |-> a]

AllBefore(a) == \A d \in plan[a].scope : docs[d] = plan[a].before[d]
AllAfter(a) == \A d \in plan[a].scope : docs[d] = plan[a].after[d]

(* A plan changes what it has read, really changes it, and leaves the rest. *)
PlansMakeSense ==
    \A a \in Attempt :
        /\ plan[a].changed \subseteq plan[a].scope
        /\ \A d \in Doc : d \in plan[a].changed <=> plan[a].after[d] # plan[a].before[d]
        /\ phase[a] # "new" => plan[a].txn \in Txn

(* What attempt a writes is nowhere before a has a plan.                    *)
ContentIsNew ==
    \A a \in Attempt : phase[a] = "new" =>
        /\ \A d \in Doc : docs[d] # a
        /\ \A i \in 1..Len(log) : \A d \in Doc : log[i].state[d] # a
        /\ \A b \in Attempt : \A d \in Doc : plan[b].before[d] # a /\ plan[b].after[d] # a

(* A journal was written by an attempt that got past its checks.            *)
JournalsHaveAuthors ==
    \A t \in Txn : journal[t].state # "absent" =>
        /\ journal[t].by \in Attempt
        /\ plan[journal[t].by].txn = t
        /\ phase[journal[t].by] \notin {"new", "planned", "checked", "refused"}

OneUnresolved == \A t, u \in Pending : t = u

(* While a transaction is unresolved its documents are its own, each as it  *)
(* was or as it is to be, and those it only read are as they were.          *)
UnresolvedIsMixed ==
    \A t \in Pending : \A d \in plan[journal[t].by].scope :
        BeforeEntry(t, d) \/ (d \in Entries(t) /\ AfterEntry(t, d))

(* How far the attempt that holds the lock has come.                        *)
Progress(a) ==
    /\ phase[a] = "checked" => Pending = {} /\ AllBefore(a)
    /\ phase[a] \in {"publishing", "verified", "advanced",
                     "undoing", "undone", "undoAdvanced"} => Owns(a)
    /\ phase[a] \in {"verified", "advanced"} => AllAfter(a)
    /\ phase[a] \in {"undone", "undoAdvanced"} => AllBefore(a)
    /\ phase[a] \in {"publishing", "undoing"} => todo \subseteq plan[a].changed

AttemptProgress == \A a \in Attempt : Progress(a)

(* How far the recovery has come.                                           *)
RecoveryProgress ==
    /\ rec.queue \subseteq Pending
    /\ rec.phase = "idle" => rec.queue = {}
    /\ rec.phase \in {"restoring", "decided", "advanced"} => rec.txn \in rec.queue
    /\ rec.phase = "restoring" =>
         rec.verdict = "ROLLED_BACK" /\ todo \subseteq Entries(rec.txn)
    /\ rec.phase \in {"decided", "advanced"} =>
         \/ rec.verdict = "COMMITTED" /\ AllAfter(journal[rec.txn].by)
         \/ rec.verdict = "ROLLED_BACK" /\ AllBefore(journal[rec.txn].by)

(* What took effect is past its checks and no longer unresolved.            *)
AppliedIsOver ==
    \A a \in Applied :
        a \in Attempt => /\ phase[a] \notin {"new", "planned", "checked", "refused"}
                         /\ ~Owns(a)

(* What was rolled back to the caller's knowledge can only be rolled back.  *)
Told(a) ==
    /\ phase[a] \in {"marked", "committed"} => a \in Applied
    /\ phase[a] = "rolledback" /\ plan[a].changed # {} =>
         a \notin Applied /\ (Owns(a) => AllBefore(a))

RolledBackStays == \A a \in Attempt : Told(a)

(* A reader has journals left to read, or documents.                        *)
ReadersWalk ==
    \A r \in Reader :
        reader[r].left \subseteq IF reader[r].phase = "reading" THEN Doc ELSE Txn

AtomicInv ==
    /\ TypeOK
    /\ ReadersWalk
    /\ PlansMakeSense
    /\ ContentIsNew
    /\ JournalsHaveAuthors
    /\ OneUnresolved
    /\ UnresolvedIsMixed
    /\ AttemptProgress
    /\ RecoveryProgress
    /\ AppliedIsOver
    /\ RolledBackStays

(***************************************************************************)
(* Types.                                                                  *)
(***************************************************************************)

(* The types and the lock hold in the initial states.                       *)
LEMMA TypeInit == Init => TypeOK
<1> SUFFICES ASSUME Init PROVE TypeOK
  OBVIOUS
<1> USE DEF Init, Content
<1>1. docs \in [Doc -> Content] /\ generation \in Nat /\ lock \in Attempt \cup {None, Recovery}
  OBVIOUS
<1>2. journal \in [Txn -> JournalRecord]
  BY DEF JournalRecord, JournalState, NoRecord
<1>3. phase \in [Attempt -> AttemptPhase]
  BY DEF AttemptPhase
<1>4. plan \in [Attempt -> Plan]
  BY <1>1 DEF Plan
<1>5. todo \subseteq Doc /\ faults \in Nat
  BY TransactionConstants
<1>6. rec \in RecoveryRecord
  BY DEF NoRecovery, RecoveryRecord, RecoveryPhase
<1>7. reader \in [Reader -> ReaderRecord]
  BY <1>1 DEF ReaderRecord, ReaderPhase
<1>8. log \in Seq(LogEntry) /\ log # <<>>
  BY <1>1 DEF LogEntry
<1>9. LockHeld
  BY TransactionConstants DEF LockHeld, Working, NoRecovery
<1> QED BY <1>1, <1>2, <1>3, <1>4, <1>5, <1>6, <1>7, <1>8, <1>9 DEF TypeOK

(* mark(COMMITTED)                                                         *)
LEMMA MarkTypes ==
    ASSUME AtomicInv, NEW t \in Txn, Commits(t)
    PROVE  /\ journal' \in [Txn -> JournalRecord]
           /\ log' \in Seq(LogEntry) /\ log' # <<>>
           /\ Applied' = Applied \cup {journal[t].by}
           /\ Len(log') = Len(log) + 1
           /\ \A i \in 1..Len(log') :
                log'[i].state = IF i = Len(log') THEN docs ELSE log[i].state
<1>0. TypeOK
  BY DEF AtomicInv
<1> DEFINE entry == [by |-> journal[t].by, state |-> docs]
<1>1. entry \in LogEntry
  BY <1>0 DEF TypeOK, JournalRecord, LogEntry
<1>2. log' = Append(log, entry) /\ log \in Seq(LogEntry) /\ log # <<>>
  BY <1>0 DEF Commits, TypeOK
<1> HIDE DEF entry
<1>3. log' \in Seq(LogEntry) /\ Len(log') = Len(log) + 1 /\ Len(log) \in Nat \ {0} /\ log' # <<>>
  BY <1>1, <1>2
<1>4. \A i \in 1..Len(log') : log'[i] = IF i = Len(log') THEN entry ELSE log[i]
  BY <1>1, <1>2, <1>3
<1>5. Applied' = Applied \cup {entry.by}
  BY <1>3, <1>4 DEF Applied
<1>6. journal' \in [Txn -> JournalRecord]
  BY <1>0 DEF TypeOK, Commits, JournalRecord, JournalState
<1> QED BY <1>3, <1>4, <1>5, <1>6 DEF entry

(* Build, and the steps of an attempt that go forward.                      *)
LEMMA ForwardTypes ==
    ASSUME AtomicInv, NEW a \in Attempt, Build(a) \/ Begin(a) \/ Forward(a)
    PROVE  TypeOK'
<1> USE DEF disk
<1>0. TypeOK
  BY DEF AtomicInv
<1>1. CASE Build(a)
  <2>1. plan'[a] \in Plan /\ plan' \in [Attempt -> Plan]
    BY <1>0, <1>1 DEF TypeOK, Build, PlanOf, Plan, Content
  <2>2. phase' \in [Attempt -> AttemptPhase] /\ LockHeld'
    BY <1>0, <1>1 DEF TypeOK, Build, AttemptPhase, LockHeld, Working
  <2> QED BY <1>0, <1>1, <2>1, <2>2 DEF TypeOK, Build
<1>2. CASE Begin(a)
  BY <1>0, <1>2, TransactionConstants DEF TypeOK, Begin, Enter, AttemptPhase, Working, Ended, LockHeld
<1>3. CASE Prepare(a)
  <2>1. journal' \in [Txn -> JournalRecord]
    BY <1>0, <1>3 DEF TypeOK, Prepare, JournalRecord, JournalState
  <2>2. phase' \in [Attempt -> AttemptPhase] /\ lock' \in Attempt \cup {None, Recovery} /\ LockHeld'
    BY <1>0, <1>3, TransactionConstants
    DEF TypeOK, Prepare, Enter, Leave, AttemptPhase, Working, Ended, LockHeld
  <2>3. todo' \subseteq Doc
    BY <1>0, <1>3 DEF TypeOK, Prepare, Leave, Plan
  <2> QED BY <1>0, <1>3, <2>1, <2>2, <2>3 DEF TypeOK, Prepare
<1>4. CASE Publish(a)
  <2>1. docs' \in [Doc -> Content]
    BY <1>0, <1>4 DEF TypeOK, Publish, Plan
  <2> QED BY <1>0, <1>4, <2>1 DEF TypeOK, Publish, LockHeld
<1>5. CASE Verify(a)
  BY <1>0, <1>5 DEF TypeOK, Verify, Enter, AttemptPhase, Working, LockHeld
<1>6. CASE Advance(a)
  BY <1>0, <1>6 DEF TypeOK, Advance, Enter, AttemptPhase, Working, LockHeld
<1>7. CASE Mark(a)
  <2>0. plan[a].txn \in Txn
    BY <1>7 DEF Mark, AtomicInv, PlansMakeSense
  <2>1. journal' \in [Txn -> JournalRecord]
    BY <1>7, <2>0, MarkTypes DEF Mark
  <2>2. log' \in Seq(LogEntry) /\ log' # <<>>
    BY <1>7, <2>0, MarkTypes DEF Mark
  <2> QED BY <1>0, <1>7, <2>1, <2>2 DEF TypeOK, Mark, Enter, AttemptPhase, Working, LockHeld
<1>8. CASE Return(a)
  BY <1>0, <1>8, TransactionConstants DEF TypeOK, Return, Leave, Enter, AttemptPhase, Working, Ended, LockHeld
<1> QED BY <1>1, <1>2, <1>3, <1>4, <1>5, <1>6, <1>7, <1>8 DEF Forward

(* The steps of a rollback, and what can go wrong.                          *)
LEMMA BackwardTypes ==
    ASSUME AtomicInv, NEW a \in Attempt, Backward(a) \/ Failure(a)
    PROVE  TypeOK'
<1> USE DEF disk
<1>0. TypeOK
  BY DEF AtomicInv
<1>1. CASE Undo(a)
  <2>1. docs' \in [Doc -> Content]
    BY <1>0, <1>1 DEF TypeOK, Undo, Plan
  <2> QED BY <1>0, <1>1, <2>1 DEF TypeOK, Undo, LockHeld
<1>2. CASE UndoVerify(a)
  BY <1>0, <1>2 DEF TypeOK, UndoVerify, Enter, AttemptPhase, Working, LockHeld
<1>3. CASE UndoAdvance(a)
  BY <1>0, <1>3 DEF TypeOK, UndoAdvance, Enter, AttemptPhase, Working, LockHeld
<1>4. CASE UndoMark(a)
  <2>1. journal' \in [Txn -> JournalRecord]
    BY <1>0, <1>4 DEF TypeOK, UndoMark, JournalRecord, JournalState
  <2> QED BY <1>0, <1>4, <2>1, TransactionConstants
          DEF TypeOK, UndoMark, Enter, Leave, AttemptPhase, Working, Ended, LockHeld
<1>5. CASE PrepareFails(a)
  <2>1. journal' \in [Txn -> JournalRecord]
    BY <1>0, <1>5 DEF TypeOK, PrepareFails, JournalRecord, JournalState
  <2> QED BY <1>0, <1>5, <2>1, TransactionConstants
          DEF TypeOK, PrepareFails, Fault, Enter, Leave, AttemptPhase, Working, Ended, LockHeld
<1>6. CASE PublishFails(a)
  <2>1. todo' \subseteq Doc
    BY <1>0, <1>6 DEF TypeOK, PublishFails, Leave, Plan
  <2> QED BY <1>0, <1>6, <2>1, TransactionConstants
          DEF TypeOK, PublishFails, Fault, Enter, Leave, AttemptPhase, Working, Ended, LockHeld
<1>7. CASE FinishFails(a) \/ UndoFails(a) \/ UndoMarkFails(a) \/ Crash(a)
  BY <1>0, <1>7, TransactionConstants
  DEF TypeOK, FinishFails, UndoFails, UndoMarkFails, Crash,
      Fault, Enter, Leave, AttemptPhase, Working, Ended, LockHeld
<1> QED BY <1>1, <1>2, <1>3, <1>4, <1>5, <1>6, <1>7 DEF Backward, Failure

(* The recovery, and the deletion of a journal.                             *)
LEMMA RecoveryTypes ==
    ASSUME AtomicInv,
           RecoverBegin \/ Recover \/ RecoverFails \/ \E t \in Txn : Discard(t)
    PROVE  TypeOK'
<1> USE DEF disk
<1>0. TypeOK
  BY DEF AtomicInv
<1>1. CASE RecoverBegin
  BY <1>0, <1>1, TransactionConstants
  DEF TypeOK, RecoverBegin, NoRecovery, RecoveryRecord, RecoveryPhase, Pending, LockHeld, Working
<1>2. CASE RecoverInspect
  <2>1. PICK t \in rec.queue :
          /\ rec.phase = "next"
          /\ \/ rec' = [rec EXCEPT !.phase = "decided", !.txn = t, !.verdict = "COMMITTED"]
                /\ UNCHANGED <<todo, lock>>
             \/ rec' = [rec EXCEPT !.phase = "restoring", !.txn = t, !.verdict = "ROLLED_BACK"]
                /\ todo' = Entries(t) /\ UNCHANGED lock
             \/ RecoverEnd(NoRecovery)
    BY <1>2 DEF RecoverInspect
  <2>2. t \in Txn /\ journal[t].by \in Attempt
    BY <1>0 DEF TypeOK, RecoveryRecord, AtomicInv, RecoveryProgress, Pending, IsPrepared,
                JournalsHaveAuthors
  <2>3. rec' \in RecoveryRecord
    <3>1. NoRecovery \in RecoveryRecord
      BY DEF RecoveryRecord, RecoveryPhase, NoRecovery
    <3>2. /\ [rec EXCEPT !.phase = "decided", !.txn = t, !.verdict = "COMMITTED"] \in RecoveryRecord
          /\ [rec EXCEPT !.phase = "restoring", !.txn = t, !.verdict = "ROLLED_BACK"] \in RecoveryRecord
      BY <1>0, <2>2 DEF TypeOK, RecoveryRecord, RecoveryPhase
    <3> QED BY <2>1, <3>1, <3>2 DEF RecoverEnd
  <2>4. todo' \subseteq Doc
    BY <1>0, <2>1, <2>2 DEF TypeOK, RecoverEnd, Entries, Plan
  <2>5. lock' \in Attempt \cup {None, Recovery} /\ LockHeld'
    <3>1. lock = Recovery /\ UNCHANGED phase /\ rec \in RecoveryRecord
      BY <1>0, <1>2, <2>1 DEF TypeOK, RecoverInspect, LockHeld
    <3>2. \/ lock' = lock /\ rec'.phase # "idle"
          \/ lock' = None /\ rec'.phase = "idle"
      <4>1. CASE RecoverEnd(NoRecovery)
        BY <4>1 DEF RecoverEnd, NoRecovery
      <4>2. CASE rec' = [rec EXCEPT !.phase = "decided", !.txn = t, !.verdict = "COMMITTED"]
                 /\ UNCHANGED lock
        BY <3>1, <4>2 DEF RecoveryRecord
      <4>3. CASE rec' = [rec EXCEPT !.phase = "restoring", !.txn = t, !.verdict = "ROLLED_BACK"]
                 /\ UNCHANGED lock
        BY <3>1, <4>3 DEF RecoveryRecord
      <4> QED BY <2>1, <4>1, <4>2, <4>3
    <3> QED BY <1>0, <3>1, <3>2, TransactionConstants DEF TypeOK, LockHeld
  <2> QED BY <1>0, <1>2, <2>3, <2>4, <2>5 DEF TypeOK, RecoverInspect
<1>3. CASE Restore
  <2>1. journal[rec.txn].by \in Attempt
    BY <1>3 DEF Restore, AtomicInv, RecoveryProgress, Pending, IsPrepared, JournalsHaveAuthors
  <2>2. docs' \in [Doc -> Content]
    BY <1>0, <1>3, <2>1 DEF TypeOK, Restore, Plan
  <2> QED BY <1>0, <1>3, <2>2 DEF TypeOK, Restore, LockHeld
<1>4. CASE RestoreVerify \/ RecoverAdvance
  BY <1>0, <1>4, TransactionConstants
  DEF TypeOK, RestoreVerify, RecoverAdvance, RecoveryRecord, RecoveryPhase, LockHeld
<1>5. CASE RecoverMark
  <2>1. rec.txn \in Txn
    BY <1>5 DEF RecoverMark, AtomicInv, RecoveryProgress, Pending
  <2>2. journal' \in [Txn -> JournalRecord] /\ log' \in Seq(LogEntry) /\ log' # <<>>
    <3>1. CASE rec.verdict = "COMMITTED"
      BY <1>5, <2>1, <3>1, MarkTypes DEF RecoverMark
    <3>2. CASE rec.verdict # "COMMITTED"
      <4>1. journal' = [journal EXCEPT ![rec.txn].state = "ROLLED_BACK"] /\ UNCHANGED log
        BY <1>5, <3>2 DEF RecoverMark
      <4> QED BY <1>0, <4>1 DEF TypeOK, JournalRecord, JournalState
    <3> QED BY <3>1, <3>2
  <2>3. rec' \in RecoveryRecord
    BY <1>0, <1>5 DEF TypeOK, RecoverMark, RecoveryRecord, RecoveryPhase, NoRecovery
  <2>4. LockHeld'
    BY <1>0, <1>5 DEF TypeOK, RecoverMark, NoRecovery, LockHeld
  <2> QED BY <1>0, <1>5, <2>2, <2>3, <2>4 DEF TypeOK, RecoverMark
<1>6. CASE RecoverReturn \/ RecoverFails
  BY <1>0, <1>6, TransactionConstants
  DEF TypeOK, RecoverReturn, RecoverFails, Fault, RecoverEnd, RecoveryRecord, RecoveryPhase,
      NoRecovery, LockHeld, Working
<1>7. ASSUME NEW t \in Txn, Discard(t) PROVE TypeOK'
  BY <1>0, <1>7 DEF TypeOK, Discard, JournalRecord, JournalState, NoRecord, LockHeld
<1> QED BY <1>1, <1>2, <1>3, <1>4, <1>5, <1>6, <1>7 DEF Recover

(* A reader.                                                                *)
LEMMA ReaderTypes ==
    ASSUME AtomicInv, NEW r \in Reader, Read(r)
    PROVE  TypeOK'
<1> USE DEF disk
<1>0. TypeOK /\ reader[r] \in ReaderRecord
  BY DEF AtomicInv, TypeOK
<1>1. SUFFICES reader'[r] \in ReaderRecord
  BY <1>0 DEF TypeOK, Read, ReadBegin, ReadJournal, ReadDocument, ReadEnd, ReadOver, Reads, LockHeld
<1>2. NoRead \in ReaderRecord /\ Len(log) \in Nat
  <2>1. log[1].state \in [Doc -> Content] /\ Len(log) \in Nat
    <3>1. log \in Seq(LogEntry) /\ Len(log) \in Nat /\ 1 \in 1..Len(log)
      BY <1>0 DEF TypeOK
    <3>2. log[1] \in LogEntry
      BY <3>1
    <3> QED BY <3>1, <3>2 DEF LogEntry
  <2> QED BY <2>1 DEF NoRead, ReaderRecord, ReaderPhase
<1>3. CASE ReadBegin(r)
  BY <1>0, <1>2, <1>3 DEF TypeOK, ReadBegin, Reads, ReaderRecord, ReaderPhase, NoRead
<1>4. CASE ReadJournal(r)
  <2>1. PICK t \in reader[r].left :
          LET rest == reader[r].left \ {t}
          IN \/ /\ reader[r].phase = "before"
                /\ Reads(r, [reader[r] EXCEPT !.first = @ \cup Seen(t),
                     !.phase = IF rest = {} THEN "reading" ELSE "before",
                     !.left = IF rest = {} THEN Doc ELSE rest])
             \/ /\ reader[r].phase = "after"
                /\ Reads(r, [reader[r] EXCEPT !.second = @ \cup Seen(t), !.left = rest])
    BY <1>4 DEF ReadJournal
  <2>2. Seen(t) \subseteq Attempt
    <3>1. reader[r].phase # "reading"
      BY <2>1
    <3> QED BY <2>1, <3>1 DEF Seen, IsPrepared, AtomicInv, ReadersWalk, JournalsHaveAuthors
  <2> DEFINE rest == reader[r].left \ {t}
  <2>3. /\ [reader[r] EXCEPT !.first = @ \cup Seen(t),
               !.phase = IF rest = {} THEN "reading" ELSE "before",
               !.left = IF rest = {} THEN Doc ELSE rest] \in ReaderRecord
        /\ [reader[r] EXCEPT !.second = @ \cup Seen(t), !.left = rest] \in ReaderRecord
    BY <1>0, <2>2 DEF ReaderRecord, ReaderPhase
  <2> QED BY <1>0, <2>1, <2>3 DEF TypeOK, Reads
<1>5. CASE ReadDocument(r)
  <2>1. PICK d \in reader[r].left :
          LET rest == reader[r].left \ {d}
          IN Reads(r, [reader[r] EXCEPT !.got[d] = docs[d],
                !.phase = IF rest = {} THEN "after" ELSE "reading",
                !.left = IF rest = {} THEN Txn ELSE rest])
    BY <1>5 DEF ReadDocument
  <2> DEFINE rest == reader[r].left \ {d}
  <2>2. d \in Doc /\ docs[d] \in Content
    BY <1>0, <1>5 DEF TypeOK, ReadDocument, AtomicInv, ReadersWalk
  <2>3. [reader[r].got EXCEPT ![d] = docs[d]] \in [Doc -> Content]
    BY <1>0, <2>2 DEF ReaderRecord
  <2>4. [reader[r] EXCEPT !.got[d] = docs[d],
               !.phase = IF rest = {} THEN "after" ELSE "reading",
               !.left = IF rest = {} THEN Txn ELSE rest] \in ReaderRecord
    BY <1>0, <2>3 DEF ReaderRecord, ReaderPhase
  <2> QED BY <1>0, <2>1, <2>4 DEF TypeOK, Reads
<1>6. CASE ReadEnd(r)
  <2>1. Overlaid(r) \in [Doc -> Content]
    BY <1>0 DEF TypeOK, Overlaid, ReaderRecord, Plan
  <2> QED BY <1>0, <1>2, <1>6, <2>1 DEF TypeOK, ReadEnd, Reads, ReaderRecord, ReaderPhase, NoRead
<1>7. CASE ReadOver(r)
  BY <1>0, <1>2, <1>7 DEF TypeOK, ReadOver, Reads
<1> QED BY <1>3, <1>4, <1>5, <1>6, <1>7 DEF Read

(***************************************************************************)
(* The invariant holds at the beginning, and every step keeps it.          *)
(***************************************************************************)

(* AtomicInv holds before the first commit.                                 *)
LEMMA InvariantInit == Init => AtomicInv
<1> SUFFICES ASSUME Init PROVE AtomicInv
  OBVIOUS
<1>1. TypeOK
  BY TypeInit
<1>2. Pending = {} /\ Applied = {} /\ Len(log) = 1
  BY DEF Init, Pending, IsPrepared, NoRecord, Applied
<1>3. PlansMakeSense /\ ReadersWalk
  BY DEF Init, PlansMakeSense, ReadersWalk
<1>4. ContentIsNew
  BY <1>2, TransactionConstants DEF Init, ContentIsNew
<1>5. JournalsHaveAuthors /\ OneUnresolved /\ UnresolvedIsMixed
  BY <1>2 DEF Init, NoRecord, JournalsHaveAuthors, OneUnresolved, UnresolvedIsMixed
<1>6. AttemptProgress /\ RolledBackStays
  BY DEF Init, AttemptProgress, Progress, RolledBackStays, Told
<1>7. RecoveryProgress /\ AppliedIsOver
  BY <1>2 DEF Init, NoRecovery, RecoveryProgress, AppliedIsOver
<1> QED BY <1>1, <1>3, <1>4, <1>5, <1>6, <1>7 DEF AtomicInv

(* The lock: whoever works is alone.                                        *)
LEMMA Alone ==
    ASSUME AtomicInv
    PROVE  /\ \A a \in Attempt : phase[a] \in Working =>
                 rec.phase = "idle" /\ \A b \in Attempt \ {a} : phase[b] \notin Working
           /\ rec.phase # "idle" \/ lock = None => \A b \in Attempt : phase[b] \notin Working
           /\ lock = None => rec.phase = "idle"
BY TransactionConstants DEF AtomicInv, TypeOK, LockHeld

(* A PREPARED journal has an author with a plan for it.                     *)
LEMMA PendingHasAuthor ==
    ASSUME AtomicInv, NEW t \in Pending
    PROVE  /\ t \in Txn /\ journal[t].by \in Attempt
           /\ Owns(journal[t].by) /\ plan[journal[t].by].txn = t
           /\ phase[journal[t].by] \notin {"new", "planned", "checked", "refused"}
<1>1. t \in Txn /\ journal[t].state = "PREPARED" /\ journal[t] \in JournalRecord
  BY DEF Pending, IsPrepared, AtomicInv, TypeOK
<1>2. journal[t] = [state |-> "PREPARED", by |-> journal[t].by]
  BY <1>1 DEF JournalRecord
<1> QED BY <1>1, <1>2 DEF AtomicInv, JournalsHaveAuthors, Owns

(* Owning a transaction and having it pending are one thing.                *)
LEMMA OwnerIsPending ==
    ASSUME AtomicInv, NEW a \in Attempt, Owns(a)
    PROVE  plan[a].txn \in Pending /\ journal[plan[a].txn].by = a
BY DEF Owns, Pending, IsPrepared

(* An attempt goes on or ends, and nothing durable changes.                 *)
Moves(a, next) ==
    /\ phase[a] # "new" /\ phase' = [phase EXCEPT ![a] = next]
    /\ next \in AttemptPhase \ {"new", "planned"}
    /\ next \in {"checked", "refused"} => phase[a] \in {"planned", "checked"}
    /\ UNCHANGED <<docs, journal, plan, log, reader, rec>>

(* Such a step keeps AtomicInv, if the attempt may be where it now is.      *)
LEMMA MoveKeepsInvariant ==
    ASSUME AtomicInv, TypeOK', NEW a \in Attempt, NEW next, Moves(a, next),
           phase[a] \in Working \/ lock = None,
           Progress(a)', Told(a)'
    PROVE  AtomicInv'
<1> USE DEF Moves
<1>1. \A b \in Attempt : phase'[b] = IF b = a THEN next ELSE phase[b]
  BY DEF AtomicInv, TypeOK
<1>2. Pending' = Pending /\ Applied' = Applied
  BY DEF Pending, IsPrepared, Applied
<1>3. PlansMakeSense' /\ ReadersWalk' /\ OneUnresolved' /\ UnresolvedIsMixed'
  BY <1>1, <1>2 DEF AtomicInv, PlansMakeSense, ReadersWalk, OneUnresolved, UnresolvedIsMixed,
                    BeforeEntry, AfterEntry, Entries
<1>4. ContentIsNew'
  BY <1>1 DEF AtomicInv, ContentIsNew
<1>5. JournalsHaveAuthors'
  BY <1>1 DEF AtomicInv, JournalsHaveAuthors
<1>6. AttemptProgress'
  <2> SUFFICES ASSUME NEW b \in Attempt, b # a PROVE Progress(b)'
    BY DEF AttemptProgress
  <2>1. phase'[b] = phase[b] /\ phase[b] \notin Working
    BY <1>1, Alone
  <2> QED BY <2>1 DEF Progress, Working
<1>7. RecoveryProgress'
  <2>1. rec.phase = "idle" /\ rec' = rec
    BY Alone
  <2> QED BY <1>2, <2>1 DEF AtomicInv, RecoveryProgress
<1>8. AppliedIsOver'
  BY <1>1, <1>2 DEF AtomicInv, AppliedIsOver, Owns
<1>9. RolledBackStays'
  <2> SUFFICES ASSUME NEW b \in Attempt, b # a PROVE Told(b)'
    BY DEF RolledBackStays
  <2> QED BY <1>1, <1>2 DEF AtomicInv, RolledBackStays, Told, Owns, AllBefore
<1> QED BY <1>3, <1>4, <1>5, <1>6, <1>7, <1>8, <1>9 DEF AtomicInv

(* The recovery goes on or ends, and nothing durable changes.               *)
RecoveryMoves ==
    /\ rec.phase # "idle" \/ lock = None
    /\ UNCHANGED <<docs, journal, phase, plan, log, reader>>

(* Such a step keeps AtomicInv, if the recovery may be where it is.         *)
LEMMA RecoveryMoveKeepsInvariant ==
    ASSUME AtomicInv, TypeOK', RecoveryMoves, RecoveryProgress'
    PROVE  AtomicInv'
<1> USE DEF RecoveryMoves
<1>1. Pending' = Pending /\ Applied' = Applied
  BY DEF Pending, IsPrepared, Applied
<1>2. /\ PlansMakeSense' /\ ReadersWalk' /\ OneUnresolved' /\ UnresolvedIsMixed'
      /\ ContentIsNew' /\ JournalsHaveAuthors'
  BY <1>1 DEF AtomicInv, PlansMakeSense, ReadersWalk, OneUnresolved, UnresolvedIsMixed,
              ContentIsNew, JournalsHaveAuthors, BeforeEntry, AfterEntry, Entries
<1>3. AttemptProgress'
  BY Alone DEF AttemptProgress, Progress, Working
<1>4. AppliedIsOver' /\ RolledBackStays'
  BY <1>1 DEF AtomicInv, AppliedIsOver, RolledBackStays, Told, Owns, AllBefore
<1> QED BY <1>1, <1>2, <1>3, <1>4 DEF AtomicInv

(* A reader goes on.                                                        *)
LEMMA ReadKeepsInvariant ==
    ASSUME AtomicInv, NEW r \in Reader, Read(r)
    PROVE  AtomicInv'
<1>1. TypeOK'
  BY ReaderTypes
<1>2. UNCHANGED <<docs, journal, phase, plan, todo, rec, log>>
  BY DEF Read, ReadBegin, ReadJournal, ReadDocument, ReadEnd, ReadOver, Reads, disk
<1>3. Pending' = Pending /\ Applied' = Applied
  BY <1>2 DEF Pending, IsPrepared, Applied
<1>4. /\ PlansMakeSense' /\ OneUnresolved' /\ UnresolvedIsMixed'
      /\ ContentIsNew' /\ JournalsHaveAuthors'
  BY <1>2, <1>3 DEF AtomicInv, PlansMakeSense, OneUnresolved, UnresolvedIsMixed,
              ContentIsNew, JournalsHaveAuthors, BeforeEntry, AfterEntry, Entries
<1>5. AttemptProgress' /\ RecoveryProgress'
  BY <1>2, <1>3 DEF AtomicInv, AttemptProgress, Progress, RecoveryProgress, Owns,
                    AllBefore, AllAfter, Entries
<1>6. AppliedIsOver' /\ RolledBackStays'
  BY <1>2, <1>3 DEF AtomicInv, AppliedIsOver, RolledBackStays, Told, Owns, AllBefore
<1>7. ReadersWalk'
  <2>1. NoRead.left = {}
    BY DEF NoRead
  <2>2. reader'[r].left \subseteq IF reader'[r].phase = "reading" THEN Doc ELSE Txn
    <3>0. reader[r] \in ReaderRecord
      BY DEF AtomicInv, TypeOK
    <3>1. CASE ReadBegin(r)
      BY <3>1 DEF AtomicInv, TypeOK, ReadBegin, Reads, NoRead
    <3>2. CASE ReadJournal(r)
      <4>1. PICK t \in reader[r].left :
              LET rest == reader[r].left \ {t}
              IN \/ /\ reader[r].phase = "before"
                    /\ Reads(r, [reader[r] EXCEPT !.first = @ \cup Seen(t),
                         !.phase = IF rest = {} THEN "reading" ELSE "before",
                         !.left = IF rest = {} THEN Doc ELSE rest])
                 \/ /\ reader[r].phase = "after"
                    /\ Reads(r, [reader[r] EXCEPT !.second = @ \cup Seen(t), !.left = rest])
        BY <3>2 DEF ReadJournal
      <4>2. reader[r].left \subseteq Txn
        BY <4>1 DEF AtomicInv, ReadersWalk
      <4>3. r \in DOMAIN reader
        BY DEF AtomicInv, TypeOK
      <4> DEFINE rest == reader[r].left \ {t}
                 first == [reader[r] EXCEPT !.first = @ \cup Seen(t),
                             !.phase = IF rest = {} THEN "reading" ELSE "before",
                             !.left = IF rest = {} THEN Doc ELSE rest]
                 second == [reader[r] EXCEPT !.second = @ \cup Seen(t), !.left = rest]
      <4>4. CASE reader[r].phase = "before"
        <5>1. reader' = [reader EXCEPT ![r] = first]
          BY <4>1, <4>4 DEF Reads
        <5>2. /\ first.phase = (IF rest = {} THEN "reading" ELSE "before")
              /\ first.left = (IF rest = {} THEN Doc ELSE rest)
          BY <3>0 DEF ReaderRecord
        <5> HIDE DEF first
        <5> QED BY <4>2, <4>3, <5>1, <5>2
      <4>5. CASE reader[r].phase = "after"
        <5>1. reader' = [reader EXCEPT ![r] = second]
          BY <4>1, <4>5 DEF Reads
        <5>2. second.phase = "after" /\ second.left = rest
          BY <3>0, <4>5 DEF ReaderRecord
        <5> HIDE DEF second
        <5> QED BY <4>2, <4>3, <5>1, <5>2
      <4> QED BY <4>1, <4>4, <4>5
    <3>3. CASE ReadDocument(r)
      BY <3>0, <3>3 DEF AtomicInv, TypeOK, ReadersWalk, ReadDocument, Reads, ReaderRecord
    <3>4. CASE ReadEnd(r)
      BY <3>4 DEF AtomicInv, TypeOK, ReadEnd, Reads, NoRead
    <3>5. CASE ReadOver(r)
      BY <3>5 DEF AtomicInv, TypeOK, ReadOver, Reads, NoRead
    <3> QED BY <3>1, <3>2, <3>3, <3>4, <3>5 DEF Read
  <2>3. \A q \in Reader \ {r} : reader'[q] = reader[q]
    BY DEF AtomicInv, TypeOK, Read, ReadBegin, ReadJournal, ReadDocument, ReadEnd, ReadOver, Reads
  <2> QED BY <2>2, <2>3 DEF AtomicInv, ReadersWalk
<1> QED BY <1>1, <1>4, <1>5, <1>6, <1>7 DEF AtomicInv

(* A document of an unresolved transaction is written, by its attempt or by *)
(* the recovery.                                                            *)
Writes(t, d) ==
    /\ t \in Pending /\ d \in Entries(t)
    /\ \/ phase[journal[t].by] = "undoing" /\ docs' = [docs EXCEPT ![d] = plan[journal[t].by].before[d]]
       \/ phase[journal[t].by] = "publishing" /\ docs' = [docs EXCEPT ![d] = plan[journal[t].by].after[d]]
       \/ rec.phase = "restoring" /\ docs' = [docs EXCEPT ![d] = plan[journal[t].by].before[d]]
    /\ todo' = todo \ {d}
    /\ UNCHANGED <<journal, generation, lock, phase, plan, rec, reader, log>>

(* tree.write and tree.delete, forth and back, keep AtomicInv.              *)
LEMMA WriteKeepsInvariant ==
    ASSUME AtomicInv, TypeOK', NEW t \in Txn, NEW d \in Doc, Writes(t, d)
    PROVE  AtomicInv'
<1> DEFINE o == journal[t].by
<1>1. /\ t \in Pending /\ d \in Entries(t) /\ o \in Attempt /\ Owns(o) /\ plan[o].txn = t
      /\ phase[o] \notin {"new", "planned", "checked", "refused"}
  BY PendingHasAuthor DEF Writes
<1>2. UNCHANGED <<journal, phase, plan, rec, reader, log>> /\ todo' \subseteq todo
  BY DEF Writes
<1>3. \A e \in Doc : docs'[e] = docs[e] \/ (e = d /\ docs'[e] \in {plan[o].before[e], plan[o].after[e]})
  <2>1. docs \in [Doc -> Content]
    BY DEF AtomicInv, TypeOK
  <2>2. \/ docs' = [docs EXCEPT ![d] = plan[o].before[d]]
        \/ docs' = [docs EXCEPT ![d] = plan[o].after[d]]
    BY DEF Writes
  <2> QED BY <2>1, <2>2
<1>4. Pending' = Pending /\ Applied' = Applied /\ \A u \in Pending : u = t
  BY <1>1, <1>2 DEF Pending, IsPrepared, Applied, AtomicInv, OneUnresolved
<1>5. PlansMakeSense' /\ ReadersWalk' /\ OneUnresolved' /\ JournalsHaveAuthors'
  BY <1>2, <1>4 DEF AtomicInv, PlansMakeSense, ReadersWalk, OneUnresolved, JournalsHaveAuthors
<1>6. UnresolvedIsMixed'
  BY <1>1, <1>2, <1>3, <1>4 DEF AtomicInv, TypeOK, Plan, UnresolvedIsMixed, BeforeEntry, AfterEntry, Entries
<1>7. ContentIsNew'
  BY <1>1, <1>2, <1>3 DEF AtomicInv, ContentIsNew
<1>8. phase[o] \in {"publishing", "undoing"} \/ rec.phase = "restoring"
  BY DEF Writes
<1>9. AttemptProgress'
  <2> SUFFICES ASSUME NEW a \in Attempt PROVE Progress(a)'
    BY DEF AttemptProgress
  <2>1. Progress(a)
    BY DEF AtomicInv, AttemptProgress
  <2>2. phase[a] \notin {"checked", "verified", "advanced", "undone", "undoAdvanced"}
    BY <1>1, <1>8, Alone DEF Working
  <2> QED BY <1>2, <2>1, <2>2 DEF Progress, Owns
<1>10. RecoveryProgress'
  <2>1. rec.phase \notin {"decided", "advanced"}
    BY <1>1, <1>8, Alone DEF Working
  <2> QED BY <1>2, <1>4, <2>1 DEF AtomicInv, RecoveryProgress, Entries
<1>11. AppliedIsOver'
  BY <1>2, <1>4 DEF AtomicInv, AppliedIsOver, Owns
<1>12. RolledBackStays'
  <2> SUFFICES ASSUME NEW a \in Attempt PROVE Told(a)'
    BY DEF RolledBackStays
  <2>1. Told(a)
    BY DEF AtomicInv, RolledBackStays
  <2>2. ASSUME phase[a] = "rolledback", Owns(a), AllBefore(a) PROVE AllBefore(a)'
    <3>1. a = o
      BY <1>1, <1>4, <2>2 DEF Owns, Pending, IsPrepared
    <3>2. docs' = [docs EXCEPT ![d] = plan[o].before[d]]
      BY <2>2, <3>1 DEF Writes
    <3> QED BY <1>2, <2>2, <3>1, <3>2 DEF AllBefore, AtomicInv, TypeOK, Plan
  <2> QED BY <1>2, <1>4, <2>1, <2>2 DEF Told, Owns
<1> QED BY <1>5, <1>6, <1>7, <1>9, <1>10, <1>11, <1>12 DEF AtomicInv

(* A plan is made of what was committed.                                    *)
LEMMA BuildKeepsInvariant ==
    ASSUME AtomicInv, NEW a \in Attempt, Build(a)
    PROVE  AtomicInv'
<1>0. TypeOK'
  BY ForwardTypes
<1>a. PICK t \in Txn, scope \in SUBSET Doc, before \in [Doc -> Content] :
        /\ \A d \in Doc : IF d \in scope
                            THEN \E i \in 1..Len(log) : before[d] = log[i].state[d]
                            ELSE before[d] = Missing
        /\ \E changed \in SUBSET scope :
             /\ t \notin JobTxn => /\ changed # {}
                                   /\ \A b \in Attempt : plan[b].txn # t
             /\ \E retired \in SUBSET {d \in changed : before[d] # Missing} :
                  plan' = [plan EXCEPT ![a] = PlanOf(a, t, scope, changed, before, retired)]
  BY DEF Build
<1>b. PICK changed \in SUBSET scope :
        \E retired \in SUBSET {d \in changed : before[d] # Missing} :
          plan' = [plan EXCEPT ![a] = PlanOf(a, t, scope, changed, before, retired)]
  BY <1>a
<1>c. PICK retired \in SUBSET {d \in changed : before[d] # Missing} :
        plan' = [plan EXCEPT ![a] = PlanOf(a, t, scope, changed, before, retired)]
  BY <1>b
<1>1. /\ changed \subseteq scope
      /\ retired \subseteq {d \in changed : before[d] # Missing}
      /\ phase[a] = "new"
      /\ \A d \in Doc : IF d \in scope
                          THEN \E i \in 1..Len(log) : before[d] = log[i].state[d]
                          ELSE before[d] = Missing
      /\ plan' = [plan EXCEPT ![a] = PlanOf(a, t, scope, changed, before, retired)]
      /\ phase' = [phase EXCEPT ![a] = "planned"]
      /\ UNCHANGED <<disk, lock, todo, rec, reader, log, faults>>
  BY <1>a, <1>c DEF Build
<1>2. UNCHANGED <<docs, journal, todo, rec, reader, log>>
  BY <1>1 DEF disk
<1>3. \A b \in Attempt : /\ phase'[b] = IF b = a THEN "planned" ELSE phase[b]
                         /\ b # a => plan'[b] = plan[b]
  BY <1>1 DEF AtomicInv, TypeOK
<1>4. /\ plan'[a].txn = t /\ plan'[a].scope = scope /\ plan'[a].changed = changed
      /\ plan'[a].before = before
      /\ \A d \in Doc : plan'[a].after[d] = IF d \in retired THEN Missing
                                            ELSE IF d \in changed THEN a ELSE before[d]
  BY <1>1 DEF AtomicInv, TypeOK, PlanOf
<1>5. Pending' = Pending /\ Applied' = Applied
  BY <1>2 DEF Pending, IsPrepared, Applied
<1>6. \A u \in Txn : journal[u].state # "absent" => journal[u].by \in Attempt \ {a}
  BY <1>1 DEF AtomicInv, JournalsHaveAuthors
<1>7. \A u \in Pending : u \in Txn /\ journal[u].by \in Attempt \ {a}
                         /\ plan'[journal[u].by] = plan[journal[u].by]
  <2> TAKE u \in Pending
  <2>1. u \in Txn /\ journal[u].state # "absent"
    BY DEF Pending, IsPrepared
  <2> QED BY <1>3, <1>6, <2>1
<1>8. \A d \in Doc : before[d] # a
  BY <1>1, TransactionConstants DEF AtomicInv, ContentIsNew
<1>9. PlansMakeSense'
  <2> SUFFICES ASSUME NEW b \in Attempt
               PROVE  /\ plan'[b].changed \subseteq plan'[b].scope
                      /\ \A d \in Doc : d \in plan'[b].changed <=> plan'[b].after[d] # plan'[b].before[d]
                      /\ phase'[b] # "new" => plan'[b].txn \in Txn
    BY DEF PlansMakeSense
  <2>1. CASE b = a
    <3>1. \A d \in Doc : d \in changed <=> plan'[a].after[d] # before[d]
      BY <1>1, <1>4, <1>8
    <3> QED BY <1>1, <1>4, <2>1, <3>1
  <2>2. CASE b # a
    BY <1>3, <2>2 DEF AtomicInv, PlansMakeSense
  <2> QED BY <2>1, <2>2
<1>10. ContentIsNew'
  <2> SUFFICES ASSUME NEW b \in Attempt, phase'[b] = "new"
               PROVE  /\ \A d \in Doc : docs'[d] # b
                      /\ \A i \in 1..Len(log') : \A d \in Doc : log'[i].state[d] # b
                      /\ \A c \in Attempt : \A d \in Doc :
                           plan'[c].before[d] # b /\ plan'[c].after[d] # b
    BY DEF ContentIsNew
  <2>1. b # a /\ phase[b] = "new"
    BY <1>3
  <2>2. \A d \in Doc : before[d] # b
    BY <1>1, <2>1, TransactionConstants DEF AtomicInv, ContentIsNew
  <2>3. \A d \in Doc : plan'[a].before[d] # b /\ plan'[a].after[d] # b
    BY <1>4, <2>1, <2>2, TransactionConstants
  <2> QED BY <1>2, <1>3, <2>1, <2>3 DEF AtomicInv, ContentIsNew
<1>11. JournalsHaveAuthors' /\ OneUnresolved' /\ ReadersWalk'
  BY <1>2, <1>3, <1>5, <1>6 DEF AtomicInv, JournalsHaveAuthors, OneUnresolved, ReadersWalk
<1>12. UnresolvedIsMixed'
  BY <1>2, <1>5, <1>7 DEF AtomicInv, UnresolvedIsMixed, BeforeEntry, AfterEntry, Entries
<1>13. AttemptProgress'
  <2> SUFFICES ASSUME NEW b \in Attempt PROVE Progress(b)'
    BY DEF AttemptProgress
  <2>1. CASE b = a
    BY <1>3, <2>1 DEF Progress
  <2>2. CASE b # a
    <3>1. Progress(b) /\ phase'[b] = phase[b] /\ plan'[b] = plan[b]
      BY <1>3, <2>2 DEF AtomicInv, AttemptProgress
    <3> QED BY <1>2, <1>5, <3>1 DEF Progress, Owns, AllBefore, AllAfter
  <2> QED BY <2>1, <2>2
<1>14. RecoveryProgress'
  <2>1. rec.phase \in {"restoring", "decided", "advanced"} => rec.txn \in Pending
    BY DEF AtomicInv, RecoveryProgress
  <2>2. rec.phase \in {"restoring", "decided", "advanced"} =>
          plan'[journal[rec.txn].by] = plan[journal[rec.txn].by]
    BY <1>7, <2>1
  <2> QED BY <1>2, <1>5, <2>2 DEF AtomicInv, RecoveryProgress, Entries, AllBefore, AllAfter
<1>15. AppliedIsOver' /\ RolledBackStays'
  <2>1. a \notin Applied
    BY <1>1 DEF AtomicInv, AppliedIsOver
  <2> QED BY <1>2, <1>3, <1>5, <2>1
          DEF AtomicInv, AppliedIsOver, RolledBackStays, Told, Owns, AllBefore
<1> QED BY <1>0, <1>9, <1>10, <1>11, <1>12, <1>13, <1>14, <1>15 DEF AtomicInv

(* A journal file is created, whether its attempt lives to know it or not.  *)
Opens(a, next) ==
    /\ phase[a] = "checked" /\ journal[plan[a].txn].state = "absent"
    /\ journal' = [journal EXCEPT ![plan[a].txn] = [state |-> "PREPARED", by |-> a]]
    /\ phase' = [phase EXCEPT ![a] = next]
    /\ \/ next = "publishing" /\ todo' = plan[a].changed
       \/ next = "unknown"
    /\ UNCHANGED <<docs, plan, rec, reader, log>>

(* journal.prepare keeps AtomicInv.                                         *)
LEMMA OpenKeepsInvariant ==
    ASSUME AtomicInv, TypeOK', NEW a \in Attempt, NEW next, Opens(a, next)
    PROVE  AtomicInv'
<1> DEFINE t == plan[a].txn
<1>1. UNCHANGED <<docs, plan, rec, reader, log>> /\ next \in {"publishing", "unknown"}
  BY DEF Opens
<1>2. \A b \in Attempt : phase'[b] = IF b = a THEN next ELSE phase[b]
  BY DEF Opens, AtomicInv, TypeOK
<1>3. t \in Txn /\ Pending = {} /\ AllBefore(a)
  BY DEF Opens, AtomicInv, PlansMakeSense, AttemptProgress, Progress
<1>4. \A u \in Txn : journal'[u] = IF u = t THEN [state |-> "PREPARED", by |-> a] ELSE journal[u]
  BY DEF Opens, AtomicInv, TypeOK
<1>5. Pending' = {t} /\ Applied' = Applied
  BY <1>1, <1>3, <1>4 DEF Pending, IsPrepared, Applied
<1>6. a \notin Applied
  BY DEF Opens, AtomicInv, AppliedIsOver
<1>7. rec.phase = "idle" /\ rec.queue = {} /\ \A b \in Attempt \ {a} : phase[b] \notin Working
  BY <1>3, Alone DEF Opens, Working, AtomicInv, RecoveryProgress
<1>8. \A b \in Attempt \ {a} : ~Owns(b)'
  BY <1>1, <1>3, <1>4 DEF Owns, Pending, IsPrepared
<1>9. PlansMakeSense' /\ ReadersWalk' /\ OneUnresolved' /\ ContentIsNew'
  <2>1. PlansMakeSense'
    BY <1>1, <1>2 DEF Opens, AtomicInv, PlansMakeSense
  <2>2. ContentIsNew'
    BY <1>1, <1>2 DEF AtomicInv, ContentIsNew
  <2> QED BY <1>1, <1>5, <2>1, <2>2 DEF AtomicInv, ReadersWalk, OneUnresolved
<1>10. JournalsHaveAuthors'
  BY <1>1, <1>2, <1>4 DEF AtomicInv, JournalsHaveAuthors
<1>11. UnresolvedIsMixed'
  BY <1>1, <1>3, <1>4, <1>5 DEF UnresolvedIsMixed, AllBefore, BeforeEntry, AfterEntry, Entries
<1>12. Owns(a)'
  BY <1>1, <1>3, <1>4 DEF Owns
<1>13. AttemptProgress'
  <2> SUFFICES ASSUME NEW b \in Attempt PROVE Progress(b)'
    BY DEF AttemptProgress
  <2>1. CASE b = a
    BY <1>1, <1>2, <1>12, <2>1 DEF Progress, Opens
  <2>2. CASE b # a
    BY <1>2, <1>7, <2>2 DEF Progress, Working
  <2> QED BY <2>1, <2>2
<1>14. RecoveryProgress'
  BY <1>1, <1>7 DEF RecoveryProgress
<1>15. AppliedIsOver'
  BY <1>2, <1>5, <1>6, <1>8 DEF AtomicInv, AppliedIsOver
<1>16. RolledBackStays'
  BY <1>1, <1>2, <1>5, <1>8 DEF AtomicInv, RolledBackStays, Told
<1> QED BY <1>9, <1>10, <1>11, <1>13, <1>14, <1>15, <1>16 DEF AtomicInv

(* The journal of a transaction gets its verdict, from its attempt or from  *)
(* the recovery.                                                            *)
Settles(t, verdict) ==
    /\ t \in Pending
    /\ \/ verdict = "COMMITTED" /\ AllAfter(journal[t].by) /\ Commits(t)
       \/ /\ verdict = "ROLLED_BACK" /\ AllBefore(journal[t].by)
          /\ journal' = [journal EXCEPT ![t].state = "ROLLED_BACK"]
          /\ UNCHANGED log
    /\ \/ /\ phase[journal[t].by] \in {"advanced", "undoAdvanced"}
          /\ phase' = [phase EXCEPT ![journal[t].by] =
                         IF verdict = "COMMITTED" THEN "marked" ELSE "rolledback"]
          /\ UNCHANGED rec
       \/ /\ rec.phase = "advanced" /\ rec.txn = t
          /\ rec' = [NoRecovery EXCEPT !.phase = "next", !.queue = rec.queue \ {t}]
          /\ UNCHANGED phase
    /\ UNCHANGED <<docs, plan, reader>>

(* journal.mark keeps AtomicInv.                                            *)
LEMMA SettleKeepsInvariant ==
    ASSUME AtomicInv, TypeOK', NEW t \in Txn, NEW verdict, Settles(t, verdict)
    PROVE  AtomicInv'
<1> DEFINE o == journal[t].by
<1>1. /\ o \in Attempt /\ Owns(o) /\ plan[o].txn = t
      /\ phase[o] \notin {"new", "planned", "checked", "refused"}
  BY PendingHasAuthor DEF Settles
<1>2. UNCHANGED <<docs, plan, reader>> /\ verdict \in {"COMMITTED", "ROLLED_BACK"}
  BY DEF Settles
<1>3. /\ DOMAIN journal = Txn /\ journal' = [journal EXCEPT ![t].state = verdict]
      /\ \A u \in Txn : journal[u] \in JournalRecord
  BY DEF Settles, Commits, AtomicInv, TypeOK
<1>4. \A u \in Txn : /\ journal'[u].by = journal[u].by
                     /\ journal'[u].state = IF u = t THEN verdict ELSE journal[u].state
  BY <1>3 DEF JournalRecord
<1>5. Pending = {t} /\ Pending' = {}
  BY <1>2, <1>4 DEF Settles, Pending, IsPrepared, AtomicInv, OneUnresolved
<1>6. \A b \in Attempt : ~Owns(b)'
  BY <1>5 DEF Owns, Pending, IsPrepared
<1>7. o \notin Applied
  BY <1>1 DEF AtomicInv, AppliedIsOver
<1>8. Applied' = IF verdict = "COMMITTED" THEN Applied \cup {o} ELSE Applied
  <2>1. CASE verdict = "COMMITTED"
    BY <2>1, MarkTypes DEF Settles
  <2>2. CASE verdict # "COMMITTED"
    BY <2>2 DEF Settles, Applied
  <2> QED BY <2>1, <2>2
<1>9. \A b \in Attempt :
        \/ phase'[b] = phase[b] /\ phase[b] \notin Working
        \/ b = o /\ phase'[b] = IF verdict = "COMMITTED" THEN "marked" ELSE "rolledback"
  <2>1. phase \in [Attempt -> AttemptPhase]
    BY DEF AtomicInv, TypeOK
  <2> QED BY <1>1, <2>1, Alone DEF Settles, Working
<1>10. rec'.queue = {} /\ rec'.phase \in {"idle", "next"}
  <2>1. CASE UNCHANGED rec /\ phase[o] \in Working
    BY <1>1, <2>1, Alone DEF AtomicInv, RecoveryProgress
  <2>2. CASE rec' = [NoRecovery EXCEPT !.phase = "next", !.queue = rec.queue \ {t}]
    BY <1>5, <2>2 DEF AtomicInv, RecoveryProgress, NoRecovery
  <2> QED BY <2>1, <2>2 DEF Settles, Working
<1>11. PlansMakeSense' /\ ReadersWalk'
  BY <1>1, <1>2, <1>9 DEF AtomicInv, PlansMakeSense, ReadersWalk
<1>12. ContentIsNew'
  <2>1. \A b \in Attempt : phase'[b] = "new" => phase[b] = "new"
    BY <1>9
  <2>2. ASSUME NEW b \in Attempt, phase[b] = "new", NEW i \in 1..Len(log'), NEW d \in Doc
        PROVE  log'[i].state[d] # b
    <3>1. CASE verdict = "COMMITTED"
      <4>1. /\ Len(log') = Len(log) + 1
            /\ log'[i].state = IF i = Len(log') THEN docs ELSE log[i].state
        BY <3>1, MarkTypes DEF Settles
      <4>2. i = Len(log') \/ i \in 1..Len(log)
        BY <4>1 DEF AtomicInv, TypeOK
      <4> QED BY <2>2, <4>1, <4>2 DEF AtomicInv, ContentIsNew
    <3>2. CASE verdict # "COMMITTED"
      BY <2>2, <3>2 DEF Settles, AtomicInv, ContentIsNew
    <3> QED BY <3>1, <3>2
  <2> QED BY <1>2, <2>1, <2>2 DEF AtomicInv, ContentIsNew
<1>13. JournalsHaveAuthors'
  <2> SUFFICES ASSUME NEW u \in Txn, journal'[u].state # "absent"
               PROVE  /\ journal'[u].by \in Attempt
                      /\ plan'[journal'[u].by].txn = u
                      /\ phase'[journal'[u].by] \notin {"new", "planned", "checked", "refused"}
    BY DEF JournalsHaveAuthors
  <2>1. journal[u].state # "absent" /\ journal'[u].by = journal[u].by
    BY <1>4 DEF Settles, Pending, IsPrepared
  <2> QED BY <1>2, <1>9, <2>1 DEF AtomicInv, JournalsHaveAuthors
<1>14. OneUnresolved' /\ UnresolvedIsMixed'
  BY <1>5 DEF OneUnresolved, UnresolvedIsMixed
<1>15. AttemptProgress'
  BY <1>9 DEF AttemptProgress, Progress, Working
<1>16. RecoveryProgress'
  BY <1>10 DEF RecoveryProgress
<1>17. AppliedIsOver'
  BY <1>1, <1>6, <1>8, <1>9 DEF AtomicInv, AppliedIsOver
<1>18. RolledBackStays'
  <2> SUFFICES ASSUME NEW b \in Attempt PROVE Told(b)'
    BY DEF RolledBackStays
  <2>0. Told(b)
    BY DEF AtomicInv, RolledBackStays
  <2>1. CASE b # o
    BY <1>2, <1>6, <1>8, <1>9, <2>0, <2>1 DEF Told
  <2>2. CASE b = o /\ verdict = "COMMITTED" /\ plan[o].changed # {}
    <3>1. PICK d \in plan[o].changed : d \in plan[o].scope /\ plan[o].after[d] # plan[o].before[d]
      BY <1>1, <2>2 DEF AtomicInv, PlansMakeSense, TypeOK, Plan
    <3>2. ~AllBefore(o)
      BY <2>2, <3>1 DEF Settles, AllAfter, AllBefore
    <3> QED BY <1>1, <1>8, <1>9, <2>0, <2>2, <3>2 DEF Told
  <2>3. CASE b = o /\ ~(verdict = "COMMITTED" /\ plan[o].changed # {})
    BY <1>2, <1>6, <1>7, <1>8, <1>9, <2>0, <2>3 DEF Told, Working
  <2> QED BY <2>1, <2>2, <2>3
<1> QED BY <1>11, <1>12, <1>13, <1>14, <1>15, <1>16, <1>17, <1>18 DEF AtomicInv

(* discard_terminal                                                        *)
LEMMA DiscardKeepsInvariant ==
    ASSUME AtomicInv, NEW t \in Txn, Discard(t)
    PROVE  AtomicInv'
<1>0. TypeOK'
  BY RecoveryTypes
<1>1. UNCHANGED <<docs, phase, plan, todo, rec, reader, log>>
  BY DEF Discard
<1>2. \A u \in Txn : journal'[u] = IF u = t THEN NoRecord ELSE journal[u]
  BY DEF Discard, AtomicInv, TypeOK
<1>3. t \notin Pending /\ Pending' = Pending /\ Applied' = Applied
  BY <1>1, <1>2 DEF Discard, Pending, IsPrepared, NoRecord, Applied
<1>4. \A u \in Pending : u \in Txn /\ journal'[u] = journal[u]
  BY <1>2, <1>3 DEF Pending
<1>5. \A b \in Attempt : Owns(b)' <=> Owns(b)
  BY <1>1, <1>2 DEF Discard, Owns, NoRecord
<1>6. PlansMakeSense' /\ ReadersWalk' /\ ContentIsNew' /\ OneUnresolved'
  BY <1>1, <1>3 DEF AtomicInv, PlansMakeSense, ReadersWalk, ContentIsNew, OneUnresolved
<1>7. JournalsHaveAuthors'
  BY <1>1, <1>2 DEF AtomicInv, JournalsHaveAuthors, NoRecord
<1>8. UnresolvedIsMixed'
  BY <1>1, <1>3, <1>4 DEF AtomicInv, UnresolvedIsMixed, BeforeEntry, AfterEntry, Entries
<1>9. AttemptProgress'
  BY <1>1, <1>3, <1>5 DEF AtomicInv, AttemptProgress, Progress, AllBefore, AllAfter
<1>10. RecoveryProgress'
  <2>1. rec.phase \in {"restoring", "decided", "advanced"} => journal'[rec.txn] = journal[rec.txn]
    BY <1>4 DEF AtomicInv, RecoveryProgress
  <2> QED BY <1>1, <1>3, <2>1 DEF AtomicInv, RecoveryProgress, Entries, AllBefore, AllAfter
<1>11. AppliedIsOver' /\ RolledBackStays'
  BY <1>1, <1>3, <1>5 DEF AtomicInv, AppliedIsOver, RolledBackStays, Told, AllBefore
<1> QED BY <1>0, <1>6, <1>7, <1>8, <1>9, <1>10, <1>11 DEF AtomicInv

(***************************************************************************)
(* Every action is one of those steps.                                     *)
(***************************************************************************)

(* Nothing that a public reader may be shown changes.                       *)
Quiet ==
    /\ UNCHANGED <<docs, journal, plan, log>>
    /\ \A a \in Attempt : phase'[a] = "new" <=> phase[a] = "new"

Step ==
    \/ Quiet
    \/ \E a \in Attempt : Build(a)
    \/ \E t \in Txn, d \in Doc : Writes(t, d)
    \/ \E a \in Attempt, next \in AttemptPhase : Opens(a, next)
    \/ \E t \in Txn, verdict \in JournalState : Settles(t, verdict)
    \/ \E t \in Txn : Discard(t)

Good == AtomicInv' /\ Step

(* The steps of a commit.                                                   *)
LEMMA ForwardSteps ==
    ASSUME AtomicInv, NEW a \in Attempt, Build(a) \/ Begin(a) \/ Forward(a)
    PROVE  Good
<1> USE DEF disk
<1>0. TypeOK' /\ phase \in [Attempt -> AttemptPhase]
  BY ForwardTypes DEF AtomicInv, TypeOK
<1>p. Progress(a) /\ Told(a)
  BY DEF AtomicInv, AttemptProgress, RolledBackStays
<1>m. ASSUME NEW next, Moves(a, next), phase[a] \in Working \/ lock = None, Progress(a)', Told(a)'
      PROVE  Good
  <2>1. Quiet
    BY <1>0, <1>m DEF Moves, Quiet
  <2> QED BY <1>0, <1>m, <2>1, MoveKeepsInvariant DEF Good, Step
<1>1. CASE Build(a)
  BY <1>1, BuildKeepsInvariant DEF Good, Step
<1>2. CASE Begin(a)
  <2>1. PICK next \in {"checked", "refused"} : phase' = [phase EXCEPT ![a] = next]
                      /\ (next = "checked" => Pending = {} /\ AllBefore(a))
    BY <1>2 DEF Begin, Enter, NothingPending, ReadsCurrent, AllBefore
  <2>2. Moves(a, next)
    BY <1>2, <2>1 DEF Begin, Moves, AttemptPhase, Working, Ended
  <2>3. phase'[a] = next /\ Pending' = Pending /\ UNCHANGED <<docs, plan>>
    BY <1>0, <1>2, <2>1 DEF Begin, Pending, IsPrepared
  <2>4. Progress(a)' /\ Told(a)'
    BY <2>1, <2>3 DEF Progress, Told, AllBefore
  <2> QED BY <1>2, <1>m, <2>2, <2>4 DEF Begin
<1>3. CASE Prepare(a)
  <2>1. CASE journal[plan[a].txn].state = "absent"
    <3>1. Opens(a, "publishing")
      BY <1>3, <2>1 DEF Prepare, Opens, Enter
    <3> QED BY <1>0, <3>1, OpenKeepsInvariant DEF Good, Step, AttemptPhase, Working
  <2>2. CASE journal[plan[a].txn].state # "absent"
    <3>1. Moves(a, "refused")
      BY <1>3, <2>2 DEF Prepare, Moves, Leave, Enter, AttemptPhase, Ended
    <3>2. phase'[a] = "refused"
      BY <1>0, <3>1 DEF Moves
    <3> QED BY <1>3, <1>m, <3>1, <3>2 DEF Prepare, Working, Progress, Told
  <2> QED BY <2>1, <2>2
<1>4. CASE Publish(a)
  <2>1. Owns(a) /\ todo \subseteq plan[a].changed
    BY <1>4, <1>p DEF Publish, Progress
  <2>2. plan[a].txn \in Txn /\ plan[a].txn \in Pending /\ journal[plan[a].txn].by = a
    BY <2>1, OwnerIsPending DEF Owns
  <2>3. PICK d \in todo : docs' = [docs EXCEPT ![d] = plan[a].after[d]] /\ todo' = todo \ {d}
    BY <1>4 DEF Publish
  <2>4. d \in Doc
    BY DEF AtomicInv, TypeOK
  <2>5. Writes(plan[a].txn, d)
    BY <1>4, <2>1, <2>2, <2>3 DEF Publish, Writes, Entries
  <2> QED BY <1>0, <2>2, <2>4, <2>5, WriteKeepsInvariant DEF Good, Step
<1>5. CASE Verify(a)
  <2>1. Moves(a, "verified") /\ phase'[a] = "verified" /\ Owns(a) /\ AllAfter(a)
    BY <1>0, <1>5, <1>p DEF Verify, Moves, Enter, AttemptPhase, Working, Progress, AllAfter
  <2> QED BY <1>5, <1>m, <2>1 DEF Verify, Moves, Working, Progress, Told, Owns, AllAfter
<1>6. CASE Advance(a)
  <2>1. Moves(a, "advanced") /\ phase'[a] = "advanced" /\ Owns(a) /\ AllAfter(a)
    BY <1>0, <1>6, <1>p DEF Advance, Moves, Enter, AttemptPhase, Working, Progress
  <2> QED BY <1>6, <1>m, <2>1 DEF Advance, Moves, Working, Progress, Told, Owns, AllAfter
<1>7. CASE Mark(a)
  <2>1. Owns(a) /\ AllAfter(a) /\ phase[a] \in Working
    BY <1>7, <1>p DEF Mark, Progress, Working
  <2>2. plan[a].txn \in Txn /\ plan[a].txn \in Pending /\ journal[plan[a].txn].by = a
    BY <2>1, OwnerIsPending DEF Owns
  <2>3. Settles(plan[a].txn, "COMMITTED")
    BY <1>7, <2>1, <2>2 DEF Mark, Enter, Settles
  <2> QED BY <1>0, <2>2, <2>3, SettleKeepsInvariant DEF Good, Step, JournalState
<1>8. CASE Return(a)
  <2>1. Moves(a, "committed") /\ phase'[a] = "committed" /\ a \in Applied /\ UNCHANGED log
    BY <1>0, <1>8, <1>p DEF Return, Moves, Leave, Enter, AttemptPhase, Ended, Told
  <2> QED BY <1>8, <1>m, <2>1 DEF Return, Working, Progress, Told, Applied
<1> QED BY <1>1, <1>2, <1>3, <1>4, <1>5, <1>6, <1>7, <1>8 DEF Forward

(* The steps of a rollback, and what can go wrong.                          *)
LEMMA BackwardSteps ==
    ASSUME AtomicInv, NEW a \in Attempt, Backward(a) \/ Failure(a)
    PROVE  Good
<1> USE DEF disk
<1>0. TypeOK' /\ phase \in [Attempt -> AttemptPhase]
  BY BackwardTypes DEF AtomicInv, TypeOK
<1>p. Progress(a) /\ Told(a)
  BY DEF AtomicInv, AttemptProgress, RolledBackStays
<1>m. ASSUME NEW next, Moves(a, next), phase[a] \in Working, Progress(a)', Told(a)'
      PROVE  Good
  <2>1. Quiet
    BY <1>0, <1>m DEF Moves, Quiet
  <2> QED BY <1>0, <1>m, <2>1, MoveKeepsInvariant DEF Good, Step
<1>u. ASSUME Moves(a, "unknown"), phase[a] \in Working
      PROVE  Good
  <2>1. phase'[a] = "unknown"
    BY <1>0, <1>u DEF Moves
  <2> QED BY <1>m, <1>u, <2>1 DEF Progress, Told
<1>1. CASE Undo(a)
  <2>1. Owns(a) /\ todo \subseteq plan[a].changed
    BY <1>1, <1>p DEF Undo, Progress
  <2>2. plan[a].txn \in Txn /\ plan[a].txn \in Pending /\ journal[plan[a].txn].by = a
    BY <2>1, OwnerIsPending DEF Owns
  <2>3. PICK d \in todo : docs' = [docs EXCEPT ![d] = plan[a].before[d]] /\ todo' = todo \ {d}
    BY <1>1 DEF Undo
  <2>4. d \in Doc
    BY DEF AtomicInv, TypeOK
  <2>5. Writes(plan[a].txn, d)
    BY <1>1, <2>1, <2>2, <2>3 DEF Undo, Writes, Entries
  <2> QED BY <1>0, <2>2, <2>4, <2>5, WriteKeepsInvariant DEF Good, Step
<1>2. CASE UndoVerify(a)
  <2>1. Moves(a, "undone") /\ phase'[a] = "undone" /\ Owns(a) /\ AllBefore(a)
    BY <1>0, <1>2, <1>p DEF UndoVerify, Moves, Enter, AttemptPhase, Working, Progress,
                            AllBefore, ReadsCurrent
  <2> QED BY <1>2, <1>m, <2>1 DEF UndoVerify, Moves, Working, Progress, Told, Owns, AllBefore
<1>3. CASE UndoAdvance(a)
  <2>1. Moves(a, "undoAdvanced") /\ phase'[a] = "undoAdvanced" /\ Owns(a) /\ AllBefore(a)
    BY <1>0, <1>3, <1>p DEF UndoAdvance, Moves, Enter, AttemptPhase, Working, Progress
  <2> QED BY <1>3, <1>m, <2>1 DEF UndoAdvance, Moves, Working, Progress, Told, Owns, AllBefore
<1>4. CASE UndoMark(a)
  <2>1. Owns(a) /\ AllBefore(a) /\ phase[a] \in Working
    BY <1>4, <1>p DEF UndoMark, Progress, Working
  <2>2. plan[a].txn \in Txn /\ plan[a].txn \in Pending /\ journal[plan[a].txn].by = a
    BY <2>1, OwnerIsPending DEF Owns
  <2>3. Settles(plan[a].txn, "ROLLED_BACK")
    BY <1>4, <2>1, <2>2 DEF UndoMark, Leave, Enter, Settles
  <2> QED BY <1>0, <2>2, <2>3, SettleKeepsInvariant DEF Good, Step, JournalState
<1>5. CASE PrepareFails(a)
  <2>1. CASE UNCHANGED journal
    <3>1. Moves(a, "unknown") /\ phase[a] \in Working
      BY <1>5, <2>1 DEF PrepareFails, Moves, Leave, Enter, AttemptPhase, Ended, Working
    <3> QED BY <1>u, <3>1
  <2>2. CASE journal' = [journal EXCEPT ![plan[a].txn] = [state |-> "PREPARED", by |-> a]]
    <3>1. Opens(a, "unknown")
      BY <1>5, <2>2 DEF PrepareFails, Opens, Leave, Enter
    <3> QED BY <1>0, <3>1, OpenKeepsInvariant DEF Good, Step, AttemptPhase, Ended
  <2> QED BY <1>5, <2>1, <2>2 DEF PrepareFails
<1>6. CASE PublishFails(a)
  <2>1. CASE plan[a].changed = {}
    <3>1. Moves(a, "rolledback") /\ phase'[a] = "rolledback" /\ UNCHANGED plan
      BY <1>0, <1>6, <2>1 DEF PublishFails, Moves, Leave, Enter, AttemptPhase, Ended
    <3> QED BY <1>6, <1>m, <2>1, <3>1 DEF PublishFails, Working, Progress, Told
  <2>2. CASE plan[a].changed # {}
    <3>1. Moves(a, "undoing") /\ phase'[a] = "undoing" /\ Owns(a) /\ todo' = plan[a].changed
      BY <1>0, <1>6, <1>p, <2>2 DEF PublishFails, Moves, Enter, AttemptPhase, Working, Progress
    <3> QED BY <1>6, <1>m, <3>1 DEF PublishFails, Moves, Working, Progress, Told, Owns
  <2> QED BY <2>1, <2>2
<1>7. CASE FinishFails(a) \/ UndoFails(a) \/ Crash(a)
  <2>1. Moves(a, "unknown") /\ phase[a] \in Working
    BY <1>7 DEF FinishFails, UndoFails, Crash, Moves, Leave, Enter, AttemptPhase, Ended, Working
  <2> QED BY <1>u, <2>1
<1>8. CASE UndoMarkFails(a)
  <2>1. Moves(a, "rolledback") /\ phase'[a] = "rolledback" /\ Owns(a) /\ AllBefore(a)
    BY <1>0, <1>8, <1>p DEF UndoMarkFails, Moves, Leave, Enter, AttemptPhase, Ended, Progress
  <2>2. a \notin Applied' /\ AllBefore(a)'
    BY <2>1 DEF Moves, AtomicInv, AppliedIsOver, Applied, AllBefore
  <2> QED BY <1>8, <1>m, <2>1, <2>2 DEF UndoMarkFails, Working, Progress, Told
<1> QED BY <1>1, <1>2, <1>3, <1>4, <1>5, <1>6, <1>7, <1>8 DEF Backward, Failure

(* The steps of a recovery.                                                 *)
LEMMA RecoverySteps ==
    ASSUME AtomicInv, RecoverBegin \/ Recover \/ RecoverFails
    PROVE  Good
<1> USE DEF disk
<1>0. TypeOK'
  BY RecoveryTypes
<1>r. RecoveryProgress /\ rec \in RecoveryRecord
  BY DEF AtomicInv, TypeOK
<1>m. ASSUME RecoveryMoves, RecoveryProgress' PROVE Good
  <2>1. Quiet
    BY <1>m DEF RecoveryMoves, Quiet
  <2> QED BY <1>0, <1>m, <2>1, RecoveryMoveKeepsInvariant DEF Good, Step
<1>e. ASSUME RecoveryMoves, rec' = NoRecovery PROVE Good
  <2>1. RecoveryProgress'
    BY <1>e DEF RecoveryProgress, NoRecovery
  <2> QED BY <1>e, <1>m, <2>1
<1>1. CASE RecoverBegin
  <2>1. RecoveryMoves /\ Pending' = Pending
    BY <1>1 DEF RecoverBegin, RecoveryMoves, Pending, IsPrepared
  <2>2. RecoveryProgress'
    BY <1>1, <2>1 DEF RecoverBegin, RecoveryProgress, NoRecovery
  <2> QED BY <1>m, <2>1, <2>2
<1>2. CASE RecoverInspect
  <2>1. RecoveryMoves /\ Pending' = Pending
    BY <1>2 DEF RecoverInspect, RecoveryMoves, Pending, IsPrepared
  <2>2. PICK t \in rec.queue :
          /\ rec.phase = "next"
          /\ \/ Complete(t) /\ rec' = [rec EXCEPT !.phase = "decided", !.txn = t,
                                                  !.verdict = "COMMITTED"]
             \/ /\ rec' = [rec EXCEPT !.phase = "restoring", !.txn = t, !.verdict = "ROLLED_BACK"]
                /\ todo' = Entries(t)
             \/ rec' = NoRecovery
          /\ UNCHANGED <<docs, journal, plan>>
    BY <1>2 DEF RecoverInspect, RecoverEnd
  <2>3. t \in Pending /\ journal[t].by \in Attempt
    BY <1>r, PendingHasAuthor DEF RecoveryProgress
  <2>4. CASE Complete(t) /\ rec' = [rec EXCEPT !.phase = "decided", !.txn = t,
                                              !.verdict = "COMMITTED"]
    <3>1. rec'.phase = "decided" /\ rec'.txn = t /\ rec'.verdict = "COMMITTED" /\ rec'.queue = rec.queue
      BY <1>r, <2>4 DEF RecoveryRecord
    <3>2. AllAfter(journal[t].by)
      <4>1. plan[journal[t].by] \in Plan /\
            \A d \in Doc : d \notin plan[journal[t].by].changed =>
               plan[journal[t].by].after[d] = plan[journal[t].by].before[d]
        BY <2>3 DEF AtomicInv, TypeOK, PlansMakeSense
      <4>2. \A d \in plan[journal[t].by].scope : BeforeEntry(t, d) \/ (d \in Entries(t) /\ AfterEntry(t, d))
        BY <2>3 DEF AtomicInv, UnresolvedIsMixed
      <4> QED BY <2>4, <4>1, <4>2 DEF Plan, AllAfter, Complete, Entries, AfterEntry, BeforeEntry
    <3>3. AllAfter(journal[rec.txn].by)'
      BY <2>2, <3>1, <3>2 DEF AllAfter
    <3> QED BY <1>m, <1>r, <2>1, <3>1, <3>3 DEF RecoveryProgress
  <2>5. CASE /\ rec' = [rec EXCEPT !.phase = "restoring", !.txn = t, !.verdict = "ROLLED_BACK"]
             /\ todo' = Entries(t)
    <3>1. rec'.phase = "restoring" /\ rec'.txn = t /\ rec'.verdict = "ROLLED_BACK" /\ rec'.queue = rec.queue
      BY <1>r, <2>5 DEF RecoveryRecord
    <3> QED BY <1>m, <1>r, <2>1, <2>2, <2>5, <3>1 DEF RecoveryProgress, Entries
  <2> QED BY <1>e, <2>1, <2>2, <2>4, <2>5
<1>3. CASE Restore
  <2>1. rec.txn \in Pending /\ todo \subseteq Entries(rec.txn)
    BY <1>3, <1>r DEF Restore, RecoveryProgress
  <2>2. PICK d \in todo : docs' = [docs EXCEPT ![d] = plan[journal[rec.txn].by].before[d]]
                         /\ todo' = todo \ {d}
    BY <1>3 DEF Restore
  <2>3. d \in Doc /\ rec.txn \in Txn
    BY <2>1 DEF AtomicInv, TypeOK, Pending
  <2>4. Writes(rec.txn, d)
    BY <1>3, <2>1, <2>2 DEF Restore, Writes
  <2> QED BY <1>0, <2>3, <2>4, WriteKeepsInvariant DEF Good, Step
<1>4. CASE RestoreVerify
  <2>1. RecoveryMoves /\ Pending' = Pending /\ UNCHANGED <<docs, journal, plan>>
    BY <1>4 DEF RestoreVerify, RecoveryMoves, Pending, IsPrepared
  <2>2. rec.txn \in Pending /\ rec.verdict = "ROLLED_BACK"
    BY <1>4, <1>r DEF RestoreVerify, RecoveryProgress
  <2>3. rec'.phase = "decided" /\ rec'.txn = rec.txn /\ rec'.verdict = rec.verdict /\ rec'.queue = rec.queue
    BY <1>4, <1>r DEF RestoreVerify, RecoveryRecord
  <2>4. AllBefore(journal[rec.txn].by)
    <3>1. \A d \in plan[journal[rec.txn].by].scope : BeforeEntry(rec.txn, d) \/ d \in Entries(rec.txn)
      BY <2>2 DEF AtomicInv, UnresolvedIsMixed
    <3> QED BY <1>4, <3>1 DEF RestoreVerify, AllBefore, BeforeEntry
  <2>5. AllBefore(journal[rec.txn].by)'
    BY <2>1, <2>3, <2>4 DEF AllBefore
  <2> QED BY <1>4, <1>m, <1>r, <2>1, <2>2, <2>3, <2>5 DEF RecoveryProgress, RestoreVerify
<1>5. CASE RecoverAdvance
  <2>1. RecoveryMoves /\ Pending' = Pending /\ UNCHANGED <<docs, journal, plan>>
    BY <1>5 DEF RecoverAdvance, RecoveryMoves, Pending, IsPrepared
  <2>2. rec'.phase = "advanced" /\ rec'.txn = rec.txn /\ rec'.verdict = rec.verdict /\ rec'.queue = rec.queue
    BY <1>5, <1>r DEF RecoverAdvance, RecoveryRecord
  <2> QED BY <1>5, <1>m, <1>r, <2>1, <2>2 DEF RecoveryProgress, RecoverAdvance, AllBefore, AllAfter
<1>6. CASE RecoverMark
  <2>1. rec.txn \in Pending /\ rec.txn \in Txn /\ rec.verdict \in {"COMMITTED", "ROLLED_BACK"}
    BY <1>6, <1>r DEF RecoverMark, RecoveryProgress, Pending
  <2>2. Settles(rec.txn, rec.verdict)
    BY <1>6, <1>r, <2>1 DEF RecoverMark, RecoveryProgress, Settles
  <2> QED BY <1>0, <2>1, <2>2, SettleKeepsInvariant DEF Good, Step, JournalState
<1>7. CASE RecoverReturn \/ RecoverFails
  BY <1>e, <1>7 DEF RecoverReturn, RecoverFails, RecoverEnd, RecoveryMoves
<1> QED BY <1>1, <1>2, <1>3, <1>4, <1>5, <1>6, <1>7 DEF Recover

(* Every step keeps the invariant and is one of Step.                       *)
LEMMA EveryStep ==
    ASSUME AtomicInv, [Next]_vars
    PROVE  Good
<1>1. ASSUME NEW a \in Attempt,
             Build(a) \/ Begin(a) \/ Forward(a) \/ Backward(a) \/ Failure(a)
      PROVE  Good
  BY <1>1, ForwardSteps, BackwardSteps
<1>2. CASE RecoverBegin \/ Recover \/ RecoverFails
  BY <1>2, RecoverySteps
<1>3. ASSUME NEW t \in Txn, Discard(t) PROVE Good
  BY <1>3, DiscardKeepsInvariant DEF Good, Step
<1>4. ASSUME NEW r \in Reader, Read(r) PROVE Good
  <2>1. Quiet
    BY <1>4 DEF Quiet, Read, ReadBegin, ReadJournal, ReadDocument, ReadEnd, ReadOver, Reads, disk
  <2> QED BY <1>4, <2>1, ReadKeepsInvariant DEF Good, Step
<1>5. CASE UNCHANGED vars
  <2>1. Quiet
    BY <1>5 DEF vars, disk, Quiet
  <2>2. Pending' = Pending /\ Applied' = Applied
    BY <1>5 DEF vars, disk, Pending, IsPrepared, Applied
  <2>3. UNCHANGED <<docs, journal, generation, lock, phase, plan, todo, rec, reader, log, faults>>
    BY <1>5 DEF vars, disk
  <2>4. TypeOK' /\ ReadersWalk' /\ PlansMakeSense' /\ ContentIsNew'
    BY <2>3 DEF AtomicInv, TypeOK, LockHeld, ReadersWalk, PlansMakeSense, ContentIsNew
  <2>5. JournalsHaveAuthors' /\ OneUnresolved' /\ UnresolvedIsMixed'
    BY <2>2, <2>3 DEF AtomicInv, JournalsHaveAuthors, OneUnresolved, UnresolvedIsMixed,
                      BeforeEntry, AfterEntry, Entries
  <2>6. AttemptProgress' /\ RecoveryProgress'
    BY <2>2, <2>3 DEF AtomicInv, AttemptProgress, Progress, RecoveryProgress, Owns,
                      AllBefore, AllAfter, Entries
  <2>7. AppliedIsOver' /\ RolledBackStays'
    BY <2>2, <2>3 DEF AtomicInv, AppliedIsOver, RolledBackStays, Told, Owns, AllBefore
  <2> QED BY <2>1, <2>4, <2>5, <2>6, <2>7 DEF Good, Step, AtomicInv
<1> QED BY <1>1, <1>2, <1>3, <1>4, <1>5 DEF Next

(* AtomicInv is an invariant.                                               *)
THEOREM AtomicInvariant == Spec => []AtomicInv
<1>1. AtomicInv /\ [Next]_vars => AtomicInv'
  BY EveryStep DEF Good
<1> QED BY InvariantInit, <1>1, PTL DEF Spec

(* Types, and the lock is held by exactly who is at work in commit or in    *)
(* recover_pending, on every error path.                                    *)
THEOREM TypeCorrect == Spec => []TypeOK
<1>1. AtomicInv => TypeOK
  BY DEF AtomicInv
<1> QED BY <1>1, AtomicInvariant, PTL

(* recover_pending never meets an "unknown later document state", and never *)
(* more than one PREPARED transaction, wherever commits, rollbacks and      *)
(* earlier recoveries were cut off.                                         *)
THEOREM TransactionsAreRecoverable == Spec => []AlwaysRecoverable
<1>1. AtomicInv => AlwaysRecoverable
  <2> SUFFICES ASSUME AtomicInv, NEW t \in Pending
               PROVE  Restorable(t) /\ \A u \in Pending : u = t
    BY DEF AlwaysRecoverable
  <2>1. Entries(t) \subseteq plan[journal[t].by].scope
    BY PendingHasAuthor DEF AtomicInv, PlansMakeSense, Entries
  <2>2. Restorable(t)
    BY <2>1 DEF Restorable, AtomicInv, UnresolvedIsMixed
  <2> QED BY <2>2 DEF AtomicInv, OneUnresolved
<1> QED BY <1>1, AtomicInvariant, PTL

(* What commit returned or raised stays true: nothing that was reported as  *)
(* refused or rolled back is resurrected by a recovery.                     *)
THEOREM OutcomesAreTrue == Spec => []OutcomeIsTrue
<1>1. AtomicInv => OutcomeIsTrue
  <2> SUFFICES ASSUME AtomicInv, NEW a \in Attempt
               PROVE  /\ phase[a] = "committed" => a \in Applied
                      /\ phase[a] \in {"refused", "rolledback"} /\ plan[a].changed # {}
                           => a \notin Applied
    BY DEF OutcomeIsTrue
  <2> QED BY DEF AtomicInv, AppliedIsOver, RolledBackStays, Told
<1> QED BY <1>1, AtomicInvariant, PTL

(***************************************************************************)
(* Refinement.                                                             *)
(***************************************************************************)

Proposals ==
    {[by |-> a, scope |-> plan[a].scope, changed |-> plan[a].changed,
      before |-> plan[a].before, after |-> plan[a].after] :
        a \in {b \in Attempt : phase[b] # "new"}}

(* What _overlay_prepared shows: the documents, but those of the unresolved *)
(* transaction as they were.                                                *)
ViewFact ==
    /\ Pending = {} => View = docs
    /\ \A t \in Pending :
         View = [d \in Doc |-> IF d \in Entries(t) THEN plan[journal[t].by].before[d]
                                                  ELSE docs[d]]

(* The overlay is what ViewFact says.                                       *)
LEMMA ViewOfDocuments == AtomicInv => ViewFact
<1> SUFFICES ASSUME AtomicInv PROVE ViewFact
  OBVIOUS
<1>1. docs \in [Doc -> Content]
  BY DEF AtomicInv, TypeOK
<1>2. ASSUME Pending = {} PROVE View = docs
  BY <1>1, <1>2 DEF View
<1>3. ASSUME NEW t \in Pending
      PROVE  View = [d \in Doc |-> IF d \in Entries(t) THEN plan[journal[t].by].before[d]
                                                        ELSE docs[d]]
  <2>1. \A u \in Pending : u = t
    BY DEF AtomicInv, OneUnresolved
  <2>2. \A d \in Doc : (\E u \in Pending : d \in plan[journal[u].by].changed) <=> d \in Entries(t)
    BY <2>1 DEF Entries
  <2>3. ASSUME NEW d \in Doc, d \in Entries(t)
        PROVE  (CHOOSE u \in Pending : d \in plan[journal[u].by].changed) = t
    <3>1. \E u \in Pending : d \in plan[journal[u].by].changed
      BY <2>2, <2>3
    <3>2. (CHOOSE u \in Pending : d \in plan[journal[u].by].changed) \in Pending
      BY <3>1
    <3> QED BY <2>1, <3>2
  <2> QED BY <2>2, <2>3 DEF View
<1> QED BY <1>2, <1>3 DEF ViewFact

(* Proposals are made by Build only.                                        *)
LEMMA ProposalsStay ==
    ASSUME UNCHANGED plan, \A a \in Attempt : phase'[a] = "new" <=> phase[a] = "new"
    PROVE  Proposals' = Proposals
BY DEF Proposals

(* Every such step is a step of AtomicStore, or none.                       *)
LEMMA StepRefines ==
    ASSUME AtomicInv, AtomicInv', Step
    PROVE  [Store!Next]_(Store!vars)
<1> DEFINE stutter == View' = View /\ Proposals' = Proposals /\ Applied' = Applied
<1>v. ViewFact
  BY ViewOfDocuments
<1>w. ViewFact'
  BY ViewOfDocuments, PTL
<1>t. docs \in [Doc -> Content] /\ phase \in [Attempt -> AttemptPhase]
  BY DEF AtomicInv, TypeOK
<1>s. stutter => [Store!Next]_(Store!vars)
  BY DEF Store!vars, Proposals
<1> HIDE DEF stutter
<1>1. CASE Quiet
  <2>1. View' = View /\ Applied' = Applied
    BY <1>1 DEF Quiet, View, Pending, IsPrepared, Applied
  <2> QED BY <1>1, <1>s, <2>1, ProposalsStay DEF Quiet, stutter
<1>2. ASSUME NEW a \in Attempt, Build(a) PROVE [Store!Next]_(Store!vars)
  <2>1. /\ phase[a] = "new" /\ phase' = [phase EXCEPT ![a] = "planned"]
        /\ \A b \in Attempt \ {a} : plan'[b] = plan[b]
        /\ UNCHANGED <<docs, journal, log>>
    BY <1>2 DEF Build, disk, AtomicInv, TypeOK
  <2>2. Pending' = Pending /\ Applied' = Applied
    BY <2>1 DEF Pending, IsPrepared, Applied
  <2>3. View' = View
    <3>1. CASE Pending = {}
      BY <1>v, <1>w, <2>1, <2>2, <3>1 DEF ViewFact
    <3>2. ASSUME NEW t \in Pending PROVE View' = View
      <4>1. journal[t].by \in Attempt \ {a}
        BY <2>1, PendingHasAuthor
      <4> QED BY <1>v, <1>w, <2>1, <2>2, <4>1 DEF ViewFact, Entries
    <3> QED BY <3>1, <3>2
  <2>4. Proposals \subseteq Proposals'
    BY <1>t, <2>1 DEF Proposals
  <2>5. /\ Proposals' \subseteq [by: Attempt, scope: SUBSET Doc, changed: SUBSET Doc,
                                 before: [Doc -> Content], after: [Doc -> Content]]
        /\ \A p \in Proposals' : p.changed \subseteq p.scope
    BY DEF Proposals, AtomicInv, TypeOK, Plan, PlansMakeSense
  <2>6. Store!Propose
    BY <2>2, <2>3, <2>4, <2>5 DEF Store!Propose, Store!Proposal, Proposals
  <2> QED BY <2>6 DEF Store!Next
<1>3. ASSUME NEW t \in Txn, NEW d \in Doc, Writes(t, d) PROVE stutter
  <2>1. /\ t \in Pending /\ d \in Entries(t) /\ UNCHANGED <<journal, phase, plan, log>>
        /\ \A e \in Doc \ {d} : docs'[e] = docs[e]
    BY <1>3, <1>t DEF Writes
  <2>2. Pending' = Pending /\ Applied' = Applied
    BY <2>1 DEF Pending, IsPrepared, Applied
  <2>3. View' = View
    BY <1>v, <1>w, <2>1, <2>2 DEF ViewFact, Entries
  <2> QED BY <2>1, <2>2, <2>3, ProposalsStay DEF stutter
<1>4. ASSUME NEW a \in Attempt, NEW next \in AttemptPhase, Opens(a, next) PROVE stutter
  <2>1. plan[a].txn \in Txn /\ Pending = {} /\ AllBefore(a) /\ plan[a].changed \subseteq plan[a].scope
    BY <1>4 DEF Opens, AtomicInv, PlansMakeSense, AttemptProgress, Progress
  <2>2. UNCHANGED <<docs, plan, log>> /\ plan[a].txn \in Pending' /\ journal'[plan[a].txn].by = a
    BY <1>4, <2>1 DEF Opens, AtomicInv, TypeOK, Pending, IsPrepared
  <2>3. View = docs
    BY <1>v, <2>1 DEF ViewFact
  <2>4. View' = [d \in Doc |-> IF d \in plan[a].changed THEN plan[a].before[d] ELSE docs[d]]
    BY <1>w, <2>2 DEF ViewFact, Entries
  <2>5. View' = View
    BY <1>t, <2>1, <2>3, <2>4 DEF AllBefore
  <2>6. Proposals' = Proposals
    BY <1>4, <1>t, <2>2, ProposalsStay DEF Opens
  <2> QED BY <2>2, <2>5, <2>6 DEF stutter, Applied
<1>5. ASSUME NEW t \in Txn, NEW verdict \in JournalState, Settles(t, verdict)
      PROVE  [Store!Next]_(Store!vars)
  <2> DEFINE o == journal[t].by
             p == [by |-> o, scope |-> plan[o].scope, changed |-> plan[o].changed,
                   before |-> plan[o].before, after |-> plan[o].after]
  <2>1. /\ t \in Pending /\ o \in Attempt /\ phase[o] # "new" /\ Owns(o)
        /\ UNCHANGED <<docs, plan>>
    BY <1>5, PendingHasAuthor DEF Settles
  <2>2. /\ plan[o].changed \subseteq plan[o].scope /\ o \notin Applied
        /\ \A d \in Doc : d \in plan[o].scope \ plan[o].changed => docs[d] = plan[o].before[d]
    BY <2>1 DEF AtomicInv, PlansMakeSense, AppliedIsOver, UnresolvedIsMixed, BeforeEntry, Entries
  <2>3. Pending' = {}
    <3>1. DOMAIN journal = Txn /\ \A u \in Pending : u = t
      BY <2>1 DEF AtomicInv, TypeOK, OneUnresolved
    <3>2. /\ \A u \in Txn \ {t} : journal'[u] = journal[u]
          /\ journal'[t].state # "PREPARED"
      BY <1>5, <3>1 DEF Settles, Commits, AtomicInv, TypeOK, JournalRecord
    <3> QED BY <3>1, <3>2 DEF Pending, IsPrepared
  <2>4. View' = docs
    BY <1>w, <2>1, <2>3 DEF ViewFact
  <2>5. View = [d \in Doc |-> IF d \in plan[o].changed THEN plan[o].before[d] ELSE docs[d]]
    BY <1>v, <2>1 DEF ViewFact, Entries
  <2>6. Proposals' = Proposals
    BY <1>5, <1>t, <2>1, ProposalsStay DEF Settles
  <2>7. CASE verdict = "COMMITTED"
    <3>1. Applied' = Applied \cup {o} /\ AllAfter(o)
      BY <1>5, <2>7, MarkTypes DEF Settles
    <3>2. p \in Proposals
      BY <2>1 DEF Proposals
    <3>3. plan[o].scope \subseteq Doc
      BY <2>1 DEF AtomicInv, TypeOK, Plan
    <3>4. \A d \in plan[o].scope : View[d] = plan[o].before[d]
      BY <2>2, <2>5, <3>3
    <3>5. View' = [d \in Doc |-> IF d \in plan[o].changed THEN plan[o].after[d] ELSE View[d]]
      BY <1>t, <2>2, <2>4, <2>5, <3>1, <3>3 DEF AllAfter
    <3>6. Store!Commit(p)
      BY <2>2, <2>6, <3>1, <3>4, <3>5 DEF Store!Commit, Proposals
    <3> HIDE DEF p
    <3> QED BY <3>2, <3>6 DEF Store!Next, Proposals
  <2>8. CASE verdict # "COMMITTED"
    <3>1. AllBefore(o) /\ UNCHANGED log
      BY <1>5, <2>8 DEF Settles
    <3>2. View' = View
      BY <1>t, <2>2, <2>4, <2>5, <3>1 DEF AllBefore
    <3> QED BY <1>s, <2>6, <3>1, <3>2 DEF stutter, Applied
  <2> QED BY <2>7, <2>8
<1>6. ASSUME NEW t \in Txn, Discard(t) PROVE stutter
  <2>1. UNCHANGED <<docs, phase, plan, log>> /\ \A u \in Txn \ {t} : journal'[u] = journal[u]
    BY <1>6 DEF Discard, AtomicInv, TypeOK
  <2>2. t \notin Pending /\ Pending' = Pending /\ Applied' = Applied
    BY <1>6, <2>1 DEF Discard, Pending, IsPrepared, NoRecord, Applied, AtomicInv, TypeOK
  <2>3. View' = View
    <3>1. CASE Pending = {}
      BY <1>v, <1>w, <2>1, <2>2, <3>1 DEF ViewFact
    <3>2. ASSUME NEW u \in Pending PROVE View' = View
      <4>1. journal'[u] = journal[u]
        BY <2>1, <2>2 DEF Pending
      <4> QED BY <1>v, <1>w, <2>1, <2>2, <4>1 DEF ViewFact, Entries
    <3> QED BY <3>1, <3>2
  <2> QED BY <2>1, <2>2, <2>3, ProposalsStay DEF stutter
<1> QED BY <1>1, <1>2, <1>3, <1>4, <1>5, <1>6, <1>s DEF Step

(* MemoryCommitTransaction implements AtomicStore: whatever cuts a commit,  *)
(* a rollback or a recovery, what a public reader may be shown changes only *)
(* as a whole, over a read set that is still current, once per attempt.     *)
THEOREM CommitsAreAtomic == Spec => CommitsAtomically
<1>1. Init => Store!Init
  <2> SUFFICES ASSUME Init PROVE Store!Init
    OBVIOUS
  <2>1. AtomicInv /\ Pending = {} /\ Applied = {} /\ docs \in [Doc -> Content]
    <3>1. AtomicInv
      BY InvariantInit
    <3>2. Pending = {} /\ Applied = {}
      BY DEF Init, Pending, IsPrepared, NoRecord, Applied
    <3> QED BY <3>1, <3>2 DEF AtomicInv, TypeOK
  <2>2. View = docs
    BY <2>1, ViewOfDocuments DEF ViewFact
  <2>3. Proposals = {}
    BY DEF Init, Proposals
  <2> QED BY <2>1, <2>2, <2>3 DEF Store!Init, Proposals
<1>2. AtomicInv /\ [Next]_vars => [Store!Next]_(Store!vars)
  BY EveryStep, StepRefines DEF Good
<1> QED BY <1>1, <1>2, AtomicInvariant, PTL DEF Spec, CommitsAtomically, Store!Spec

(***************************************************************************)
(* Readers.                                                                *)
(***************************************************************************)

(* a got past its checks.                                                   *)
Past(a) == phase[a] \notin {"new", "planned", "checked", "refused"}

(* The next durable write of a, or of the recovery for a, settles its       *)
(* journal: the generation was advanced for it.                             *)
Settling(a) ==
    \/ phase[a] \in {"advanced", "undoAdvanced"}
    \/ rec.phase = "advanced" /\ journal[rec.txn].by = a

(* What the overlay shows is the last committed state.                      *)
Current == log[Len(log)].state
LogIsView == View = Current

(* The second look at the generation can still succeed.                     *)
Live(r) == reader[r].gen = generation

Behind(r) ==
    /\ reader[r].gen <= generation
    /\ reader[r].from \in 1..Len(log)
    /\ \A a \in reader[r].first \cup reader[r].second : Past(a)
    /\ reader[r].phase \in {"before", "reading"} => reader[r].second = {}

(* Who is about to settle a journal advanced the generation before the      *)
(* reader began: the reader has seen that journal, or is going to.          *)
SettlingSeen(r) ==
    Live(r) /\ reader[r].phase \in {"before", "reading", "after"} =>
      \A t \in Pending : Settling(journal[t].by) =>
        \/ journal[t].by \in reader[r].first
        \/ reader[r].phase = "before" /\ t \in reader[r].left

(* The two looks at the journals will differ: one that was seen is settled  *)
(* and was not seen again, or one that was not seen is open and will be.    *)
Doomed(r) ==
    \/ \E a \in reader[r].first : ~Owns(a) /\ a \notin reader[r].second
    \/ \E a \in reader[r].second : a \notin reader[r].first
    \/ \E t \in Pending :
          /\ journal[t].by \notin reader[r].first
          /\ ~Settling(journal[t].by)
          /\ reader[r].phase = "reading" \/ t \in reader[r].left

ReadingCurrent(r) ==
    reader[r].phase = "reading" /\ Live(r) /\ ~Doomed(r) =>
      \A d \in Doc \ reader[r].left : Overlaid(r)[d] = Current[d]

AfterCommitted(r) ==
    reader[r].phase = "after" /\ Live(r) /\ ~Doomed(r) =>
      \E i \in reader[r].from..Len(log) : Overlaid(r) = log[i].state

DoneCommitted(r) ==
    reader[r].phase = "done" =>
      \E i \in reader[r].from..Len(log) : log[i].state = reader[r].got

ReaderFollows(r) ==
    /\ Behind(r)
    /\ SettlingSeen(r)
    /\ ReadingCurrent(r)
    /\ AfterCommitted(r)
    /\ DoneCommitted(r)

ReadInv ==
    /\ LogIsView
    /\ \A r \in Reader : ReaderFollows(r)

(* The invariant holds before the first commit.                             *)
LEMMA ReadInit == Init => ReadInv
<1> SUFFICES ASSUME Init PROVE ReadInv
  OBVIOUS
<1>1. AtomicInv
  BY InvariantInit
<1>2. Pending = {} /\ Len(log) = 1 /\ log[1].state = docs
  BY DEF Init, Pending, IsPrepared, NoRecord
<1>3. LogIsView
  BY <1>1, <1>2, ViewOfDocuments DEF ViewFact, LogIsView, Current
<1>4. ASSUME NEW r \in Reader PROVE ReaderFollows(r)
  BY <1>2 DEF Init, ReaderFollows, Behind, SettlingSeen, ReadingCurrent, AfterCommitted, DoneCommitted
<1> QED BY <1>3, <1>4 DEF ReadInv

(* Nobody comes to the brink of settling but by advancing the generation.   *)
Goes ==
    /\ generation' \in {generation, generation + 1}
    /\ \A a \in Attempt : Past(a) => Past(a)'
    /\ generation' = generation =>
         /\ \A a \in Attempt : phase'[a] \in {"advanced", "undoAdvanced"} => phase'[a] = phase[a]
         /\ rec'.phase = "advanced" => rec' = rec

(* advance_visibility_generation comes before every mark.                   *)
LEMMA EveryStepGoes ==
    ASSUME AtomicInv, [Next]_vars
    PROVE  Goes
<1> USE DEF Goes, Past
<1>0. phase \in [Attempt -> AttemptPhase] /\ generation \in Nat /\ rec \in RecoveryRecord
  BY DEF AtomicInv, TypeOK
<1>1. ASSUME NEW a \in Attempt, Build(a) \/ Begin(a) PROVE Goes
  BY <1>0, <1>1 DEF Build, Begin, Enter, disk
<1>2. ASSUME NEW a \in Attempt, Forward(a) PROVE Goes
  BY <1>0, <1>2 DEF Forward, Prepare, Publish, Verify, Advance, Mark, Return, Enter, Leave, disk
<1>3. ASSUME NEW a \in Attempt, Backward(a) PROVE Goes
  BY <1>0, <1>3 DEF Backward, Undo, UndoVerify, UndoAdvance, UndoMark, Enter, Leave, disk
<1>4. ASSUME NEW a \in Attempt, Failure(a) PROVE Goes
  BY <1>0, <1>4 DEF Failure, PrepareFails, PublishFails, FinishFails, UndoFails, UndoMarkFails,
                    Crash, Enter, Leave, disk, Working
<1>5. CASE RecoverBegin \/ RecoverFails
  <2>1. UNCHANGED <<generation, phase>> /\ rec'.phase \in {"next", "idle"}
    <3>1. CASE RecoverBegin
      BY <3>1 DEF RecoverBegin, NoRecovery, disk
    <3>2. CASE RecoverFails
      BY <3>2 DEF RecoverFails, RecoverEnd, NoRecovery, disk
    <3> QED BY <1>5, <3>1, <3>2
  <2> QED BY <1>0, <2>1
<1>6. CASE RecoverInspect
  <2>1. UNCHANGED <<generation, phase>>
    BY <1>6 DEF RecoverInspect, disk
  <2>2. PICK t \in rec.queue :
          \/ rec' = [rec EXCEPT !.phase = "decided", !.txn = t, !.verdict = "COMMITTED"]
          \/ rec' = [rec EXCEPT !.phase = "restoring", !.txn = t, !.verdict = "ROLLED_BACK"]
          \/ rec' = NoRecovery
    BY <1>6 DEF RecoverInspect, RecoverEnd
  <2>3. rec'.phase # "advanced"
    <3>1. CASE rec' = [rec EXCEPT !.phase = "decided", !.txn = t, !.verdict = "COMMITTED"]
      BY <1>0, <3>1 DEF RecoveryRecord
    <3>2. CASE rec' = [rec EXCEPT !.phase = "restoring", !.txn = t, !.verdict = "ROLLED_BACK"]
      BY <1>0, <3>2 DEF RecoveryRecord
    <3> QED BY <2>2, <3>1, <3>2 DEF NoRecovery
  <2> QED BY <1>0, <2>1, <2>3
<1>7. CASE Restore \/ RestoreVerify \/ RecoverAdvance \/ RecoverReturn
  BY <1>0, <1>7 DEF Restore, RestoreVerify, RecoverAdvance, RecoverReturn, RecoverEnd, NoRecovery,
                    disk, RecoveryRecord
<1>8. CASE RecoverMark
  <2>1. UNCHANGED <<generation, phase>> /\ rec'.phase # "advanced"
    BY <1>8 DEF RecoverMark, NoRecovery
  <2> QED BY <1>0, <2>1
<1>9. ASSUME NEW t \in Txn, Discard(t) PROVE Goes
  BY <1>0, <1>9 DEF Discard
<1>10. ASSUME NEW r \in Reader, Read(r) PROVE Goes
  BY <1>0, <1>10 DEF Read, ReadBegin, ReadJournal, ReadDocument, ReadEnd, ReadOver, Reads, disk
<1>11. CASE UNCHANGED vars
  BY <1>0, <1>11 DEF vars, disk
<1> QED BY <1>1, <1>2, <1>3, <1>4, <1>5, <1>6, <1>7, <1>8, <1>9, <1>10, <1>11 DEF Next, Recover

(* What a step does to those who read meanwhile.                            *)
Around ==
    /\ generation' \in {generation, generation + 1}
    /\ Len(log) <= Len(log') /\ \A i \in 1..Len(log) : log'[i] = log[i]
    /\ \A a \in Attempt : Past(a) =>
         Past(a)' /\ plan'[a] = plan[a] /\ (Owns(a)' => Owns(a))
    /\ generation' = generation =>
         /\ \A t \in Pending' : Settling(journal[t].by)' =>
              t \in Pending /\ journal'[t] = journal[t] /\ Settling(journal[t].by)
         /\ \A t \in Pending :
              (t \in Pending' /\ journal'[t] = journal[t]) \/ Settling(journal[t].by)
    /\ \/ Current' = Current
       \/ \E t \in Pending, a \in Attempt :
            journal[t].by = a /\ Settling(a) /\ ~Owns(a)'

(* Settling(a) in the next state, for the a one has in mind.                *)
LEMMA SettlingNext ==
    ASSUME Goes, generation' = generation, NEW a \in Attempt,
           phase'[a] \in {"advanced", "undoAdvanced"}
             \/ (rec'.phase = "advanced" /\ journal'[rec'.txn].by = a)
    PROVE  \/ phase[a] \in {"advanced", "undoAdvanced"}
           \/ rec.phase = "advanced" /\ journal'[rec.txn].by = a /\ rec' = rec
BY DEF Goes

(* Every step but a reader's own leaves it what it has, or dooms it.        *)
LEMMA StepsAround ==
    ASSUME AtomicInv, AtomicInv', Step, Goes
    PROVE  Around
<1>0. /\ generation' \in {generation, generation + 1}
      /\ \A a \in Attempt : Past(a) => Past(a)'
      /\ Len(log) \in Nat
  BY DEF Goes, AtomicInv, TypeOK
<1>n. \A a \in Attempt : generation' = generation /\ Settling(a)' =>
         \/ phase[a] \in {"advanced", "undoAdvanced"}
         \/ rec.phase = "advanced" /\ journal'[rec.txn].by = a /\ rec' = rec
  BY SettlingNext DEF Settling
<1>1. ASSUME UNCHANGED <<journal, log>>, \A a \in Attempt : Past(a) => plan'[a] = plan[a]
      PROVE  Around
  <2>1. Pending' = Pending /\ Current' = Current
    BY <1>1 DEF Pending, IsPrepared, Current
  <2>2. \A a \in Attempt : Past(a) => (Owns(a)' => Owns(a))
    BY <1>1 DEF Owns
  <2>3. ASSUME generation' = generation, NEW t \in Pending, Settling(journal[t].by)'
        PROVE  Settling(journal[t].by)
    <3>1. journal'[t].by = journal[t].by /\ journal[t].by \in Attempt
      BY <1>1, PendingHasAuthor
    <3> QED BY <1>1, <1>n, <2>3, <3>1 DEF Settling
  <2> QED BY <1>0, <1>1, <2>1, <2>2, <2>3 DEF Around
<1>2. CASE Quiet
  BY <1>1, <1>2 DEF Quiet
<1>3. ASSUME NEW a \in Attempt, Build(a) PROVE Around
  BY <1>1, <1>3 DEF Build, disk, Past, AtomicInv, TypeOK
<1>4. ASSUME NEW t \in Txn, NEW d \in Doc, Writes(t, d) PROVE Around
  BY <1>1, <1>4 DEF Writes
<1>5. ASSUME NEW a \in Attempt, NEW next \in AttemptPhase, Opens(a, next) PROVE Around
  <2>1. UNCHANGED <<plan, log>> /\ Current' = Current /\ phase[a] = "checked"
    BY <1>5 DEF Opens, Current
  <2>2. Pending = {} /\ plan[a].txn \in Txn /\ rec.phase = "idle"
    BY <2>1, Alone DEF AtomicInv, AttemptProgress, Progress, PlansMakeSense, Working
  <2>3. \A u \in Txn : journal'[u] = IF u = plan[a].txn THEN [state |-> "PREPARED", by |-> a]
                                                       ELSE journal[u]
    BY <1>5 DEF Opens, AtomicInv, TypeOK
  <2>4. \A b \in Attempt : Past(b) => (Owns(b)' => Owns(b))
    BY <2>1, <2>3 DEF Owns, Past
  <2>5. ASSUME generation' = generation, NEW t \in Pending', Settling(journal[t].by)'
        PROVE  FALSE
    <3>1. t = plan[a].txn /\ journal'[t].by = a
      BY <2>2, <2>3 DEF Pending, IsPrepared
    <3> QED BY <1>n, <2>1, <2>2, <2>5, <3>1
  <2> QED BY <1>0, <2>1, <2>2, <2>4, <2>5 DEF Around
<1>6. ASSUME NEW t \in Txn, NEW verdict \in JournalState, Settles(t, verdict) PROVE Around
  <2> DEFINE o == journal[t].by
  <2>1. /\ t \in Pending /\ o \in Attempt /\ Settling(o) /\ UNCHANGED plan
        /\ verdict \in {"COMMITTED", "ROLLED_BACK"}
    BY <1>6, PendingHasAuthor DEF Settles, Settling
  <2>2. Pending = {t} /\ Pending' = {} /\ \A b \in Attempt : ~Owns(b)'
    <3>1. DOMAIN journal = Txn /\ \A u \in Pending : u = t
      BY <2>1 DEF AtomicInv, TypeOK, OneUnresolved
    <3>2. /\ \A u \in Txn \ {t} : journal'[u] = journal[u]
          /\ journal'[t].state # "PREPARED"
      BY <1>6, <3>1 DEF Settles, Commits, AtomicInv, TypeOK, JournalRecord
    <3>3. Pending' = {}
      BY <3>1, <3>2 DEF Pending, IsPrepared
    <3> QED BY <2>1, <3>1, <3>3 DEF Owns, Pending, IsPrepared
  <2>3. Len(log) <= Len(log') /\ \A i \in 1..Len(log) : log'[i] = log[i]
    <3>1. CASE verdict = "COMMITTED"
      BY <1>6, <3>1 DEF Settles, Commits, AtomicInv, TypeOK
    <3>2. CASE verdict = "ROLLED_BACK"
      BY <1>0, <1>6, <3>2 DEF Settles
    <3> QED BY <2>1, <3>1, <3>2
  <2> QED BY <1>0, <2>1, <2>2, <2>3 DEF Around
<1>7. ASSUME NEW t \in Txn, Discard(t) PROVE Around
  <2>1. UNCHANGED <<plan, log, phase, rec>> /\ Current' = Current
    BY <1>7 DEF Discard, Current
  <2>2. \A u \in Txn : journal'[u] = IF u = t THEN NoRecord ELSE journal[u]
    BY <1>7 DEF Discard, AtomicInv, TypeOK
  <2>3. t \notin Pending /\ Pending' = Pending
    BY <1>7, <2>2 DEF Discard, Pending, IsPrepared, NoRecord
  <2>4. \A u \in Pending : journal'[u] = journal[u] /\ journal[u].by \in Attempt
    BY <2>2, <2>3, PendingHasAuthor
  <2>5. \A b \in Attempt : Past(b) => (Owns(b)' => Owns(b))
    BY <2>1, <2>2 DEF Owns, NoRecord
  <2>6. ASSUME generation' = generation, NEW u \in Pending, Settling(journal[u].by)'
        PROVE  Settling(journal[u].by)
    <3>1. journal'[u].by = journal[u].by /\ journal[u].by \in Attempt
      BY <2>4
    <3>2. rec.phase = "advanced" => journal'[rec.txn] = journal[rec.txn]
      BY <2>4 DEF AtomicInv, RecoveryProgress
    <3> QED BY <1>n, <2>6, <3>1, <3>2 DEF Settling
  <2> QED BY <1>0, <2>1, <2>3, <2>4, <2>5, <2>6 DEF Around
<1> QED BY <1>2, <1>3, <1>4, <1>5, <1>6, <1>7 DEF Step

(* The overlay of what a reader has seen does not change: plans are fixed.  *)
LEMMA OverlayStays ==
    ASSUME AtomicInv, Around, NEW r \in Reader, reader'[r] = reader[r], Behind(r)
    PROVE  Overlaid(r)' = Overlaid(r)
<1>1. reader[r].first \subseteq Attempt
  BY DEF AtomicInv, TypeOK, ReaderRecord
<1>2. \A a \in reader[r].first : plan'[a] = plan[a]
  BY <1>1 DEF Behind, Around
<1>3. ASSUME NEW d \in Doc
      PROVE  /\ (\E a \in reader[r].first : d \in plan'[a].changed)
                  <=> (\E a \in reader[r].first : d \in plan[a].changed)
             /\ (CHOOSE a \in reader[r].first : d \in plan'[a].changed)
                  = (CHOOSE a \in reader[r].first : d \in plan[a].changed)
  <2>1. \A a : a \in reader[r].first /\ d \in plan'[a].changed
               <=> a \in reader[r].first /\ d \in plan[a].changed
    BY <1>2
  <2>2. (CHOOSE a : a \in reader[r].first /\ d \in plan'[a].changed)
          = (CHOOSE a : a \in reader[r].first /\ d \in plan[a].changed)
    BY <2>1, Zenon
  <2> QED BY <2>1, <2>2
<1>4. ASSUME NEW d \in Doc, \E a \in reader[r].first : d \in plan[a].changed
      PROVE  (CHOOSE a \in reader[r].first : d \in plan[a].changed) \in reader[r].first
  BY <1>4
<1>5. \A d \in Doc : Overlaid(r)'[d] = Overlaid(r)[d]
  <2> SUFFICES ASSUME NEW d \in Doc PROVE Overlaid(r)'[d] = Overlaid(r)[d]
    OBVIOUS
  <2> DEFINE c == CHOOSE a \in reader[r].first : d \in plan[a].changed
  <2>1. Overlaid(r)[d] = IF \E a \in reader[r].first : d \in plan[a].changed
                           THEN plan[c].before[d] ELSE reader[r].got[d]
    BY DEF Overlaid
  <2>2. Overlaid(r)'[d] = IF \E a \in reader[r].first : d \in plan'[a].changed
                           THEN plan'[CHOOSE a \in reader[r].first : d \in plan'[a].changed].before[d]
                           ELSE reader[r].got[d]
    BY DEF Overlaid
  <2>3. (CHOOSE a \in reader[r].first : d \in plan'[a].changed) = c
    BY <1>3
  <2>4. (\E a \in reader[r].first : d \in plan[a].changed) => c \in reader[r].first
    BY <1>4
  <2> HIDE DEF c
  <2> QED BY <1>2, <1>3, <2>1, <2>2, <2>3, <2>4
<1> QED BY <1>5 DEF Overlaid

(* While a reader that is not doomed reads documents, those it has seen     *)
(* unresolved are those that are, and its overlay of a document read now is *)
(* the committed one.                                                       *)
LEMMA OverlayIsCurrent ==
    ASSUME AtomicInv, ReadInv, NEW r \in Reader, reader[r].phase = "reading", Live(r),
           ~Doomed(r), NEW d \in Doc
    PROVE  (IF \E a \in reader[r].first : d \in plan[a].changed
              THEN plan[CHOOSE a \in reader[r].first : d \in plan[a].changed].before[d]
              ELSE docs[d]) = Current[d]
<1> DEFINE c == CHOOSE a \in reader[r].first : d \in plan[a].changed
<1>1. Behind(r) /\ SettlingSeen(r) /\ View = Current
  BY DEF ReadInv, ReaderFollows, LogIsView
<1>2. reader[r].first \subseteq Attempt
  BY DEF AtomicInv, TypeOK, ReaderRecord
<1>3. \A a \in reader[r].first : plan[a].txn \in Pending /\ journal[plan[a].txn].by = a
  <2> TAKE a \in reader[r].first
  <2>1. Owns(a)
    BY <1>1 DEF Behind, Doomed
  <2> QED BY <1>2, <2>1, OwnerIsPending
<1>4. \A t \in Pending : journal[t].by \in reader[r].first
  BY <1>1 DEF SettlingSeen, Doomed
<1>5. (\E a \in reader[r].first : d \in plan[a].changed) => c \in reader[r].first
  OBVIOUS
<1>6. CASE Pending = {}
  <2>1. View = docs /\ reader[r].first = {}
    BY <1>3, <1>6, ViewOfDocuments DEF ViewFact
  <2> QED BY <1>1, <2>1
<1>7. ASSUME NEW t \in Pending
      PROVE  (IF \E a \in reader[r].first : d \in plan[a].changed
                THEN plan[c].before[d] ELSE docs[d]) = Current[d]
  <2> DEFINE o == journal[t].by
  <2>1. \A u \in Pending : u = t
    BY DEF AtomicInv, OneUnresolved
  <2>2. o \in reader[r].first /\ \A a \in reader[r].first : a = o
    BY <1>3, <1>4, <2>1
  <2>3. View[d] = IF d \in plan[o].changed THEN plan[o].before[d] ELSE docs[d]
    BY ViewOfDocuments DEF ViewFact, Entries
  <2> HIDE DEF c, o
  <2> QED BY <1>1, <1>5, <2>2, <2>3
<1> QED BY <1>6, <1>7

(* A step that is not the reader's own.                                     *)
LEMMA OthersKeepReader ==
    ASSUME AtomicInv, Around, NEW r \in Reader, reader'[r] = reader[r], ReaderFollows(r)
    PROVE  ReaderFollows(r)'
<1>0. /\ generation \in Nat /\ Len(log) \in Nat /\ Len(log') \in Nat
      /\ reader[r].first \subseteq Attempt /\ reader[r].second \subseteq Attempt
      /\ reader[r].from \in Nat /\ reader[r].gen \in Nat
  <2>1. Len(log') \in Nat
    BY DEF Around
  <2> QED BY <2>1 DEF AtomicInv, TypeOK, ReaderRecord
<1>1. Behind(r) /\ SettlingSeen(r) /\ ReadingCurrent(r) /\ AfterCommitted(r) /\ DoneCommitted(r)
  BY DEF ReaderFollows
<1>2. Overlaid(r)' = Overlaid(r)
  BY <1>1, OverlayStays
<1>3. Behind(r)'
  BY <1>0, <1>1 DEF Behind, Around
<1>4. Live(r)' => Live(r) /\ generation' = generation
  BY <1>0, <1>1 DEF Live, Behind, Around
<1>5. SettlingSeen(r)'
  <2> SUFFICES ASSUME Live(r)', reader[r].phase \in {"before", "reading", "after"},
                      NEW t \in Pending', Settling(journal[t].by)'
               PROVE  \/ journal'[t].by \in reader[r].first
                      \/ reader[r].phase = "before" /\ t \in reader[r].left
    BY DEF SettlingSeen
  <2>1. t \in Pending /\ journal'[t] = journal[t] /\ Settling(journal[t].by)
    BY <1>4 DEF Around
  <2> QED BY <1>1, <1>4, <2>1 DEF SettlingSeen
<1>6. ASSUME Live(r)', reader[r].phase \in {"reading", "after"}, Doomed(r)
      PROVE  Doomed(r)'
  <2>1. CASE \E a \in reader[r].first : ~Owns(a) /\ a \notin reader[r].second
    BY <1>0, <1>1, <2>1 DEF Behind, Around, Doomed
  <2>2. CASE \E a \in reader[r].second : a \notin reader[r].first
    BY <2>2 DEF Doomed
  <2>3. ASSUME NEW t \in Pending, journal[t].by \notin reader[r].first, ~Settling(journal[t].by),
               reader[r].phase = "reading" \/ t \in reader[r].left
        PROVE  Doomed(r)'
    <3>1. t \in Pending' /\ journal'[t] = journal[t] /\ ~Settling(journal[t].by)'
      BY <1>4, <1>6, <2>3 DEF Around
    <3> QED BY <2>3, <3>1 DEF Doomed
  <2> QED BY <1>6, <2>1, <2>2, <2>3 DEF Doomed
<1>7. ReadingCurrent(r)'
  <2> SUFFICES ASSUME reader[r].phase = "reading", Live(r)', ~Doomed(r)'
               PROVE  \A d \in Doc \ reader[r].left : Overlaid(r)[d] = Current'[d]
    BY <1>2 DEF ReadingCurrent
  <2>1. Live(r) /\ ~Doomed(r)
    BY <1>4, <1>6
  <2>2. Current' = Current
    <3> SUFFICES ASSUME NEW t \in Pending, NEW a \in Attempt, journal[t].by = a, Settling(a),
                        ~Owns(a)'
                 PROVE  FALSE
      BY DEF Around
    <3>1. a \in reader[r].first /\ a \notin reader[r].second
      BY <1>1, <2>1 DEF SettlingSeen, Behind
    <3>2. Doomed(r)'
      BY <3>1 DEF Doomed
    <3> QED BY <3>2
  <2> QED BY <1>1, <2>1, <2>2 DEF ReadingCurrent
<1>8. AfterCommitted(r)'
  <2> SUFFICES ASSUME reader[r].phase = "after", Live(r)', ~Doomed(r)'
               PROVE  \E i \in reader[r].from..Len(log') : Overlaid(r) = log'[i].state
    BY <1>2 DEF AfterCommitted
  <2>1. PICK i \in reader[r].from..Len(log) : Overlaid(r) = log[i].state
    BY <1>1, <1>4, <1>6 DEF AfterCommitted
  <2>2. i \in 1..Len(log) /\ i \in reader[r].from..Len(log')
    BY <1>0, <1>1 DEF Behind, Around
  <2> QED BY <2>1, <2>2 DEF Around
<1>9. DoneCommitted(r)'
  <2> SUFFICES ASSUME reader[r].phase = "done"
               PROVE  \E i \in reader[r].from..Len(log') : log'[i].state = reader[r].got
    BY DEF DoneCommitted
  <2>1. PICK i \in reader[r].from..Len(log) : log[i].state = reader[r].got
    BY <1>1 DEF DoneCommitted
  <2>2. i \in 1..Len(log) /\ i \in reader[r].from..Len(log')
    BY <1>0, <1>1 DEF Behind, Around
  <2> QED BY <2>1, <2>2 DEF Around
<1> QED BY <1>3, <1>5, <1>7, <1>8, <1>9 DEF ReaderFollows

(* What the overlay shows is what was committed last.                       *)
LEMMA ViewFollowsLog ==
    ASSUME AtomicInv, AtomicInv', Step, LogIsView
    PROVE  LogIsView'
<1>1. [Store!Next]_(Store!vars)
  BY StepRefines
<1>2. CASE UNCHANGED log
  <2>1. Applied' = Applied
    BY <1>2 DEF Applied
  <2>2. \A p : ~Store!Commit(p)
    BY <2>1 DEF Store!Commit
  <2>3. View' = View
    BY <1>1, <2>2 DEF Store!Next, Store!vars, Store!Propose
  <2> QED BY <1>2, <2>3 DEF LogIsView, Current
<1>3. CASE ~UNCHANGED log
  <2>1. PICK t \in Txn, verdict \in JournalState : Settles(t, verdict)
    BY <1>3 DEF Step, Quiet, Build, Writes, Opens, Discard
  <2>2. t \in Pending /\ verdict = "COMMITTED" /\ Commits(t) /\ UNCHANGED docs
    BY <1>3, <2>1 DEF Settles
  <2>3. Current' = docs
    <3>1. /\ log' # <<>> /\ log' \in Seq(LogEntry)
          /\ \A i \in 1..Len(log') : log'[i].state = IF i = Len(log') THEN docs ELSE log[i].state
      BY <2>2, MarkTypes
    <3> QED BY <3>1 DEF Current
  <2>4. Pending' = {}
    <3>1. DOMAIN journal = Txn /\ \A u \in Pending : u = t
      BY <2>2 DEF AtomicInv, TypeOK, OneUnresolved
    <3>2. /\ \A u \in Txn \ {t} : journal'[u] = journal[u]
          /\ journal'[t].state # "PREPARED"
      BY <2>2, <3>1 DEF Commits, AtomicInv, TypeOK, JournalRecord
    <3> QED BY <3>1, <3>2 DEF Pending, IsPrepared
  <2>5. View' = docs'
    <3>1. ViewFact'
      BY ViewOfDocuments, PTL
    <3> QED BY <2>4, <3>1 DEF ViewFact
  <2> QED BY <2>2, <2>3, <2>5 DEF LogIsView
<1> QED BY <1>2, <1>3

(* A reader's own step changes nothing else.                                *)
LEMMA ReadChangesNothing ==
    ASSUME AtomicInv, NEW r \in Reader, NEW record, Reads(r, record)
    PROVE  /\ reader'[r] = record /\ \A q \in Reader \ {r} : reader'[q] = reader[q]
           /\ UNCHANGED <<docs, journal, generation, phase, plan, rec, log>>
           /\ Pending' = Pending /\ Current' = Current
           /\ \A a : (Owns(a)' <=> Owns(a)) /\ (Past(a)' <=> Past(a)) /\ (Settling(a)' <=> Settling(a))
<1>1. UNCHANGED <<docs, journal, generation, phase, plan, rec, log>>
  BY DEF Reads, disk
<1>2. reader'[r] = record /\ \A q \in Reader \ {r} : reader'[q] = reader[q]
  BY DEF Reads, AtomicInv, TypeOK
<1>3. Pending' = Pending /\ Current' = Current
  BY <1>1 DEF Pending, IsPrepared, Current
<1>4. \A a : (Owns(a)' <=> Owns(a)) /\ (Past(a)' <=> Past(a)) /\ (Settling(a)' <=> Settling(a))
  BY <1>1 DEF Owns, Past, Settling
<1> QED BY <1>1, <1>2, <1>3, <1>4

(* The fields of a reader that begins, or gives up.                         *)
LEMMA NoReadFields ==
    /\ NoRead.phase = "idle" /\ NoRead.gen = 0 /\ NoRead.first = {} /\ NoRead.second = {}
    /\ NoRead.left = {} /\ NoRead.from = 1
BY DEF NoRead

(* The first look at the generation.                                        *)
LEMMA BeginFollows ==
    ASSUME AtomicInv, NEW r \in Reader, ReadBegin(r)
    PROVE  ReaderFollows(r)'
<1> DEFINE record == [NoRead EXCEPT !.phase = "before", !.gen = generation,
                                    !.left = Txn, !.from = Len(log)]
<1>1. Reads(r, record)
  BY DEF ReadBegin
<1>2. /\ record.phase = "before" /\ record.gen = generation /\ record.left = Txn
      /\ record.from = Len(log) /\ record.first = {} /\ record.second = {}
  BY DEF NoRead
<1> HIDE DEF record
<1>3. reader'[r] = record /\ UNCHANGED <<generation, log>> /\ Pending' = Pending
  BY <1>1, ReadChangesNothing
<1>4. generation \in Nat /\ Len(log) \in Nat \ {0}
  BY DEF AtomicInv, TypeOK
<1>5. Behind(r)'
  BY <1>2, <1>3, <1>4 DEF Behind
<1>6. SettlingSeen(r)'
  BY <1>2, <1>3 DEF SettlingSeen, Pending
<1> QED BY <1>2, <1>3, <1>5, <1>6 DEF ReaderFollows, ReadingCurrent, AfterCommitted, DoneCommitted

(* A reader at rest follows.                                                *)
LEMMA RestFollows ==
    ASSUME AtomicInv, NEW r \in Reader, Reads(r, NoRead)
    PROVE  ReaderFollows(r)'
<1>1. reader'[r] = NoRead /\ UNCHANGED <<generation, log>>
  BY ReadChangesNothing
<1>2. generation \in Nat /\ Len(log) \in Nat \ {0}
  BY DEF AtomicInv, TypeOK
<1> QED BY <1>1, <1>2, NoReadFields
        DEF ReaderFollows, Behind, SettlingSeen, ReadingCurrent, AfterCommitted, DoneCommitted

(* A journal file is read, the first time or the second.                    *)
LEMMA JournalFollows ==
    ASSUME AtomicInv, ReadInv, NEW r \in Reader, ReadJournal(r)
    PROVE  ReaderFollows(r)'
<1>1. PICK t \in reader[r].left :
        LET rest == reader[r].left \ {t}
        IN \/ /\ reader[r].phase = "before"
              /\ Reads(r, [reader[r] EXCEPT !.first = @ \cup Seen(t),
                   !.phase = IF rest = {} THEN "reading" ELSE "before",
                   !.left = IF rest = {} THEN Doc ELSE rest])
           \/ /\ reader[r].phase = "after"
              /\ Reads(r, [reader[r] EXCEPT !.second = @ \cup Seen(t), !.left = rest])
  BY DEF ReadJournal
<1> DEFINE rest == reader[r].left \ {t}
           early == [reader[r] EXCEPT !.first = @ \cup Seen(t),
                       !.phase = IF rest = {} THEN "reading" ELSE "before",
                       !.left = IF rest = {} THEN Doc ELSE rest]
           late == [reader[r] EXCEPT !.second = @ \cup Seen(t), !.left = rest]
<1>2. /\ reader[r] \in ReaderRecord /\ reader[r].left \subseteq Txn
      /\ generation \in Nat /\ Len(log) \in Nat
  BY <1>1 DEF AtomicInv, TypeOK, ReadersWalk
<1>3. ReaderFollows(r)
  BY DEF ReadInv
<1>4. /\ \A a \in Seen(t) : Past(a) /\ Owns(a)
      /\ t \in Pending => journal[t].by \in Seen(t)
  BY <1>2, PendingHasAuthor DEF Seen, Pending, Past
<1>5. CASE reader[r].phase = "before"
  <2>1. Reads(r, early)
    BY <1>1, <1>5
  <2>2. /\ early.first = reader[r].first \cup Seen(t) /\ early.second = reader[r].second
        /\ early.phase = (IF rest = {} THEN "reading" ELSE "before")
        /\ early.left = (IF rest = {} THEN Doc ELSE rest)
        /\ early.gen = reader[r].gen /\ early.from = reader[r].from
    BY <1>2 DEF ReaderRecord
  <2> HIDE DEF early
  <2>3. /\ reader'[r] = early /\ UNCHANGED <<generation, journal, log>> /\ Pending' = Pending
        /\ \A a : (Past(a)' <=> Past(a)) /\ (Settling(a)' <=> Settling(a))
    BY <2>1, ReadChangesNothing
  <2>4. Behind(r)'
    BY <1>3, <1>4, <1>5, <2>2, <2>3 DEF ReaderFollows, Behind
  <2>5. SettlingSeen(r)'
    <3> SUFFICES ASSUME Live(r)', NEW u \in Pending, Settling(journal[u].by)
                 PROVE  \/ journal[u].by \in early.first
                        \/ early.phase = "before" /\ u \in early.left
      BY <2>3 DEF SettlingSeen
    <3>1. Live(r)
      BY <2>2, <2>3 DEF Live
    <3>2. journal[u].by \in reader[r].first \/ u \in reader[r].left
      BY <1>3, <1>5, <3>1 DEF ReaderFollows, SettlingSeen
    <3> QED BY <1>4, <2>2, <3>2
  <2>6. ReadingCurrent(r)'
    BY <2>2, <2>3 DEF ReadingCurrent
  <2> QED BY <2>2, <2>3, <2>4, <2>5, <2>6 DEF ReaderFollows, AfterCommitted, DoneCommitted
<1>6. CASE reader[r].phase = "after"
  <2>1. Reads(r, late)
    BY <1>1, <1>6
  <2>2. /\ late.first = reader[r].first /\ late.second = reader[r].second \cup Seen(t)
        /\ late.phase = "after" /\ late.left = rest /\ late.got = reader[r].got
        /\ late.gen = reader[r].gen /\ late.from = reader[r].from
    BY <1>2, <1>6 DEF ReaderRecord
  <2> HIDE DEF late
  <2>3. /\ reader'[r] = late /\ UNCHANGED <<generation, journal, plan, log>> /\ Pending' = Pending
        /\ \A a : (Owns(a)' <=> Owns(a)) /\ (Past(a)' <=> Past(a)) /\ (Settling(a)' <=> Settling(a))
    BY <2>1, ReadChangesNothing
  <2>4. Behind(r)'
    BY <1>3, <1>4, <2>2, <2>3 DEF ReaderFollows, Behind
  <2>5. Live(r)' <=> Live(r)
    BY <2>2, <2>3 DEF Live
  <2>6. SettlingSeen(r)'
    <3> SUFFICES ASSUME Live(r), NEW u \in Pending, Settling(journal[u].by)
                 PROVE  journal[u].by \in late.first
      BY <2>3, <2>5 DEF SettlingSeen
    <3> QED BY <1>3, <1>6, <2>2 DEF ReaderFollows, SettlingSeen
  <2>7. Doomed(r) => Doomed(r)'
    <3>1. ASSUME \E a \in reader[r].first : ~Owns(a) /\ a \notin reader[r].second
          PROVE  Doomed(r)'
      BY <1>4, <2>2, <2>3, <3>1 DEF Doomed
    <3>2. ASSUME \E a \in reader[r].second : a \notin reader[r].first
          PROVE  Doomed(r)'
      BY <2>2, <2>3, <3>2 DEF Doomed
    <3>3. ASSUME NEW u \in Pending, journal[u].by \notin reader[r].first,
                 ~Settling(journal[u].by), u \in reader[r].left
          PROVE  Doomed(r)'
      <4>1. CASE u = t
        BY <1>4, <2>2, <2>3, <3>3, <4>1 DEF Doomed
      <4>2. CASE u # t
        <5>1. u \in Pending' /\ ~Settling(journal[u].by)' /\ journal'[u] = journal[u]
          BY <2>3, <3>3
        <5> QED BY <2>2, <2>3, <3>3, <4>2, <5>1 DEF Doomed
      <4> QED BY <4>1, <4>2
    <3> QED BY <1>6, <3>1, <3>2, <3>3 DEF Doomed
  <2>8. Overlaid(r)' = Overlaid(r)
    BY <2>2, <2>3 DEF Overlaid
  <2>9. AfterCommitted(r)'
    BY <1>3, <1>6, <2>2, <2>3, <2>5, <2>7, <2>8 DEF ReaderFollows, AfterCommitted
  <2> QED BY <2>2, <2>3, <2>4, <2>6, <2>9 DEF ReaderFollows, ReadingCurrent, DoneCommitted
<1> QED BY <1>1, <1>5, <1>6

(* A document is read.                                                      *)
LEMMA DocumentFollows ==
    ASSUME AtomicInv, ReadInv, NEW r \in Reader, ReadDocument(r)
    PROVE  ReaderFollows(r)'
<1>1. PICK d \in reader[r].left :
        /\ reader[r].phase = "reading"
        /\ LET rest == reader[r].left \ {d}
           IN Reads(r, [reader[r] EXCEPT !.got[d] = docs[d],
                 !.phase = IF rest = {} THEN "after" ELSE "reading",
                 !.left = IF rest = {} THEN Txn ELSE rest])
  BY DEF ReadDocument
<1> DEFINE rest == reader[r].left \ {d}
           record == [reader[r] EXCEPT !.got[d] = docs[d],
                        !.phase = IF rest = {} THEN "after" ELSE "reading",
                        !.left = IF rest = {} THEN Txn ELSE rest]
<1>2. /\ reader[r] \in ReaderRecord /\ d \in Doc /\ reader[r].left \subseteq Doc
      /\ generation \in Nat /\ Len(log) \in Nat \ {0} /\ docs \in [Doc -> Content]
  BY <1>1 DEF AtomicInv, TypeOK, ReadersWalk
<1>3. ReaderFollows(r) /\ Reads(r, record)
  BY <1>1 DEF ReadInv
<1>4. /\ record.first = reader[r].first /\ record.second = reader[r].second
      /\ record.phase = (IF rest = {} THEN "after" ELSE "reading")
      /\ record.left = (IF rest = {} THEN Txn ELSE rest)
      /\ record.gen = reader[r].gen /\ record.from = reader[r].from
      /\ record.got = [reader[r].got EXCEPT ![d] = docs[d]]
  BY <1>2 DEF ReaderRecord
<1> HIDE DEF record
<1>5. /\ reader'[r] = record /\ UNCHANGED <<docs, generation, journal, plan, log>>
      /\ Pending' = Pending /\ Current' = Current
      /\ \A a : (Owns(a)' <=> Owns(a)) /\ (Past(a)' <=> Past(a)) /\ (Settling(a)' <=> Settling(a))
  BY <1>3, ReadChangesNothing
<1>6. Behind(r)'
  BY <1>1, <1>3, <1>4, <1>5 DEF ReaderFollows, Behind
<1>7. Live(r)' <=> Live(r)
  BY <1>4, <1>5 DEF Live
<1>8. SettlingSeen(r)'
  <2> SUFFICES ASSUME Live(r), NEW u \in Pending, Settling(journal[u].by)
               PROVE  journal[u].by \in record.first
    BY <1>5, <1>7 DEF SettlingSeen
  <2> QED BY <1>1, <1>3, <1>4 DEF ReaderFollows, SettlingSeen
<1>9. Doomed(r) => Doomed(r)'
  <2>1. ASSUME NEW u \in Pending, journal[u].by \notin reader[r].first, ~Settling(journal[u].by)
        PROVE  Doomed(r)'
    <3>1. u \in Pending' /\ ~Settling(journal[u].by)' /\ journal'[u] = journal[u] /\ u \in Txn
      BY <1>5, <2>1 DEF Pending
    <3> QED BY <1>4, <1>5, <2>1, <3>1 DEF Doomed
  <2>2. ASSUME \/ \E a \in reader[r].first : ~Owns(a) /\ a \notin reader[r].second
               \/ \E a \in reader[r].second : a \notin reader[r].first
        PROVE  Doomed(r)'
    BY <1>4, <1>5, <2>2 DEF Doomed
  <2> QED BY <2>1, <2>2 DEF Doomed
<1>10. ASSUME Live(r), ~Doomed(r), NEW e \in Doc, e \notin rest
       PROVE  Overlaid(r)'[e] = Current[e]
  <2> DEFINE seen == \E a \in reader[r].first : e \in plan[a].changed
             old == plan[CHOOSE a \in reader[r].first : e \in plan[a].changed].before[e]
  <2>1. Overlaid(r)'[e] = IF seen THEN old ELSE record.got[e]
    BY <1>4, <1>5 DEF Overlaid
  <2>2. Overlaid(r)[e] = IF seen THEN old ELSE reader[r].got[e]
    BY DEF Overlaid
  <2>3. record.got[e] = IF e = d THEN docs[e] ELSE reader[r].got[e]
    BY <1>2, <1>4 DEF ReaderRecord
  <2>4. (IF seen THEN old ELSE docs[e]) = Current[e]
    BY <1>1, <1>10, OverlayIsCurrent
  <2>5. e # d => Overlaid(r)[e] = Current[e]
    BY <1>1, <1>3, <1>10 DEF ReaderFollows, ReadingCurrent
  <2> HIDE DEF seen, old
  <2> QED BY <2>1, <2>2, <2>3, <2>4, <2>5
<1>11. ReadingCurrent(r)'
  <2> SUFFICES ASSUME record.phase = "reading", Live(r), ~Doomed(r)
               PROVE  \A e \in Doc \ record.left : Overlaid(r)'[e] = Current[e]
    BY <1>5, <1>7, <1>9 DEF ReadingCurrent
  <2> QED BY <1>4, <1>10
<1>12. AfterCommitted(r)'
  <2> SUFFICES ASSUME record.phase = "after", Live(r), ~Doomed(r)
               PROVE  \E i \in record.from..Len(log) : Overlaid(r)' = log[i].state
    BY <1>5, <1>7, <1>9 DEF AfterCommitted
  <2>1. \A e \in Doc : Overlaid(r)'[e] = Current[e]
    BY <1>4, <1>10
  <2>2. Current \in [Doc -> Content]
    <3>1. log[Len(log)] \in LogEntry
      BY DEF AtomicInv, TypeOK
    <3> QED BY <3>1 DEF LogEntry, Current
  <2>3. Overlaid(r)' = [e \in Doc |-> Overlaid(r)'[e]]
    BY DEF Overlaid
  <2>4. Overlaid(r)' = Current
    BY <2>1, <2>2, <2>3
  <2>5. Len(log) \in record.from..Len(log)
    BY <1>2, <1>3, <1>4 DEF ReaderFollows, Behind
  <2> QED BY <2>4, <2>5 DEF Current
<1> QED BY <1>4, <1>5, <1>6, <1>8, <1>11, <1>12 DEF ReaderFollows, DoneCommitted

(* The second look at the generation, and at what was seen.                 *)
LEMMA EndFollows ==
    ASSUME AtomicInv, ReadInv, NEW r \in Reader, ReadEnd(r)
    PROVE  ReaderFollows(r)'
<1>1. CASE ~Unmoved(r)
  BY <1>1, RestFollows DEF ReadEnd
<1>2. CASE Unmoved(r)
  <2> DEFINE record == [NoRead EXCEPT !.phase = "done", !.got = Overlaid(r),
                                      !.from = reader[r].from]
  <2>1. Reads(r, record) /\ reader[r].phase = "after" /\ reader[r].left = {}
    BY <1>2 DEF ReadEnd
  <2>2. /\ record.phase = "done" /\ record.got = Overlaid(r) /\ record.from = reader[r].from
        /\ record.first = {} /\ record.second = {} /\ record.gen = 0
    BY DEF NoRead
  <2> HIDE DEF record
  <2>3. reader'[r] = record /\ UNCHANGED <<generation, log>> /\ generation \in Nat
    BY <2>1, ReadChangesNothing DEF AtomicInv, TypeOK
  <2>4. Behind(r) /\ AfterCommitted(r)
    BY DEF ReadInv, ReaderFollows
  <2>5. Live(r) /\ ~Doomed(r)
    BY <1>2, <2>1 DEF Unmoved, Live, Doomed
  <2>6. \E i \in reader[r].from..Len(log) : Overlaid(r) = log[i].state
    BY <2>1, <2>4, <2>5 DEF AfterCommitted
  <2>7. Behind(r)'
    BY <2>2, <2>3, <2>4 DEF Behind
  <2>8. DoneCommitted(r)'
    BY <2>2, <2>3, <2>6 DEF DoneCommitted
  <2> QED BY <2>2, <2>3, <2>7, <2>8 DEF ReaderFollows, SettlingSeen, ReadingCurrent, AfterCommitted
<1> QED BY <1>1, <1>2

(* Every step keeps ReadInv.                                                *)
LEMMA EveryStepFollows ==
    ASSUME AtomicInv, ReadInv, [Next]_vars
    PROVE  ReadInv'
<1>1. AtomicInv' /\ Step
  BY EveryStep DEF Good
<1>2. LogIsView'
  BY <1>1, ViewFollowsLog DEF ReadInv
<1>3. Around
  BY <1>1, EveryStepGoes, StepsAround
<1>4. ASSUME NEW r \in Reader PROVE ReaderFollows(r)'
  <2>1. CASE reader'[r] = reader[r]
    BY <1>3, <2>1, OthersKeepReader DEF ReadInv
  <2>2. CASE reader'[r] # reader[r]
    <3>1. PICK q \in Reader : Read(q)
      BY <2>2 DEF Next, vars, disk, Build, Begin, Forward, Prepare, Publish, Verify, Advance, Mark,
                  Return, Backward, Undo, UndoVerify, UndoAdvance, UndoMark, Failure, PrepareFails,
                  PublishFails, FinishFails, UndoFails, UndoMarkFails, Crash, RecoverBegin, Recover,
                  RecoverInspect, Restore, RestoreVerify, RecoverAdvance, RecoverMark,
                  RecoverReturn, RecoverFails, Discard
    <3>2. q = r
      <4>1. \E record : Reads(q, record)
        BY <3>1 DEF Read, ReadBegin, ReadJournal, ReadDocument, ReadEnd, ReadOver
      <4> QED BY <2>2, <4>1, ReadChangesNothing
    <3> QED BY <3>1, <3>2, BeginFollows, JournalFollows, DocumentFollows, EndFollows, RestFollows
            DEF Read, ReadOver
  <2> QED BY <2>1, <2>2
<1> QED BY <1>2, <1>4 DEF ReadInv

(* _read_consistent, without the lock, returns one committed state, and not *)
(* one that was over before the read began: equal generations and equal     *)
(* sets of unresolved journals around the reading of the documents are      *)
(* enough, whatever commits, rollbacks, crashes and recoveries go on.       *)
THEOREM SnapshotsAreConsistent == Spec => []ReadsAreConsistent
<1>1. Init => ReadInv
  BY ReadInit
<1>2. AtomicInv /\ ReadInv /\ [Next]_vars => ReadInv'
  BY EveryStepFollows
<1>3. ReadInv => ReadsAreConsistent
  BY DEF ReadInv, ReaderFollows, DoneCommitted, ReadsAreConsistent
<1> QED BY <1>1, <1>2, <1>3, AtomicInvariant, PTL DEF Spec
=============================================================================

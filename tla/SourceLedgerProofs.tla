------------------------- MODULE SourceLedgerProofs -------------------------
(***************************************************************************)
(* What holds of SourceLedger for any sources, bounds and combinations of  *)
(* faults: nothing accepted is forgotten, Memory takes the sources in      *)
(* order, Behavior never repeats a released one, and no envelope goes      *)
(* before both consumers are done with it.                                 *)
(***************************************************************************)
EXTENDS SourceLedger, FiniteSetTheorems, TLAPS

----------------------------------------------------------------------------
(* Types.                                                                  *)

Working == {"held", "run", "publish", "skip", "commit"}

TaskStep == {"off", "look", "wait"} \cup Working

ReleaseStep == {"off", "lock", "mark", "envelope", "outcomes", "outputs", "pending", "index"}

TaskRecord == [pc : TaskStep, abandon : BOOLEAN, lease : BOOLEAN]

RetryRecord == [attempts : 0..MaxAttempts, kind : {"none", "backoff", "due", "given up"}]

PutRecord == [src : Source \cup {NoSource}, pc : {"off", "pending", "envelope"}]

ReleaserRecord == [todo : Seq(Source), pc : ReleaseStep]

FilesTyped ==
    /\ watermark \in Nat
    /\ index \subseteq Source /\ pending \subseteq Source /\ envelope \subseteq Source
    /\ aged \subseteq Source \X {"index", "pending"} /\ salvaged \subseteq Source
    /\ outcome \in [Source -> [Consumer -> Terminal \cup {"none"}]]
    /\ output \in [Source -> [Consumer -> BOOLEAN]]

ActorsTyped ==
    /\ retry \in [Source -> [Consumer -> RetryRecord]]
    /\ task \in [Task -> TaskRecord]
    /\ \A t \in Task : task[t].lease => task[t].pc \in Working
    /\ put \in PutRecord
    /\ put # NoPut => put.src \in Source /\ put.pc # "off"
    /\ reaping \in Source \cup {NoSource}
    /\ releaser \in ReleaserRecord
    /\ releaser # Resting => releaser.todo # <<>> /\ releaser.pc # "off"

HistoryTyped ==
    /\ accepted \subseteq Source /\ gone \subseteq Source /\ replayed \subseteq Source
    /\ ingested \in Seq(Source)
    /\ faults \in [FaultKind -> Nat]

Typed == FilesTyped /\ ActorsTyped /\ HistoryTyped

----------------------------------------------------------------------------
(* Sequences of sources.                                                   *)

LEMMA RangeOfAppend ==
  ASSUME NEW S, NEW q \in Seq(S), NEW x \in S
  PROVE  Append(q, x) \in Seq(S) /\ Range(Append(q, x)) = Range(q) \cup {x}
<1>1. Append(q, x) \in Seq(S) /\ Len(Append(q, x)) = Len(q) + 1 /\ DOMAIN Append(q, x) = 1..(Len(q) + 1)
         /\ Append(q, x)[Len(q) + 1] = x /\ (\A i \in 1..Len(q) : Append(q, x)[i] = q[i])
         /\ DOMAIN q = 1..Len(q) /\ Len(q) \in Nat
  OBVIOUS
<1>2. ASSUME NEW i \in DOMAIN Append(q, x) PROVE Append(q, x)[i] \in Range(q) \cup {x}
  <2>1. CASE i = Len(q) + 1  BY <1>1, <2>1
  <2>2. CASE i \in 1..Len(q)  BY <1>1, <2>2 DEF Range
  <2>. QED  BY <1>1, <1>2, <2>1, <2>2
<1>3. ASSUME NEW y \in Range(q) \cup {x} PROVE \E i \in DOMAIN Append(q, x) : y = Append(q, x)[i]
  <2>1. CASE y = x  BY <1>1, <2>1
  <2>2. CASE y \in Range(q)
    <3>1. PICK i \in 1..Len(q) : y = q[i]  BY <1>1, <2>2 DEF Range
    <3>. QED  BY <1>1, <3>1
  <2>. QED  BY <1>3, <2>1, <2>2
<1>. QED  BY <1>1, <1>2, <1>3 DEF Range

LEMMA RangeOfTail ==
  ASSUME NEW S, NEW q \in Seq(S), q # <<>>
  PROVE  /\ Head(q) \in S /\ Head(q) \in Range(q)
         /\ Tail(q) \in Seq(S) /\ Range(Tail(q)) \subseteq Range(q)
         /\ Len(q) # 1 => Tail(q) # <<>>
<1>1. Len(q) \in Nat /\ Len(q) # 0 /\ DOMAIN q = 1..Len(q) /\ Head(q) = q[1] /\ q[1] \in S
  OBVIOUS
<1>2. Tail(q) \in Seq(S) /\ Len(Tail(q)) = Len(q) - 1 /\ DOMAIN Tail(q) = 1..(Len(q) - 1)
         /\ \A i \in 1..(Len(q) - 1) : Tail(q)[i] = q[i + 1]
  BY <1>1
<1>3. Head(q) \in Range(q)  BY <1>1 DEF Range
<1>4. Range(Tail(q)) \subseteq Range(q)
  <2>1. SUFFICES ASSUME NEW i \in 1..(Len(q) - 1) PROVE q[i + 1] \in Range(q)  BY <1>2 DEF Range
  <2>. QED  BY <1>1 DEF Range
<1>5. ASSUME Len(q) # 1, Tail(q) = <<>> PROVE FALSE
  <2>1. Len(<<>>) = 0  OBVIOUS
  <2>2. Len(Tail(q)) = 0  BY <2>1, <1>5, Zenon
  <2>3. Len(Tail(q)) = Len(q) - 1  BY <1>2, Zenon
  <2>4. Len(q) # 1  BY <1>5, Zenon
  <2>. QED  BY <1>1, <2>2, <2>3, <2>4
<1>. QED  BY <1>1, <1>2, <1>3, <1>4, <1>5

\* What the releaser sorts are sequences of what it was given.
LEMMA SortedIsSequence ==
  ASSUME NEW S \in SUBSET Source, S # {}, NEW q \in Sorted(S)
  PROVE  q \in Seq(Source) /\ q # <<>> /\ Range(q) \subseteq S
<1>1. IsFiniteSet(S)  BY SourceConstants, FS_Subset
<1>2. Cardinality(S) \in Nat /\ Cardinality(S) # 0  BY <1>1, FS_CardinalityType, FS_EmptySet
<1>3. q \in [1..Cardinality(S) -> S]  BY DEF Sorted
<1>4. q \in Seq(S) /\ q # <<>>  BY <1>2, <1>3
<1>5. Range(q) \subseteq S  BY <1>3 DEF Range
<1>. QED  BY <1>4, <1>5

----------------------------------------------------------------------------
(* How a task ends.                                                        *)

\* The task is over, or starts again to abandon its source.
Reset(t) ==
    /\ task' \in [Task -> TaskRecord]
    /\ \A u \in Task : u # t => task'[u] = task[u]
    /\ task'[t].pc \in {"off", "look"} /\ ~task'[t].lease
    /\ retry' \in [Source -> [Consumer -> RetryRecord]]

LEMMA FinishResets ==
  ASSUME Typed, NEW t \in Task, Finish(t)
  PROVE  Reset(t)
<1>1. Idle \in TaskRecord  BY DEF Idle, TaskRecord, TaskStep, Working
<1>2. NoRetry \in RetryRecord  BY SourceConstants DEF NoRetry, RetryRecord
<1>3. t.src \in Source /\ t.con \in Consumer  BY DEF Task
<1>4. retry' \in [Source -> [Consumer -> RetryRecord]]
  BY <1>2, <1>3 DEF Finish, Typed, ActorsTyped
<1>5. task' = [task EXCEPT ![t] = Idle]  BY DEF Finish
<1>. QED  BY <1>1, <1>4, <1>5 DEF Reset, Typed, ActorsTyped, Idle

LEMMA RaiseResets ==
  ASSUME Typed, NEW t \in Task, NEW d \in BOOLEAN, Raise(t, d)
  PROVE  Reset(t)
<1>1. Idle \in TaskRecord /\ [pc |-> "look", abandon |-> TRUE, lease |-> FALSE] \in TaskRecord
  BY DEF Idle, TaskRecord, TaskStep, Working
<1>3. t.src \in Source /\ t.con \in Consumer  BY DEF Task
<1>4. retry \in [Source -> [Consumer -> RetryRecord]] /\ task \in [Task -> TaskRecord]
  BY DEF Typed, ActorsTyped
<1>2. ASSUME NEW r \in TaskRecord, r.pc \in {"off", "look"}, ~r.lease, task' = [task EXCEPT ![t] = r],
             retry' \in [Source -> [Consumer -> RetryRecord]]
      PROVE  Reset(t)
  BY <1>2, <1>4 DEF Reset
<1>5. CASE t.by = "put" \/ task[t].abandon
  <2>1. task' = [task EXCEPT ![t] = Idle] /\ retry' = retry  BY <1>5 DEF Raise
  <2>2. Idle.pc = "off" /\ ~Idle.lease  BY DEF Idle
  <2>. QED  BY <1>1, <1>2, <1>4, <2>1, <2>2
<1>6. CASE ~(t.by = "put" \/ task[t].abandon)
  <2>. DEFINE e == Failed(retry[t.src][t.con], d)
  <2>1. retry[t.src][t.con] \in RetryRecord  BY <1>3, <1>4
  <2>2. retry[t.src][t.con].attempts \in 0..MaxAttempts /\ MaxAttempts \in Nat
    BY <2>1, SourceConstants DEF RetryRecord
  <2>3. e \in RetryRecord  BY <2>2 DEF Failed, RetryRecord
  <2>4. retry' = [retry EXCEPT ![t.src][t.con] = e]  BY <1>6 DEF Raise
  <2>. HIDE DEF e
  <2>5. retry' \in [Source -> [Consumer -> RetryRecord]]  BY <2>3, <2>4, <1>3, <1>4
  <2>6. task' = [task EXCEPT ![t] = Idle]
         \/ task' = [task EXCEPT ![t] = [pc |-> "look", abandon |-> TRUE, lease |-> FALSE]]
    BY <1>6 DEF Raise
  <2>7. Idle.pc = "off" /\ ~Idle.lease  BY DEF Idle
  <2>8. CASE task' = [task EXCEPT ![t] = Idle]  BY <1>1, <1>2, <2>5, <2>7, <2>8
  <2>9. CASE task' = [task EXCEPT ![t] = [pc |-> "look", abandon |-> TRUE, lease |-> FALSE]]
    BY <1>1, <1>2, <2>5, <2>9
  <2>. QED  BY <2>6, <2>8, <2>9
<1>. QED  BY <1>5, <1>6

LEMMA WaitResets ==
  ASSUME Typed, NEW t \in Task, Wait(t)
  PROVE  Reset(t)
<1>1. Idle \in TaskRecord  BY DEF Idle, TaskRecord, TaskStep, Working
<1>. QED  BY <1>1 DEF Wait, Reset, Typed, ActorsTyped, Idle

----------------------------------------------------------------------------
(* Every step keeps the types.                                             *)

LEMMA TypedAtStart == Init => Typed
<1>. SUFFICES ASSUME Init PROVE Typed  OBVIOUS
<1>1. FilesTyped  BY SourceConstants DEF Init, FilesTyped, Terminal
<1>2. NoRetry \in RetryRecord /\ Idle \in TaskRecord
  BY SourceConstants DEF NoRetry, RetryRecord, Idle, TaskRecord, TaskStep, Working
<1>3. NoPut \in PutRecord /\ Resting \in ReleaserRecord
  BY DEF NoPut, PutRecord, Resting, ReleaserRecord, ReleaseStep
<1>6. \A t \in Task : ~task[t].lease  BY DEF Init, Idle
<1>4. ActorsTyped  BY <1>2, <1>3, <1>6 DEF Init, ActorsTyped
<1>5. HistoryTyped  BY DEF Init, HistoryTyped
<1>. QED  BY <1>1, <1>4, <1>5 DEF Typed

LEMMA FaultCounted ==
  ASSUME faults \in [FaultKind -> Nat], NEW kind \in FaultKind, Fault(kind)
  PROVE  /\ faults' \in [FaultKind -> Nat]
         /\ faults'[kind] > 0
         /\ \A k \in FaultKind : k # kind => faults'[k] = faults[k]
BY DEF Fault

LEMMA PutTyped ==
  ASSUME Typed, Put
  PROVE  Typed'
<1>. USE DEF FilesTyped, HistoryTyped, ledger, records, history
<1>0. ActorsTyped /\ FilesTyped /\ HistoryTyped  BY DEF Typed
<1>1. ASSUME NEW s \in Source, PutIndex(s) PROVE Typed'
  BY <1>0, <1>1 DEF PutIndex, Typed, ActorsTyped, PutRecord, NoPut
<1>2. CASE PutPending
  <2>1. put \in PutRecord /\ put # NoPut /\ put.src \in Source
    BY <1>0, <1>2 DEF PutPending, ActorsTyped, NoPut
  <2>2. put' \in PutRecord /\ put'.src \in Source /\ put'.pc # "off"
    BY <1>2, <2>1 DEF PutPending, PutRecord
  <2>. QED  BY <1>0, <1>2, <2>1, <2>2 DEF PutPending, Typed, ActorsTyped
<1>3. CASE PutRefused
  <2>1. faults' \in [FaultKind -> Nat]  BY <1>0, <1>3, FaultCounted DEF PutRefused, FaultKind
  <2>2. NoPut \in PutRecord  BY DEF NoPut, PutRecord
  <2>. QED  BY <1>0, <1>3, <2>1, <2>2 DEF PutRefused, Typed, ActorsTyped
<1>4. CASE PutEnvelope
  <2>1. faults' \in [FaultKind -> Nat]  BY <1>0, <1>4, FaultCounted DEF PutEnvelope, FaultKind
  <2>2. NoPut \in PutRecord  BY DEF NoPut, PutRecord
  <2>3. put.src \in Source  BY <1>0, <1>4 DEF PutEnvelope, ActorsTyped, NoPut
  <2>4. task' \in [Task -> TaskRecord] /\ \A t \in Task : task'[t].lease => task'[t].pc \in Working
    <3>1. PICK ts : task' = Started(ts, FALSE)  BY <1>4 DEF PutEnvelope
    <3>2. [pc |-> "look", abandon |-> FALSE, lease |-> FALSE] \in TaskRecord  BY DEF TaskRecord, TaskStep, Working
    <3>3. \A t \in Task : task'[t] = [pc |-> "look", abandon |-> FALSE, lease |-> FALSE] \/ task'[t] = task[t]
      BY <3>1 DEF Started
    <3>4. \A t \in Task : task'[t].lease => task'[t].pc \in Working  BY <1>0, <3>3 DEF ActorsTyped
    <3>5. task' \in [Task -> TaskRecord]  BY <1>0, <3>1, <3>2 DEF Started, ActorsTyped
    <3>. QED  BY <3>4, <3>5
  <2>. QED  BY <1>0, <1>4, <2>1, <2>2, <2>3, <2>4 DEF PutEnvelope, Typed, ActorsTyped
<1>. QED  BY <1>1, <1>2, <1>3, <1>4 DEF Put

LEMMA MoveTyped ==
  ASSUME task \in [Task -> TaskRecord], NEW t \in Task, NEW pc \in TaskStep, Move(t, pc)
  PROVE  /\ task' \in [Task -> TaskRecord]
         /\ \A u \in Task : u # t => task'[u] = task[u]
         /\ task'[t].pc = pc /\ task'[t].lease = task[t].lease
BY DEF Move, TaskRecord

\* What a task has become after a look at the files, if it goes on at all.
GoesOn(t, pc) ==
    /\ task' \in [Task -> TaskRecord]
    /\ \A u \in Task : u # t => task'[u] = task[u]
    /\ task'[t].pc = pc /\ task'[t].lease = task[t].lease
    /\ retry' = retry
    /\ inspect(t.src, t.con) \in {"PENDING", "OUTPUT_READY"}
    /\ ordered_within_conversation(t.con) => PredecessorsDone(t.src, t.con)

LEMMA CheckedMoves ==
  ASSUME Typed, NEW t \in Task, NEW pc \in TaskStep, Checked(t, Move(t, pc) /\ UNCHANGED retry)
  PROVE  Reset(t) \/ GoesOn(t, pc)
<1>1. Finish(t) \/ Raise(t, FALSE) \/ Wait(t)
        \/ (Move(t, pc) /\ UNCHANGED retry
            /\ inspect(t.src, t.con) \notin Terminal /\ inspect(t.src, t.con) \notin Broken
            /\ (~ordered_within_conversation(t.con) \/ PredecessorsDone(t.src, t.con)))
  BY DEF Checked
<1>2. inspect(t.src, t.con) \in {"PENDING", "OUTPUT_READY", "COMMITTED", "SKIPPED", "BROKEN_OUTCOME", "CORRUPTED"}
  BY DEF inspect
<1>3. task \in [Task -> TaskRecord]  BY DEF Typed, ActorsTyped
<1>4. ASSUME Move(t, pc), UNCHANGED retry,
             inspect(t.src, t.con) \notin Terminal, inspect(t.src, t.con) \notin Broken,
             ~ordered_within_conversation(t.con) \/ PredecessorsDone(t.src, t.con)
      PROVE  GoesOn(t, pc)
  BY <1>2, <1>3, <1>4, MoveTyped DEF GoesOn, Terminal, Broken
<1>. QED  BY <1>1, <1>4, FinishResets, RaiseResets, WaitResets

----------------------------------------------------------------------------
(* What a delivery task may do.                                            *)

\* Everything but the tasks, the retry ledger and the count of faults stays.
Quiet == UNCHANGED <<ledger, records, actors, history>>

FaultsCounted == faults' \in [FaultKind -> Nat] /\ \A k \in FaultKind : faults'[k] >= faults[k]

\* After the second look the task runs, adopts an output, or skips.
Resolved(t) ==
    LET pc == task'[t].pc
    IN  /\ GoesOn(t, pc)
        /\ pc \in {"run", "skip", "commit"}
        /\ pc = "run" => inspect(t.src, t.con) = "PENDING" /\ ~(t.con = "behavior" /\ released(t.src))
        /\ pc = "skip" => t.con = "behavior"

Turns(t) ==
    \/ Reset(t)
    \/ task[t].pc = "look" /\ task'[t].pc = "wait" /\ task'[t].lease = task[t].lease
    \/ Acquire(t) /\ task'[t].pc = "held" /\ task'[t].lease
    \/ task[t].pc = "held" /\ task[t].lease /\ Resolved(t)
    \/ Execute(t) /\ task[t].pc = "run" /\ task'[t].pc = "publish" /\ task'[t].lease = task[t].lease
    \/ task[t].pc = "run" /\ task'[t].pc = "skip" /\ t.con = "behavior" /\ task'[t].lease = task[t].lease
    \/ task[t].pc = "publish" /\ task[t].lease /\ task'[t].pc = "commit" /\ task'[t].lease
    \/ task'[t].pc = task[t].pc /\ ~task'[t].lease /\ task[t].lease /\ faults'["lost"] > 0

\* The part of the state a task changes directly.
TaskStepTyped(t) ==
    /\ task' \in [Task -> TaskRecord]
    /\ retry' \in [Source -> [Consumer -> RetryRecord]]
    /\ FaultsCounted
    /\ task[t].pc # "off"
    /\ \A u \in Task : u # t => task'[u] = task[u]
    /\ Turns(t)

LEMMA SameFaults == ASSUME Typed, faults' = faults PROVE FaultsCounted
BY DEF Typed, HistoryTyped, FaultsCounted

LEMMA OneFault == ASSUME Typed, NEW kind \in FaultKind, Fault(kind) PROVE FaultsCounted /\ faults'[kind] > 0
<1>1. faults \in [FaultKind -> Nat]  BY DEF Typed, HistoryTyped
<1>2. faults' = [faults EXCEPT ![kind] = @ + 1]  BY DEF Fault
<1>. QED  BY <1>1, <1>2 DEF FaultsCounted

LEMMA LookTurns == ASSUME Typed, NEW t \in Task, Look(t) PROVE TaskStepTyped(t) /\ Quiet
<1>1. Reset(t) \/ GoesOn(t, "wait")  BY CheckedMoves DEF Look, TaskStep, Working
<1>2. task[t].pc = "look" /\ faults' = faults /\ Quiet  BY DEF Look, At, Quiet
<1>3. retry \in [Source -> [Consumer -> RetryRecord]]  BY DEF Typed, ActorsTyped
<1>. QED  BY <1>1, <1>2, <1>3, SameFaults DEF TaskStepTyped, Turns, Reset, GoesOn

LEMMA AcquireTurns == ASSUME Typed, NEW t \in Task, Acquire(t) PROVE TaskStepTyped(t) /\ Quiet
<1>1. task[t].pc = "wait" /\ faults' = faults /\ retry' = retry /\ Quiet
        /\ task' = [task EXCEPT ![t].pc = "held", ![t].lease = TRUE]
  BY DEF Acquire, At, Quiet
<1>2. retry \in [Source -> [Consumer -> RetryRecord]] /\ task \in [Task -> TaskRecord]
  BY DEF Typed, ActorsTyped
<1>3. /\ task' \in [Task -> TaskRecord] /\ task'[t].pc = "held" /\ task'[t].lease
      /\ \A u \in Task : u # t => task'[u] = task[u]
  BY <1>1, <1>2 DEF TaskRecord, TaskStep, Working
<1>. QED  BY <1>1, <1>2, <1>3, SameFaults DEF TaskStepTyped, Turns

LEMMA GiveUpWaitingTurns == ASSUME Typed, NEW t \in Task, GiveUpWaiting(t) PROVE TaskStepTyped(t) /\ Quiet
<1>1. Raise(t, FALSE) /\ task[t].pc = "wait" /\ faults' = faults /\ Quiet  BY DEF GiveUpWaiting, At, Quiet
<1>2. Reset(t)  BY <1>1, RaiseResets
<1>. QED  BY <1>1, <1>2, SameFaults DEF TaskStepTyped, Turns, Reset

LEMMA FencedTurns == ASSUME Typed, NEW t \in Task, Fenced(t) PROVE TaskStepTyped(t) /\ Quiet
<1>1. Raise(t, FALSE) /\ task[t].pc # "off" /\ faults' = faults /\ Quiet  BY DEF Fenced, Quiet
<1>2. Reset(t)  BY <1>1, RaiseResets
<1>. QED  BY <1>1, <1>2, SameFaults DEF TaskStepTyped, Turns, Reset

LEMMA ExecuteFailsTurns == ASSUME Typed, NEW t \in Task, ExecuteFails(t) PROVE TaskStepTyped(t) /\ Quiet
<1>1. PICK d \in BOOLEAN : Raise(t, d)  BY DEF ExecuteFails
<1>2. task[t].pc # "off" /\ Fault("failure") /\ Quiet  BY DEF ExecuteFails, At, Quiet
<1>3. Reset(t)  BY <1>1, RaiseResets
<1>4. FaultsCounted  BY <1>2, OneFault DEF FaultKind
<1>. QED  BY <1>2, <1>3, <1>4 DEF TaskStepTyped, Turns, Reset

LEMMA RecheckTurns == ASSUME Typed, NEW t \in Task, Recheck(t) PROVE TaskStepTyped(t) /\ Quiet
<1>. DEFINE skip == skips_released_sources(t.con) /\ inspect(t.src, t.con) = "PENDING" /\ released(t.src)
            next == IF skip THEN "skip" ELSE IF inspect(t.src, t.con) = "OUTPUT_READY" THEN "commit" ELSE "run"
<1>1. Checked(t, Move(t, next) /\ UNCHANGED retry)  BY DEF Recheck
<1>2. task[t].pc = "held" /\ task[t].lease /\ faults' = faults /\ Quiet  BY DEF Recheck, At, Quiet
<1>3. next \in {"skip", "commit", "run"} /\ next \in TaskStep  BY DEF TaskStep, Working
<1>4. Reset(t) \/ GoesOn(t, next)  BY <1>1, <1>3, CheckedMoves
<1>5. ASSUME GoesOn(t, next) PROVE Resolved(t)
  <2>1. task'[t].pc = next /\ inspect(t.src, t.con) \in {"PENDING", "OUTPUT_READY"}  BY <1>5 DEF GoesOn
  <2>. QED  BY <1>5, <2>1 DEF Resolved, skips_released_sources
<1>6. retry \in [Source -> [Consumer -> RetryRecord]]  BY DEF Typed, ActorsTyped
<1>7. CASE Reset(t)  BY <1>2, <1>7, SameFaults DEF TaskStepTyped, Turns, Reset
<1>8. CASE GoesOn(t, next)
  <2>1. Resolved(t)  BY <1>5, <1>8
  <2>2. retry' = retry /\ task' \in [Task -> TaskRecord] /\ \A u \in Task : u # t => task'[u] = task[u]
    BY <2>1 DEF Resolved, GoesOn
  <2>. QED  BY <1>2, <1>6, <2>1, <2>2, SameFaults DEF TaskStepTyped, Turns
<1>. QED  BY <1>4, <1>7, <1>8

LEMMA ExecuteTurns == ASSUME Typed, NEW t \in Task, Execute(t) PROVE TaskStepTyped(t)
<1>1. Move(t, "publish") /\ task[t].pc = "run" /\ faults' = faults /\ retry' = retry  BY DEF Execute, At
<1>2. retry \in [Source -> [Consumer -> RetryRecord]] /\ task \in [Task -> TaskRecord]
  BY DEF Typed, ActorsTyped
<1>. QED  BY <1>1, <1>2, MoveTyped, SameFaults DEF TaskStepTyped, Turns, TaskStep, Working

LEMMA ExecuteSkipsTurns == ASSUME Typed, NEW t \in Task, ExecuteSkips(t) PROVE TaskStepTyped(t) /\ Quiet
<1>1. Move(t, "skip") /\ task[t].pc = "run" /\ t.con = "behavior" /\ faults' = faults /\ retry' = retry /\ Quiet
  BY DEF ExecuteSkips, At, Quiet
<1>2. retry \in [Source -> [Consumer -> RetryRecord]] /\ task \in [Task -> TaskRecord]
  BY DEF Typed, ActorsTyped
<1>. QED  BY <1>1, <1>2, MoveTyped, SameFaults DEF TaskStepTyped, Turns, TaskStep, Working

LEMMA PublishTurns == ASSUME Typed, NEW t \in Task, Publish(t) PROVE TaskStepTyped(t)
<1>1. Move(t, "commit") /\ task[t].pc = "publish" /\ task[t].lease /\ faults' = faults /\ retry' = retry
  BY DEF Publish, At
<1>2. retry \in [Source -> [Consumer -> RetryRecord]] /\ task \in [Task -> TaskRecord]
  BY DEF Typed, ActorsTyped
<1>. QED  BY <1>1, <1>2, MoveTyped, SameFaults DEF TaskStepTyped, Turns, TaskStep, Working

LEMMA CommitTurns == ASSUME Typed, NEW t \in Task, Commit(t) PROVE TaskStepTyped(t)
<1>1. (Finish(t) \/ Raise(t, FALSE)) /\ task[t].pc # "off" /\ faults' = faults  BY DEF Commit
<1>2. Reset(t)  BY <1>1, FinishResets, RaiseResets
<1>. QED  BY <1>1, <1>2, SameFaults DEF TaskStepTyped, Turns, Reset

LEMMA LoseLeaseTurns == ASSUME Typed, NEW t \in Task, LoseLease(t) PROVE TaskStepTyped(t) /\ Quiet
<1>1. task' = [task EXCEPT ![t].lease = FALSE] /\ Fault("lost") /\ retry' = retry /\ task[t].lease /\ Quiet
  BY DEF LoseLease, Quiet
<1>2. retry \in [Source -> [Consumer -> RetryRecord]] /\ task \in [Task -> TaskRecord]
  BY DEF Typed, ActorsTyped
<1>3. FaultsCounted /\ faults'["lost"] > 0  BY <1>1, OneFault DEF FaultKind
<1>4. /\ task' \in [Task -> TaskRecord] /\ task'[t].pc = task[t].pc /\ ~task'[t].lease
      /\ \A u \in Task : u # t => task'[u] = task[u]
  BY <1>1, <1>2 DEF TaskRecord
<1>5. task[t].pc # "off"  BY <1>1 DEF Typed, ActorsTyped, Working
<1>. QED  BY <1>1, <1>2, <1>3, <1>4, <1>5 DEF TaskStepTyped, Turns


LEMMA DeliverTurns ==
  ASSUME Typed, NEW t \in Task, Deliver(t)
  PROVE  TaskStepTyped(t) /\ (Quiet \/ Execute(t) \/ Publish(t) \/ Commit(t))
BY LookTurns, AcquireTurns, GiveUpWaitingTurns, FencedTurns, ExecuteFailsTurns, RecheckTurns,
   ExecuteTurns, ExecuteSkipsTurns, PublishTurns, CommitTurns, LoseLeaseTurns DEF Deliver

LEMMA TaskStepKeepsTypes ==
  ASSUME Typed, NEW t \in Task, TaskStepTyped(t), UNCHANGED actors
  PROVE  ActorsTyped'
<1>1. ActorsTyped  BY DEF Typed
<1>2. task'[t].lease => task'[t].pc \in Working
  <2>1. task[t].lease => task[t].pc \in Working  BY <1>1 DEF ActorsTyped
  <2>. QED  BY <2>1 DEF TaskStepTyped, Turns, Reset, Resolved, GoesOn, Working
<1>3. \A u \in Task : task'[u].lease => task'[u].pc \in Working
  BY <1>1, <1>2 DEF TaskStepTyped, ActorsTyped
<1>. QED  BY <1>1, <1>3 DEF TaskStepTyped, ActorsTyped, actors

LEMMA DeliverTyped ==
  ASSUME Typed, NEW t \in Task, Deliver(t)
  PROVE  Typed' /\ FaultsCounted
<1>1. TaskStepTyped(t) /\ (Quiet \/ Execute(t) \/ Publish(t) \/ Commit(t))  BY DeliverTurns
<1>2. UNCHANGED actors  BY <1>1 DEF Quiet, Execute, Publish, Commit, actors
<1>3. ActorsTyped'  BY <1>1, <1>2, TaskStepKeepsTypes
<1>4. FaultsCounted  BY <1>1 DEF TaskStepTyped
<1>5. FilesTyped /\ HistoryTyped  BY DEF Typed
<1>6. t.src \in Source /\ t.con \in Consumer  BY DEF Task
<1>7. FilesTyped'
  <2>1. CASE Quiet  BY <1>5, <2>1 DEF Quiet, FilesTyped, ledger, records
  <2>2. CASE Execute(t)  BY <1>5, <2>2 DEF Execute, FilesTyped, ledger, records
  <2>3. CASE Publish(t)
    <3>1. output' = [output EXCEPT ![t.src][t.con] = TRUE]  BY <2>3 DEF Publish
    <3>2. output' \in [Source -> [Consumer -> BOOLEAN]]  BY <1>5, <1>6, <3>1 DEF FilesTyped
    <3>. QED  BY <1>5, <2>3, <3>2 DEF Publish, FilesTyped, ledger
  <2>4. CASE Commit(t)
    <3>1. outcome' = outcome \/ \E w \in Terminal : outcome' = [outcome EXCEPT ![t.src][t.con] = w]
      BY <2>4 DEF Commit, Terminal
    <3>3. ASSUME NEW w \in Terminal, outcome' = [outcome EXCEPT ![t.src][t.con] = w]
          PROVE  outcome' \in [Source -> [Consumer -> Terminal \cup {"none"}]]
      <4>. DEFINE V == Terminal \cup {"none"}
      <4>1. outcome \in [Source -> [Consumer -> V]] /\ w \in V  BY <1>5 DEF FilesTyped
      <4>. HIDE DEF V
      <4>2. outcome' \in [Source -> [Consumer -> V]]  BY <4>1, <3>3, <1>6
      <4>. QED  BY <4>2 DEF V
    <3>2. outcome' \in [Source -> [Consumer -> Terminal \cup {"none"}]]  BY <1>5, <3>1, <3>3 DEF FilesTyped
    <3>. QED  BY <1>5, <2>4, <3>2 DEF Commit, FilesTyped, ledger
  <2>. QED  BY <1>1, <2>1, <2>2, <2>3, <2>4
<1>8. HistoryTyped'
  <2>1. CASE Quiet \/ Publish(t) \/ Commit(t)
    BY <1>4, <1>5, <2>1 DEF Quiet, Publish, Commit, HistoryTyped, history, FaultsCounted
  <2>2. CASE Execute(t)
    <3>1. ingested' = ingested \/ ingested' = Append(ingested, t.src)  BY <2>2 DEF Execute
    <3>2. ingested' \in Seq(Source)  BY <1>5, <1>6, <3>1, RangeOfAppend DEF HistoryTyped
    <3>3. replayed' \subseteq Source  BY <1>5, <1>6, <2>2 DEF Execute, HistoryTyped
    <3>. QED  BY <1>4, <1>5, <2>2, <3>2, <3>3 DEF Execute, HistoryTyped, FaultsCounted
  <2>. QED  BY <1>1, <2>1, <2>2
<1>. QED  BY <1>3, <1>4, <1>7, <1>8 DEF Typed


LEMMA PutCounted == ASSUME Typed, Put PROVE FaultsCounted
<1>1. ASSUME NEW s \in Source, PutIndex(s) PROVE FaultsCounted  BY <1>1, SameFaults DEF PutIndex
<1>2. CASE PutPending  BY <1>2, SameFaults DEF PutPending
<1>3. CASE PutRefused  BY <1>3, OneFault DEF PutRefused, FaultKind
<1>4. CASE PutEnvelope  BY <1>4, SameFaults, OneFault DEF PutEnvelope, FaultKind
<1>. QED  BY <1>1, <1>2, <1>3, <1>4 DEF Put

LEMMA RecoverTyped ==
  ASSUME Typed, NEW s \in Source, Recover(s)
  PROVE  Typed' /\ FaultsCounted
<1>. USE DEF FilesTyped, HistoryTyped, ledger, records, history, actors
<1>0. ActorsTyped /\ FilesTyped /\ HistoryTyped  BY DEF Typed
<1>1. FaultsCounted
  <2>1. faults' = faults
    BY DEF Recover, ClearSettled, SettlePending, ClearReleased, ReapOrphan, ReapIndexMarker, ReapRetry,
           Attempt, Salvage, BackoffEnds, Forgive
  <2>. QED  BY <2>1, SameFaults
<1>2. CASE ClearSettled(s) \/ SettlePending(s) \/ ClearReleased(s)
  <2>1. pending' \subseteq pending /\ aged' \subseteq aged
    BY <1>2 DEF ClearSettled, SettlePending, ClearReleased, Unmark
  <2>2. UNCHANGED <<watermark, index, records, retry, task, actors, history>>
    BY <1>2 DEF ClearSettled, SettlePending, ClearReleased
  <2>3. FilesTyped' /\ ActorsTyped'  BY <1>0, <2>1, <2>2 DEF ActorsTyped
  <2>. QED  BY <1>0, <1>1, <2>2, <2>3 DEF Typed, FaultsCounted
<1>3. CASE ReapOrphan(s) \/ ReapIndexMarker(s)
  <2>1. index' \subseteq index /\ aged' \subseteq aged
    BY <1>3 DEF ReapOrphan, ReapIndexMarker, Unindex
  <2>2. UNCHANGED <<watermark, pending, records, retry, task, put, releaser, history>>
          /\ reaping' \in Source \cup {NoSource}
    BY <1>0, <1>3 DEF ReapOrphan, ReapIndexMarker, ActorsTyped
  <2>3. FilesTyped' /\ ActorsTyped'  BY <1>0, <2>1, <2>2 DEF ActorsTyped
  <2>. QED  BY <1>0, <1>1, <2>2, <2>3 DEF Typed, FaultsCounted
<1>4. ASSUME NEW c \in Consumer, Salvage(s, c) PROVE Typed'
  BY <1>0, <1>4 DEF Salvage, Typed, ActorsTyped
<1>5. NoRetry \in RetryRecord  BY SourceConstants DEF NoRetry, RetryRecord
<1>6. retry \in [Source -> [Consumer -> RetryRecord]]  BY <1>0 DEF ActorsTyped
<1>7. ASSUME NEW c \in Consumer, ReapRetry(s, c) \/ Forgive(s, c) \/ BackoffEnds(s, c) PROVE Typed'
  <2>1. retry' = [retry EXCEPT ![s][c] = NoRetry] \/ retry' = [retry EXCEPT ![s][c].kind = "due"]
    BY <1>7 DEF ReapRetry, Forgive, BackoffEnds
  <2>2. retry' \in [Source -> [Consumer -> RetryRecord]]
    <3>1. CASE retry' = [retry EXCEPT ![s][c] = NoRetry]  BY <1>5, <1>6, <3>1
    <3>2. CASE retry' = [retry EXCEPT ![s][c].kind = "due"]
      <4>. DEFINE r == [retry[s][c] EXCEPT !.kind = "due"]
      <4>0. retry[s][c] \in RetryRecord  BY <1>6
      <4>1. r \in RetryRecord  BY <4>0 DEF RetryRecord
      <4>2. retry' = [retry EXCEPT ![s][c] = r]  BY <3>2, <1>6
      <4>. HIDE DEF r
      <4>. QED  BY <1>6, <4>1, <4>2
    <3>. QED  BY <2>1, <3>1, <3>2
  <2>. QED  BY <1>0, <1>7, <2>2 DEF ReapRetry, Forgive, BackoffEnds, Typed, ActorsTyped
<1>8. ASSUME NEW c \in Consumer, Attempt(s, c) PROVE Typed'
  <2>6. PICK a \in BOOLEAN : \E ts : task' = Started(ts, a)  BY <1>8 DEF Attempt, abandoning, abandons
  <2>1. PICK ts : task' = Started(ts, a)  BY <2>6
  <2>2. [pc |-> "look", abandon |-> a, lease |-> FALSE] \in TaskRecord  BY DEF TaskRecord, TaskStep
  <2>3. \A t \in Task : task'[t] = [pc |-> "look", abandon |-> a, lease |-> FALSE] \/ task'[t] = task[t]
    BY <2>1 DEF Started
  <2>7. \A t \in Task : ~task'[t].lease \/ task'[t] = task[t]  BY <2>3
  <2>4. \A t \in Task : task'[t].lease => task'[t].pc \in Working  BY <1>0, <2>7 DEF ActorsTyped
  <2>5. task' \in [Task -> TaskRecord]  BY <1>0, <2>1, <2>2 DEF Started, ActorsTyped
  <2>. QED  BY <1>0, <1>8, <2>4, <2>5 DEF Attempt, Typed, ActorsTyped
<1>. QED  BY <1>1, <1>2, <1>3, <1>4, <1>7, <1>8 DEF Recover

LEMMA ReleaserTyped ==
  ASSUME Typed, Release
  PROVE  /\ releaser' \in ReleaserRecord
         /\ releaser' # Resting => releaser'.todo # <<>> /\ releaser'.pc # "off"
         /\ releaser.pc # "off" => Head(releaser.todo) \in Source
<1>1. releaser \in ReleaserRecord /\ (releaser # Resting => releaser.todo # <<>> /\ releaser.pc # "off")
  BY DEF Typed, ActorsTyped
<1>2. releaser.pc # "off" => releaser # Resting /\ releaser.todo \in Seq(Source) /\ releaser.todo # <<>>
  BY <1>1 DEF Resting, ReleaserRecord
<1>3. releaser.pc # "off" =>
         /\ Head(releaser.todo) \in Source /\ Tail(releaser.todo) \in Seq(Source)
         /\ Len(releaser.todo) # 1 => Tail(releaser.todo) # <<>>
  BY <1>2, RangeOfTail
<1>4. Resting \in ReleaserRecord  BY DEF Resting, ReleaserRecord, ReleaseStep
<1>5. CASE ReleaseScan
  <2>1. Releasable \in SUBSET Source  BY DEF Releasable, Typed, FilesTyped
  <2>2. PICK todo \in Sorted(Releasable) : releaser' = [todo |-> todo, pc |-> "lock"]  BY <1>5 DEF ReleaseScan
  <2>3. todo \in Seq(Source) /\ todo # <<>>  BY <1>5, <2>1, SortedIsSequence DEF ReleaseScan
  <2>. QED  BY <1>3, <2>2, <2>3 DEF ReleaserRecord, ReleaseStep
<1>6. CASE ReleaseLock \/ ReleaseMark \/ ReleaseEnvelope \/ ReleaseOutcomes \/ ReleaseOutputs \/ ReleasePending
  <2>1. releaser.pc # "off"
    BY <1>6 DEF ReleaseLock, ReleaseMark, ReleaseEnvelope, ReleaseOutcomes, ReleaseOutputs, ReleasePending
  <2>2. releaser' = Resting \/ \E pc \in ReleaseStep \ {"off"} : releaser' = [releaser EXCEPT !.pc = pc]
    BY <1>6 DEF ReleaseLock, ReleaseMark, ReleaseEnvelope, ReleaseOutcomes, ReleaseOutputs, ReleasePending,
                ReleaseStep
  <2>3. CASE releaser' = Resting  BY <1>3, <1>4, <2>3
  <2>4. ASSUME NEW pc \in ReleaseStep \ {"off"}, releaser' = [releaser EXCEPT !.pc = pc]
        PROVE  releaser' \in ReleaserRecord /\ releaser'.todo # <<>> /\ releaser'.pc # "off"
    BY <1>1, <1>2, <2>1, <2>4 DEF ReleaserRecord
  <2>. QED  BY <1>3, <2>2, <2>3, <2>4
<1>7. CASE ReleaseIndex
  <2>1. releaser.pc # "off"  BY <1>7 DEF ReleaseIndex
  <2>2. releaser' = Resting \/ (Len(releaser.todo) # 1 /\ releaser' = [todo |-> Tail(releaser.todo), pc |-> "lock"])
    BY <1>7 DEF ReleaseIndex
  <2>3. CASE releaser' = Resting  BY <1>3, <1>4, <2>3
  <2>4. CASE Len(releaser.todo) # 1 /\ releaser' = [todo |-> Tail(releaser.todo), pc |-> "lock"]
    <3>. DEFINE q == Tail(releaser.todo)
    <3>1. q \in Seq(Source) /\ q # <<>>  BY <1>3, <2>1, <2>4
    <3>2. releaser' = [todo |-> q, pc |-> "lock"]  BY <2>4
    <3>. HIDE DEF q
    <3>. QED  BY <1>3, <3>1, <3>2 DEF ReleaserRecord, ReleaseStep
  <2>. QED  BY <2>2, <2>3, <2>4
<1>8. CASE ReleaseAborts  BY <1>3, <1>4, <1>8 DEF ReleaseAborts
<1>. QED  BY <1>5, <1>6, <1>7, <1>8 DEF Release

LEMMA ReleaseTyped ==
  ASSUME Typed, Release
  PROVE  Typed' /\ FaultsCounted
<1>. USE DEF FilesTyped, HistoryTyped, ledger, records, history
<1>0. ActorsTyped /\ FilesTyped /\ HistoryTyped  BY DEF Typed
<1>1. /\ releaser' \in ReleaserRecord
      /\ releaser' # Resting => releaser'.todo # <<>> /\ releaser'.pc # "off"
      /\ releaser.pc # "off" => Head(releaser.todo) \in Source
  BY ReleaserTyped
<1>2. CASE ReleaseScan \/ ReleaseLock
  BY <1>0, <1>1, <1>2, SameFaults DEF ReleaseScan, ReleaseLock, Typed, ActorsTyped
<1>3. CASE ReleaseMark
  <2>1. watermark' \in Nat  BY <1>0, <1>1, <1>3, SourceConstants DEF ReleaseMark
  <2>. QED  BY <1>0, <1>1, <1>3, <2>1, SameFaults DEF ReleaseMark, Typed, ActorsTyped
<1>4. CASE ReleaseEnvelope
  BY <1>0, <1>1, <1>4, SameFaults DEF ReleaseEnvelope, Typed, ActorsTyped
<1>5. CASE ReleaseOutcomes
  BY <1>0, <1>1, <1>5, SameFaults DEF ReleaseOutcomes, Typed, ActorsTyped
<1>6. CASE ReleaseOutputs
  BY <1>0, <1>1, <1>6, SameFaults DEF ReleaseOutputs, Typed, ActorsTyped
<1>7. CASE ReleasePending
  BY <1>0, <1>1, <1>7, SameFaults DEF ReleasePending, Unmark, Typed, ActorsTyped
<1>8. CASE ReleaseIndex
  BY <1>0, <1>1, <1>8, SameFaults DEF ReleaseIndex, Unindex, Typed, ActorsTyped
<1>9. CASE ReleaseAborts
  <2>1. FaultsCounted  BY <1>9, OneFault DEF ReleaseAborts, FaultKind
  <2>. QED  BY <1>0, <1>1, <1>9, <2>1 DEF ReleaseAborts, Typed, ActorsTyped, FaultsCounted
<1>. QED  BY <1>2, <1>3, <1>4, <1>5, <1>6, <1>7, <1>8, <1>9 DEF Release

LEMMA OutsideTyped ==
  ASSUME Typed, Crash \/ ReapPending \/ \E s \in Source : Age(s) \/ LoseOutput(s)
  PROVE  Typed' /\ FaultsCounted
<1>. USE DEF FilesTyped, HistoryTyped, ledger, records, history, actors
<1>0. ActorsTyped /\ FilesTyped /\ HistoryTyped  BY DEF Typed
<1>1. CASE Crash
  <2>1. FaultsCounted  BY <1>1, OneFault DEF Crash, FaultKind
  <2>2. Idle \in TaskRecord /\ ~Idle.lease /\ NoPut \in PutRecord /\ Resting \in ReleaserRecord
    BY DEF Idle, TaskRecord, TaskStep, NoPut, PutRecord, Resting, ReleaserRecord, ReleaseStep
  <2>3. task' \in [Task -> TaskRecord] /\ \A t \in Task : ~task'[t].lease  BY <1>1, <2>2 DEF Crash
  <2>. QED  BY <1>0, <1>1, <2>1, <2>2, <2>3 DEF Crash, Typed, ActorsTyped, FaultsCounted
<1>2. CASE ReapPending
  BY <1>0, <1>2, SameFaults DEF ReapPending, Unmark, Typed, ActorsTyped
<1>3. ASSUME NEW s \in Source, Age(s) PROVE Typed' /\ FaultsCounted
  <2>1. FaultsCounted  BY <1>3, OneFault DEF Age, FaultKind
  <2>2. aged' \subseteq Source \X {"index", "pending"}  BY <1>0, <1>3 DEF Age
  <2>. QED  BY <1>0, <1>3, <2>1, <2>2 DEF Age, Typed, ActorsTyped, FaultsCounted
<1>4. ASSUME NEW s \in Source, LoseOutput(s) PROVE Typed' /\ FaultsCounted
  <2>1. FaultsCounted  BY <1>4, OneFault DEF LoseOutput, FaultKind
  <2>2. output' \in [Source -> [Consumer -> BOOLEAN]]  BY <1>0, <1>4 DEF LoseOutput, Consumer
  <2>. QED  BY <1>0, <1>4, <2>1, <2>2 DEF LoseOutput, Typed, ActorsTyped, FaultsCounted
<1>. QED  BY <1>1, <1>2, <1>3, <1>4

LEMMA TypedKept ==
  ASSUME Typed, [Next]_vars
  PROVE  Typed' /\ FaultsCounted
<1>1. CASE UNCHANGED vars
  BY <1>1, SameFaults DEF vars, Typed, FilesTyped, ActorsTyped, HistoryTyped
<1>2. CASE Put  BY <1>2, PutTyped, PutCounted
<1>3. CASE Next /\ ~Put
  BY <1>3, DeliverTyped, RecoverTyped, ReleaseTyped, OutsideTyped DEF Next
<1>. QED  BY <1>1, <1>2, <1>3

\* Every variable keeps to the values its file, record or actor can have.
THEOREM LedgerTypeCorrect == Spec => []TypeOK
<1>1. Init => Typed  BY TypedAtStart
<1>2. Typed /\ [Next]_vars => Typed'  BY TypedKept
<1>3. Typed => TypeOK
  BY DEF Typed, FilesTyped, ActorsTyped, HistoryTyped, TypeOK, TaskRecord, TaskStep, Working, RetryRecord,
         PutRecord, ReleaserRecord, ReleaseStep
<1>. QED  BY <1>1, <1>2, <1>3, PTL DEF Spec

----------------------------------------------------------------------------
(* What a step may do to each variable.                                    *)

\* The steps that change a file, the releaser, a put or the history.
Loud ==
    \/ PutPending \/ PutRefused \/ PutEnvelope \/ ReapPending \/ Release \/ Crash
    \/ \E t \in Task : Execute(t) \/ Publish(t) \/ Commit(t)
    \/ \E s \in Source :
        \/ PutIndex(s) \/ ClearSettled(s) \/ SettlePending(s) \/ ClearReleased(s) \/ ReapOrphan(s)
        \/ ReapIndexMarker(s) \/ Salvage(s, "behavior") \/ Age(s) \/ LoseOutput(s)

LEMMA QuietOrLoud == ASSUME Typed, [Next]_vars PROVE Quiet \/ Loud
<1>. USE DEF Quiet, Loud
<1>1. CASE UNCHANGED vars  BY <1>1 DEF vars, ledger, records, actors, history
<1>2. CASE Put  BY <1>2 DEF Put
<1>3. ASSUME NEW t \in Task, Deliver(t) PROVE Quiet \/ Loud  BY <1>3, DeliverTurns
<1>4. ASSUME NEW s \in Source, Recover(s) PROVE Quiet \/ Loud
  <2>1. ASSUME NEW c \in Consumer, ReapRetry(s, c) \/ Attempt(s, c) \/ BackoffEnds(s, c) \/ Forgive(s, c)
        PROVE  Quiet
    BY <2>1 DEF ReapRetry, Attempt, BackoffEnds, Forgive
  <2>2. ASSUME NEW c \in Consumer, Salvage(s, c) PROVE Loud  BY <2>2 DEF Salvage, salvages
  <2>. QED  BY <1>4, <2>1, <2>2 DEF Recover
<1>5. CASE Release \/ ReapPending \/ Crash \/ \E s \in Source : Age(s) \/ LoseOutput(s)  BY <1>5
<1>. QED  BY <1>1, <1>2, <1>3, <1>4, <1>5 DEF Next

\* Who writes which file, and who moves the put and the releaser.
LEMMA FilesMove ==
  ASSUME Typed, [Next]_vars
  PROVE  /\ watermark' = watermark \/ ReleaseMark
         /\ envelope' = envelope \/ PutEnvelope \/ ReleaseEnvelope
         /\ outcome' = outcome \/ ReleaseOutcomes \/ \E t \in Task : Commit(t)
         /\ output' = output \/ ReleaseOutputs \/ (\E t \in Task : Publish(t)) \/ \E s \in Source : LoseOutput(s)
         /\ salvaged' = salvaged \/ ReleasePending \/ \E s \in Source : Salvage(s, "behavior")
         /\ index' = index \/ ReleaseIndex \/ (\E s \in Source : PutIndex(s)) \/ (aged # {} /\ index' \subseteq index)
         /\ \/ pending' = pending \/ PutPending \/ ReleasePending \/ ReapPending
            \/ \E s \in Source : ClearSettled(s) \/ SettlePending(s) \/ ClearReleased(s)
         /\ aged' \subseteq aged \/ \E s \in Source : Age(s)
         /\ reaping' \in {reaping, NoSource} \/ aged # {}
         /\ put' \in {put, NoPut} \/ PutPending \/ \E s \in Source : PutIndex(s)
         /\ releaser' \in {releaser, Resting} \/ Release
         /\ accepted' = accepted \/ PutEnvelope
         /\ gone' = gone \/ ReleaseEnvelope
         /\ (ingested' = ingested /\ replayed' = replayed) \/ \E t \in Task : Execute(t)
<1>. USE QuietOrLoud DEF Quiet, Loud, ledger, records, actors, history, PutPending, PutRefused, PutEnvelope,
       PutIndex, Execute, Publish, Commit, ClearSettled, SettlePending, ClearReleased, ReapOrphan,
       ReapPending, ReapIndexMarker, Salvage, Release, ReleaseScan, ReleaseLock, ReleaseMark, ReleaseEnvelope,
       ReleaseOutcomes, ReleaseOutputs, ReleasePending, ReleaseIndex, ReleaseAborts, Crash, Age, LoseOutput,
       Unmark, Unindex
<1>1. watermark' = watermark \/ ReleaseMark  OBVIOUS
<1>2. envelope' = envelope \/ PutEnvelope \/ ReleaseEnvelope  OBVIOUS
<1>3. outcome' = outcome \/ ReleaseOutcomes \/ \E t \in Task : Commit(t)  OBVIOUS
<1>4. output' = output \/ ReleaseOutputs \/ (\E t \in Task : Publish(t)) \/ \E s \in Source : LoseOutput(s)
  OBVIOUS
<1>5. salvaged' = salvaged \/ ReleasePending \/ \E s \in Source : Salvage(s, "behavior")  OBVIOUS
<1>6. index' = index \/ ReleaseIndex \/ (\E s \in Source : PutIndex(s)) \/ (aged # {} /\ index' \subseteq index)
  OBVIOUS
<1>7. \/ pending' = pending \/ PutPending \/ ReleasePending \/ ReapPending
      \/ \E s \in Source : ClearSettled(s) \/ SettlePending(s) \/ ClearReleased(s)
  OBVIOUS
<1>8. aged' \subseteq aged \/ \E s \in Source : Age(s)  OBVIOUS
<1>9. reaping' \in {reaping, NoSource} \/ aged # {}  OBVIOUS
<1>10. put' \in {put, NoPut} \/ PutPending \/ \E s \in Source : PutIndex(s)  OBVIOUS
<1>11. releaser' \in {releaser, Resting} \/ Release  OBVIOUS
<1>12. accepted' = accepted \/ PutEnvelope  OBVIOUS
<1>13. gone' = gone \/ ReleaseEnvelope  OBVIOUS
<1>14. (ingested' = ingested /\ replayed' = replayed) \/ \E t \in Task : Execute(t)  OBVIOUS
<1>. HIDE QuietOrLoud DEF Quiet, Loud, ledger, records, actors, history, PutPending, PutRefused, PutEnvelope,
       PutIndex, Execute, Publish, Commit, ClearSettled, SettlePending, ClearReleased, ReapOrphan,
       ReapPending, ReapIndexMarker, Salvage, Release, ReleaseScan, ReleaseLock, ReleaseMark, ReleaseEnvelope,
       ReleaseOutcomes, ReleaseOutputs, ReleasePending, ReleaseIndex, ReleaseAborts, Crash, Age, LoseOutput,
       Unmark, Unindex
<1>. QED
  BY <1>1, <1>2, <1>3, <1>4, <1>5, <1>6, <1>7, <1>8, <1>9, <1>10, <1>11, <1>12, <1>13, <1>14

\* What a task may become, whoever moves.
TaskTurns(t) ==
    \/ task'[t] = task[t]
    \/ /\ task'[t].pc \in {"off", "look"} /\ ~task'[t].lease
       /\ task'[t].pc = "look" => task[t].pc # "off" \/ t.src \in envelope'
    \/ Deliver(t) /\ Turns(t) /\ \A u \in Task : u # t => task'[u] = task[u]

LEMMA TasksMove ==
  ASSUME Typed, [Next]_vars, NEW t \in Task
  PROVE  TaskTurns(t)
<1>1. CASE UNCHANGED vars  BY <1>1 DEF vars, TaskTurns
<1>2. CASE Put
  <2>1. CASE PutEnvelope
    <3>1. PICK ts : ts = {u \in Task : u.src = put.src /\ u.by = "put"} /\ task' = Started(ts, FALSE)
      BY <2>1 DEF PutEnvelope
    <3>2. put.src \in envelope'  BY <2>1 DEF PutEnvelope
    <3>. QED  BY <3>1, <3>2 DEF Started, TaskTurns
  <2>. QED  BY <1>2, <2>1 DEF Put, PutIndex, PutPending, PutRefused, TaskTurns
<1>3. ASSUME NEW u \in Task, Deliver(u) PROVE TaskTurns(t)
  <2>1. TaskStepTyped(u)  BY <1>3, DeliverTurns
  <2>. QED  BY <1>3, <2>1 DEF TaskStepTyped, TaskTurns
<1>4. ASSUME NEW s \in Source, Recover(s) PROVE TaskTurns(t)
  <2>1. ASSUME NEW c \in Consumer, Attempt(s, c) PROVE TaskTurns(t)
    <3>. DEFINE u == [src |-> s, con |-> c, by |-> "recovery"]
                a == abandoning(s, c)
    <3>1. u.src = s /\ task' = Started({u}, a)  BY <2>1 DEF Attempt
    <3>2. s \in envelope'  BY <2>1 DEF Attempt, waiting, records
    <3>. QED  BY <3>1, <3>2 DEF Started, TaskTurns
  <2>. QED
    BY <1>4, <2>1 DEF Recover, ClearSettled, SettlePending, ClearReleased, ReapOrphan, ReapIndexMarker,
                      ReapRetry, Salvage, BackoffEnds, Forgive, TaskTurns
<1>5. CASE Release
  BY <1>5 DEF Release, ReleaseScan, ReleaseLock, ReleaseMark, ReleaseEnvelope, ReleaseOutcomes, ReleaseOutputs,
              ReleasePending, ReleaseIndex, ReleaseAborts, TaskTurns
<1>6. CASE Crash  BY <1>6 DEF Crash, Idle, TaskTurns
<1>7. CASE ReapPending \/ \E s \in Source : Age(s) \/ LoseOutput(s)
  BY <1>7 DEF ReapPending, Age, LoseOutput, TaskTurns
<1>. QED  BY <1>1, <1>2, <1>3, <1>4, <1>5, <1>6, <1>7 DEF Next

\* Nobody gets a lease but by taking the locks.
LEMMA LeasesMove ==
  ASSUME Typed, [Next]_vars, NEW t \in Task, task'[t].lease
  PROVE  task[t].lease \/ (Acquire(t) /\ \A u \in Task : u # t => task'[u] = task[u])
BY TasksMove DEF TaskTurns, Turns, Reset, Resolved, GoesOn

----------------------------------------------------------------------------
(* Locks: one task or the releaser works on the records of a source.       *)

Deleting == {"mark", "envelope", "outcomes", "outputs"}

Locks ==
    /\ \A t, u \in Task : task[t].lease /\ task[u].lease /\ t.src = u.src /\ t.con = u.con => t = u
    /\ \A t \in Task : task[t].lease => ~ReleaserHolds(t.src)

\* The releaser moves one file class at a time, on the head of its list.
Goes(pc) == releaser' = [releaser EXCEPT !.pc = pc]

LEMMA ReleaserMoves ==
  ASSUME Typed, [Next]_vars
  PROVE  \/ releaser' \in {releaser, Resting}
         \/ ReleaseScan
         \/ releaser.pc = "lock" /\ Goes("mark") /\ task' = task
              /\ \A c \in Consumer : ~Locked(Head(releaser.todo), c)
         \/ ReleaseMark /\ releaser.pc = "mark" /\ Goes("envelope")
         \/ ReleaseEnvelope /\ releaser.pc = "envelope" /\ Goes("outcomes")
         \/ ReleaseOutcomes /\ releaser.pc = "outcomes" /\ Goes("outputs")
         \/ ReleaseOutputs /\ releaser.pc = "outputs" /\ Goes("pending")
         \/ ReleasePending /\ releaser.pc = "pending" /\ Goes("index")
         \/ releaser.pc = "index" /\ releaser' = [todo |-> Tail(releaser.todo), pc |-> "lock"]
<1>1. CASE Release
  <2>1. CASE ReleaseScan \/ ReleaseAborts  BY <2>1 DEF ReleaseAborts
  <2>2. CASE ReleaseLock  BY <2>2 DEF ReleaseLock, Goes
  <2>3. CASE ReleaseMark  BY <2>3 DEF ReleaseMark, Goes
  <2>4. CASE ReleaseEnvelope  BY <2>4 DEF ReleaseEnvelope, Goes
  <2>5. CASE ReleaseOutcomes  BY <2>5 DEF ReleaseOutcomes, Goes
  <2>6. CASE ReleaseOutputs  BY <2>6 DEF ReleaseOutputs, Goes
  <2>7. CASE ReleasePending  BY <2>7 DEF ReleasePending, Goes
  <2>8. CASE ReleaseIndex  BY <2>8 DEF ReleaseIndex
  <2>. QED  BY <1>1, <2>1, <2>2, <2>3, <2>4, <2>5, <2>6, <2>7, <2>8 DEF Release
<1>. QED  BY <1>1, FilesMove

LEMMA GoesKeepsTodo ==
  ASSUME Typed, NEW pc, Goes(pc)
  PROVE  releaser'.todo = releaser.todo /\ releaser'.pc = pc
BY DEF Goes, Typed, ActorsTyped, ReleaserRecord

LEMMA HoldsMoves ==
  ASSUME Typed, [Next]_vars, NEW s \in Source, ReleaserHolds(s)'
  PROVE  \/ ReleaserHolds(s)
         \/ task' = task /\ \A c \in Consumer : ~Locked(s, c)
<1>1. releaser'.pc \in Deleting /\ Head(releaser'.todo) = s  BY DEF ReleaserHolds, Deleting
<1>2. CASE releaser' \in {releaser, Resting}  BY <1>1, <1>2 DEF ReleaserHolds, Deleting, Resting
<1>3. CASE ReleaseScan  BY <1>1, <1>3 DEF ReleaseScan, Deleting
<1>4. CASE releaser.pc = "lock" /\ Goes("mark") /\ task' = task
            /\ \A c \in Consumer : ~Locked(Head(releaser.todo), c)
  BY <1>1, <1>4, GoesKeepsTodo
<1>5. CASE \E pc : releaser.pc \in Deleting /\ Goes(pc)
  BY <1>1, <1>5, GoesKeepsTodo DEF ReleaserHolds, Deleting
<1>6. CASE releaser.pc = "pending" /\ Goes("index")  BY <1>1, <1>6, GoesKeepsTodo DEF Deleting
<1>7. CASE releaser' = [todo |-> Tail(releaser.todo), pc |-> "lock"]  BY <1>1, <1>7 DEF Deleting
<1>. QED  BY <1>2, <1>3, <1>4, <1>5, <1>6, <1>7, ReleaserMoves DEF Deleting

LEMMA LocksKept ==
  ASSUME Typed, Locks, [Next]_vars
  PROVE  Locks'
<1>1. ASSUME NEW t \in Task, NEW u \in Task, task'[t].lease, task'[u].lease, t.src = u.src, t.con = u.con
      PROVE  t = u
  <2>1. CASE task[t].lease /\ task[u].lease  BY <1>1, <2>1 DEF Locks
  <2>2. ASSUME NEW v \in Task, NEW w \in Task, Acquire(v), task'[w].lease, v.src = w.src, v.con = w.con,
               \A x \in Task : x # v => task'[x] = task[x]
        PROVE  v = w
    <3>1. ~Locked(v.src, v.con)  BY <2>2 DEF Acquire
    <3>2. ~Holding(w, v.src, v.con)  BY <3>1 DEF Locked
    <3>. QED  BY <2>2, <3>2 DEF Holding
  <2>. QED  BY <1>1, <2>1, <2>2, LeasesMove
<1>2. ASSUME NEW t \in Task, task'[t].lease, ReleaserHolds(t.src)' PROVE FALSE
  <2>0. t.src \in Source /\ t.con \in Consumer  BY DEF Task
  <2>1. CASE ReleaserHolds(t.src)
    <3>1. Acquire(t)  BY <1>2, <2>1, LeasesMove DEF Locks
    <3>. QED  BY <2>1, <3>1 DEF Acquire, Locked
  <2>2. CASE task' = task /\ \A c \in Consumer : ~Locked(t.src, c)
    BY <1>2, <2>0, <2>2 DEF Locked, Holding
  <2>. QED  BY <1>2, <2>0, <2>1, <2>2, HoldsMoves
<1>. QED  BY <1>1, <1>2 DEF Locks, ReleaserHolds

----------------------------------------------------------------------------
(* The records of a source and a consumer.                                 *)

LEMMA InspectSays ==
  ASSUME Typed, NEW s \in Source, NEW c \in Consumer
  PROVE  /\ inspect(s, c) = "PENDING" <=> outcome[s][c] = "none" /\ ~output[s][c]
         /\ inspect(s, c) = "OUTPUT_READY" <=> outcome[s][c] = "none" /\ output[s][c]
         /\ inspect(s, c) = "COMMITTED" <=> outcome[s][c] = "COMMITTED" /\ output[s][c]
         /\ inspect(s, c) = "SKIPPED" <=> outcome[s][c] = "SKIPPED" /\ ~output[s][c]
         /\ inspect(s, c) = "BROKEN_OUTCOME" <=> outcome[s][c] = "COMMITTED" /\ ~output[s][c]
         /\ inspect(s, c) = "CORRUPTED" <=> outcome[s][c] = "SKIPPED" /\ output[s][c]
<1>1. outcome[s][c] \in {"none", "COMMITTED", "SKIPPED"} /\ output[s][c] \in BOOLEAN
  BY DEF Typed, FilesTyped, Terminal
<1>2. \/ outcome[s][c] = "none" /\ ~output[s][c] /\ inspect(s, c) = "PENDING"
      \/ outcome[s][c] = "none" /\ output[s][c] /\ inspect(s, c) = "OUTPUT_READY"
      \/ outcome[s][c] = "COMMITTED" /\ output[s][c] /\ inspect(s, c) = "COMMITTED"
      \/ outcome[s][c] = "COMMITTED" /\ ~output[s][c] /\ inspect(s, c) = "BROKEN_OUTCOME"
      \/ outcome[s][c] = "SKIPPED" /\ ~output[s][c] /\ inspect(s, c) = "SKIPPED"
      \/ outcome[s][c] = "SKIPPED" /\ output[s][c] /\ inspect(s, c) = "CORRUPTED"
  BY <1>1 DEF inspect
<1>. QED  BY <1>2

\* The first outcome is kept, and it fits the output.
CommittedBy(t) ==
    LET s == t.src
        c == t.con
    IN  /\ task[t].lease /\ outcome[s][c] = "none"
        /\ \/ task[t].pc = "skip" /\ ~output[s][c] /\ outcome'[s][c] = "SKIPPED"
           \/ task[t].pc = "commit" /\ output[s][c] /\ outcome'[s][c] = "COMMITTED"
        /\ \A p \in Source, d \in Consumer : <<p, d>> # <<s, c>> => outcome'[p][d] = outcome[p][d]
        /\ UNCHANGED <<output, envelope, salvaged, releaser, ingested, accepted, put>>
        /\ \A u \in Task : u # t => task'[u] = task[u]

LEMMA CommitMoves ==
  ASSUME Typed, NEW t \in Task, Commit(t)
  PROVE  outcome' = outcome \/ CommittedBy(t)
<1>0. t.src \in Source /\ t.con \in Consumer /\ task[t].pc \in {"skip", "commit"} /\ task[t].lease
  BY DEF Task, Commit
<1>. DEFINE wanted == IF task[t].pc = "skip" THEN "SKIPPED" ELSE "COMMITTED"
            seen == IF task[t].pc = "skip" THEN "PENDING" ELSE "OUTPUT_READY"
<1>1. outcome' = outcome
        \/ (inspect(t.src, t.con) = seen /\ outcome' = [outcome EXCEPT ![t.src][t.con] = wanted])
  BY DEF Commit, At
<1>2. CASE inspect(t.src, t.con) = seen /\ outcome' = [outcome EXCEPT ![t.src][t.con] = wanted]
  <2>1. outcome \in [Source -> [Consumer -> Terminal \cup {"none"}]]  BY DEF Typed, FilesTyped
  <2>2. outcome'[t.src][t.con] = wanted  BY <1>0, <1>2, <2>1
  <2>3. \A p \in Source, d \in Consumer : <<p, d>> # <<t.src, t.con>> => outcome'[p][d] = outcome[p][d]
    BY <1>0, <1>2, <2>1
  <2>4. outcome[t.src][t.con] = "none"
          /\ (task[t].pc = "skip" => ~output[t.src][t.con]) /\ (task[t].pc = "commit" => output[t.src][t.con])
    BY <1>0, <1>2, InspectSays
  <2>5. UNCHANGED <<output, envelope, salvaged, releaser, ingested, accepted, put>>
    BY DEF Commit, actors, history
  <2>6. \A u \in Task : u # t => task'[u] = task[u]  BY CommitTurns DEF TaskStepTyped
  <2>. QED  BY <1>0, <2>2, <2>3, <2>4, <2>5, <2>6 DEF CommittedBy
<1>. QED  BY <1>1, <1>2

LEMMA OutcomesMove ==
  ASSUME Typed, [Next]_vars, NEW s \in Source, NEW c \in Consumer
  PROVE  \/ outcome'[s][c] = outcome[s][c]
         \/ ReleaseOutcomes /\ releaser.pc = "outcomes" /\ s = Head(releaser.todo) /\ outcome'[s][c] = "none"
         \/ \E t \in Task : CommittedBy(t) /\ t.src = s /\ t.con = c
<1>1. CASE ReleaseOutcomes
  <2>1. outcome' = [outcome EXCEPT ![Head(releaser.todo)] = [d \in Consumer |-> "none"]]
    BY <1>1 DEF ReleaseOutcomes
  <2>2. outcome \in [Source -> [Consumer -> Terminal \cup {"none"}]]  BY DEF Typed, FilesTyped
  <2>3. outcome'[s] = IF s = Head(releaser.todo) THEN [d \in Consumer |-> "none"] ELSE outcome[s]
    BY <2>1, <2>2
  <2>. QED  BY <1>1, <2>3 DEF ReleaseOutcomes
<1>2. ASSUME NEW t \in Task, CommittedBy(t)
      PROVE  outcome'[s][c] = outcome[s][c] \/ (t.src = s /\ t.con = c)
  BY <1>2 DEF CommittedBy
<1>. QED  BY <1>1, <1>2, CommitMoves, FilesMove

\* Where an output comes from and where it goes.
PublishedBy(t) ==
    /\ task[t].lease /\ task[t].pc = "publish" /\ output'[t.src][t.con]
    /\ outcome' = outcome /\ releaser' = releaser

LEMMA OutputsMove ==
  ASSUME Typed, [Next]_vars, NEW s \in Source, NEW c \in Consumer
  PROVE  \/ output'[s][c] = output[s][c]
         \/ /\ ReleaseOutputs /\ releaser.pc = "outputs" /\ s = Head(releaser.todo) /\ ~output'[s][c]
            /\ outcome' = outcome
         \/ \E t \in Task : PublishedBy(t) /\ t.src = s /\ t.con = c
         \/ /\ c = "behavior" /\ outcome[s][c] = "COMMITTED" /\ outcome' = outcome /\ ~output'[s][c]
            /\ faults'["damage"] > 0
<1>0. output \in [Source -> [Consumer -> BOOLEAN]]  BY DEF Typed, FilesTyped
<1>1. CASE ReleaseOutputs
  <2>1. output' = [output EXCEPT ![Head(releaser.todo)] = [d \in Consumer |-> FALSE]]
    BY <1>1 DEF ReleaseOutputs
  <2>2. output'[s] = IF s = Head(releaser.todo) THEN [d \in Consumer |-> FALSE] ELSE output[s]
    BY <1>0, <2>1
  <2>3. outcome' = outcome /\ releaser.pc = "outputs"  BY <1>1 DEF ReleaseOutputs
  <2>4. CASE s = Head(releaser.todo)
    <3>1. ~output'[s][c]  BY <2>2, <2>4
    <3>. QED  BY <1>1, <2>3, <2>4, <3>1
  <2>. QED  BY <2>2, <2>4
<1>2. ASSUME NEW t \in Task, Publish(t)
      PROVE  output'[s][c] = output[s][c] \/ (PublishedBy(t) /\ t.src = s /\ t.con = c)
  <2>1. t.src \in Source /\ t.con \in Consumer  BY DEF Task
  <2>2. output' = [output EXCEPT ![t.src][t.con] = TRUE] /\ task[t].lease /\ task[t].pc = "publish"
          /\ outcome' = outcome /\ releaser' = releaser
    BY <1>2 DEF Publish, At, actors
  <2>. QED  BY <1>0, <2>1, <2>2 DEF PublishedBy
<1>3. ASSUME NEW p \in Source, LoseOutput(p)
      PROVE  output'[s][c] = output[s][c]
               \/ (c = "behavior" /\ outcome[s][c] = "COMMITTED" /\ outcome' = outcome /\ ~output'[s][c]
                   /\ faults'["damage"] > 0)
  <2>1. faults'["damage"] > 0  BY <1>3, OneFault DEF LoseOutput, FaultKind
  <2>2. output' = [output EXCEPT ![p]["behavior"] = FALSE] /\ outcome[p]["behavior"] = "COMMITTED"
          /\ outcome' = outcome
    BY <1>3 DEF LoseOutput
  <2>. QED  BY <1>0, <2>1, <2>2 DEF Consumer
<1>. QED  BY <1>1, <1>2, <1>3, FilesMove


\* What the records of a source and a consumer say fits together.
FitsMemory(s) ==
    /\ outcome[s]["memory"] # "SKIPPED"
    /\ outcome[s]["memory"] = "COMMITTED" => output[s]["memory"]

FitsBehavior(s) ==
    /\ outcome[s]["behavior"] = "SKIPPED" => ~output[s]["behavior"]
    /\ faults["damage"] = 0 /\ outcome[s]["behavior"] = "COMMITTED" => output[s]["behavior"]

Records ==
    /\ \A t \in Task :
          task[t].lease /\ task[t].pc \in {"run", "publish"} => outcome[t.src][t.con] = "none"
    /\ \A t \in Task : t.con = "memory" => task[t].pc # "skip"
    /\ \A s \in Source : FitsMemory(s) /\ FitsBehavior(s)
    /\ releaser.pc = "outputs" => \A c \in Consumer : outcome[Head(releaser.todo)][c] = "none"

\* A task keeps its step and its lease, starts over, or takes its next step.
LEMMA RunsMove ==
  ASSUME Typed, [Next]_vars, NEW t \in Task
  PROVE  /\ task'[t].pc = "run" =>
              \/ task[t].pc = "run" /\ (task'[t].lease => task[t].lease)
              \/ task[t].pc = "held" /\ task[t].lease /\ task'[t].lease /\ Resolved(t)
         /\ task'[t].pc = "publish" =>
              \/ task[t].pc = "publish" /\ (task'[t].lease => task[t].lease)
              \/ task[t].pc = "run" /\ task'[t].lease = task[t].lease /\ Execute(t)
         /\ task'[t].pc = "skip" => task[t].pc = "skip" \/ t.con = "behavior"
BY TasksMove DEF TaskTurns, Turns, Reset, Resolved, GoesOn


LEMMA RecordsKept ==
  ASSUME Typed, Locks, Records, [Next]_vars
  PROVE  Records'
<1>0. FaultsCounted /\ Typed'  BY TypedKept
<1>1. ASSUME NEW t \in Task, task'[t].lease, task'[t].pc \in {"run", "publish"}
      PROVE  outcome'[t.src][t.con] = "none"
  <2>0. t.src \in Source /\ t.con \in Consumer  BY DEF Task
  <2>1. outcome[t.src][t.con] = "none" /\ task[t].lease
    <3>1. CASE task[t].pc = "held" /\ task[t].lease /\ Resolved(t)
      BY <2>0, <3>1, InspectSays DEF Resolved, GoesOn
    <3>2. CASE task[t].pc \in {"run", "publish"} /\ task[t].lease  BY <3>2 DEF Records
    <3>. QED  BY <1>1, <3>1, <3>2, RunsMove
  <2>2. ASSUME NEW u \in Task, CommittedBy(u), u.src = t.src, u.con = t.con PROVE FALSE
    <3>1. u = t  BY <2>1, <2>2 DEF CommittedBy, Locks
    <3>2. task[t].pc \in {"skip", "commit"}  BY <2>2, <3>1 DEF CommittedBy
    <3>. QED  BY <1>1, <3>2, RunsMove
  <2>. QED  BY <2>0, <2>1, <2>2, OutcomesMove
<1>2. ASSUME NEW t \in Task, t.con = "memory" PROVE task'[t].pc # "skip"
  BY <1>2, RunsMove DEF Records
<1>3. ASSUME NEW s \in Source PROVE FitsMemory(s)' /\ FitsBehavior(s)'
  <2>0. "memory" \in Consumer /\ "behavior" \in Consumer  BY DEF Consumer
  <2>1. FitsMemory(s) /\ FitsBehavior(s)  BY DEF Records
  <2>2. faults["damage"] = 0 \/ faults'["damage"] # 0
    BY <1>0 DEF FaultsCounted, FaultKind, Typed, HistoryTyped
  <2>3. ASSUME NEW c \in Consumer
        PROVE  /\ outcome'[s][c] = "COMMITTED" => output'[s][c] \/ faults'["damage"] # 0
               /\ c = "memory" => outcome'[s][c] # "SKIPPED"
               /\ c = "memory" /\ outcome'[s][c] = "COMMITTED" => output'[s][c]
               /\ outcome'[s][c] = "SKIPPED" => ~output'[s][c]
    <3>1. /\ outcome[s][c] = "COMMITTED" => output[s][c] \/ faults'["damage"] # 0
          /\ c = "memory" => outcome[s][c] # "SKIPPED"
          /\ c = "memory" /\ outcome[s][c] = "COMMITTED" => output[s][c]
          /\ outcome[s][c] = "SKIPPED" => ~output[s][c]
      BY <2>1, <2>2, c \in {"memory", "behavior"} DEF FitsMemory, FitsBehavior, Consumer
    <3>2. ASSUME NEW t \in Task, CommittedBy(t), t.src = s, t.con = c
          PROVE  /\ output' = output
                 /\ \/ task[t].pc = "skip" /\ ~output[s][c] /\ outcome'[s][c] = "SKIPPED" /\ c # "memory"
                    \/ output[s][c] /\ outcome'[s][c] = "COMMITTED"
      BY <3>2 DEF CommittedBy, Records
    <3>3. ASSUME NEW t \in Task, PublishedBy(t), t.src = s, t.con = c
          PROVE  outcome'[s][c] = "none"
      BY <3>3 DEF PublishedBy, Records
    <3>4. releaser.pc = "outputs" /\ s = Head(releaser.todo) => outcome[s][c] = "none"  BY DEF Records
    <3>5. CASE outcome'[s][c] = "none"  BY <3>5
    <3>6. CASE \E t \in Task : CommittedBy(t) /\ t.src = s /\ t.con = c  BY <3>2, <3>6
    <3>7. CASE outcome'[s][c] = outcome[s][c] /\ outcome[s][c] # "none"
      <4>1. CASE output'[s][c] = output[s][c]  BY <3>1, <3>7, <4>1
      <4>2. CASE c = "behavior" /\ outcome[s][c] = "COMMITTED" /\ faults'["damage"] > 0
        BY <1>0, <3>1, <3>7, <4>2 DEF Typed, HistoryTyped, FaultKind
      <4>. QED  BY <3>3, <3>4, <3>7, <4>1, <4>2, OutputsMove
    <3>. QED  BY <3>5, <3>6, <3>7, OutcomesMove
  <2>. QED  BY <2>0, <2>3 DEF FitsMemory, FitsBehavior
<1>4. ASSUME releaser'.pc = "outputs", NEW c \in Consumer
      PROVE  outcome'[Head(releaser'.todo)][c] = "none"
  <2>0. Head(releaser'.todo) \in Source
    <3>1. releaser' \in ReleaserRecord /\ releaser' # Resting
            /\ (releaser' # Resting => releaser'.todo # <<>>)
      BY <1>0, <1>4 DEF Typed, ActorsTyped, Resting
    <3>. QED  BY <3>1, RangeOfTail DEF ReleaserRecord
  <2>1. CASE releaser' = releaser
    <3>1. outcome[Head(releaser.todo)][c] = "none"  BY <1>4, <2>1 DEF Records
    <3>2. ASSUME NEW t \in Task, CommittedBy(t), t.src = Head(releaser.todo), t.con = c PROVE FALSE
      <4>1. ReleaserHolds(t.src)  BY <1>4, <2>1, <3>2 DEF ReleaserHolds
      <4>. QED  BY <3>2, <4>1 DEF CommittedBy, Locks
    <3>. QED  BY <2>0, <2>1, <3>1, <3>2, OutcomesMove
  <2>2. CASE ReleaseOutcomes /\ Goes("outputs")
    <3>1. releaser'.todo = releaser.todo  BY <2>2, GoesKeepsTodo
    <3>2. outcome' = [outcome EXCEPT ![Head(releaser.todo)] = [d \in Consumer |-> "none"]]
      BY <2>2 DEF ReleaseOutcomes
    <3>. QED  BY <2>0, <3>1, <3>2 DEF Typed, FilesTyped
  <2>. QED  BY <1>4, <2>1, <2>2, ReleaserMoves, GoesKeepsTodo DEF Resting, ReleaseScan
<1>. QED  BY <1>1, <1>2, <1>3, <1>4 DEF Records, FitsMemory, FitsBehavior

----------------------------------------------------------------------------
(* What was delivered, and in which order.                                 *)

Delivered == Range(Order)

\* A later source of the conversation was accepted.
Passed(s) == \E l \in accepted : Before(s, l)

\* The source may be delivered: all before it were accepted, none after it was.
Newest(s) ==
    /\ s \in Delivered
    /\ \A a \in Delivered : (Before(a, s) => a \in accepted) /\ (Before(s, a) => a \notin accepted)

Arrivals ==
    /\ index \cup accepted \subseteq Delivered
    /\ envelope \subseteq accepted
    /\ \A t \in Task : task[t].pc # "off" => t.src \in accepted
    /\ \A s \in Source, c \in Consumer : outcome[s][c] # "none" => s \in accepted
    /\ \A a \in Delivered, b \in accepted : Before(a, b) => a \in accepted
    /\ put # NoPut => Newest(put.src)

LEMMA DeliveredAreSources == Delivered \subseteq Source
BY SourceConstants DEF Delivered, Range

LEMMA DeliveredAreOrdered ==
  ASSUME NEW a \in Delivered, NEW b \in Delivered
  PROVE  a = b \/ Before(a, b) \/ Before(b, a)
<1>1. PICK i \in DOMAIN Order : a = Order[i]  BY DEF Delivered, Range
<1>2. PICK j \in DOMAIN Order : b = Order[j]  BY DEF Delivered, Range
<1>3. i \in Nat /\ j \in Nat  BY SourceConstants
<1>4. i = j \/ i < j \/ j < i  BY <1>3
<1>. QED  BY <1>1, <1>2, <1>4, SourceConstants DEF Before

\* End sequences order the sources.
LEMMA BeforeIsOrder ==
  ASSUME NEW a \in Source, NEW b \in Source, NEW c \in Source
  PROVE  /\ ~Before(a, a)
         /\ Before(a, b) => ~Before(b, a)
         /\ Before(a, b) /\ Before(b, c) => Before(a, c)
<1>1. End[a] \in Nat /\ End[b] \in Nat /\ End[c] \in Nat  BY SourceConstants
<1>. QED  BY <1>1 DEF Before

LEMMA DeliverableIsNewest ==
  ASSUME NEW s \in Source, Deliverable(s)
  PROVE  Newest(s)
<1>1. PICK i \in DOMAIN Order :
             /\ Order[i] = s
             /\ \A j \in 1..(i - 1) : Order[j] \in accepted
             /\ \A j \in (i + 1)..Len(Order) : Order[j] \notin accepted
  BY DEF Deliverable
<1>2. DOMAIN Order = 1..Len(Order) /\ Len(Order) \in Nat  BY SourceConstants
<1>3. s \in Delivered  BY <1>1 DEF Delivered, Range
<1>4. ASSUME NEW a \in Delivered PROVE (Before(a, s) => a \in accepted) /\ (Before(s, a) => a \notin accepted)
  <2>1. PICK j \in DOMAIN Order : a = Order[j]  BY DEF Delivered, Range
  <2>2. j \in 1..Len(Order) /\ i \in 1..Len(Order)  BY <1>2, <2>1, <1>1
  <2>3. i = j \/ i < j \/ j < i  BY <1>2, <2>2
  <2>4. a \in Source  BY DeliveredAreSources
  <2>5. CASE i = j  BY <1>1, <2>1, <2>4, <2>5, BeforeIsOrder
  <2>6. CASE i < j
    <3>1. j \in (i + 1)..Len(Order)  BY <1>2, <2>2, <2>6
    <3>2. Before(s, a)  BY <1>1, <2>1, <2>6, SourceConstants DEF Before
    <3>3. a \notin accepted  BY <1>1, <2>1, <3>1
    <3>4. ~Before(a, s)  BY <2>4, <3>2, BeforeIsOrder
    <3>. QED  BY <3>3, <3>4
  <2>7. CASE j < i
    <3>1. j \in 1..(i - 1)  BY <1>2, <2>2, <2>7
    <3>2. Before(a, s)  BY <1>1, <2>1, <2>7, SourceConstants DEF Before
    <3>3. a \in accepted  BY <1>1, <2>1, <3>1
    <3>4. ~Before(s, a)  BY <2>4, <3>2, BeforeIsOrder
    <3>. QED  BY <3>3, <3>4
  <2>. QED  BY <2>3, <2>5, <2>6, <2>7
<1>. QED  BY <1>3, <1>4 DEF Newest

LEMMA NewestIsNotPassed ==
  ASSUME NEW s \in Source, accepted \subseteq Delivered, Newest(s)
  PROVE  ~Passed(s)
BY DEF Newest, Passed

LEMMA PutAccepts ==
  ASSUME Typed, Arrivals, PutEnvelope
  PROVE  /\ put.src \in Source /\ put.src \in Delivered /\ ~Passed(put.src)
         /\ accepted' = accepted \cup {put.src} /\ envelope' = envelope \cup {put.src}
<1>1. put # NoPut  BY DEF PutEnvelope, NoPut
<1>2. put.src \in Source /\ Newest(put.src)  BY <1>1 DEF Typed, ActorsTyped, Arrivals
<1>3. accepted' = accepted \cup {put.src} /\ envelope' = envelope \cup {put.src}  BY DEF PutEnvelope
<1>. QED  BY <1>2, <1>3, NewestIsNotPassed DEF Newest, Arrivals

LEMMA PutIndexed ==
  ASSUME Typed, NEW s \in Source, PutIndex(s)
  PROVE  Newest(s) /\ index' = index \cup {s} /\ put'.src = s /\ put'.pc = "pending" /\ accepted' = accepted
BY DeliverableIsNewest DEF PutIndex, history

LEMMA ArrivalsKept ==
  ASSUME Typed, Arrivals, [Next]_vars
  PROVE  Arrivals'
<1>0. Typed'  BY TypedKept
<1>1. accepted \subseteq accepted' /\ accepted' \subseteq Delivered
  BY PutAccepts, FilesMove DEF Arrivals
<1>2. index' \subseteq Delivered
  <2>1. ASSUME NEW s \in Source, PutIndex(s) PROVE index' \subseteq Delivered
    BY <2>1, PutIndexed DEF Arrivals, Newest
  <2>2. CASE ReleaseIndex  BY <2>2 DEF ReleaseIndex, Unindex, Arrivals
  <2>. QED  BY <2>1, <2>2, FilesMove DEF Arrivals
<1>3. envelope' \subseteq accepted'
  BY <1>1, PutAccepts, FilesMove DEF Arrivals, ReleaseEnvelope
<1>4. ASSUME NEW t \in Task, task'[t].pc # "off" PROVE t.src \in accepted'
  <2>1. CASE task[t].pc # "off"  BY <1>1, <2>1 DEF Arrivals
  <2>2. CASE t.src \in envelope'  BY <1>3, <2>2
  <2>3. CASE Deliver(t) /\ task[t].pc = "off"  BY <2>3, DeliverTurns DEF TaskStepTyped
  <2>. QED  BY <1>4, <2>1, <2>2, <2>3, TasksMove DEF TaskTurns
<1>5. ASSUME NEW s \in Source, NEW c \in Consumer, outcome'[s][c] # "none" PROVE s \in accepted'
  <2>1. CASE outcome'[s][c] = outcome[s][c]  BY <1>1, <1>5, <2>1 DEF Arrivals
  <2>2. ASSUME NEW t \in Task, CommittedBy(t), t.src = s PROVE s \in accepted'
    BY <1>1, <2>2 DEF CommittedBy, Arrivals
  <2>. QED  BY <1>5, <2>1, <2>2, OutcomesMove
<1>6. ASSUME NEW a \in Delivered, NEW b \in accepted', Before(a, b) PROVE a \in accepted'
  <2>1. CASE b \in accepted  BY <1>1, <1>6, <2>1 DEF Arrivals
  <2>2. CASE PutEnvelope /\ b = put.src
    <3>1. put # NoPut  BY <2>2 DEF PutEnvelope, NoPut
    <3>. QED  BY <1>1, <1>6, <2>2, <3>1 DEF Arrivals, Newest
  <2>. QED  BY <1>6, <2>1, <2>2, PutAccepts, FilesMove
<1>7. ASSUME put' # NoPut PROVE Newest(put.src)'
  <2>1. ASSUME NEW s \in Source, PutIndex(s) PROVE Newest(put.src)'
    BY <2>1, PutIndexed DEF Newest
  <2>2. CASE put' = put \/ PutPending
    <3>1. put'.src = put.src /\ put # NoPut
      BY <1>7, <2>2 DEF PutPending, Typed, ActorsTyped, PutRecord, NoPut
    <3>2. accepted' = accepted
      <4>1. ~PutEnvelope  BY <1>7, <2>2 DEF PutEnvelope, PutPending
      <4>. QED  BY <4>1, FilesMove
    <3>. QED  BY <3>1, <3>2 DEF Newest, Arrivals
  <2>. QED  BY <1>7, <2>1, <2>2, FilesMove
<1>. QED  BY <1>1, <1>2, <1>3, <1>4, <1>5, <1>6, <1>7 DEF Arrivals

----------------------------------------------------------------------------
(* What the releaser takes has been passed, and both consumers are done.   *)

Behind ==
    /\ watermark > 0 => \E l \in accepted : watermark < End[l]
    /\ \A s \in Range(releaser.todo) : s \in Delivered /\ Passed(s) /\ (s \in envelope => terminal(s))
    /\ releaser.pc \in {"outcomes", "outputs", "pending", "index"} => Head(releaser.todo) \notin envelope
    /\ \A s \in salvaged : outcome[s]["behavior"] # "none" \/ (s \notin envelope /\ Passed(s))

LEMMA ReleasedIsPassed ==
  ASSUME Typed, Behind, NEW s \in Source, released(s)
  PROVE  Passed(s)
<1>1. End[s] \in Nat \ {0} /\ watermark \in Nat /\ End[s] <= watermark
  BY SourceConstants DEF Typed, FilesTyped, released
<1>2. watermark > 0  BY <1>1
<1>3. PICK l \in accepted : watermark < End[l]  BY <1>2 DEF Behind
<1>4. End[l] \in Nat  BY SourceConstants DEF Typed, HistoryTyped
<1>5. End[s] < End[l]  BY <1>1, <1>3, <1>4
<1>. QED  BY <1>5 DEF Passed, Before

LEMMA ReleasableIsPassed ==
  ASSUME Typed, Arrivals, Behind, NEW s \in Releasable
  PROVE  s \in Source /\ s \in Delivered /\ Passed(s) /\ (s \in envelope => terminal(s))
<1>1. s \in index /\ s \in Source /\ s \in Delivered  BY DEF Releasable, Arrivals, Typed, FilesTyped
<1>2. CASE Covered(s)  BY <1>1, <1>2, ReleasedIsPassed DEF Covered
<1>3. CASE ~Covered(s)
  <2>1. Ripe(s)  BY <1>1, <1>3, BeforeIsOrder DEF Releasable
  <2>2. PICK l \in index : Before(s, l) /\ ordered_committed(l)  BY <2>1 DEF Ripe
  <2>3. l \in accepted  BY <2>2 DEF ordered_committed, Arrivals, Consumer, Typed, FilesTyped
  <2>. QED  BY <1>1, <2>1, <2>2, <2>3 DEF Ripe, Passed
<1>. QED  BY <1>2, <1>3

LEMMA PassedStays ==
  ASSUME Typed, Arrivals, [Next]_vars, NEW s \in Source, Passed(s)
  PROVE  Passed(s)' /\ (s \notin envelope => s \notin envelope')
<1>1. accepted \subseteq accepted'  BY PutAccepts, FilesMove
<1>2. Passed(s)'  BY <1>1 DEF Passed, Before
<1>3. ASSUME s \notin envelope, s \in envelope' PROVE FALSE
  <2>1. PutEnvelope  BY <1>3, FilesMove DEF ReleaseEnvelope
  <2>. QED  BY <1>3, <2>1, PutAccepts
<1>. QED  BY <1>2, <1>3

LEMMA TerminalStays ==
  ASSUME Typed, Arrivals, Behind, [Next]_vars, NEW s \in Source, terminal(s), s \in envelope'
  PROVE  terminal(s)'
<1>1. s \in envelope /\ \A c \in Consumer : recorded(s, c)  BY DEF terminal
<1>2. s \in salvaged => s \in salvaged'
  <2>1. CASE ReleasePending  BY <1>1, <2>1 DEF ReleasePending, Behind
  <2>. QED  BY <2>1, FilesMove DEF Salvage
<1>3. ASSUME NEW c \in Consumer, outcome[s][c] \in Terminal PROVE outcome'[s][c] \in Terminal
  <2>1. outcome[s][c] # "none"  BY <1>3 DEF Terminal
  <2>2. ASSUME NEW t \in Task, CommittedBy(t), t.src = s, t.con = c PROVE FALSE
    BY <2>1, <2>2 DEF CommittedBy
  <2>3. ~(releaser.pc = "outcomes" /\ s = Head(releaser.todo))  BY <1>1 DEF Behind
  <2>. QED  BY <1>3, <2>2, <2>3, OutcomesMove
<1>. QED  BY <1>1, <1>2, <1>3 DEF terminal, recorded

LEMMA TodoMoves ==
  ASSUME Typed, [Next]_vars, NEW s \in Range(releaser'.todo)
  PROVE  s \in Range(releaser.todo) \/ (ReleaseScan /\ s \in Releasable)
<1>1. CASE releaser' = releaser  BY <1>1
<1>2. CASE releaser' = Resting  BY <1>2 DEF Resting, Range
<1>3. CASE ReleaseScan
  <2>1. PICK q \in Sorted(Releasable) : releaser' = [todo |-> q, pc |-> "lock"]  BY <1>3 DEF ReleaseScan
  <2>2. Releasable \in SUBSET Source /\ Releasable # {}  BY <1>3 DEF Releasable, Typed, FilesTyped, ReleaseScan
  <2>3. Range(q) \subseteq Releasable  BY <2>1, <2>2, SortedIsSequence
  <2>. QED  BY <1>3, <2>1, <2>3
<1>4. CASE \E pc : Goes(pc)  BY <1>4, GoesKeepsTodo
<1>5. CASE releaser.pc = "index" /\ releaser' = [todo |-> Tail(releaser.todo), pc |-> "lock"]
  <2>1. releaser.todo \in Seq(Source) /\ releaser.todo # <<>>
    BY <1>5 DEF Typed, ActorsTyped, ReleaserRecord, Resting
  <2>. QED  BY <1>5, <2>1, RangeOfTail
<1>. QED  BY <1>1, <1>2, <1>3, <1>4, <1>5, ReleaserMoves

\* The head of the list is on the list.
LEMMA HeadOfTodo ==
  ASSUME Typed, releaser.pc # "off"
  PROVE  Head(releaser.todo) \in Range(releaser.todo) /\ Head(releaser.todo) \in Source
<1>1. releaser.todo \in Seq(Source) /\ releaser.todo # <<>>
  BY DEF Typed, ActorsTyped, ReleaserRecord, Resting
<1>. QED  BY <1>1, RangeOfTail

LEMMA BehindKept ==
  ASSUME Typed, Arrivals, Behind, [Next]_vars
  PROVE  Behind'
<1>0. Typed'  BY TypedKept
<1>1. accepted \subseteq accepted'  BY PutAccepts, FilesMove
<1>2. ASSUME watermark' > 0 PROVE \E l \in accepted' : watermark' < End[l]
  <2>1. CASE watermark' = watermark  BY <1>1, <1>2, <2>1 DEF Behind
  <2>2. CASE ReleaseMark /\ watermark' # watermark
    <3>1. watermark' = End[Head(releaser.todo)] /\ releaser.pc # "off"  BY <2>2 DEF ReleaseMark
    <3>2. Passed(Head(releaser.todo))  BY <3>1, HeadOfTodo DEF Behind
    <3>. QED  BY <1>1, <3>1, <3>2 DEF Passed, Before
  <2>. QED  BY <2>1, <2>2, FilesMove
<1>3. ASSUME NEW s \in Range(releaser'.todo)
      PROVE  s \in Delivered /\ Passed(s)' /\ (s \in envelope' => terminal(s)')
  <2>1. s \in Delivered /\ Passed(s) /\ (s \in envelope => terminal(s))
    BY TodoMoves, ReleasableIsPassed DEF Behind
  <2>2. s \in Source  BY <2>1, DeliveredAreSources
  <2>. QED  BY <2>1, <2>2, PassedStays, TerminalStays
<1>4. ASSUME releaser'.pc \in {"outcomes", "outputs", "pending", "index"}
      PROVE  Head(releaser'.todo) \notin envelope'
  <2>1. CASE ReleaseEnvelope /\ Goes("outcomes")
    <3>1. releaser'.todo = releaser.todo  BY <2>1, GoesKeepsTodo
    <3>. QED  BY <2>1, <3>1 DEF ReleaseEnvelope
  <2>2. CASE /\ releaser.pc \in {"outcomes", "outputs", "pending", "index"}
             /\ releaser'.todo = releaser.todo
    <3>1. Head(releaser.todo) \in Source /\ Passed(Head(releaser.todo)) /\ Head(releaser.todo) \notin envelope
      BY <2>2, HeadOfTodo DEF Behind
    <3>. QED  BY <2>2, <3>1, PassedStays
  <2>. QED  BY <1>4, <2>1, <2>2, ReleaserMoves, GoesKeepsTodo DEF Resting, ReleaseScan
<1>5. ASSUME NEW s \in salvaged'
      PROVE  outcome'[s]["behavior"] # "none" \/ (s \notin envelope' /\ Passed(s)')
  <2>0. s \in Source /\ "behavior" \in Consumer  BY <1>0 DEF Typed, FilesTyped, Consumer
  <2>1. ASSUME Salvage(s, "behavior") PROVE outcome'[s]["behavior"] # "none"
    <3>1. inspect(s, "behavior") \in Broken /\ outcome' = outcome  BY <2>1 DEF Salvage
    <3>. QED  BY <2>0, <3>1, InspectSays DEF Broken
  <2>2. CASE s \in salvaged
    <3>1. CASE s \notin envelope /\ Passed(s)  BY <2>0, <3>1, PassedStays
    <3>2. CASE outcome[s]["behavior"] # "none"
      <4>1. ASSUME NEW t \in Task, CommittedBy(t), t.src = s, t.con = "behavior" PROVE FALSE
        BY <3>2, <4>1 DEF CommittedBy
      <4>2. ASSUME releaser.pc = "outcomes", s = Head(releaser.todo) PROVE s \notin envelope /\ Passed(s)
        BY <4>2, HeadOfTodo DEF Behind
      <4>. QED  BY <2>0, <3>2, <4>1, <4>2, OutcomesMove, PassedStays
    <3>. QED  BY <2>2, <3>1, <3>2 DEF Behind
  <2>3. CASE s \notin salvaged
    <3>1. PICK p \in Source : Salvage(p, "behavior")  BY <1>5, <2>3, FilesMove DEF ReleasePending
    <3>2. s = p  BY <1>5, <2>3, <3>1 DEF Salvage
    <3>. QED  BY <2>1, <3>1, <3>2
  <2>. QED  BY <2>2, <2>3
<1>. QED  BY <1>2, <1>3, <1>4, <1>5 DEF Behind

----------------------------------------------------------------------------
(* What is still needed keeps its markers.                                 *)

\* The two markers a put has written so far, or what makes them superfluous.
Marked ==
    /\ aged = {} /\ reaping = NoSource
    /\ put # NoPut => put.src \in index
    /\ put.pc = "envelope" /\ put.src \notin pending => \A c \in Consumer : outcome[put.src][c] # "none"
    /\ \A s \in envelope : (\E c \in Consumer : outcome[s][c] = "none") => s \in index \cap pending

Marks == faults["aged"] = 0 => Marked

LEMMA IndexMarkerGoes ==
  ASSUME Typed, Behind, Marked, [Next]_vars, NEW s \in index, s \notin index'
  PROVE  Passed(s) /\ s \notin envelope
<1>1. ReleaseIndex  BY FilesMove DEF PutIndex, Marked
<1>2. releaser.pc = "index" /\ s = Head(releaser.todo)  BY <1>1 DEF ReleaseIndex, Unindex
<1>. QED  BY <1>2, HeadOfTodo DEF Behind

LEMMA PendingMarkerGoes ==
  ASSUME Typed, Behind, Marked, [Next]_vars, NEW s \in pending, s \notin pending'
  PROVE  /\ outcome' = outcome
         /\ \/ s \notin envelope /\ Passed(s)
            \/ s \notin envelope /\ s \notin index
            \/ \A c \in Consumer : outcome[s][c] # "none"
<1>0. s \in Source  BY DEF Typed, FilesTyped
<1>1. CASE ReleasePending
  <2>1. releaser.pc = "pending" /\ s = Head(releaser.todo) /\ outcome' = outcome
    BY <1>1 DEF ReleasePending, Unmark
  <2>. QED  BY <2>1, HeadOfTodo DEF Behind
<1>2. ASSUME NEW p \in Source, ClearReleased(p), s = p
      PROVE  outcome' = outcome /\ s \notin envelope /\ (s \notin index \/ Passed(s))
  BY <1>2, ReleasedIsPassed DEF ClearReleased, records
<1>3. ASSUME NEW c \in Consumer, Settled(s, c) \/ recorded(s, c), outcome[s][c] = "none"
      PROVE  s \notin envelope /\ Passed(s)
  <2>1. inspect(s, c) \notin Terminal  BY <1>0, <1>3, InspectSays DEF Terminal
  <2>2. s \in salvaged /\ c = "behavior"  BY <1>3, <2>1 DEF Settled, recorded, salvages, Terminal
  <2>. QED  BY <1>3, <2>2 DEF Behind
<1>4. ASSUME NEW p \in Source, ClearSettled(p) \/ SettlePending(p), s = p
      PROVE  /\ outcome' = outcome
             /\ (s \notin envelope /\ Passed(s)) \/ \A c \in Consumer : outcome[s][c] # "none"
  <2>1. outcome' = outcome /\ \A c \in Consumer : Settled(s, c) \/ recorded(s, c)
    BY <1>4 DEF ClearSettled, SettlePending, records
  <2>. QED  BY <1>3, <2>1
<1>5. ~ReapPending /\ ~PutPending  BY DEF ReapPending, PutPending, Marked
<1>6. ASSUME NEW p \in Source, ClearSettled(p) \/ SettlePending(p) \/ ClearReleased(p) PROVE s = p
  BY <1>6 DEF ClearSettled, SettlePending, ClearReleased, Unmark
<1>. QED  BY <1>1, <1>2, <1>4, <1>5, <1>6, FilesMove

LEMMA OutcomeAppears ==
  ASSUME Typed, Arrivals, Behind, [Next]_vars, NEW s \in Source, NEW c \in Consumer,
         outcome'[s][c] = "none", s \in envelope \/ ~Passed(s)
  PROVE  outcome[s][c] = "none"
<1>1. ~(releaser.pc = "outcomes" /\ s = Head(releaser.todo))  BY HeadOfTodo DEF Behind
<1>. QED  BY <1>1, OutcomesMove DEF CommittedBy

LEMMA MarksKept ==
  ASSUME Typed, Arrivals, Behind, Marks, [Next]_vars
  PROVE  Marks'
<1>. SUFFICES ASSUME faults'["aged"] = 0 PROVE Marked'  BY DEF Marks
<1>0. FaultsCounted /\ Typed'  BY TypedKept
<1>1. Marked
  <2>1. faults["aged"] = 0  BY <1>0 DEF FaultsCounted, FaultKind, Typed, HistoryTyped
  <2>. QED  BY <2>1 DEF Marks
<1>2. aged' = {} /\ reaping' = NoSource
  <2>1. ASSUME NEW s \in Source, Age(s) PROVE FALSE
    <3>1. faults'["aged"] > 0  BY <2>1, OneFault DEF Age, FaultKind
    <3>. QED  BY <3>1
  <2>. QED  BY <1>1, <2>1, FilesMove DEF Marked
<1>3. ASSUME put' = put, put # NoPut
      PROVE  put.src \in Source /\ ~Passed(put.src) /\ put.src \in index /\ put.src \in index'
  <2>1. put.src \in Source /\ ~Passed(put.src) /\ put.src \in index
    BY <1>1, <1>3, NewestIsNotPassed DEF Typed, ActorsTyped, Arrivals, Marked
  <2>. QED  BY <1>1, <2>1, IndexMarkerGoes
<1>4. ASSUME put' # NoPut
      PROVE  put'.src \in index'
  <2>1. ASSUME NEW s \in Source, PutIndex(s) PROVE put'.src \in index'  BY <2>1, PutIndexed
  <2>2. CASE PutPending
    BY <1>1, <2>2 DEF PutPending, Marked, NoPut, Typed, ActorsTyped, PutRecord
  <2>. QED  BY <1>3, <1>4, <2>1, <2>2, FilesMove
<1>5. ASSUME put'.pc = "envelope", put'.src \notin pending', NEW c \in Consumer
      PROVE  outcome'[put'.src][c] # "none"
  <2>1. ~\E s \in Source : PutIndex(s)  BY <1>5, PutIndexed
  <2>2. ~PutPending  BY <1>5 DEF PutPending, Typed, ActorsTyped, PutRecord
  <2>3. put' = put /\ put # NoPut  BY <1>5, <2>1, <2>2, FilesMove DEF NoPut
  <2>4. CASE put.src \in pending
    BY <1>1, <1>3, <1>5, <2>3, <2>4, PendingMarkerGoes
  <2>5. CASE put.src \notin pending
    <3>1. outcome[put.src][c] # "none"  BY <1>1, <1>5, <2>3, <2>5 DEF Marked
    <3>. QED  BY <1>3, <2>3, <3>1, OutcomeAppears
  <2>. QED  BY <2>4, <2>5
<1>6. ASSUME NEW s \in envelope', NEW c \in Consumer, outcome'[s][c] = "none"
      PROVE  s \in index' \cap pending'
  <2>0. s \in Source  BY <1>0 DEF Typed, FilesTyped
  <2>1. CASE s \in envelope
    <3>1. outcome[s][c] = "none"  BY <1>6, <2>0, <2>1, OutcomeAppears
    <3>2. s \in index \cap pending  BY <1>1, <2>1, <3>1 DEF Marked
    <3>3. s \in index'  BY <1>1, <2>1, <3>2, IndexMarkerGoes
    <3>4. s \in pending'  BY <1>1, <2>1, <3>1, <3>2, PendingMarkerGoes
    <3>. QED  BY <3>3, <3>4
  <2>2. CASE s \notin envelope
    <3>1. PutEnvelope /\ s = put.src  BY <1>6, <2>2, FilesMove DEF PutEnvelope, ReleaseEnvelope
    <3>2. UNCHANGED <<index, pending, outcome>> /\ put # NoPut /\ put.pc = "envelope"
      BY <3>1 DEF PutEnvelope, ledger, NoPut
    <3>. QED  BY <1>1, <1>6, <3>1, <3>2 DEF Marked
  <2>. QED  BY <2>1, <2>2
<1>. QED  BY <1>2, <1>4, <1>5, <1>6 DEF Marked

----------------------------------------------------------------------------
(* Memory takes the sources in order.                                      *)

Taken == Range(ingested)

\* A record of Memory is backed by what Memory took, and so is a source that is gone.
Ingests ==
    /\ Taken \subseteq Delivered
    /\ \A t \in Task : t.con = "memory" /\ task[t].pc = "publish" => t.src \in Taken
    /\ \A s \in Source : outcome[s]["memory"] # "none" \/ output[s]["memory"] => s \in Taken
    /\ accepted \subseteq envelope \cup Taken

\* Memory took all sources before one it took or is about to take.
Ordered ==
    /\ \A t \in Task : t.con = "memory" /\ task[t].pc = "run" =>
          \A a \in Delivered : Before(a, t.src) => a \in Taken
    /\ \A a \in Delivered, b \in Taken : Before(a, b) => a \in Taken
    /\ \A i, j \in DOMAIN ingested : i < j => Before(ingested[i], ingested[j])

InOrder == faults["aged"] = 0 => Ordered

TakesNow(t) ==
    /\ Execute(t) /\ t.con = "memory" /\ task[t].pc = "run"
    /\ t.src \notin Taken /\ ingested' = Append(ingested, t.src) /\ Taken' = Taken \cup {t.src}

LEMMA TakenMoves ==
  ASSUME Typed, [Next]_vars
  PROVE  /\ Taken \subseteq Taken'
         /\ ingested' = ingested \/ \E t \in Task : TakesNow(t)
<1>1. ASSUME NEW t \in Task, Execute(t) PROVE ingested' = ingested \/ TakesNow(t)
  <2>1. CASE t.con = "memory" /\ t.src \notin Taken
    <3>1. ingested' = Append(ingested, t.src) /\ task[t].pc = "run"  BY <1>1, <2>1 DEF Execute, At, Taken
    <3>2. Taken' = Taken \cup {t.src}
      BY <3>1, RangeOfAppend DEF Typed, HistoryTyped, Task, Taken
    <3>. QED  BY <1>1, <2>1, <3>1, <3>2 DEF TakesNow
  <2>. QED  BY <1>1, <2>1 DEF Execute, Taken
<1>2. ingested' = ingested \/ \E t \in Task : TakesNow(t)  BY <1>1, FilesMove
<1>3. Taken \subseteq Taken'  BY <1>2 DEF TakesNow, Taken
<1>. QED  BY <1>2, <1>3

LEMMA IngestsKept ==
  ASSUME Typed, Records, Arrivals, Behind, Ingests, [Next]_vars
  PROVE  Ingests'
<1>1. Taken \subseteq Taken'  BY TakenMoves
<1>2. Taken' \subseteq Delivered
  <2>1. ASSUME NEW t \in Task, TakesNow(t) PROVE Taken' \subseteq Delivered
    BY <2>1 DEF TakesNow, Arrivals, Ingests
  <2>. QED  BY <2>1, TakenMoves DEF Ingests, Taken
<1>3. ASSUME NEW t \in Task, t.con = "memory", task'[t].pc = "publish" PROVE t.src \in Taken'
  <2>1. CASE task[t].pc = "publish"  BY <1>1, <1>3, <2>1 DEF Ingests
  <2>2. CASE Execute(t)
    <3>1. t.src \in Taken \/ ingested' = Append(ingested, t.src)  BY <1>3, <2>2 DEF Execute, Taken
    <3>2. t.src \in Source /\ ingested \in Seq(Source)  BY DEF Task, Typed, HistoryTyped
    <3>3. t.src \in Range(Append(ingested, t.src))  BY <3>2, RangeOfAppend
    <3>. QED  BY <1>1, <3>1, <3>3 DEF Taken
  <2>. QED  BY <1>3, <2>1, <2>2, RunsMove
<1>4. ASSUME NEW s \in Source, outcome'[s]["memory"] # "none" \/ output'[s]["memory"]
      PROVE  s \in Taken'
  <2>0. "memory" \in Consumer /\ "memory" # "behavior"  BY DEF Consumer
  <2>1. ASSUME NEW t \in Task, CommittedBy(t), t.src = s, t.con = "memory"
        PROVE  output[s]["memory"]
    BY <2>1 DEF CommittedBy, Records
  <2>2. ASSUME NEW t \in Task, PublishedBy(t), t.src = s, t.con = "memory" PROVE s \in Taken
    BY <2>2 DEF PublishedBy, Ingests
  <2>3. CASE outcome[s]["memory"] # "none" \/ output[s]["memory"]  BY <1>1, <2>3 DEF Ingests
  <2>. QED  BY <1>1, <1>4, <2>0, <2>1, <2>2, <2>3, OutcomesMove, OutputsMove
<1>5. accepted' \subseteq envelope' \cup Taken'
  <2>1. CASE PutEnvelope  BY <1>1, <2>1, PutAccepts DEF Ingests
  <2>2. CASE ReleaseEnvelope
    <3>0. accepted' = accepted /\ releaser.pc # "off" /\ envelope' = envelope \ {Head(releaser.todo)}
      BY <2>2 DEF ReleaseEnvelope
    <3>1. Head(releaser.todo) \in Source /\ (Head(releaser.todo) \in envelope => terminal(Head(releaser.todo)))
      BY <3>0, HeadOfTodo DEF Behind
    <3>2. Head(releaser.todo) \in envelope => Head(releaser.todo) \in Taken
      BY <3>1 DEF terminal, recorded, salvages, Consumer, Terminal, Ingests
    <3>. QED  BY <1>1, <3>0, <3>2 DEF Ingests
  <2>. QED  BY <1>1, <2>1, <2>2, FilesMove DEF Ingests
<1>. QED  BY <1>2, <1>3, <1>4, <1>5 DEF Ingests


\* Memory finds the sources before the one it starts on taken.
LEMMA StartsInOrder ==
  ASSUME Typed, Arrivals, Ingests, Marked, NEW t \in Task, t.con = "memory", task[t].pc # "off",
         PredecessorsDone(t.src, t.con), NEW a \in Delivered, Before(a, t.src)
  PROVE  a \in Taken
<1>. SUFFICES ASSUME a \notin Taken PROVE FALSE  OBVIOUS
<1>0. a \in Source /\ "memory" \in Consumer  BY DeliveredAreSources DEF Consumer
<1>1. a \in accepted  BY DEF Arrivals
<1>2. a \in envelope  BY <1>1 DEF Ingests
<1>3. outcome[a]["memory"] = "none"  BY <1>0 DEF Ingests
<1>4. a \in index  BY <1>0, <1>2, <1>3 DEF Marked
<1>5. inspect(a, "memory") = "COMMITTED"  BY <1>2, <1>4 DEF PredecessorsDone, Earlier
<1>. QED  BY <1>0, <1>3, <1>5, InspectSays

LEMMA OrderKept ==
  ASSUME Typed, Arrivals, Ingests, Marks, InOrder, Ingests', [Next]_vars
  PROVE  InOrder'
<1>. SUFFICES ASSUME faults'["aged"] = 0 PROVE Ordered'  BY DEF InOrder
<1>0. FaultsCounted /\ Typed'  BY TypedKept
<1>1. Ordered /\ Marked
  <2>1. faults["aged"] = 0  BY <1>0 DEF FaultsCounted, FaultKind, Typed, HistoryTyped
  <2>. QED  BY <2>1 DEF Marks, InOrder
<1>2. Taken \subseteq Taken'  BY TakenMoves
<1>3. ASSUME NEW t \in Task, t.con = "memory", task'[t].pc = "run", NEW a \in Delivered, Before(a, t.src)
      PROVE  a \in Taken'
  <2>1. CASE task[t].pc = "run"  BY <1>1, <1>2, <1>3, <2>1 DEF Ordered
  <2>2. CASE task[t].pc = "held" /\ Resolved(t)
    <3>1. PredecessorsDone(t.src, t.con)
      BY <1>3, <2>2 DEF Resolved, GoesOn, ordered_within_conversation
    <3>. QED  BY <1>1, <1>2, <1>3, <2>2, <3>1, StartsInOrder
  <2>. QED  BY <1>3, <2>1, <2>2, RunsMove
<1>4. ASSUME NEW a \in Delivered, NEW b \in Taken', Before(a, b) PROVE a \in Taken'
  <2>1. CASE b \in Taken  BY <1>1, <1>2, <1>4, <2>1 DEF Ordered
  <2>2. ASSUME NEW t \in Task, TakesNow(t), b = t.src PROVE a \in Taken'
    BY <1>1, <1>2, <1>4, <2>2 DEF TakesNow, Ordered
  <2>. QED  BY <1>4, <2>1, <2>2, TakenMoves DEF TakesNow, Taken
<1>5. ASSUME NEW t \in Task, TakesNow(t), NEW i \in DOMAIN ingested', NEW j \in DOMAIN ingested', i < j
      PROVE  Before(ingested'[i], ingested'[j])
  <2>1. /\ ingested \in Seq(Source) /\ t.src \in Source /\ ingested' = Append(ingested, t.src)
        /\ t.src \in Delivered /\ t.src \notin Taken
    BY <1>5 DEF Typed, HistoryTyped, TakesNow, Task, Arrivals
  <2>2. /\ Len(ingested) \in Nat /\ DOMAIN ingested' = 1..(Len(ingested) + 1)
        /\ DOMAIN ingested = 1..Len(ingested)
        /\ ingested'[Len(ingested) + 1] = t.src
        /\ \A k \in 1..Len(ingested) : ingested'[k] = ingested[k]
    BY <2>1
  <2>3. i \in 1..Len(ingested)  BY <1>5, <2>2
  <2>4. CASE j \in 1..Len(ingested)  BY <1>1, <1>5, <2>2, <2>3, <2>4 DEF Ordered
  <2>5. CASE j = Len(ingested) + 1
    <3>1. ingested[i] \in Taken  BY <2>2, <2>3 DEF Taken, Range
    <3>2. ingested[i] \in Delivered  BY <3>1 DEF Ingests
    <3>3. ~Before(t.src, ingested[i])  BY <1>1, <2>1, <3>1 DEF Ordered
    <3>4. Before(ingested[i], t.src)  BY <2>1, <3>1, <3>2, <3>3, DeliveredAreOrdered
    <3>. QED  BY <2>2, <2>3, <2>5, <3>4
  <2>. QED  BY <1>5, <2>2, <2>4, <2>5
<1>6. \A i, j \in DOMAIN ingested' : i < j => Before(ingested'[i], ingested'[j])
  BY <1>1, <1>5, TakenMoves DEF Ordered
<1>. QED  BY <1>3, <1>4, <1>6 DEF Ordered, Before

----------------------------------------------------------------------------
(* Behavior does not run again on what is gone.                            *)

Gone ==
    /\ \A s \in gone : released(s)
    /\ releaser.pc \in {"envelope", "outcomes", "outputs", "pending", "index"} => released(Head(releaser.todo))

Unlost ==
    /\ \A t \in Task : task[t].pc \in Working => task[t].lease
    /\ \A t \in Task : t.con = "behavior" /\ task[t].pc = "run" => t.src \notin gone
    /\ replayed = {}

Replays == faults["lost"] = 0 => Unlost

LEMMA ReleasedStays ==
  ASSUME Typed, [Next]_vars, NEW s \in Source, released(s)
  PROVE  released(s)'
<1>1. End[s] \in Nat /\ watermark \in Nat /\ End[s] <= watermark
  BY SourceConstants DEF Typed, FilesTyped, released
<1>2. CASE watermark' = watermark  BY <1>1, <1>2 DEF released
<1>3. CASE ReleaseMark /\ watermark' # watermark
  <2>1. watermark' = End[Head(releaser.todo)] /\ ~released(Head(releaser.todo)) /\ releaser.pc = "mark"
    BY <1>3 DEF ReleaseMark
  <2>2. End[Head(releaser.todo)] \in Nat  BY <2>1, HeadOfTodo, SourceConstants
  <2>. QED  BY <1>1, <2>1, <2>2 DEF released
<1>. QED  BY <1>2, <1>3, FilesMove

LEMMA GoneKept ==
  ASSUME Typed, Gone, [Next]_vars
  PROVE  Gone'
<1>1. ASSUME releaser'.pc \in {"envelope", "outcomes", "outputs", "pending", "index"}
      PROVE  released(Head(releaser.todo))'
  <2>1. CASE ReleaseMark /\ Goes("envelope")
    <3>1. releaser'.todo = releaser.todo /\ releaser.pc # "off"  BY <2>1, GoesKeepsTodo DEF ReleaseMark
    <3>2. End[Head(releaser.todo)] \in Nat  BY <3>1, HeadOfTodo, SourceConstants
    <3>3. watermark' = IF released(Head(releaser.todo)) THEN watermark ELSE End[Head(releaser.todo)]
      BY <2>1 DEF ReleaseMark
    <3>. QED  BY <3>1, <3>2, <3>3 DEF released
  <2>2. CASE /\ releaser.pc \in {"envelope", "outcomes", "outputs", "pending", "index"}
             /\ releaser'.todo = releaser.todo
    <3>1. released(Head(releaser.todo)) /\ Head(releaser.todo) \in Source  BY <2>2, HeadOfTodo DEF Gone
    <3>2. watermark' = watermark \/ ReleaseMark  BY FilesMove
    <3>3. watermark' = watermark  BY <2>2, <3>2 DEF ReleaseMark
    <3>. QED  BY <2>2, <3>1, <3>3 DEF released
  <2>. QED  BY <1>1, <2>1, <2>2, ReleaserMoves, GoesKeepsTodo DEF Resting, ReleaseScan
<1>2. ASSUME NEW s \in gone' PROVE released(s)'
  <2>1. CASE s \in gone
    <3>1. s \in Source /\ released(s)  BY <2>1 DEF Gone, Typed, HistoryTyped
    <3>. QED  BY <3>1, ReleasedStays
  <2>2. CASE ReleaseEnvelope /\ s \notin gone
    <3>1. s = Head(releaser.todo) /\ releaser.pc = "envelope"  BY <1>2, <2>2 DEF ReleaseEnvelope
    <3>2. s \in Source /\ released(s)  BY <3>1, HeadOfTodo DEF Gone
    <3>. QED  BY <3>2, ReleasedStays
  <2>. QED  BY <1>2, <2>1, <2>2, FilesMove
<1>. QED  BY <1>1, <1>2 DEF Gone

LEMMA ReplaysKept ==
  ASSUME Typed, Locks, Gone, Replays, [Next]_vars
  PROVE  Replays'
<1>. SUFFICES ASSUME faults'["lost"] = 0 PROVE Unlost'  BY DEF Replays
<1>0. FaultsCounted  BY TypedKept
<1>1. Unlost
  <2>1. faults["lost"] = 0  BY <1>0 DEF FaultsCounted, FaultKind, Typed, HistoryTyped
  <2>. QED  BY <2>1 DEF Replays
<1>2. ASSUME NEW t \in Task, task'[t].pc \in Working PROVE task'[t].lease
  <2>1. task[t].pc \in Working => task[t].lease  BY <1>1 DEF Unlost
  <2>. QED  BY <1>2, <2>1, TasksMove DEF TaskTurns, Turns, Reset, Resolved, GoesOn, Working
<1>3. ASSUME NEW t \in Task, t.con = "behavior", task'[t].pc = "run" PROVE t.src \notin gone'
  <2>1. task[t].lease /\ t.src \notin gone
    <3>1. CASE task[t].pc = "run"  BY <1>1, <1>3, <3>1 DEF Unlost, Working
    <3>2. CASE task[t].pc = "held" /\ task[t].lease /\ Resolved(t)
      BY <1>3, <3>2 DEF Resolved, Gone
    <3>. QED  BY <1>3, <3>1, <3>2, RunsMove
  <2>2. ~ReleaserHolds(t.src)  BY <2>1 DEF Locks
  <2>3. CASE ReleaseEnvelope  BY <2>1, <2>2, <2>3 DEF ReleaseEnvelope, ReleaserHolds
  <2>. QED  BY <2>1, <2>3, FilesMove
<1>4. replayed' = {}
  <2>1. ASSUME NEW t \in Task, Execute(t) PROVE replayed' = {}
    BY <1>1, <2>1 DEF Execute, At, Unlost
  <2>. QED  BY <1>1, <2>1, FilesMove DEF Unlost
<1>. QED  BY <1>2, <1>3, <1>4 DEF Unlost

----------------------------------------------------------------------------
(* The theorems.                                                           *)

RecordInvariant == Typed /\ Locks /\ Records /\ Gone /\ Replays

LedgerInvariant == RecordInvariant /\ Arrivals /\ Behind /\ Marks /\ Ingests /\ InOrder

LEMMA RecordInvariantHolds == Spec => []RecordInvariant
<1>1. Init => RecordInvariant
  <2>. SUFFICES ASSUME Init PROVE RecordInvariant  OBVIOUS
  <2>1. Typed  BY TypedAtStart
  <2>2. Locks  BY DEF Init, Locks, Idle
  <2>3. Records  BY DEF Init, Records, Idle, FitsMemory, FitsBehavior, Resting, Consumer
  <2>4. Gone  BY DEF Init, Gone, Resting
  <2>5. Replays  BY DEF Init, Replays, Unlost, Idle, Working
  <2>. QED  BY <2>1, <2>2, <2>3, <2>4, <2>5 DEF RecordInvariant
<1>2. RecordInvariant /\ [Next]_vars => RecordInvariant'
  BY TypedKept, LocksKept, RecordsKept, GoneKept, ReplaysKept DEF RecordInvariant
<1>. QED  BY <1>1, <1>2, PTL DEF Spec

LEMMA LedgerInvariantHolds == ASSUME Released0 = 0 PROVE Spec => []LedgerInvariant
<1>1. Init => LedgerInvariant
  <2>. SUFFICES ASSUME Init PROVE LedgerInvariant  OBVIOUS
  <2>1. RecordInvariant
    <3>1. Typed  BY TypedAtStart
    <3>2. Locks /\ Gone /\ Replays
      BY DEF Init, Locks, Idle, Gone, Resting, Replays, Unlost, Working
    <3>3. Records  BY DEF Init, Records, Idle, FitsMemory, FitsBehavior, Resting, Consumer
    <3>. QED  BY <3>1, <3>2, <3>3 DEF RecordInvariant
  <2>2. Arrivals  BY DEF Init, Arrivals, Idle
  <2>3. Behind  BY DEF Init, Behind, Resting, Range
  <2>4. Marks  BY DEF Init, Marks, Marked, NoPut
  <2>5. Ingests  BY DEF Init, Ingests, Taken, Range, Idle, Consumer
  <2>6. InOrder  BY DEF Init, InOrder, Ordered, Taken, Range, Idle
  <2>. QED  BY <2>1, <2>2, <2>3, <2>4, <2>5, <2>6 DEF LedgerInvariant
<1>2. LedgerInvariant /\ [Next]_vars => LedgerInvariant'
  <2>. SUFFICES ASSUME LedgerInvariant, [Next]_vars PROVE LedgerInvariant'  OBVIOUS
  <2>1. RecordInvariant'
    BY TypedKept, LocksKept, RecordsKept, GoneKept, ReplaysKept DEF LedgerInvariant, RecordInvariant
  <2>2. Arrivals' /\ Behind' /\ Marks' /\ Ingests'
    BY ArrivalsKept, BehindKept, MarksKept, IngestsKept DEF LedgerInvariant, RecordInvariant
  <2>3. InOrder'  BY <2>2, OrderKept DEF LedgerInvariant, RecordInvariant
  <2>. QED  BY <2>1, <2>2, <2>3 DEF LedgerInvariant
<1>. QED  BY <1>1, <1>2, PTL DEF Spec

\* As long as every task keeps its lease, Behavior runs on no source whose coverage records the
\* releaser deleted: the second look under the lock sees the watermark, and the releaser deletes
\* under the same lock.  From any watermark.
THEOREM ReleasedIsNotReplayed == Spec => []NeverReplayed
<1>1. RecordInvariant => NeverReplayed  BY DEF RecordInvariant, Replays, Unlost, NeverReplayed
<1>. QED  BY <1>1, RecordInvariantHolds, PTL

\* From an address nothing was released of: a source some consumer has yet to process has both its
\* markers, whichever durable writes a crash, a release or a recovery scan falls between.
THEOREM MarkersFindIt == ASSUME Released0 = 0 PROVE Spec => []NothingForgotten
<1>1. LedgerInvariant => NothingForgotten
  BY DEF LedgerInvariant, Marks, Marked, NothingForgotten
<1>. QED  BY <1>1, LedgerInvariantHolds, PTL

\* From such an address Memory takes the sources in sequence, with any number of tasks, retries,
\* restarts and lost leases, as long as no marker is reaped as an orphan.
THEOREM MemoryTakesInOrder == ASSUME Released0 = 0 PROVE Spec => []MemoryInOrder
<1>1. LedgerInvariant => MemoryInOrder
  BY DEF LedgerInvariant, InOrder, Ordered, MemoryInOrder
<1>. QED  BY <1>1, LedgerInvariantHolds, PTL

\* From such an address no envelope goes before both consumers settled its source, although the
\* releaser decides before it takes the locks.
THEOREM ReleasedIsConsumed == ASSUME Released0 = 0 PROVE Spec => KeptUntilConsumed
<1>. DEFINE Kept == faults["damage"] = 0 =>
                      \A s \in envelope \ envelope' : \A c \in Consumer : Settled(s, c)
<1>1. LedgerInvariant /\ [Next]_vars => [Kept]_vars
  <2>. SUFFICES ASSUME LedgerInvariant, [Next]_vars, faults["damage"] = 0,
                       NEW s \in envelope, s \notin envelope', NEW c \in Consumer
                PROVE  Settled(s, c)
    OBVIOUS
  <2>1. Typed /\ Records /\ Behind  BY DEF LedgerInvariant, RecordInvariant
  <2>2. ReleaseEnvelope  BY <2>1, FilesMove DEF PutEnvelope
  <2>3. s = Head(releaser.todo) /\ releaser.pc = "envelope"  BY <2>2 DEF ReleaseEnvelope
  <2>4. terminal(s) /\ s \in Source  BY <2>1, <2>3, HeadOfTodo DEF Behind
  <2>5. recorded(s, c)  BY <2>4 DEF terminal
  <2>6. CASE outcome[s][c] \in Terminal
    <3>1. inspect(s, c) \in Terminal
      BY <2>1, <2>4, <2>6, InspectSays DEF Records, FitsMemory, FitsBehavior, Consumer, Terminal
    <3>. QED  BY <3>1 DEF Settled
  <2>. QED  BY <2>5, <2>6 DEF recorded, Settled
<1>. QED  BY <1>1, LedgerInvariantHolds, PTL DEF KeptUntilConsumed, Spec
=============================================================================

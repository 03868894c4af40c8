-------------------------- MODULE MemoryCompaction --------------------------
(***************************************************************************)
(* The hot/cold lifecycle of one L2 memory: compaction, restoration on use *)
(* and retirement.                                                         *)
(*   "upkeep"  MemoryLifecycleManager.maintain, one pass after another:    *)
(*             resume a pending operation, or rank the memory and mark,    *)
(*             retire or compact it;                                       *)
(*   Users     record_context_use: count a use, restoring the original of  *)
(*             a compacted memory first;                                   *)
(*   jobs      memory jobs edit, delete and recreate the document through  *)
(*             their own commit transaction.                               *)
(* The document, the recall state (SQLite row), the recovery baseline and  *)
(* the durable operation are four separate stores; every write to one is a *)
(* step, and a caller may stop between any two.  Time is counted in ages:  *)
(* 1 is cold enough for COLD_2, 2 is past the retirement period.           *)
(***************************************************************************)
EXTENDS Naturals

CONSTANTS
    Users,      \* concurrent record_context_use calls
    MaxK,       \* contents jobs may give the document
    MaxBorn,    \* times it may be created
    MaxUses, MaxTicks, MaxFaults

ASSUME CompactionAssumption ==
    /\ {MaxK, MaxBorn} \subseteq Nat \ {0}
    /\ {MaxUses, MaxTicks, MaxFaults} \subseteq Nat
    /\ {"upkeep", "none"} \cap Users = {}

VARIABLES
    doc,    \* the committed document; revision 0 = none
    row,    \* its recall state; version 0 = none
    base,   \* its recovery baseline; revision 0 = none
    op,     \* the unfinished lifecycle operation; kind "none" = none
    lock,   \* holder of the operation lock, "none" when free
    keep,   \* the version the compaction model judged KEEP: <<rev, born, n>>
    run,    \* where each caller is, with its local variables
    owed,   \* a deletion job still has to forget the recall state
    k,      \* content of the last job (0 after a deletion)
    idle,   \* history: age of the last real use, edit or restoration
    served, \* history: documents returned to a context so far
    uses, ticks, faults, born, contents

vars == <<doc, row, base, op, lock, keep, run, owed, k, idle, served,
          uses, ticks, faults, born, contents>>

stores == <<doc, row, base, op>>
jobs == <<owed, k, born, contents>>
clock == <<idle, ticks, faults, uses>>

Never == 3                      \* an age no timestamp has: the field is null
Phases == {"prepared", "l2", "state", "derived"}
PhaseNo(p) == CASE p = "prepared" -> 1 [] p = "l2" -> 2 [] p = "state" -> 3 [] p = "derived" -> 4

NoDoc == [rev |-> 0, born |-> 0, k |-> 0, short |-> FALSE, age |-> 0]
NoRow == [ver |-> 0, rev |-> 0, born |-> 0, n |-> 0, use |-> Never, act |-> Never,
          comp |-> FALSE, cand |-> Never, ret |-> FALSE]
NoBase == [rev |-> 0, born |-> 0, k |-> 0, age |-> 0, act |-> 0]
NoOp == [kind |-> "none", rev |-> 0, born |-> 0, ver |-> 0, plan |-> 0,
         phase |-> "prepared", tgt |-> 0, age |-> 0]
Idle == [pc |-> "idle", doc |-> NoDoc, op |-> NoOp, ver |-> 0, cand |-> Never, used |-> 0]

Actors == Users \cup {"upkeep"}
At(a, pc) == run[a].pc = pc

LesserAge(x, y) == IF x < y THEN x ELSE y

-----------------------------------------------------------------------------
(* What the code compares.                                                 *)

(* _matches_operation_source: same revision, digest and creation time.     *)
MatchesSource(d, o) == d.rev > 0 /\ d.rev = o.rev /\ d.born = o.born

(* _matches_operation_target *)
MatchesTarget(d, o) == o.tgt > 0 /\ d.rev = o.tgt /\ d.born = o.born

(* _matches_planned_target: the next revision of the source, planned fields. *)
MatchesPlan(d, o) ==
    d.rev = o.rev + 1 /\ d.born = o.born /\ d.k = o.plan /\ d.short = (o.kind = "compact")

(* _operation_id: kind, URI and the fingerprint of the source.             *)
SameOp(o1, o2) == o1.kind = o2.kind /\ o1.rev = o2.rev /\ o1.born = o2.born

RowOf(d) == row.ver > 0 /\ row.rev = d.rev /\ row.born = d.born

(* The state MemoryRecallLifecycle.rank ranks document d with: nothing of  *)
(* another generation, only the uses of another revision.                  *)
View(d) ==
    CASE row.ver = 0 \/ row.born # d.born -> NoRow
      [] row.ver > 0 /\ row.born = d.born /\ row.rev # d.rev ->
            [NoRow EXCEPT !.ver = row.ver, !.n = row.n, !.use = row.use, !.act = d.age]
      [] OTHER -> row

(* memory_activity_at: age of the last activity a state shows.             *)
Activity(v, d) == LesserAge(IF v.act = Never THEN d.age ELSE v.act, v.use)

Cold2(d) == Activity(View(d), d) >= 1
RetirementDue(d) == Activity(View(d), d) >= 2

(* for_compacted: the baseline is bound to exactly this document.          *)
ForCompacted(d) == base.rev > 0 /\ base.born = d.born /\ base.act > 0 /\ base.act = d.rev

-----------------------------------------------------------------------------
(* Moves of a caller.                                                      *)

Goto(a, pc) == run' = [run EXCEPT ![a].pc = pc]
Leave(a) == run' = [run EXCEPT ![a] = Idle]

(* A wait of zero: the operation lock is refused when somebody holds it.   *)
LockFree == lock = "none"

Init ==
    /\ doc = [rev |-> 1, born |-> 1, k |-> 1, short |-> FALSE, age |-> 0]
    /\ row = NoRow /\ base = NoBase /\ op = NoOp
    /\ lock = "none" /\ keep = <<0, 0, 0>>
    /\ run = [a \in Actors |-> Idle]
    /\ owed = FALSE /\ k = 1 /\ idle = 0 /\ served = {}
    /\ uses = 0 /\ ticks = 0 /\ faults = 0 /\ born = 1 /\ contents = 1

-----------------------------------------------------------------------------
(* The stores.                                                             *)

(* MemoryLifecycleOperationStore.prepare: one unfinished operation per URI; *)
(* the same one prepared again is returned as it stands.                   *)
Prepare(a, o, next) ==
    /\ IF ~LockFree \/ (op # NoOp /\ ~(SameOp(op, o) /\ op.plan = o.plan))
       THEN Leave(a) /\ UNCHANGED op
       ELSE /\ op' = IF op = NoOp THEN o ELSE op
            /\ run' = [run EXCEPT ![a].pc = next, ![a].op = op']
    /\ UNCHANGED <<doc, row, base, lock, keep, served, jobs, clock>>

(* advance: refused when the caller's copy is further on, when the lock is *)
(* held, when the operation is gone or another one, or when it would leave *)
(* PREPARED without a target.                                              *)
Advance(a, phase, tgt, next) ==
    /\ IF \/ ~LockFree
          \/ PhaseNo(phase) < PhaseNo(run[a].op.phase)
          \/ ~SameOp(op, run[a].op)
          \/ tgt = 0 /\ op.tgt = 0
       THEN Leave(a) /\ UNCHANGED op
       ELSE /\ op' = [op EXCEPT !.phase = phase, !.tgt = IF tgt = 0 THEN @ ELSE tgt]
            /\ run' = [run EXCEPT ![a].pc = next, ![a].op = op']
    /\ UNCHANGED <<doc, row, base, lock, keep, served, jobs, clock>>

(* Mutant of CommitFields: the write goes ahead whatever the document is.  *)
CommitFieldsUnfenced(a, short, next) ==
    /\ doc' = [run[a].doc EXCEPT !.rev = @ + 1, !.k = run[a].op.plan, !.short = short, !.age = 0]
    /\ idle' = IF short THEN idle ELSE 0
    /\ Goto(a, next)
    /\ UNCHANGED <<row, base, op, lock, keep, served, jobs, ticks, faults, uses>>

(* MemoryLifecycleCommitter.replace_fields: the commit transaction writes  *)
(* the planned fields if the document is still the one that was read.      *)
CommitFields(a, short, next) ==
    /\ IF doc # run[a].doc
       THEN Leave(a) /\ UNCHANGED <<doc, idle>>
       ELSE /\ doc' = [doc EXCEPT !.rev = @ + 1, !.k = run[a].op.plan, !.short = short, !.age = 0]
            /\ idle' = IF short THEN idle ELSE 0
            /\ Goto(a, next)
    /\ UNCHANGED <<row, base, op, lock, keep, served, jobs, ticks, faults, uses>>

(* Mutant of UsedRow: a use leaves the retirement candidate mark in place. *)
UsedRowKeepsCandidate(d, age) ==
    IF row.ver = 0 \/ row.born # d.born
    THEN [NoRow EXCEPT !.ver = row.ver + 1, !.rev = d.rev, !.born = d.born,
                         !.n = 1, !.use = age]
    ELSE [row EXCEPT !.ver = @ + 1, !.rev = d.rev, !.n = @ + 1,
                     !.use = LesserAge(@, age),
                     !.act = IF row.rev # d.rev THEN Never ELSE @,
                     !.comp = (row.rev = d.rev) /\ @, !.ret = FALSE]

(* record_use: the row after a use of d, a number of ages ago.             *)
UsedRow(d, age) ==
    IF row.ver = 0 \/ row.born # d.born
    THEN [NoRow EXCEPT !.ver = row.ver + 1, !.rev = d.rev, !.born = d.born,
                         !.n = 1, !.use = age]
    ELSE [row EXCEPT !.ver = @ + 1, !.rev = d.rev, !.n = @ + 1,
                     !.use = LesserAge(@, age),
                     !.act = IF row.rev # d.rev THEN Never ELSE @,
                     !.comp = (row.rev = d.rev) /\ @,
                     !.cand = Never, !.ret = FALSE]

(* _is_stale: the row already belongs to a newer document than d.          *)
RowNewer(d) == row.ver > 0 /\ (row.born > d.born \/ (row.born = d.born /\ row.rev > d.rev))

(* record_use refuses a memory marked retired.                             *)
UseRefused(d) == RowOf(d) /\ row.ret

(* mark_retire_candidate and mark_retired refuse a row whose version moved *)
(* since it was ranked; mark_retired also one that is no candidate.        *)
CandidateRow(d) ==
    IF RowOf(d) THEN [row EXCEPT !.ver = @ + 1, !.cand = IF @ = Never THEN 0 ELSE @]
    ELSE [View(d) EXCEPT !.ver = row.ver + 1, !.rev = d.rev, !.born = d.born,
                         !.act = Never, !.cand = 0]

-----------------------------------------------------------------------------
(* A pass of maintain: the scan.                                           *)

(* pending(): an unfinished operation is resumed first.                    *)
StartResume ==
    /\ At("upkeep", "idle") /\ op # NoOp
    /\ run' = [run EXCEPT !["upkeep"].pc = "resume", !["upkeep"].op = op]
    /\ UNCHANGED <<stores, lock, keep, served, jobs, clock>>

(* The scan skips a memory with an operation, and reads the others.        *)
StartScan ==
    /\ At("upkeep", "idle") /\ op = NoOp /\ doc.rev > 0
    /\ run' = [run EXCEPT !["upkeep"].pc = "rank", !["upkeep"].doc = doc]
    /\ UNCHANGED <<stores, lock, keep, served, jobs, clock>>

(* _ranking and what maintain does with it.                                *)
Rank ==
    LET d == run["upkeep"].doc
        v == View(d)
        next == CASE v.ret -> "prepare_retire"
                  [] ~v.ret /\ ~Cold2(d) -> "idle"
                  [] ~v.ret /\ Cold2(d) /\ RetirementDue(d) ->
                        IF v.cand = 0 THEN "idle" ELSE "mark"
                  [] OTHER -> IF v.comp \/ keep = <<d.rev, d.born, v.n>> THEN "idle" ELSE "model"
    IN /\ At("upkeep", "rank")
       /\ IF next = "idle" THEN Leave("upkeep")
          ELSE run' = [run EXCEPT !["upkeep"].pc = next, !["upkeep"].ver = v.ver,
                                  !["upkeep"].cand = v.cand, !["upkeep"].used = v.n]
       /\ UNCHANGED <<stores, lock, keep, served, jobs, clock>>

(* _consider_retirement, as ranked: mark the candidate, or, its grace over, *)
(* mark it retired.  A row of a newer document is left as it is.           *)
MarkRetirement ==
    LET d == run["upkeep"].doc
        first == run["upkeep"].cand = Never
        fits == /\ row.ver = run["upkeep"].ver
                /\ IF first THEN ~UseRefused(d) ELSE RowOf(d) /\ row.cand # Never
    IN /\ At("upkeep", "mark")
       /\ IF RowNewer(d) THEN Goto("upkeep", "reread") /\ UNCHANGED row
          ELSE IF ~fits THEN Leave("upkeep") /\ UNCHANGED row
          ELSE /\ row' = IF first THEN CandidateRow(d) ELSE [row EXCEPT !.ver = @ + 1, !.ret = TRUE]
               /\ Goto("upkeep", "reread")
       /\ UNCHANGED <<doc, base, op, lock, keep, served, jobs, clock>>

(* The second ranking: retire in the same pass what is now marked.         *)
RankAgain ==
    LET v == View(run["upkeep"].doc)
    IN /\ At("upkeep", "reread")
       /\ IF ~v.ret THEN Leave("upkeep")
          ELSE run' = [run EXCEPT !["upkeep"].pc = "prepare_retire", !["upkeep"].ver = v.ver,
                                  !["upkeep"].cand = Never]
       /\ UNCHANGED <<stores, lock, keep, served, jobs, clock>>

PrepareRetire ==
    /\ At("upkeep", "prepare_retire")
    /\ Prepare("upkeep", [NoOp EXCEPT !.kind = "retire", !.rev = run["upkeep"].doc.rev,
                                      !.born = run["upkeep"].doc.born,
                                      !.ver = run["upkeep"].ver], "resume")

(* _compact: the model answers KEEP, and this version is not asked again.  *)
ModelKeeps ==
    /\ At("upkeep", "model")
    /\ keep' = <<run["upkeep"].doc.rev, run["upkeep"].doc.born, run["upkeep"].used>>
    /\ Leave("upkeep")
    /\ UNCHANGED <<stores, lock, served, jobs, clock>>

(* It shortens the fields: go on if the document is still the one it saw.  *)
ModelShortens ==
    /\ At("upkeep", "model")
    /\ IF doc # run["upkeep"].doc THEN Leave("upkeep") ELSE Goto("upkeep", "rank_shortened")
    /\ UNCHANGED <<stores, lock, keep, served, jobs, clock>>

(* ... and still cold and not compacted.                                   *)
RankShortened ==
    LET d == run["upkeep"].doc
    IN /\ At("upkeep", "rank_shortened")
       /\ IF ~Cold2(d) \/ View(d).comp THEN Leave("upkeep")
          ELSE run' = [run EXCEPT !["upkeep"].pc = "save", !["upkeep"].ver = View(d).ver]
       /\ UNCHANGED <<stores, lock, keep, served, jobs, clock>>

(* MemoryRecoveryStore.save: the record of the document before compaction. *)
SavedBase(d) ==
    [rev |-> d.rev, born |-> d.born, k |-> d.k, age |-> d.age, act |-> 0]

(* ... which never replaces a baseline the current text may need.          *)
SaveBaseline ==
    LET d == run["upkeep"].doc
        current == base.rev > 0 /\ base.born = d.born
    IN /\ At("upkeep", "save")
       /\ IF current /\ base.rev # d.rev /\ base.act > 0 /\ d.rev <= base.act
          THEN Leave("upkeep") /\ UNCHANGED base
          ELSE /\ base' = IF current /\ base.rev = d.rev THEN base ELSE SavedBase(d)
               /\ Goto("upkeep", "prepare_compact")
       /\ UNCHANGED <<doc, row, op, lock, keep, served, jobs, clock>>

PrepareCompact ==
    /\ At("upkeep", "prepare_compact")
    /\ Prepare("upkeep", [NoOp EXCEPT !.kind = "compact", !.rev = run["upkeep"].doc.rev,
                                      !.born = run["upkeep"].doc.born, !.ver = run["upkeep"].ver,
                                      !.plan = run["upkeep"].doc.k], "resume")

-----------------------------------------------------------------------------
(* _resume_operation, by upkeep or by a use that prepared a restoration.   *)

(* Where an operation of this kind and phase continues.                    *)
Entry(o) ==
    CASE o.phase = "prepared" -> o.kind
      [] o.phase = "l2" -> [compact |-> "compact_l2", restore |-> "restore_l2",
                            retire |-> "retire_l2"][o.kind]
      [] o.phase = "state" -> IF o.kind = "retire" THEN "retire_state" ELSE "state"
      [] o.phase = "derived" -> "derived"

(* An operation somebody else finished is over: a use returns what it left. *)
Resume(a) ==
    /\ At(a, "resume")
    /\ IF ~SameOp(op, run[a].op)
       THEN IF a \in Users THEN Goto(a, "return_restored") ELSE Leave(a)
       ELSE run' = [run EXCEPT ![a] = [Idle EXCEPT !.pc = Entry(op), !.op = op]]
    /\ UNCHANGED <<stores, lock, keep, served, jobs, clock>>

(* _resume_compact, PREPARED: commit the plan, carry on with a plan that   *)
(* was committed before a stop, or give the operation up.                  *)
ResumeCompact(a) ==
    LET o == run[a].op
        next == CASE MatchesSource(doc, o) -> IF row.ver = o.ver THEN "commit_short" ELSE "drop_base"
                  [] ~MatchesSource(doc, o) /\ MatchesPlan(doc, o) -> "activate"
                  [] OTHER -> "drop_base"
    IN /\ At(a, "compact")
       /\ run' = [run EXCEPT ![a].pc = next, ![a].doc = doc]
       /\ UNCHANGED <<stores, lock, keep, served, jobs, clock>>

CommitShort(a) == At(a, "commit_short") /\ CommitFields(a, TRUE, "reread_short")

(* The document read again after its commit must be the planned one.       *)
RereadShort(a) ==
    /\ At(a, "reread_short")
    /\ IF MatchesPlan(doc, run[a].op) THEN run' = [run EXCEPT ![a].pc = "activate", ![a].doc = doc]
       ELSE Leave(a)
    /\ UNCHANGED <<stores, lock, keep, served, jobs, clock>>

(* MemoryRecoveryStore.activate binds the baseline of this generation to   *)
(* the short text; without one the operation fails.                        *)
ActivateBase(a) ==
    /\ At(a, "activate")
    /\ IF base.rev = 0 \/ base.born # run[a].op.born THEN Leave(a) /\ UNCHANGED base
       ELSE base' = [base EXCEPT !.act = run[a].doc.rev] /\ Goto(a, "short_done")
    /\ UNCHANGED <<doc, row, op, lock, keep, served, jobs, clock>>

ShortDone(a) == At(a, "short_done") /\ Advance(a, "l2", run[a].doc.rev, "compact_l2")

(* Mutant of DropOperation: only the baseline goes, the operation stays.   *)
DropOperationForgotten(a) ==
    /\ At(a, "drop_op")
    /\ Leave(a)
    /\ UNCHANGED <<stores, lock, keep, served, jobs, clock>>

(* Giving up: the baseline is deleted, then the operation is completed.    *)
DropBase(a) ==
    /\ At(a, "drop_base")
    /\ base' = NoBase
    /\ Goto(a, "drop_op")
    /\ UNCHANGED <<doc, row, op, lock, keep, served, jobs, clock>>

DropOperation(a) ==
    /\ At(a, "drop_op")
    /\ op' = IF LockFree /\ SameOp(op, run[a].op) THEN NoOp ELSE op
    /\ Leave(a)
    /\ UNCHANGED <<doc, row, base, lock, keep, served, jobs, clock>>

(* L2_COMMITTED: the document must still be the target; a baseline that is *)
(* not bound yet is bound.                                                 *)
CheckShort(a) ==
    LET missing == base.rev = 0 \/ base.born # run[a].op.born
    IN /\ At(a, "compact_l2")
       /\ IF ~MatchesTarget(doc, run[a].op) \/ missing THEN Leave(a) /\ UNCHANGED base
          ELSE /\ base' = [base EXCEPT !.act = doc.rev]
               /\ run' = [run EXCEPT ![a].pc = "publish", ![a].doc = doc]
       /\ UNCHANGED <<doc, row, op, lock, keep, served, jobs, clock>>

(* mark_compacted: uses of the same generation are kept, and the last      *)
(* activity before compaction (edit, use or recorded) is written down.     *)
CompactedRow(d) ==
    [NoRow EXCEPT !.ver = row.ver + 1, !.rev = d.rev, !.born = d.born,
                  !.n = IF row.born = d.born THEN row.n ELSE 0,
                  !.use = IF row.born = d.born THEN row.use ELSE Never,
                  !.act = LesserAge(base.age, LesserAge(row.use, row.act)),
                  !.comp = TRUE]

(* The state is published once, on the version the operation was prepared  *)
(* with; any other version is an error.                                    *)
PublishCompacted(a) ==
    LET o == run[a].op
        d == run[a].doc
        already == RowOf(d) /\ row.ver = o.ver + 1 /\ row.comp /\ ~row.ret
    IN /\ At(a, "publish")
       /\ IF already THEN Goto(a, "publish_done") /\ UNCHANGED row
          ELSE IF row.ver # o.ver \/ ~ForCompacted(d) THEN Leave(a) /\ UNCHANGED row
          ELSE /\ row' = CompactedRow(d)
               /\ Goto(a, "publish_done")
       /\ UNCHANGED <<doc, base, op, lock, keep, served, jobs, clock>>

PublishDone(a) == At(a, "publish_done") /\ Advance(a, "state", 0, "state")

(* STATE_COMMITTED *)
StateDone(a) == At(a, "state") /\ Advance(a, "derived", 0, "derived")

(* _resume_restore, PREPARED: put the original back.  A changed source that *)
(* is not the planned text, or a changed row, is an error.                 *)
ResumeRestore(a) ==
    LET o == run[a].op
        next == CASE MatchesSource(doc, o) -> IF row.ver = o.ver /\ row.ver > 0
                                              THEN "commit_original" ELSE "idle"
                  [] ~MatchesSource(doc, o) /\ MatchesPlan(doc, o) -> "original_done"
                  [] OTHER -> "idle"
    IN /\ At(a, "restore")
       /\ IF next = "idle" THEN Leave(a) ELSE run' = [run EXCEPT ![a].pc = next, ![a].doc = doc]
       /\ UNCHANGED <<stores, lock, keep, served, jobs, clock>>

CommitOriginal(a) == At(a, "commit_original") /\ CommitFields(a, FALSE, "reread_original")

RereadOriginal(a) ==
    /\ At(a, "reread_original")
    /\ run' = [run EXCEPT ![a].pc = "original_done", ![a].doc = doc]
    /\ UNCHANGED <<stores, lock, keep, served, jobs, clock>>

(* The target is whatever was read back: an operation without one is       *)
(* refused (a document deleted meanwhile).                                 *)
OriginalDone(a) ==
    /\ At(a, "original_done")
    /\ IF run[a].doc.rev > run[a].op.rev THEN Advance(a, "l2", run[a].doc.rev, "restore_l2")
       ELSE Leave(a) /\ UNCHANGED <<stores, lock, keep, served, jobs, clock>>

(* L2_COMMITTED: the use is recorded as of the time it was prepared, once. *)
AcknowledgeRestore(a) ==
    LET o == run[a].op
        already == RowOf(doc) /\ row.use <= o.age /\ ~row.comp
    IN /\ At(a, "restore_l2")
       /\ IF ~MatchesTarget(doc, o) THEN Leave(a) /\ UNCHANGED <<row, idle>>
          ELSE IF already THEN Goto(a, "publish_done") /\ UNCHANGED <<row, idle>>
          ELSE IF UseRefused(doc) \/ RowNewer(doc) THEN Leave(a) /\ UNCHANGED <<row, idle>>
          ELSE /\ row' = UsedRow(doc, o.age)
               /\ idle' = LesserAge(idle, o.age)
               /\ Goto(a, "publish_done")
       /\ UNCHANGED <<doc, base, op, lock, keep, served, jobs, ticks, faults, uses>>

(* _resume_retire_prepared: under the lock, give up on another document or *)
(* a row no longer marked retired, else delete the document and advance.   *)
ResumeRetire(a) ==
    LET o == run[a].op
        next == CASE doc.rev = 0 -> "delete_done"
                  [] MatchesSource(doc, o) -> IF row.ret THEN "delete" ELSE "clean_base"
                  [] OTHER -> IF row.ver > 0 /\ row.rev = o.rev /\ row.born = o.born
                              THEN "clean_row" ELSE "clean_base"
    IN /\ At(a, "retire") /\ LockFree
       /\ IF ~SameOp(op, o) THEN Leave(a) /\ UNCHANGED lock
          ELSE IF op.phase # "prepared"
          THEN run' = [run EXCEPT ![a].pc = Entry(op), ![a].op = op] /\ UNCHANGED lock
          ELSE run' = [run EXCEPT ![a].pc = next, ![a].doc = doc] /\ lock' = a
       /\ UNCHANGED <<stores, keep, served, jobs, clock>>

(* MemoryLifecycleCommitter.delete, fenced like every commit.              *)
DeleteRetired(a) ==
    /\ At(a, "delete")
    /\ IF doc # run[a].doc THEN Leave(a) /\ lock' = "none" /\ UNCHANGED doc
       ELSE doc' = NoDoc /\ Goto(a, "delete_done") /\ UNCHANGED lock
    /\ UNCHANGED <<row, base, op, keep, served, jobs, clock>>

(* advance_owned, and the lock is released.                                *)
DeleteDone(a) ==
    /\ At(a, "delete_done")
    /\ op' = [op EXCEPT !.phase = "l2"]
    /\ run' = [run EXCEPT ![a].pc = "retire_l2", ![a].op = op']
    /\ lock' = "none"
    /\ UNCHANGED <<doc, row, base, keep, served, jobs, clock>>

(* An operation on a document that is gone is cleaned up under the lock:   *)
(* its row, its baseline, itself.  A use goes on afterwards.               *)
CleanRow(a) ==
    /\ At(a, "clean_row")
    /\ row' = NoRow
    /\ Goto(a, "clean_base")
    /\ UNCHANGED <<doc, base, op, lock, keep, served, jobs, clock>>

CleanBase(a) ==
    /\ At(a, "clean_base")
    /\ base' = NoBase
    /\ Goto(a, "clean_op")
    /\ UNCHANGED <<doc, row, op, lock, keep, served, jobs, clock>>

CleanOp(a) ==
    /\ At(a, "clean_op")
    /\ op' = NoOp
    /\ IF a \in Users THEN Goto(a, "check_row") /\ UNCHANGED lock ELSE Leave(a) /\ lock' = "none"
    /\ UNCHANGED <<doc, row, base, keep, served, jobs, clock>>

(* _advance_retire_if_current: quietly ends when the operation is gone.    *)
AdvanceRetire(a) ==
    LET phase == IF At(a, "retire_l2") THEN "state" ELSE "derived"
    IN /\ At(a, "retire_l2") \/ At(a, "retire_state")
       /\ LockFree
       /\ IF ~SameOp(op, run[a].op) THEN Leave(a) /\ UNCHANGED op
          ELSE /\ op' = [op EXCEPT !.phase = phase]
               /\ run' = [run EXCEPT ![a].pc = IF phase = "state" THEN "retire_state" ELSE "derived",
                                     ![a].op = op']
       /\ UNCHANGED <<doc, row, base, lock, keep, served, jobs, clock>>

-----------------------------------------------------------------------------
(* _finish_operation, after the derived layers and index are refreshed.    *)

(* Mutant of FinishNext: a finished compaction loses its baseline too.     *)
FinishNextAlways(o) == "finish_base"

(* What is left to clean: a restoration or a retirement deletes the        *)
(* baseline, a compaction keeps it.                                        *)
FinishNext(o) == IF o.kind = "compact" THEN "finish_op" ELSE "finish_base"

(* Only the operation this caller drove, and only once it is DERIVED; a    *)
(* use leaves finishing to upkeep.                                         *)
StartFinish(a) ==
    /\ At(a, "derived")
    /\ IF a \in Users THEN Goto(a, "return_restored") /\ UNCHANGED lock
       ELSE /\ LockFree
            /\ IF SameOp(op, run[a].op) /\ op.phase = "derived"
               THEN Goto(a, FinishNext(op)) /\ lock' = a
               ELSE Leave(a) /\ UNCHANGED lock
    /\ UNCHANGED <<stores, keep, served, jobs, clock>>

FinishBase(a) ==
    /\ At(a, "finish_base")
    /\ base' = NoBase
    /\ Goto(a, IF op.kind = "retire" THEN "finish_row" ELSE "finish_op")
    /\ UNCHANGED <<doc, row, op, lock, keep, served, jobs, clock>>

FinishRow(a) ==
    /\ At(a, "finish_row")
    /\ row' = NoRow
    /\ Goto(a, "finish_op")
    /\ UNCHANGED <<doc, base, op, lock, keep, served, jobs, clock>>

FinishOp(a) ==
    /\ At(a, "finish_op")
    /\ op' = NoOp
    /\ Leave(a)
    /\ lock' = "none"
    /\ UNCHANGED <<doc, row, base, keep, served, jobs, clock>>

-----------------------------------------------------------------------------
(* record_context_use for one target.                                      *)

(* The search that chose the memory read this document.                    *)
StartUse(a) ==
    /\ At(a, "idle") /\ doc.rev > 0 /\ uses < MaxUses
    /\ run' = [run EXCEPT ![a].pc = "use", ![a].doc = doc]
    /\ uses' = uses + 1
    /\ UNCHANGED <<stores, lock, keep, served, jobs, idle, ticks, faults>>

(* The operation lock is waited for, up to 5 seconds.                      *)
LockUse(a) ==
    /\ At(a, "use") /\ LockFree
    /\ lock' = a
    /\ Goto(a, "check_use")
    /\ UNCHANGED <<stores, keep, served, jobs, clock>>

(* Mutant of UseBlocked: an unfinished operation does not stop a use.      *)
UseBlockedNever == FALSE

(* An unfinished operation refuses the use, except a restoration that only *)
(* has its derived data left.                                              *)
UseBlocked == op # NoOp /\ ~(op.kind = "restore" /\ op.phase = "derived")

(* _prepare_context_use, under the lock: the document must be the one the  *)
(* search read; a retirement of an older one is cleaned up first.          *)
CheckUse(a) ==
    LET stale == op.kind = "retire" /\ ~MatchesSource(doc, op)
        next == IF ~stale THEN "check_row"
                ELSE IF row.ver > 0 /\ row.rev = op.rev /\ row.born = op.born
                THEN "clean_row" ELSE "clean_base"
    IN /\ At(a, "check_use")
       /\ IF doc # run[a].doc \/ (~stale /\ UseBlocked)
          THEN Leave(a) /\ lock' = "none"
          ELSE Goto(a, next) /\ UNCHANGED lock
       /\ UNCHANGED <<stores, keep, served, jobs, clock>>

(* A memory marked retired is refused; one published as compacted must     *)
(* have its bound baseline, and is restored; any other is simply used.     *)
CheckRow(a) ==
    LET d == run[a].doc
    IN /\ At(a, "check_row")
       /\ IF UseRefused(d) \/ (RowOf(d) /\ row.comp /\ ~ForCompacted(d))
          THEN Leave(a) /\ lock' = "none"
          ELSE IF RowOf(d) /\ row.comp
          THEN /\ run' = [run EXCEPT ![a].pc = "prepare_restore", ![a].ver = row.ver,
                                     ![a].op = [NoOp EXCEPT !.plan = base.k]]
               /\ lock' = "none"
          ELSE Goto(a, "record_use") /\ UNCHANGED lock
       /\ UNCHANGED <<stores, keep, served, jobs, clock>>

(* record_use checks the row again in its own transaction.                 *)
RecordUse(a) ==
    LET d == run[a].doc
    IN /\ At(a, "record_use")
       /\ IF UseRefused(d) \/ RowNewer(d)
          THEN Leave(a) /\ lock' = "none" /\ UNCHANGED <<row, idle>>
          ELSE /\ row' = UsedRow(d, 0)
               /\ idle' = 0
               /\ Goto(a, "drop_stale_base")
               /\ UNCHANGED lock
       /\ UNCHANGED <<doc, base, op, keep, served, jobs, ticks, faults, uses>>

(* A used memory needs no baseline (a restoration cleans its own up), and  *)
(* the document the search read is returned.                               *)
DropStaleBase(a) ==
    /\ At(a, "drop_stale_base")
    /\ base' = IF op = NoOp THEN NoBase ELSE base
    /\ served' = served \cup {run[a].doc.short}
    /\ Leave(a)
    /\ lock' = "none"
    /\ UNCHANGED <<doc, row, op, keep, jobs, clock>>

PrepareRestore(a) ==
    /\ At(a, "prepare_restore")
    /\ Prepare(a, [NoOp EXCEPT !.kind = "restore", !.rev = run[a].doc.rev, !.born = run[a].doc.born,
                               !.ver = run[a].ver, !.plan = run[a].op.plan], "resume")

(* The restored document is read once more and returned.                   *)
ReturnRestored(a) ==
    /\ At(a, "return_restored")
    /\ served' = IF doc.rev > 0 THEN served \cup {doc.short} ELSE served
    /\ Leave(a)
    /\ UNCHANGED <<stores, lock, keep, jobs, clock>>

-----------------------------------------------------------------------------
(* Memory jobs, the passing of time and faults.                            *)

(* A job writes new content, from whatever text it found.                  *)
JobEdit ==
    /\ doc.rev > 0 /\ ~owed /\ contents < MaxK
    /\ doc' = [doc EXCEPT !.rev = @ + 1, !.k = contents + 1, !.short = FALSE, !.age = 0]
    /\ k' = contents + 1 /\ contents' = contents + 1 /\ idle' = 0
    /\ UNCHANGED <<row, base, op, lock, keep, run, owed, served, uses, ticks, faults, born>>

JobCreate ==
    /\ doc.rev = 0 /\ ~owed /\ contents < MaxK /\ born < MaxBorn
    /\ doc' = [rev |-> 1, born |-> born + 1, k |-> contents + 1, short |-> FALSE, age |-> 0]
    /\ born' = born + 1 /\ k' = contents + 1 /\ contents' = contents + 1 /\ idle' = 0
    /\ UNCHANGED <<row, base, op, lock, keep, run, owed, served, uses, ticks, faults>>

JobDelete ==
    /\ doc.rev > 0 /\ ~owed /\ born < MaxBorn
    /\ doc' = NoDoc /\ k' = 0 /\ owed' = TRUE
    /\ UNCHANGED <<row, base, op, lock, keep, run, idle, served, uses, ticks, faults, born, contents>>

(* _forget_retired_recall_state, before the deletion job ends; its failure *)
(* is only recorded.                                                       *)
JobForget ==
    /\ owed
    /\ owed' = FALSE
    /\ row' \in {NoRow, row}
    /\ UNCHANGED <<doc, base, op, lock, keep, run, k, idle, served, uses, ticks, faults, born, contents>>

Older(age) == IF age >= 2 THEN age ELSE age + 1

(* Weeks pass; a call does not last that long, an unfinished operation may. *)
Tick ==
    /\ ticks < MaxTicks /\ \A a \in Actors : At(a, "idle")
    /\ ticks' = ticks + 1
    /\ idle' = IF idle = 3 THEN 3 ELSE idle + 1
    /\ doc' = IF doc = NoDoc THEN NoDoc ELSE [doc EXCEPT !.age = Older(@)]
    /\ row' = [row EXCEPT !.use = Older(@), !.act = Older(@), !.cand = Older(@)]
    /\ base' = IF base = NoBase THEN NoBase ELSE [base EXCEPT !.age = Older(@)]
    /\ op' = IF op = NoOp THEN NoOp ELSE [op EXCEPT !.age = Older(@)]
    /\ UNCHANGED <<lock, keep, run, jobs, served, faults, uses>>

(* An error, a cancellation or a crash: the caller is gone, its lock with  *)
(* it (its lease is released or expires).                                  *)
Stop(a) ==
    /\ ~At(a, "idle") /\ faults < MaxFaults
    /\ faults' = faults + 1
    /\ Leave(a)
    /\ lock' = IF lock = a THEN "none" ELSE lock
    /\ UNCHANGED <<stores, keep, jobs, served, idle, ticks, uses>>

ResumeStep(a) ==
    \/ Resume(a) \/ ResumeCompact(a) \/ CommitShort(a) \/ RereadShort(a) \/ ActivateBase(a)
    \/ ShortDone(a) \/ DropBase(a) \/ DropOperation(a) \/ CheckShort(a)
    \/ PublishCompacted(a) \/ PublishDone(a) \/ StateDone(a) \/ ResumeRestore(a)
    \/ CommitOriginal(a) \/ RereadOriginal(a) \/ OriginalDone(a) \/ AcknowledgeRestore(a)
    \/ ResumeRetire(a) \/ DeleteRetired(a) \/ DeleteDone(a) \/ CleanRow(a) \/ CleanBase(a)
    \/ CleanOp(a) \/ AdvanceRetire(a) \/ StartFinish(a) \/ FinishBase(a) \/ FinishRow(a)
    \/ FinishOp(a)

UpkeepStep ==
    \/ StartResume \/ StartScan \/ Rank \/ MarkRetirement \/ RankAgain \/ PrepareRetire
    \/ ModelKeeps \/ ModelShortens \/ RankShortened \/ SaveBaseline \/ PrepareCompact
    \/ ResumeStep("upkeep")

UseStep(a) ==
    \/ LockUse(a) \/ CheckUse(a) \/ CheckRow(a) \/ RecordUse(a) \/ DropStaleBase(a)
    \/ PrepareRestore(a) \/ ReturnRestored(a) \/ ResumeStep(a)

Next ==
    \/ UpkeepStep
    \/ \E a \in Users : StartUse(a) \/ UseStep(a)
    \/ JobEdit \/ JobCreate \/ JobDelete \/ JobForget
    \/ Tick
    \/ \E a \in Actors : Stop(a)

Spec == Init /\ [][Next]_vars

(* Upkeep runs every hour and a started call goes on.                      *)
FairSpec == Spec /\ WF_vars(UpkeepStep) /\ \A a \in Users : WF_vars(UseStep(a))

-----------------------------------------------------------------------------
(* Properties.                                                             *)

Ages == 0..2

(* Types, and what the records check of themselves when they are read.     *)
TypeOK ==
    /\ doc \in [rev : Nat, born : 0..MaxBorn, k : 0..MaxK, short : BOOLEAN, age : Ages]
    /\ row \in [ver : Nat, rev : Nat, born : 0..MaxBorn, n : Nat, use : 0..Never, act : 0..Never,
                comp : BOOLEAN, cand : 0..Never, ret : BOOLEAN]
    /\ row.ret => row.cand # Never
    /\ (row.n = 0) <=> (row.use = Never)
    /\ base \in [rev : Nat, born : 0..MaxBorn, k : 0..MaxK, age : Ages, act : Nat]
    /\ base.act > 0 => base.act > base.rev
    /\ op \in [kind : {"none", "compact", "restore", "retire"}, rev : Nat, born : 0..MaxBorn,
               ver : Nat, plan : 0..MaxK, phase : Phases, tgt : Nat, age : Ages]
    /\ op.tgt > 0 => op.tgt > op.rev
    /\ op.kind \in {"compact", "restore"} /\ op.phase # "prepared" => op.tgt > 0
    /\ lock \in Actors \cup {"none"}
    /\ served \subseteq BOOLEAN

(* While a document holds the shortened text, its original is in the       *)
(* recovery store, bound to it or about to be bound by the operation, and  *)
(* bound once the recall state says it is compacted.                       *)
OriginalKept ==
    doc.short =>
        /\ base.rev > 0 /\ base.born = doc.born /\ base.k = doc.k /\ base.rev < doc.rev
        /\ base.act = doc.rev \/ (op.kind = "compact" /\ op.rev = base.rev)
        /\ (RowOf(doc) /\ row.comp) => base.act = doc.rev

(* What the last job wrote is what the document says: neither a compaction *)
(* nor a restoration brings back an earlier content.                       *)
EditsSurvive == doc.rev > 0 => doc.k = k

(* No context receives the shortened text: a use returns the original or is *)
(* refused, as long as the memory was not deleted under it.                *)
ReturnsOriginal == doc.rev > 0 /\ doc.born = 1 => TRUE \notin served

(* A memory is only retired after a whole retirement period and then a     *)
(* whole grace period without a use or an edit.                            *)
RetiredWasUnused ==
    [][\A a \in Actors : DeleteRetired(a) /\ doc' # doc => idle = 3]_vars

(* The document or the recall row an operation was prepared for, or wrote,  *)
(* was changed by somebody else before the operation was done with it.     *)
Overtaken ==
    \/ /\ op.kind = "restore" /\ op.phase = "prepared"
       /\ ~MatchesPlan(doc, op)
       /\ MatchesSource(doc, op) => row.ver # op.ver
    \/ op.kind \in {"compact", "restore"} /\ op.phase = "l2" /\ ~MatchesTarget(doc, op)

(* An operation that nobody overtakes ends, whatever stops and whoever     *)
(* else resumes it: overtaking is the only way to be left unfinished.      *)
EndsUnlessOvertaken == (op # NoOp) ~> (op = NoOp \/ Overtaken)

=============================================================================

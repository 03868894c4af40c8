----------------------- MODULE MemoryCompactionProofs -----------------------
(***************************************************************************)
(* What holds of MemoryCompaction for any number of uses, edits, weeks and *)
(* stops: the original of a shortened memory is never lost, no earlier     *)
(* content comes back, no context is given the shortened text, and only an *)
(* unused memory is retired.                                               *)
(***************************************************************************)
EXTENDS MemoryCompaction, TLAPS

----------------------------------------------------------------------------
(* Types.                                                                  *)

DocRecord == [rev : Nat, born : 0..MaxBorn, k : 0..MaxK, short : BOOLEAN, age : Ages]

RowRecord == [ver : Nat, rev : Nat, born : 0..MaxBorn, n : Nat, use : 0..Never, act : 0..Never,
              comp : BOOLEAN, cand : 0..Never, ret : BOOLEAN]

BaseRecord == [rev : Nat, born : 0..MaxBorn, k : 0..MaxK, age : Ages, act : Nat]

OpRecord == [kind : {"none", "compact", "restore", "retire"}, rev : Nat, born : 0..MaxBorn,
             ver : Nat, plan : 0..MaxK, phase : Phases, tgt : Nat, age : Ages]

\* Where a caller can be: in the scan, in an operation, or in a use.
ScanPlace == {"rank", "mark", "reread", "prepare_retire", "model", "rank_shortened", "save", "prepare_compact"}
CompactPlace == {"compact", "commit_short", "reread_short", "activate", "short_done", "drop_base", "drop_op",
                 "compact_l2", "publish"}
RestorePlace == {"restore", "commit_original", "reread_original", "original_done", "restore_l2"}
CleanPlace == {"clean_row", "clean_base", "clean_op"}
RetirePlace == {"retire", "delete", "delete_done", "retire_l2", "retire_state"} \cup CleanPlace
AnyPlace == {"resume", "publish_done", "state", "derived"}
FinishPlace == {"finish_base", "finish_row", "finish_op"}
UsePlace == {"use", "check_use", "check_row", "record_use", "drop_stale_base", "prepare_restore"} \cup CleanPlace
Place == {"idle", "return_restored"} \cup ScanPlace \cup CompactPlace \cup RestorePlace \cup RetirePlace
            \cup AnyPlace \cup FinishPlace \cup UsePlace

LocalRecord == [pc : Place, doc : DocRecord, op : OpRecord, ver : Nat, cand : 0..Never, used : Nat]

StoresTyped == doc \in DocRecord /\ row \in RowRecord /\ base \in BaseRecord /\ op \in OpRecord

CountsTyped ==
    /\ k \in 0..MaxK /\ contents \in 1..MaxK /\ born \in 1..MaxBorn
    /\ owed \in BOOLEAN /\ idle \in 0..Never /\ served \subseteq BOOLEAN

Typed ==
    /\ StoresTyped /\ CountsTyped
    /\ run \in [Actors -> LocalRecord]
    /\ lock \in Actors \cup {"none"}

LEMMA Bounds == MaxK \in Nat /\ MaxBorn \in Nat /\ MaxK > 0 /\ MaxBorn > 0 /\ Never = 3
BY CompactionAssumption DEF Never

LEMMA NothingTyped ==
  /\ NoDoc \in DocRecord /\ NoRow \in RowRecord /\ NoBase \in BaseRecord /\ NoOp \in OpRecord
  /\ Idle \in LocalRecord
<1>1. NoDoc \in DocRecord /\ NoRow \in RowRecord /\ NoBase \in BaseRecord /\ NoOp \in OpRecord
  BY Bounds DEF NoDoc, DocRecord, NoRow, RowRecord, NoBase, BaseRecord, NoOp, OpRecord, Ages, Phases
<1>2. Never \in 0..Never /\ "idle" \in Place  BY Bounds DEF Place
<1>3. Idle = [pc |-> "idle", doc |-> NoDoc, op |-> NoOp, ver |-> 0, cand |-> Never, used |-> 0]  BY DEF Idle
<1>. QED  BY <1>1, <1>2, <1>3 DEF LocalRecord

LEMMA TypedAtStart == Init => Typed
<1>1. [rev |-> 1, born |-> 1, k |-> 1, short |-> FALSE, age |-> 0] \in DocRecord
  BY Bounds DEF DocRecord, Ages
<1>. SUFFICES ASSUME Init PROVE Typed  OBVIOUS
<1>2. StoresTyped  BY <1>1, NothingTyped DEF Init, StoresTyped
<1>3. CountsTyped
  <2>1. k = 1 /\ contents = 1 /\ born = 1 /\ idle = 0 /\ owed = FALSE /\ served = {}  BY DEF Init
  <2>2. k \in 0..MaxK /\ contents \in 1..MaxK /\ born \in 1..MaxBorn /\ idle \in 0..Never
    BY <2>1, Bounds
  <2>. QED  BY <2>1, <2>2 DEF CountsTyped
<1>4. run \in [Actors -> LocalRecord] /\ lock \in Actors \cup {"none"}  BY NothingTyped DEF Init
<1>. QED  BY <1>2, <1>3, <1>4 DEF Typed

----------------------------------------------------------------------------
(* How a caller moves.                                                     *)

\* a goes on with the record r; the others stay where they are.
Steps(a, r) ==
    /\ r \in LocalRecord
    /\ run' \in [Actors -> LocalRecord]
    /\ run'[a] = r
    /\ \A b \in Actors : b # a => run'[b] = run[b]

LEMMA Stepping ==
  ASSUME run \in [Actors -> LocalRecord], NEW a \in Actors, NEW r \in LocalRecord,
         run' = [run EXCEPT ![a] = r]
  PROVE  Steps(a, r)
BY DEF Steps

LEMMA Going ==
  ASSUME run \in [Actors -> LocalRecord], NEW a \in Actors, NEW pc \in Place, Goto(a, pc)
  PROVE  /\ Steps(a, run'[a])
         /\ run'[a].pc = pc /\ run'[a].doc = run[a].doc /\ run'[a].op = run[a].op
         /\ run'[a].ver = run[a].ver /\ run'[a].cand = run[a].cand /\ run'[a].used = run[a].used
<1>. DEFINE r == [run[a] EXCEPT !.pc = pc]
<1>1. run[a] \in LocalRecord  OBVIOUS
<1>2. r \in LocalRecord /\ r.pc = pc /\ r.doc = run[a].doc /\ r.op = run[a].op
        /\ r.ver = run[a].ver /\ r.cand = run[a].cand /\ r.used = run[a].used
  BY <1>1 DEF LocalRecord
<1>3. run' = [run EXCEPT ![a] = r]  BY DEF Goto
<1>. HIDE DEF r
<1>4. Steps(a, r) /\ run'[a] = r  BY <1>2, <1>3, Stepping DEF Steps
<1>. QED  BY <1>2, <1>4

LEMMA Leaving ==
  ASSUME run \in [Actors -> LocalRecord], NEW a \in Actors, Leave(a)
  PROVE  Steps(a, Idle)
BY NothingTyped, Stepping DEF Leave

\* a goes to pc with the document d and the operation o in hand.
Moves(a, pc, d, o) ==
    /\ Steps(a, run'[a])
    /\ run'[a].pc = pc /\ run'[a].doc = d /\ run'[a].op = o
    /\ run'[a].ver = run[a].ver /\ run'[a].cand = run[a].cand

LEMMA MovingOn ==
  ASSUME run \in [Actors -> LocalRecord], NEW a \in Actors, NEW pc \in Place, Goto(a, pc)
  PROVE  Moves(a, pc, run[a].doc, run[a].op)
BY Going DEF Moves

LEMMA MovingWithDoc ==
  ASSUME run \in [Actors -> LocalRecord], NEW a \in Actors, NEW pc \in Place, NEW d \in DocRecord,
         run' = [run EXCEPT ![a].pc = pc, ![a].doc = d]
  PROVE  Moves(a, pc, d, run[a].op)
<1>. DEFINE r == [run[a] EXCEPT !.pc = pc, !.doc = d]
<1>1. run[a] \in LocalRecord  OBVIOUS
<1>2. r \in LocalRecord /\ r.pc = pc /\ r.doc = d /\ r.op = run[a].op
        /\ r.ver = run[a].ver /\ r.cand = run[a].cand /\ r.used = run[a].used
  BY <1>1 DEF LocalRecord
<1>3. run' = [run EXCEPT ![a] = r]  BY <1>1 DEF LocalRecord
<1>. HIDE DEF r
<1>4. Steps(a, r) /\ run'[a] = r  BY <1>2, <1>3, Stepping DEF Steps
<1>. QED  BY <1>2, <1>4 DEF Moves

LEMMA MovingWithOp ==
  ASSUME run \in [Actors -> LocalRecord], NEW a \in Actors, NEW pc \in Place, NEW o \in OpRecord,
         run' = [run EXCEPT ![a].pc = pc, ![a].op = o]
  PROVE  Moves(a, pc, run[a].doc, o)
<1>. DEFINE r == [run[a] EXCEPT !.pc = pc, !.op = o]
<1>1. run[a] \in LocalRecord  OBVIOUS
<1>2. r \in LocalRecord /\ r.pc = pc /\ r.doc = run[a].doc /\ r.op = o
        /\ r.ver = run[a].ver /\ r.cand = run[a].cand /\ r.used = run[a].used
  BY <1>1 DEF LocalRecord
<1>3. run' = [run EXCEPT ![a] = r]  BY <1>1 DEF LocalRecord
<1>. HIDE DEF r
<1>4. Steps(a, r) /\ run'[a] = r  BY <1>2, <1>3, Stepping DEF Steps
<1>. QED  BY <1>2, <1>4 DEF Moves

Gone(a) == Steps(a, Idle)

LEMMA PrepareMoves ==
  ASSUME Typed, NEW a \in Actors, NEW o \in OpRecord, NEW next \in Place, Prepare(a, o, next)
  PROVE  \/ Gone(a) /\ op' = op
         \/ /\ Moves(a, next, run[a].doc, op') /\ LockFree
            /\ IF op = NoOp THEN op' = o ELSE op' = op /\ SameOp(op, o) /\ op.plan = o.plan
<1>1. CASE ~LockFree \/ (op # NoOp /\ ~(SameOp(op, o) /\ op.plan = o.plan))
  BY <1>1, Leaving DEF Prepare, Gone, Typed
<1>2. CASE ~(~LockFree \/ (op # NoOp /\ ~(SameOp(op, o) /\ op.plan = o.plan)))
  <2>1. op' = (IF op = NoOp THEN o ELSE op) /\ run' = [run EXCEPT ![a].pc = next, ![a].op = op']
    BY <1>2 DEF Prepare
  <2>2. op' \in OpRecord  BY <2>1 DEF Typed, StoresTyped
  <2>. QED  BY <1>2, <2>1, <2>2, MovingWithOp DEF Typed
<1>. QED  BY <1>1, <1>2

LEMMA AdvanceMoves ==
  ASSUME Typed, NEW a \in Actors, NEW phase \in Phases, NEW tgt \in Nat, NEW next \in Place,
         Advance(a, phase, tgt, next)
  PROVE  \/ Gone(a) /\ op' = op
         \/ /\ Moves(a, next, run[a].doc, op') /\ LockFree /\ SameOp(op, run[a].op)
            /\ op' \in OpRecord /\ SameOp(op', op)
            /\ op'.ver = op.ver /\ op'.plan = op.plan /\ op'.age = op.age /\ op'.phase = phase
            /\ op'.tgt = (IF tgt = 0 THEN op.tgt ELSE tgt) /\ op'.tgt # 0
<1>. DEFINE bad == \/ ~LockFree \/ PhaseNo(phase) < PhaseNo(run[a].op.phase) \/ ~SameOp(op, run[a].op)
                   \/ tgt = 0 /\ op.tgt = 0
<1>1. CASE bad
  BY <1>1, Leaving DEF Advance, Gone, Typed
<1>2. CASE ~bad
  <2>1. op' = [op EXCEPT !.phase = phase, !.tgt = IF tgt = 0 THEN @ ELSE tgt]
          /\ run' = [run EXCEPT ![a].pc = next, ![a].op = op']
    BY <1>2 DEF Advance
  <2>2. op \in OpRecord  BY DEF Typed, StoresTyped
  <2>3. op' \in OpRecord /\ SameOp(op', op) /\ op'.ver = op.ver /\ op'.plan = op.plan /\ op'.age = op.age
          /\ op'.phase = phase /\ op'.tgt = (IF tgt = 0 THEN op.tgt ELSE tgt)
    BY <2>1, <2>2 DEF OpRecord, SameOp
  <2>4. op'.tgt # 0  BY <1>2, <2>3
  <2>5. Moves(a, next, run[a].doc, op')  BY <2>1, <2>3, MovingWithOp DEF Typed
  <2>6. LockFree /\ SameOp(op, run[a].op)  BY <1>2
  <2>. QED  BY <2>3, <2>4, <2>5, <2>6
<1>. QED  BY <1>1, <1>2

LEMMA CommitMoves ==
  ASSUME Typed, NEW a \in Actors, NEW short \in BOOLEAN, NEW next \in Place, CommitFields(a, short, next)
  PROVE  \/ Gone(a) /\ doc' = doc /\ idle' = idle
         \/ /\ Moves(a, next, run[a].doc, run[a].op) /\ doc = run[a].doc
            /\ doc' \in DocRecord /\ doc'.rev = doc.rev + 1 /\ doc'.born = doc.born /\ doc'.k = run[a].op.plan
            /\ doc'.short = short /\ doc'.age = 0
            /\ idle' = IF short THEN idle ELSE 0
<1>1. CASE doc # run[a].doc
  BY <1>1, Leaving DEF CommitFields, Gone, Typed
<1>2. CASE doc = run[a].doc
  <2>1. doc' = [doc EXCEPT !.rev = @ + 1, !.k = run[a].op.plan, !.short = short, !.age = 0]
          /\ idle' = (IF short THEN idle ELSE 0) /\ Goto(a, next)
    BY <1>2 DEF CommitFields
  <2>2. doc \in DocRecord /\ run[a].op.plan \in 0..MaxK  BY DEF Typed, StoresTyped, LocalRecord, OpRecord
  <2>3. /\ doc' \in DocRecord /\ doc'.rev = doc.rev + 1 /\ doc'.born = doc.born /\ doc'.k = run[a].op.plan
        /\ doc'.short = short /\ doc'.age = 0
    <3>1. doc' = [rev |-> doc.rev + 1, born |-> doc.born, k |-> run[a].op.plan, short |-> short, age |-> 0]
      BY <2>1, <2>2 DEF DocRecord
    <3>2. doc.rev + 1 \in Nat /\ doc.born \in 0..MaxBorn /\ 0 \in Ages  BY <2>2 DEF DocRecord, Ages
    <3>. QED  BY <2>2, <3>1, <3>2 DEF DocRecord
  <2>. QED  BY <1>2, <2>1, <2>3, MovingOn DEF Typed
<1>. QED  BY <1>1, <1>2

----------------------------------------------------------------------------
(* Where each operation leads its caller.                                  *)

U == run["upkeep"]

\* Upkeep goes to one of the places, judging its document by the row as it is.
Ranked(places) ==
    /\ Steps("upkeep", run'["upkeep"])
    /\ U'.pc \in places /\ U'.doc = U.doc /\ U'.op = U.op
    /\ U'.ver = View(U.doc).ver

LEMMA UpkeepActs == "upkeep" \in Actors
BY DEF Actors

LEMMA ViewTyped == ASSUME Typed, NEW d \in DocRecord PROVE View(d) \in RowRecord
<1>1. CASE row.ver = 0 \/ row.born # d.born  BY <1>1, NothingTyped DEF View
<1>2. CASE row.ver > 0 /\ row.born = d.born /\ row.rev # d.rev
  <2>1. View(d) = [NoRow EXCEPT !.ver = row.ver, !.n = row.n, !.use = row.use, !.act = d.age]
    BY <1>2 DEF View, Typed, StoresTyped, RowRecord
  <2>2. row.ver \in Nat /\ row.n \in Nat /\ row.use \in 0..Never /\ d.age \in 0..Never
    BY DEF Typed, StoresTyped, RowRecord, DocRecord, Ages, Never
  <2>. QED  BY <2>1, <2>2, NothingTyped DEF RowRecord
<1>3. CASE ~(row.ver = 0 \/ row.born # d.born) /\ ~(row.ver > 0 /\ row.born = d.born /\ row.rev # d.rev)
  <2>1. View(d) = row  BY <1>3 DEF View
  <2>. QED  BY <2>1 DEF Typed, StoresTyped
<1>. QED  BY <1>1, <1>2, <1>3

LEMMA StartResumeGoes == ASSUME Typed, StartResume PROVE Moves("upkeep", "resume", U.doc, op)
<1>1. "resume" \in Place  BY DEF Place, AnyPlace
<1>. QED  BY <1>1, UpkeepActs, MovingWithOp DEF StartResume, Typed, StoresTyped, U

LEMMA StartScanGoes == ASSUME Typed, StartScan PROVE Moves("upkeep", "rank", doc, U.op)
<1>1. "rank" \in Place  BY DEF Place, ScanPlace
<1>. QED  BY <1>1, UpkeepActs, MovingWithDoc DEF StartScan, Typed, StoresTyped, U

LEMMA RankGoes ==
  ASSUME Typed, Rank
  PROVE  \/ Gone("upkeep")
         \/ /\ Ranked({"prepare_retire", "mark", "model"}) /\ U'.cand = View(U.doc).cand
            /\ U'.pc = "prepare_retire" => View(U.doc).ret
            /\ U'.pc = "mark" => RetirementDue(U.doc) /\ View(U.doc).cand # 0
            /\ U'.pc = "model" => ~View(U.doc).comp
<1>. DEFINE v == View(U.doc)
            next == CASE v.ret -> "prepare_retire"
                      [] ~v.ret /\ ~Cold2(U.doc) -> "idle"
                      [] ~v.ret /\ Cold2(U.doc) /\ RetirementDue(U.doc) ->
                            IF v.cand = 0 THEN "idle" ELSE "mark"
                      [] OTHER -> IF v.comp \/ keep = <<U.doc.rev, U.doc.born, v.n>> THEN "idle" ELSE "model"
            r == [U EXCEPT !.pc = next, !.ver = v.ver, !.cand = v.cand, !.used = v.n]
<1>1. U \in LocalRecord /\ U.doc \in DocRecord  BY UpkeepActs DEF Typed, U, LocalRecord
<1>2. v \in RowRecord  BY <1>1, ViewTyped
<1>3. /\ next \in {"prepare_retire", "idle", "mark", "model"}
      /\ next = "prepare_retire" => v.ret
      /\ next = "mark" => RetirementDue(U.doc) /\ v.cand # 0
      /\ next = "model" => ~v.comp
  OBVIOUS
<1>4. IF next = "idle" THEN Leave("upkeep")
      ELSE run' = [run EXCEPT !["upkeep"].pc = next, !["upkeep"].ver = v.ver,
                              !["upkeep"].cand = v.cand, !["upkeep"].used = v.n]
  BY DEF Rank, U
<1>. HIDE DEF next, v
<1>5. CASE next = "idle"  BY <1>4, <1>5, UpkeepActs, Leaving DEF Gone, Typed
<1>6. CASE next # "idle"
  <2>1. next \in Place  BY <1>3 DEF Place, ScanPlace
  <2>2. v.ver \in Nat /\ v.cand \in 0..Never /\ v.n \in Nat  BY <1>2 DEF RowRecord
  <2>3. r \in LocalRecord /\ r.pc = next /\ r.doc = U.doc /\ r.op = U.op /\ r.ver = v.ver /\ r.cand = v.cand
    BY <1>1, <2>1, <2>2 DEF LocalRecord
  <2>4. run' = [run EXCEPT !["upkeep"] = r]
    BY <1>1, <1>4, <1>6 DEF U, LocalRecord
  <2>. HIDE DEF r
  <2>5. Steps("upkeep", r) /\ run'["upkeep"] = r  BY <2>3, <2>4, UpkeepActs, Stepping DEF Typed, Steps
  <2>. QED  BY <1>3, <1>6, <2>3, <2>5 DEF Ranked, U, v
<1>. QED  BY <1>5, <1>6

LEMMA MarkRetirementGoes ==
  ASSUME Typed, MarkRetirement
  PROVE  (Gone("upkeep") /\ row' = row) \/ Moves("upkeep", "reread", U.doc, U.op)
<1>1. "reread" \in Place  BY DEF Place, ScanPlace
<1>. QED  BY <1>1, UpkeepActs, MovingOn, Leaving DEF MarkRetirement, Gone, Typed, U

LEMMA RankAgainGoes ==
  ASSUME Typed, RankAgain
  PROVE  Gone("upkeep") \/ (Ranked({"prepare_retire"}) /\ View(U.doc).ret)
<1>. DEFINE r == [U EXCEPT !.pc = "prepare_retire", !.ver = View(U.doc).ver, !.cand = Never]
<1>1. U \in LocalRecord /\ U.doc \in DocRecord  BY UpkeepActs DEF Typed, U, LocalRecord
<1>2. View(U.doc) \in RowRecord  BY <1>1, ViewTyped
<1>3. CASE ~View(U.doc).ret  BY <1>3, UpkeepActs, Leaving DEF RankAgain, Gone, Typed, U
<1>4. CASE View(U.doc).ret
  <2>1. "prepare_retire" \in Place /\ View(U.doc).ver \in Nat /\ Never \in 0..Never
    BY <1>2 DEF Place, ScanPlace, RowRecord, Never
  <2>2. r \in LocalRecord /\ r.pc = "prepare_retire" /\ r.doc = U.doc /\ r.op = U.op /\ r.ver = View(U.doc).ver
    BY <1>1, <2>1 DEF LocalRecord
  <2>3. run' = [run EXCEPT !["upkeep"] = r]
    BY <1>1, <1>4 DEF RankAgain, U, LocalRecord
  <2>. HIDE DEF r
  <2>4. Steps("upkeep", r) /\ run'["upkeep"] = r  BY <2>2, <2>3, UpkeepActs, Stepping DEF Typed, Steps
  <2>. QED  BY <1>4, <2>2, <2>4 DEF Ranked, U
<1>. QED  BY <1>3, <1>4

LEMMA RankShortenedGoes ==
  ASSUME Typed, RankShortened
  PROVE  Gone("upkeep") \/ (Ranked({"save"}) /\ Cold2(U.doc) /\ ~View(U.doc).comp)
<1>. DEFINE r == [U EXCEPT !.pc = "save", !.ver = View(U.doc).ver]
<1>1. U \in LocalRecord /\ U.doc \in DocRecord  BY UpkeepActs DEF Typed, U, LocalRecord
<1>2. View(U.doc) \in RowRecord  BY <1>1, ViewTyped
<1>3. CASE ~Cold2(U.doc) \/ View(U.doc).comp  BY <1>3, UpkeepActs, Leaving DEF RankShortened, Gone, Typed, U
<1>4. CASE ~(~Cold2(U.doc) \/ View(U.doc).comp)
  <2>1. "save" \in Place /\ View(U.doc).ver \in Nat
    BY <1>2 DEF Place, ScanPlace, RowRecord
  <2>2. r \in LocalRecord /\ r.pc = "save" /\ r.doc = U.doc /\ r.op = U.op /\ r.ver = View(U.doc).ver
    BY <1>1, <2>1 DEF LocalRecord
  <2>3. run' = [run EXCEPT !["upkeep"] = r]
    BY <1>1, <1>4 DEF RankShortened, U, LocalRecord
  <2>. HIDE DEF r
  <2>4. Steps("upkeep", r) /\ run'["upkeep"] = r  BY <2>2, <2>3, UpkeepActs, Stepping DEF Typed, Steps
  <2>. QED  BY <1>4, <2>2, <2>4 DEF Ranked, U
<1>. QED  BY <1>3, <1>4

LEMMA ModelKeepsGoes == ASSUME Typed, ModelKeeps PROVE Gone("upkeep")
BY UpkeepActs, Leaving DEF ModelKeeps, Gone, Typed

LEMMA ModelShortensGoes ==
  ASSUME Typed, ModelShortens
  PROVE  Gone("upkeep") \/ (Moves("upkeep", "rank_shortened", U.doc, U.op) /\ doc = U.doc)
<1>1. "rank_shortened" \in Place  BY DEF Place, ScanPlace
<1>. QED  BY <1>1, UpkeepActs, MovingOn, Leaving DEF ModelShortens, Gone, Typed, U

LEMMA SaveBaselineGoes ==
  ASSUME Typed, SaveBaseline
  PROVE  (Gone("upkeep") /\ base' = base) \/ Moves("upkeep", "prepare_compact", U.doc, U.op)
<1>1. "prepare_compact" \in Place  BY DEF Place, ScanPlace
<1>. QED  BY <1>1, UpkeepActs, MovingOn, Leaving DEF SaveBaseline, Gone, Typed, U

LEMMA PrepareRetireGoes ==
  ASSUME Typed, PrepareRetire
  PROVE  \/ Gone("upkeep") /\ op' = op
         \/ /\ Moves("upkeep", "resume", U.doc, op') /\ LockFree /\ op' \in OpRecord
            /\ IF op = NoOp
               THEN /\ op'.kind = "retire" /\ op'.rev = U.doc.rev /\ op'.born = U.doc.born
                    /\ op'.phase = "prepared" /\ op'.tgt = 0
               ELSE op' = op /\ op.kind = "retire" /\ op.rev = U.doc.rev /\ op.born = U.doc.born
<1>. DEFINE o == [NoOp EXCEPT !.kind = "retire", !.rev = U.doc.rev, !.born = U.doc.born, !.ver = U.ver]
<1>1. "resume" \in Place  BY DEF Place, AnyPlace
<1>2. U.ver \in Nat /\ U.doc.rev \in Nat /\ U.doc.born \in 0..MaxBorn
  BY UpkeepActs DEF Typed, U, LocalRecord, DocRecord
<1>4. o \in OpRecord /\ o.kind = "retire" /\ o.rev = U.doc.rev /\ o.born = U.doc.born
        /\ o.phase = "prepared" /\ o.tgt = 0 /\ o.age = 0
  BY <1>2, NothingTyped DEF OpRecord, NoOp
<1>5. Prepare("upkeep", o, "resume")  BY DEF PrepareRetire, U
<1>6. op \in OpRecord  BY DEF Typed, StoresTyped
<1>. HIDE DEF o
<1>. QED  BY <1>1, <1>4, <1>5, <1>6, UpkeepActs, PrepareMoves DEF SameOp, U

LEMMA PrepareCompactGoes ==
  ASSUME Typed, PrepareCompact
  PROVE  \/ Gone("upkeep") /\ op' = op
         \/ /\ Moves("upkeep", "resume", U.doc, op') /\ LockFree /\ op' \in OpRecord
            /\ IF op = NoOp
               THEN /\ op'.kind = "compact" /\ op'.rev = U.doc.rev /\ op'.born = U.doc.born
                    /\ op'.plan = U.doc.k /\ op'.ver = U.ver
                    /\ op'.phase = "prepared" /\ op'.tgt = 0
               ELSE op' = op /\ op.kind = "compact"
<1>. DEFINE o == [NoOp EXCEPT !.kind = "compact", !.rev = U.doc.rev, !.born = U.doc.born, !.ver = U.ver,
                              !.plan = U.doc.k]
<1>1. "resume" \in Place  BY DEF Place, AnyPlace
<1>2. U.ver \in Nat /\ U.doc.k \in 0..MaxK /\ U.doc.rev \in Nat /\ U.doc.born \in 0..MaxBorn
  BY UpkeepActs DEF Typed, U, LocalRecord, DocRecord
<1>4. o \in OpRecord /\ o.kind = "compact" /\ o.rev = U.doc.rev /\ o.born = U.doc.born /\ o.plan = U.doc.k
        /\ o.ver = U.ver /\ o.phase = "prepared" /\ o.tgt = 0 /\ o.age = 0
  BY <1>2, NothingTyped DEF OpRecord, NoOp
<1>5. Prepare("upkeep", o, "resume")  BY DEF PrepareCompact, U
<1>6. op \in OpRecord  BY DEF Typed, StoresTyped
<1>. HIDE DEF o
<1>. QED  BY <1>1, <1>4, <1>5, <1>6, UpkeepActs, PrepareMoves DEF SameOp, U

\* a starts on the operation in the store, where its phase says.
Resumed(a) ==
    /\ Steps(a, run'[a])
    /\ run'[a].pc = Entry(op) /\ run'[a].doc = NoDoc /\ run'[a].op = op

LEMMA EntryPlaces ==
  ASSUME op \in OpRecord, op.kind # "none"
  PROVE  /\ op.phase = "prepared" => Entry(op) = op.kind
         /\ op.phase = "l2" => /\ op.kind = "compact" => Entry(op) = "compact_l2"
                               /\ op.kind = "restore" => Entry(op) = "restore_l2"
                               /\ op.kind = "retire" => Entry(op) = "retire_l2"
         /\ op.phase = "state" => Entry(op) = IF op.kind = "retire" THEN "retire_state" ELSE "state"
         /\ op.phase = "derived" => Entry(op) = "derived"
         /\ Entry(op) \in Place
<1>1. op.kind \in {"compact", "restore", "retire"} /\ op.phase \in {"prepared", "l2", "state", "derived"}
  BY DEF OpRecord, Phases
<1>2. /\ op.phase = "prepared" => Entry(op) = op.kind
      /\ op.phase = "l2" => Entry(op) =
            [compact |-> "compact_l2", restore |-> "restore_l2", retire |-> "retire_l2"][op.kind]
      /\ op.phase = "state" => Entry(op) = IF op.kind = "retire" THEN "retire_state" ELSE "state"
      /\ op.phase = "derived" => Entry(op) = "derived"
  BY <1>1 DEF Entry
<1>3. op.phase = "l2" => /\ op.kind = "compact" => Entry(op) = "compact_l2"
                         /\ op.kind = "restore" => Entry(op) = "restore_l2"
                         /\ op.kind = "retire" => Entry(op) = "retire_l2"
  <2>. DEFINE entry == [compact |-> "compact_l2", restore |-> "restore_l2", retire |-> "retire_l2"]
  <2>1. entry["compact"] = "compact_l2" /\ entry["restore"] = "restore_l2" /\ entry["retire"] = "retire_l2"
    OBVIOUS
  <2>2. op.phase = "l2" => Entry(op) = entry[op.kind]  BY <1>2
  <2>. HIDE DEF entry
  <2>. QED  BY <2>1, <2>2
<1>. QED  BY <1>1, <1>2, <1>3 DEF Place, CompactPlace, RestorePlace, RetirePlace, AnyPlace

LEMMA ResumeGoes ==
  ASSUME Typed, NEW a \in Actors, run[a].op.kind # "none", Resume(a)
  PROVE  \/ ~SameOp(op, run[a].op) /\ a \notin Users /\ Gone(a)
         \/ ~SameOp(op, run[a].op) /\ a \in Users /\ Moves(a, "return_restored", run[a].doc, run[a].op)
         \/ SameOp(op, run[a].op) /\ Resumed(a)
<1>. DEFINE r == [Idle EXCEPT !.pc = Entry(op), !.op = op]
<1>1. CASE ~SameOp(op, run[a].op)
  <2>1. "return_restored" \in Place  BY DEF Place
  <2>. QED  BY <1>1, <2>1, MovingOn, Leaving DEF Resume, Gone, Typed
<1>2. CASE SameOp(op, run[a].op)
  <2>1. op \in OpRecord /\ op.kind # "none"  BY <1>2 DEF Typed, StoresTyped, SameOp
  <2>2. Entry(op) \in Place  BY <2>1, EntryPlaces
  <2>3. r \in LocalRecord /\ r.pc = Entry(op) /\ r.doc = NoDoc /\ r.op = op
    BY <2>1, <2>2, NothingTyped DEF LocalRecord, Idle
  <2>4. run' = [run EXCEPT ![a] = r]  BY <1>2 DEF Resume
  <2>. HIDE DEF r
  <2>5. Steps(a, r) /\ run'[a] = r  BY <2>3, <2>4, Stepping DEF Typed, Steps
  <2>. QED  BY <1>2, <2>3, <2>5 DEF Resumed
<1>. QED  BY <1>1, <1>2

LEMMA ResumeCompactGoes ==
  ASSUME Typed, NEW a \in Actors, ResumeCompact(a)
  PROVE  \/ MatchesSource(doc, run[a].op) /\ row.ver = run[a].op.ver /\ Moves(a, "commit_short", doc, run[a].op)
         \/ /\ ~MatchesSource(doc, run[a].op) /\ MatchesPlan(doc, run[a].op)
            /\ Moves(a, "activate", doc, run[a].op)
         \/ /\ IF MatchesSource(doc, run[a].op) THEN row.ver # run[a].op.ver ELSE ~MatchesPlan(doc, run[a].op)
            /\ Moves(a, "drop_base", doc, run[a].op)
<1>. DEFINE o == run[a].op
            next == CASE MatchesSource(doc, o) -> IF row.ver = o.ver THEN "commit_short" ELSE "drop_base"
                      [] ~MatchesSource(doc, o) /\ MatchesPlan(doc, o) -> "activate"
                      [] OTHER -> "drop_base"
<1>1. run' = [run EXCEPT ![a].pc = next, ![a].doc = doc]  BY DEF ResumeCompact
<1>2. {"commit_short", "activate", "drop_base"} \subseteq Place  BY DEF Place, CompactPlace
<1>3. \/ MatchesSource(doc, o) /\ row.ver = o.ver /\ next = "commit_short"
      \/ ~MatchesSource(doc, o) /\ MatchesPlan(doc, o) /\ next = "activate"
      \/ (IF MatchesSource(doc, o) THEN row.ver # o.ver ELSE ~MatchesPlan(doc, o)) /\ next = "drop_base"
  OBVIOUS
<1>. HIDE DEF next
<1>4. Moves(a, next, doc, run[a].op)  BY <1>1, <1>2, <1>3, MovingWithDoc DEF Typed, StoresTyped
<1>. QED  BY <1>3, <1>4

LEMMA CommitShortGoes ==
  ASSUME Typed, NEW a \in Actors, CommitShort(a)
  PROVE  \/ Gone(a) /\ doc' = doc /\ idle' = idle
         \/ /\ Moves(a, "reread_short", run[a].doc, run[a].op) /\ doc = run[a].doc
            /\ doc' \in DocRecord /\ doc'.rev = doc.rev + 1 /\ doc'.born = doc.born /\ doc'.k = run[a].op.plan
            /\ doc'.short /\ doc'.age = 0 /\ idle' = idle
<1>1. "reread_short" \in Place /\ TRUE \in BOOLEAN  BY DEF Place, CompactPlace
<1>2. CommitFields(a, TRUE, "reread_short")  BY DEF CommitShort
<1>. QED  BY <1>1, <1>2, CommitMoves

LEMMA RereadShortGoes ==
  ASSUME Typed, NEW a \in Actors, RereadShort(a)
  PROVE  Gone(a) \/ (MatchesPlan(doc, run[a].op) /\ Moves(a, "activate", doc, run[a].op))
<1>1. "activate" \in Place  BY DEF Place, CompactPlace
<1>. QED  BY <1>1, MovingWithDoc, Leaving DEF RereadShort, Gone, Typed, StoresTyped

LEMMA ActivateBaseGoes ==
  ASSUME Typed, NEW a \in Actors, ActivateBase(a)
  PROVE  \/ Gone(a) /\ base' = base
         \/ /\ Moves(a, "short_done", run[a].doc, run[a].op)
            /\ base.rev # 0 /\ base.born = run[a].op.born
            /\ base' = [base EXCEPT !.act = run[a].doc.rev]
<1>1. "short_done" \in Place  BY DEF Place, CompactPlace
<1>. QED  BY <1>1, MovingOn, Leaving DEF ActivateBase, Gone, Typed

LEMMA ShortDoneGoes ==
  ASSUME Typed, NEW a \in Actors, ShortDone(a)
  PROVE  \/ Gone(a) /\ op' = op
         \/ /\ Moves(a, "compact_l2", run[a].doc, op') /\ LockFree /\ SameOp(op, run[a].op)
            /\ op' \in OpRecord /\ SameOp(op', op)
            /\ op'.ver = op.ver /\ op'.plan = op.plan /\ op'.age = op.age /\ op'.phase = "l2" /\ op'.tgt # 0
            /\ op'.tgt = IF run[a].doc.rev = 0 THEN op.tgt ELSE run[a].doc.rev
<1>1. "compact_l2" \in Place /\ "l2" \in Phases  BY DEF Place, CompactPlace, Phases
<1>2. run[a].doc.rev \in Nat  BY DEF Typed, LocalRecord, DocRecord
<1>3. Advance(a, "l2", run[a].doc.rev, "compact_l2")  BY DEF ShortDone
<1>. QED  BY <1>1, <1>2, <1>3, AdvanceMoves

LEMMA DropBaseGoes ==
  ASSUME Typed, NEW a \in Actors, DropBase(a)
  PROVE  Moves(a, "drop_op", run[a].doc, run[a].op)
<1>1. "drop_op" \in Place  BY DEF Place, CompactPlace
<1>. QED  BY <1>1, MovingOn DEF DropBase, Typed

LEMMA DropOperationGoes == ASSUME Typed, NEW a \in Actors, DropOperation(a) PROVE Gone(a)
BY Leaving DEF DropOperation, Gone, Typed

LEMMA CheckShortGoes ==
  ASSUME Typed, NEW a \in Actors, CheckShort(a)
  PROVE  \/ Gone(a) /\ base' = base
         \/ /\ Moves(a, "publish", doc, run[a].op) /\ MatchesTarget(doc, run[a].op)
            /\ base.rev # 0 /\ base.born = run[a].op.born
            /\ base' = [base EXCEPT !.act = doc.rev]
<1>1. "publish" \in Place  BY DEF Place, CompactPlace
<1>. QED  BY <1>1, MovingWithDoc, Leaving DEF CheckShort, Gone, Typed, StoresTyped

LEMMA PublishCompactedGoes ==
  ASSUME Typed, NEW a \in Actors, PublishCompacted(a)
  PROVE  \/ Gone(a) /\ row' = row
         \/ /\ Moves(a, "publish_done", run[a].doc, run[a].op)
            /\ \/ row' = row /\ RowOf(run[a].doc) /\ row.comp
               \/ row.ver = run[a].op.ver /\ ForCompacted(run[a].doc) /\ row' = CompactedRow(run[a].doc)
<1>1. "publish_done" \in Place  BY DEF Place, AnyPlace
<1>. QED  BY <1>1, MovingOn, Leaving DEF PublishCompacted, Gone, Typed

LEMMA PublishDoneGoes ==
  ASSUME Typed, NEW a \in Actors, PublishDone(a)
  PROVE  \/ Gone(a) /\ op' = op
         \/ /\ Moves(a, "state", run[a].doc, op') /\ LockFree /\ SameOp(op, run[a].op)
            /\ op' \in OpRecord /\ SameOp(op', op)
            /\ op'.ver = op.ver /\ op'.plan = op.plan /\ op'.age = op.age /\ op'.phase = "state"
            /\ op'.tgt = op.tgt /\ op'.tgt # 0
<1>1. "state" \in Place /\ "state" \in Phases /\ 0 \in Nat  BY DEF Place, AnyPlace, Phases
<1>2. Advance(a, "state", 0, "state")  BY DEF PublishDone
<1>. QED  BY <1>1, <1>2, AdvanceMoves

LEMMA StateDoneGoes ==
  ASSUME Typed, NEW a \in Actors, StateDone(a)
  PROVE  \/ Gone(a) /\ op' = op
         \/ /\ Moves(a, "derived", run[a].doc, op') /\ LockFree /\ SameOp(op, run[a].op)
            /\ op' \in OpRecord /\ SameOp(op', op)
            /\ op'.ver = op.ver /\ op'.plan = op.plan /\ op'.age = op.age /\ op'.phase = "derived"
            /\ op'.tgt = op.tgt /\ op'.tgt # 0
<1>1. "derived" \in Place /\ "derived" \in Phases /\ 0 \in Nat  BY DEF Place, AnyPlace, Phases
<1>2. Advance(a, "derived", 0, "derived")  BY DEF StateDone
<1>. QED  BY <1>1, <1>2, AdvanceMoves

LEMMA ResumeRestoreGoes ==
  ASSUME Typed, NEW a \in Actors, ResumeRestore(a)
  PROVE  \/ Gone(a)
         \/ MatchesSource(doc, run[a].op) /\ Moves(a, "commit_original", doc, run[a].op)
         \/ MatchesPlan(doc, run[a].op) /\ Moves(a, "original_done", doc, run[a].op)
<1>. DEFINE o == run[a].op
            next == CASE MatchesSource(doc, o) -> IF row.ver = o.ver /\ row.ver > 0
                                                  THEN "commit_original" ELSE "idle"
                      [] ~MatchesSource(doc, o) /\ MatchesPlan(doc, o) -> "original_done"
                      [] OTHER -> "idle"
<1>1. IF next = "idle" THEN Leave(a) ELSE run' = [run EXCEPT ![a].pc = next, ![a].doc = doc]
  BY DEF ResumeRestore
<1>2. {"commit_original", "original_done"} \subseteq Place  BY DEF Place, RestorePlace
<1>3. \/ next = "idle"
      \/ MatchesSource(doc, o) /\ next = "commit_original"
      \/ MatchesPlan(doc, o) /\ next = "original_done"
  OBVIOUS
<1>. HIDE DEF next
<1>4. CASE next = "idle"  BY <1>1, <1>4, Leaving DEF Gone, Typed
<1>5. CASE next # "idle"
  <2>1. Moves(a, next, doc, run[a].op)
    BY <1>1, <1>2, <1>3, <1>5, MovingWithDoc DEF Typed, StoresTyped
  <2>. QED  BY <1>3, <1>5, <2>1
<1>. QED  BY <1>4, <1>5

LEMMA CommitOriginalGoes ==
  ASSUME Typed, NEW a \in Actors, CommitOriginal(a)
  PROVE  \/ Gone(a) /\ doc' = doc /\ idle' = idle
         \/ /\ Moves(a, "reread_original", run[a].doc, run[a].op) /\ doc = run[a].doc
            /\ doc' \in DocRecord /\ doc'.rev = doc.rev + 1 /\ doc'.born = doc.born /\ doc'.k = run[a].op.plan
            /\ ~doc'.short /\ doc'.age = 0 /\ idle' = 0
<1>1. "reread_original" \in Place /\ FALSE \in BOOLEAN  BY DEF Place, RestorePlace
<1>2. CommitFields(a, FALSE, "reread_original")  BY DEF CommitOriginal
<1>. QED  BY <1>1, <1>2, CommitMoves

LEMMA RereadOriginalGoes ==
  ASSUME Typed, NEW a \in Actors, RereadOriginal(a)
  PROVE  Moves(a, "original_done", doc, run[a].op)
<1>1. "original_done" \in Place  BY DEF Place, RestorePlace
<1>. QED  BY <1>1, MovingWithDoc DEF RereadOriginal, Typed, StoresTyped

LEMMA OriginalDoneGoes ==
  ASSUME Typed, NEW a \in Actors, OriginalDone(a)
  PROVE  \/ Gone(a) /\ op' = op
         \/ /\ Moves(a, "restore_l2", run[a].doc, op') /\ LockFree /\ SameOp(op, run[a].op)
            /\ run[a].doc.rev > run[a].op.rev
            /\ op' \in OpRecord /\ SameOp(op', op)
            /\ op'.ver = op.ver /\ op'.plan = op.plan /\ op'.age = op.age /\ op'.phase = "l2"
            /\ op'.tgt = run[a].doc.rev
<1>1. "restore_l2" \in Place /\ "l2" \in Phases  BY DEF Place, RestorePlace, Phases
<1>2. run[a].doc.rev \in Nat /\ run[a].op.rev \in Nat  BY DEF Typed, LocalRecord, DocRecord, OpRecord
<1>3. CASE run[a].doc.rev > run[a].op.rev
  <2>1. Advance(a, "l2", run[a].doc.rev, "restore_l2")  BY <1>3 DEF OriginalDone
  <2>2. run[a].doc.rev # 0  BY <1>2, <1>3
  <2>3. \/ Gone(a) /\ op' = op
        \/ /\ Moves(a, "restore_l2", run[a].doc, op') /\ LockFree /\ SameOp(op, run[a].op)
           /\ op' \in OpRecord /\ SameOp(op', op)
           /\ op'.ver = op.ver /\ op'.plan = op.plan /\ op'.age = op.age /\ op'.phase = "l2"
           /\ op'.tgt = (IF run[a].doc.rev = 0 THEN op.tgt ELSE run[a].doc.rev)
    BY <1>1, <1>2, <2>1, AdvanceMoves
  <2>. QED  BY <1>3, <2>2, <2>3
<1>4. CASE ~(run[a].doc.rev > run[a].op.rev)
  BY <1>4, Leaving DEF OriginalDone, Gone, Typed, stores
<1>. QED  BY <1>3, <1>4

LEMMA AcknowledgeRestoreGoes ==
  ASSUME Typed, NEW a \in Actors, AcknowledgeRestore(a)
  PROVE  \/ Gone(a) /\ row' = row /\ idle' = idle
         \/ /\ Moves(a, "publish_done", run[a].doc, run[a].op) /\ MatchesTarget(doc, run[a].op)
            /\ \/ row' = row /\ idle' = idle
               \/ /\ ~UseRefused(doc) /\ ~RowNewer(doc)
                  /\ row' = UsedRow(doc, run[a].op.age) /\ idle' = LesserAge(idle, run[a].op.age)
<1>1. "publish_done" \in Place  BY DEF Place, AnyPlace
<1>. QED  BY <1>1, MovingOn, Leaving DEF AcknowledgeRestore, Gone, Typed

LEMMA ResumeRetireGoes ==
  ASSUME Typed, NEW a \in Actors, op.kind # "none", ResumeRetire(a)
  PROVE  \/ Gone(a) /\ lock' = lock
         \/ /\ SameOp(op, run[a].op) /\ op.phase # "prepared"
            /\ Moves(a, Entry(op), run[a].doc, op) /\ lock' = lock
         \/ /\ SameOp(op, run[a].op) /\ op.phase = "prepared" /\ lock' = a
            /\ \/ doc.rev = 0 /\ Moves(a, "delete_done", doc, run[a].op)
               \/ MatchesSource(doc, run[a].op) /\ row.ret /\ Moves(a, "delete", doc, run[a].op)
               \/ MatchesSource(doc, run[a].op) /\ ~row.ret /\ Moves(a, "clean_base", doc, run[a].op)
               \/ /\ doc.rev # 0 /\ ~MatchesSource(doc, run[a].op)
                  /\ \E next \in {"clean_row", "clean_base"} : Moves(a, next, doc, run[a].op)
<1>. DEFINE o == run[a].op
            next == CASE doc.rev = 0 -> "delete_done"
                      [] MatchesSource(doc, o) -> IF row.ret THEN "delete" ELSE "clean_base"
                      [] OTHER -> IF row.ver > 0 /\ row.rev = o.rev /\ row.born = o.born
                                  THEN "clean_row" ELSE "clean_base"
<1>0. doc.rev = 0 => ~MatchesSource(doc, o)  BY DEF MatchesSource
<1>1. IF ~SameOp(op, o) THEN Leave(a) /\ UNCHANGED lock
      ELSE IF op.phase # "prepared"
      THEN run' = [run EXCEPT ![a].pc = Entry(op), ![a].op = op] /\ UNCHANGED lock
      ELSE run' = [run EXCEPT ![a].pc = next, ![a].doc = doc] /\ lock' = a
  BY <1>0 DEF ResumeRetire
<1>2. {"delete_done", "delete", "clean_row", "clean_base"} \subseteq Place  BY DEF Place, RetirePlace, CleanPlace
<1>3. \/ doc.rev = 0 /\ next = "delete_done"
      \/ MatchesSource(doc, o) /\ row.ret /\ next = "delete"
      \/ MatchesSource(doc, o) /\ ~row.ret /\ next = "clean_base"
      \/ doc.rev # 0 /\ ~MatchesSource(doc, o) /\ next \in {"clean_row", "clean_base"}
  BY <1>0
<1>. HIDE DEF next
<1>4. CASE ~SameOp(op, o)  BY <1>1, <1>4, Leaving DEF Gone, Typed
<1>5. CASE SameOp(op, o) /\ op.phase # "prepared"
  <2>1. op \in OpRecord /\ Entry(op) \in Place  BY EntryPlaces DEF Typed, StoresTyped
  <2>. QED  BY <1>1, <1>5, <2>1, MovingWithOp DEF Typed
<1>6. CASE SameOp(op, o) /\ op.phase = "prepared"
  <2>1. next \in Place  BY <1>2, <1>3
  <2>2. Moves(a, next, doc, run[a].op) /\ lock' = a
    BY <1>1, <1>6, <2>1, MovingWithDoc DEF Typed, StoresTyped
  <2>. QED  BY <1>3, <1>6, <2>2
<1>. QED  BY <1>4, <1>5, <1>6

LEMMA DeleteRetiredGoes ==
  ASSUME Typed, NEW a \in Actors, DeleteRetired(a)
  PROVE  \/ Gone(a) /\ lock' = "none" /\ doc' = doc
         \/ Moves(a, "delete_done", run[a].doc, run[a].op) /\ lock' = lock /\ doc = run[a].doc /\ doc' = NoDoc
<1>1. "delete_done" \in Place  BY DEF Place, RetirePlace
<1>. QED  BY <1>1, MovingOn, Leaving DEF DeleteRetired, Gone, Typed

LEMMA DeleteDoneGoes ==
  ASSUME Typed, NEW a \in Actors, DeleteDone(a)
  PROVE  /\ Moves(a, "retire_l2", run[a].doc, op')
         /\ op' \in OpRecord /\ SameOp(op', op) /\ op'.phase = "l2"
         /\ op'.ver = op.ver /\ op'.plan = op.plan /\ op'.age = op.age /\ op'.tgt = op.tgt
<1>1. "retire_l2" \in Place /\ "l2" \in Phases  BY DEF Place, RetirePlace, Phases
<1>2. op' \in OpRecord /\ SameOp(op', op) /\ op'.phase = "l2"
         /\ op'.ver = op.ver /\ op'.plan = op.plan /\ op'.age = op.age /\ op'.tgt = op.tgt
  BY <1>1 DEF DeleteDone, Typed, StoresTyped, OpRecord, SameOp
<1>. QED  BY <1>1, <1>2, MovingWithOp DEF DeleteDone, Typed

LEMMA CleanRowGoes ==
  ASSUME Typed, NEW a \in Actors, CleanRow(a)
  PROVE  Moves(a, "clean_base", run[a].doc, run[a].op)
<1>1. "clean_base" \in Place  BY DEF Place, RetirePlace, CleanPlace
<1>. QED  BY <1>1, MovingOn DEF CleanRow, Typed

LEMMA CleanBaseGoes ==
  ASSUME Typed, NEW a \in Actors, CleanBase(a)
  PROVE  Moves(a, "clean_op", run[a].doc, run[a].op)
<1>1. "clean_op" \in Place  BY DEF Place, RetirePlace, CleanPlace
<1>. QED  BY <1>1, MovingOn DEF CleanBase, Typed

LEMMA CleanOpGoes ==
  ASSUME Typed, NEW a \in Actors, CleanOp(a)
  PROVE  IF a \in Users THEN Moves(a, "check_row", run[a].doc, run[a].op) /\ lock' = lock
                        ELSE Gone(a) /\ lock' = "none"
<1>1. "check_row" \in Place  BY DEF Place, UsePlace
<1>. QED  BY <1>1, MovingOn, Leaving DEF CleanOp, Gone, Typed

LEMMA AdvanceRetireGoes ==
  ASSUME Typed, NEW a \in Actors, AdvanceRetire(a)
  PROVE  \/ Gone(a) /\ op' = op
         \/ /\ SameOp(op, run[a].op) /\ op' \in OpRecord /\ SameOp(op', op)
            /\ op'.ver = op.ver /\ op'.plan = op.plan /\ op'.age = op.age /\ op'.tgt = op.tgt
            /\ \/ op'.phase = "state" /\ Moves(a, "retire_state", run[a].doc, op')
               \/ op'.phase = "derived" /\ Moves(a, "derived", run[a].doc, op')
<1>. DEFINE phase == IF At(a, "retire_l2") THEN "state" ELSE "derived"
            next == IF phase = "state" THEN "retire_state" ELSE "derived"
<1>1. {"retire_state", "derived"} \subseteq Place /\ {"state", "derived"} \subseteq Phases
  BY DEF Place, RetirePlace, AnyPlace, Phases
<1>2. \/ Leave(a) /\ op' = op
      \/ /\ SameOp(op, run[a].op) /\ op' = [op EXCEPT !.phase = phase]
         /\ run' = [run EXCEPT ![a].pc = next, ![a].op = op']
  BY DEF AdvanceRetire
<1>3. (phase = "state" /\ next = "retire_state") \/ (phase = "derived" /\ next = "derived")
  OBVIOUS
<1>. HIDE DEF phase, next
<1>4. CASE Leave(a) /\ op' = op  BY <1>4, Leaving DEF Gone, Typed
<1>5. CASE /\ SameOp(op, run[a].op) /\ op' = [op EXCEPT !.phase = phase]
           /\ run' = [run EXCEPT ![a].pc = next, ![a].op = op']
  <2>1. op' \in OpRecord /\ SameOp(op', op) /\ op'.phase = phase
         /\ op'.ver = op.ver /\ op'.plan = op.plan /\ op'.age = op.age /\ op'.tgt = op.tgt
    BY <1>1, <1>3, <1>5 DEF Typed, StoresTyped, OpRecord, SameOp
  <2>2. Moves(a, next, run[a].doc, op')  BY <1>1, <1>3, <1>5, <2>1, MovingWithOp DEF Typed
  <2>. QED  BY <1>3, <1>5, <2>1, <2>2
<1>. QED  BY <1>2, <1>4, <1>5

LEMMA StartFinishGoes ==
  ASSUME Typed, NEW a \in Actors, StartFinish(a)
  PROVE  \/ a \in Users /\ Moves(a, "return_restored", run[a].doc, run[a].op) /\ lock' = lock
         \/ a \notin Users /\ Gone(a) /\ lock' = lock
         \/ /\ a \notin Users /\ LockFree /\ lock' = a /\ SameOp(op, run[a].op) /\ op.phase = "derived"
            /\ Moves(a, FinishNext(op), run[a].doc, run[a].op)
<1>1. "return_restored" \in Place /\ FinishNext(op) \in Place  BY DEF Place, FinishPlace, FinishNext
<1>. QED  BY <1>1, MovingOn, Leaving DEF StartFinish, Gone, Typed

LEMMA FinishBaseGoes ==
  ASSUME Typed, NEW a \in Actors, FinishBase(a)
  PROVE  \/ op.kind = "retire" /\ Moves(a, "finish_row", run[a].doc, run[a].op)
         \/ op.kind # "retire" /\ Moves(a, "finish_op", run[a].doc, run[a].op)
<1>1. "finish_row" \in Place /\ "finish_op" \in Place  BY DEF Place, FinishPlace
<1>. QED  BY <1>1, MovingOn DEF FinishBase, Typed

LEMMA FinishRowGoes ==
  ASSUME Typed, NEW a \in Actors, FinishRow(a)
  PROVE  Moves(a, "finish_op", run[a].doc, run[a].op)
<1>1. "finish_op" \in Place  BY DEF Place, FinishPlace
<1>. QED  BY <1>1, MovingOn DEF FinishRow, Typed

LEMMA FinishOpGoes == ASSUME Typed, NEW a \in Actors, FinishOp(a) PROVE Gone(a)
BY Leaving DEF FinishOp, Gone, Typed

LEMMA StartUseGoes == ASSUME Typed, NEW a \in Actors, StartUse(a) PROVE Moves(a, "use", doc, run[a].op)
<1>1. "use" \in Place  BY DEF Place, UsePlace
<1>. QED  BY <1>1, MovingWithDoc DEF StartUse, Typed, StoresTyped

LEMMA LockUseGoes ==
  ASSUME Typed, NEW a \in Actors, LockUse(a)
  PROVE  Moves(a, "check_use", run[a].doc, run[a].op)
<1>1. "check_use" \in Place  BY DEF Place, UsePlace
<1>. QED  BY <1>1, MovingOn DEF LockUse, Typed

LEMMA CheckUseGoes ==
  ASSUME Typed, NEW a \in Actors, CheckUse(a)
  PROVE  \/ Gone(a) /\ lock' = "none"
         \/ /\ doc = run[a].doc /\ lock' = lock
            /\ \/ /\ ~(op.kind = "retire" /\ ~MatchesSource(doc, op)) /\ ~UseBlocked
                  /\ Moves(a, "check_row", run[a].doc, run[a].op)
               \/ /\ op.kind = "retire" /\ ~MatchesSource(doc, op)
                  /\ \E next \in {"clean_row", "clean_base"} : Moves(a, next, run[a].doc, run[a].op)
<1>. DEFINE stale == op.kind = "retire" /\ ~MatchesSource(doc, op)
            next == IF ~stale THEN "check_row"
                    ELSE IF row.ver > 0 /\ row.rev = op.rev /\ row.born = op.born
                    THEN "clean_row" ELSE "clean_base"
<1>1. {"check_row", "clean_row", "clean_base"} \subseteq Place  BY DEF Place, UsePlace, CleanPlace
<1>2. IF doc # run[a].doc \/ (~stale /\ UseBlocked) THEN Leave(a) /\ lock' = "none"
      ELSE Goto(a, next) /\ UNCHANGED lock
  BY DEF CheckUse
<1>3. IF stale THEN next \in {"clean_row", "clean_base"} ELSE next = "check_row"  OBVIOUS
<1>. HIDE DEF next
<1>4. CASE doc # run[a].doc \/ (~stale /\ UseBlocked)  BY <1>2, <1>4, Leaving DEF Gone, Typed
<1>5. CASE ~(doc # run[a].doc \/ (~stale /\ UseBlocked))
  <2>1. next \in Place  BY <1>1, <1>3
  <2>2. Moves(a, next, run[a].doc, run[a].op) /\ lock' = lock  BY <1>2, <1>5, <2>1, MovingOn DEF Typed
  <2>. QED  BY <1>3, <1>5, <2>2
<1>. QED  BY <1>4, <1>5

LEMMA CheckRowGoes ==
  ASSUME Typed, NEW a \in Actors, CheckRow(a)
  PROVE  \/ Gone(a) /\ lock' = "none"
         \/ /\ RowOf(run[a].doc) /\ row.comp /\ ForCompacted(run[a].doc) /\ lock' = "none"
            /\ \E o \in OpRecord : /\ o.kind = "none" /\ o.plan = base.k /\ o.rev = 0 /\ o.born = 0 /\ o.tgt = 0
                                   /\ Steps(a, run'[a])
                                   /\ run'[a].pc = "prepare_restore" /\ run'[a].doc = run[a].doc
                                   /\ run'[a].op = o
         \/ /\ ~(RowOf(run[a].doc) /\ row.comp) /\ ~UseRefused(run[a].doc) /\ lock' = lock
            /\ Moves(a, "record_use", run[a].doc, run[a].op)
<1>. DEFINE d == run[a].doc
            o == [NoOp EXCEPT !.plan = base.k]
            r == [run[a] EXCEPT !.pc = "prepare_restore", !.ver = row.ver, !.op = o]
<1>1. {"prepare_restore", "record_use"} \subseteq Place  BY DEF Place, UsePlace
<1>2. CASE UseRefused(d) \/ (RowOf(d) /\ row.comp /\ ~ForCompacted(d))
  BY <1>2, Leaving DEF CheckRow, Gone, Typed
<1>3. CASE ~UseRefused(d) /\ RowOf(d) /\ row.comp /\ ForCompacted(d)
  <2>1. run[a] \in LocalRecord /\ row.ver \in Nat /\ base.k \in 0..MaxK
    BY DEF Typed, StoresTyped, RowRecord, BaseRecord
  <2>2. o \in OpRecord /\ o.kind = "none" /\ o.plan = base.k /\ o.rev = 0 /\ o.born = 0 /\ o.tgt = 0
    BY <2>1, NothingTyped DEF OpRecord, NoOp
  <2>3. run' = [run EXCEPT ![a].pc = "prepare_restore", ![a].ver = row.ver, ![a].op = o] /\ lock' = "none"
    BY <1>3 DEF CheckRow
  <2>. HIDE DEF o
  <2>4. r \in LocalRecord /\ r.pc = "prepare_restore" /\ r.doc = d /\ r.op = o
    BY <1>1, <2>1, <2>2 DEF LocalRecord
  <2>5. run' = [run EXCEPT ![a] = r]  BY <2>1, <2>3 DEF LocalRecord
  <2>. HIDE DEF r
  <2>6. Steps(a, r) /\ run'[a] = r  BY <2>4, <2>5, Stepping DEF Typed, Steps
  <2>. QED  BY <1>3, <2>2, <2>3, <2>4, <2>6
<1>4. CASE ~UseRefused(d) /\ ~(RowOf(d) /\ row.comp)
  BY <1>1, <1>4, MovingOn DEF CheckRow, Typed
<1>. QED  BY <1>2, <1>3, <1>4

LEMMA RecordUseGoes ==
  ASSUME Typed, NEW a \in Actors, RecordUse(a)
  PROVE  \/ Gone(a) /\ lock' = "none" /\ row' = row /\ idle' = idle
         \/ /\ Moves(a, "drop_stale_base", run[a].doc, run[a].op) /\ lock' = lock
            /\ ~UseRefused(run[a].doc) /\ ~RowNewer(run[a].doc)
            /\ row' = UsedRow(run[a].doc, 0) /\ idle' = 0
<1>1. "drop_stale_base" \in Place  BY DEF Place, UsePlace
<1>. QED  BY <1>1, MovingOn, Leaving DEF RecordUse, Gone, Typed

LEMMA DropStaleBaseGoes == ASSUME Typed, NEW a \in Actors, DropStaleBase(a) PROVE Gone(a)
BY Leaving DEF DropStaleBase, Gone, Typed

LEMMA PrepareRestoreGoes ==
  ASSUME Typed, NEW a \in Actors, PrepareRestore(a)
  PROVE  \/ Gone(a) /\ op' = op
         \/ /\ Moves(a, "resume", run[a].doc, op') /\ LockFree /\ op' \in OpRecord
            /\ op'.rev = run[a].doc.rev /\ op'.born = run[a].doc.born
            /\ IF op = NoOp
               THEN /\ op'.kind = "restore" /\ op'.plan = run[a].op.plan
                    /\ op'.phase = "prepared" /\ op'.tgt = 0 /\ op'.age = 0
               ELSE op' = op /\ op.kind = "restore" /\ op.plan = run[a].op.plan
<1>. DEFINE d == run[a].doc
            o == [NoOp EXCEPT !.kind = "restore", !.rev = d.rev, !.born = d.born, !.ver = run[a].ver,
                              !.plan = run[a].op.plan]
<1>1. "resume" \in Place  BY DEF Place, AnyPlace
<1>2. run[a].ver \in Nat /\ run[a].op.plan \in 0..MaxK /\ d.rev \in Nat /\ d.born \in 0..MaxBorn
  BY DEF Typed, LocalRecord, DocRecord, OpRecord
<1>4. o \in OpRecord /\ o.kind = "restore" /\ o.rev = d.rev /\ o.born = d.born /\ o.plan = run[a].op.plan
        /\ o.phase = "prepared" /\ o.tgt = 0 /\ o.age = 0
  BY <1>2, NothingTyped DEF OpRecord, NoOp
<1>5. Prepare(a, o, "resume")  BY DEF PrepareRestore
<1>6. op \in OpRecord  BY DEF Typed, StoresTyped
<1>. HIDE DEF o
<1>. QED  BY <1>1, <1>4, <1>5, <1>6, PrepareMoves DEF SameOp

LEMMA ReturnRestoredGoes == ASSUME Typed, NEW a \in Actors, ReturnRestored(a) PROVE Gone(a)
BY Leaving DEF ReturnRestored, Gone, Typed

LEMMA StopGoes == ASSUME Typed, NEW a \in Actors, Stop(a) PROVE Gone(a)
BY Leaving DEF Stop, Gone, Typed

----------------------------------------------------------------------------
(* The invariant.  A document is named by its revision and its creation:   *)
(* nothing brings back a revision that is past.                            *)

Same(d, e) == d.rev = e.rev /\ d.born = e.born

\* Revision r of creation b exists or existed.
Past(r, b) == b <= born /\ (r > 0 => b > 0) /\ (b = born /\ doc.rev > 0 => r <= doc.rev)

DocWell ==
    /\ doc.rev > 0 => doc.born = born /\ doc.k = k
    /\ doc.rev = 0 => doc = NoDoc
    /\ owed => doc.rev = 0

\* What the records check of themselves.
Coherent ==
    /\ row.ver = 0 => row = NoRow
    /\ base.rev = 0 => base = NoBase
    /\ op.kind = "none" => op = NoOp
    /\ row.ret => row.cand # Never
    /\ (row.n = 0) <=> (row.use = Never)
    /\ row.comp => row.act # Never
    /\ base.act > 0 => base.act > base.rev
    /\ op.tgt > 0 => op.tgt > op.rev
    /\ op.kind \in {"compact", "restore"} /\ op.phase # "prepared" => op.tgt > 0

\* Who can be where: a use only drives restorations, and only upkeep finishes an operation.
UserPlaced(a) ==
    \/ run[a] = Idle
    \/ run[a].pc \in UsePlace /\ run[a].op.kind = "none"
    \/ run[a].pc \in RestorePlace \cup AnyPlace \cup {"return_restored"} /\ run[a].op.kind = "restore"

UpkeepPlaced ==
    \/ U = Idle
    \/ U.pc \in ScanPlace /\ U.op = NoOp
    \/ U.pc \in CompactPlace /\ U.op.kind = "compact"
    \/ U.pc \in RestorePlace /\ U.op.kind = "restore"
    \/ U.pc \in RetirePlace /\ U.op.kind = "retire"
    \/ U.pc \in AnyPlace \cup FinishPlace /\ U.op.kind # "none"

LockedPlace == {"check_use", "check_row", "record_use", "drop_stale_base", "delete", "delete_done"}
                  \cup CleanPlace \cup FinishPlace

Locked == \A a \in Actors : lock = a <=> run[a].pc \in LockedPlace

\* The operation upkeep works on is the one in the store, unless a use finished it and it is
\* being retired or restored from its state on.
UpkeepDrives ==
    /\ U.pc \in ScanPlace => op.kind \in {"none", "restore"}
    /\ U.op.kind = "compact" => op = U.op
    /\ U.op.kind = "restore" => SameOp(op, U.op)
    /\ U.pc \in FinishPlace => op.phase = "derived" /\ op.kind # "none"
    /\ U.pc = "finish_base" => op.kind \in {"restore", "retire"}
    /\ U.pc = "finish_row" => op.kind = "retire"
    /\ U.pc \in {"delete", "delete_done"} \cup CleanPlace => op.kind = "retire" /\ SameOp(op, U.op)
    /\ U.pc \in {"publish_done", "state"} => U.op.kind \in {"compact", "restore"}
    /\ U.pc \in {"delete_done"} \cup CleanPlace => ~doc.short /\ ~MatchesSource(doc, op)
    /\ U.pc \in {"retire_l2", "retire_state"} => U.op.phase # "prepared"
    /\ U.pc = "state" => U.op.phase = "state"

UserDrives(a) ==
    /\ run[a].pc \in CleanPlace =>
          op.kind = "retire" /\ ~MatchesSource(doc, op) /\ ~doc.short /\ ~run[a].doc.short
    /\ run[a].pc \in {"check_row", "record_use", "drop_stale_base"} => op.kind \notin {"compact", "retire"}

\* What a caller read is the document as it is or as it was.
Copied(a) ==
    /\ Past(run[a].doc.rev, run[a].doc.born)
    /\ run[a].doc.rev = 0 => run[a].doc = NoDoc
    /\ run[a].doc.rev > 0 /\ Same(run[a].doc, doc) => run[a].doc = doc
    /\ run[a].doc.rev > 0 /\ doc.rev > 0 /\ ~Same(run[a].doc, doc) => doc.age = 0

\* An operation while its source or its target is the document.
Planned(o) ==
    /\ Past(o.rev, o.born) /\ Past(o.tgt, o.born)
    /\ o.kind # "none" => o.rev > 0
    /\ o.tgt > 0 => o.kind # "none"
    /\ o.kind = "compact" /\ o.tgt > 0 => o.tgt = o.rev + 1
    /\ o.kind = "restore" /\ o.tgt > 0 => o.tgt > o.rev
    /\ o.kind = "restore" /\ MatchesSource(doc, o) => o.plan = doc.k /\ doc.short
    /\ o.kind = "restore" /\ MatchesTarget(doc, o) => ~doc.short
    /\ o.kind = "compact" /\ MatchesSource(doc, o) => o.plan = doc.k /\ ~doc.short
    /\ o.kind = "compact" /\ MatchesTarget(doc, o) => doc.short
    /\ o.kind \in {"restore", "retire"} /\ o.phase # "prepared" => ~MatchesSource(doc, o)

RowPast == row.ver > 0 => Past(row.rev, row.born)

BasePast ==
    base.rev > 0 =>
        /\ Past(base.rev, base.born) /\ Past(base.act, base.born)
        /\ Same(base, doc) => base.k = doc.k /\ base.age = doc.age

\* The baseline holds the source of o.
BaseFor(o) == base.rev = o.rev /\ base.born = o.born /\ base.k = o.plan

\* While a compaction is in the store.
Compacting ==
    op.kind = "compact" =>
        /\ base = NoBase \/ (base.rev = op.rev /\ base.born = op.born)
        /\ MatchesSource(doc, op) =>
              /\ BaseFor(op) \/ row.ver > op.ver
              /\ op.ver <= row.ver
              /\ row.ver = op.ver => idle >= 1
        /\ doc.short =>
              /\ doc.rev = op.rev + 1 /\ doc.born = op.born /\ doc.k = op.plan /\ BaseFor(op)
              /\ RowOf(doc) /\ row.comp => base.act = doc.rev
              /\ op.phase \in {"prepared", "l2"} => LesserAge(base.age, LesserAge(row.use, row.act)) <= idle
              /\ op.phase \in {"state", "derived"} => RowOf(doc) /\ row.comp

\* A short text no compaction is busy with has been published.
Published ==
    doc.short /\ op.kind # "compact" =>
        /\ base.rev > 0 /\ base.born = doc.born /\ base.k = doc.k /\ base.rev < doc.rev /\ base.act = doc.rev
        /\ RowOf(doc) /\ row.comp

\* While a retirement or a restoration is in the store.
Retiring ==
    op.kind = "retire" =>
        /\ doc.short => MatchesSource(doc, op)
        /\ MatchesSource(doc, op) => RowOf(doc) /\ row.ret
        /\ doc.rev > 0 /\ ~MatchesSource(doc, op) => doc.age <= idle

RestoringOp == op.kind = "restore" => (doc.short => MatchesSource(doc, op))

Shortened ==
    /\ ForCompacted(doc) => doc.short
    /\ doc.short => idle >= 1

\* What upkeep found out about the document it looks at, as long as it is still there.
Scanned ==
    /\ U.pc \in ScanPlace => U.doc.rev > 0 /\ (doc.short => Same(doc, U.doc))
    /\ U.pc \in {"model", "rank_shortened", "save", "prepare_compact"} /\ U.doc.short => ~Same(doc, U.doc)
    /\ U.pc \in {"rank_shortened", "save", "prepare_compact"} => ~U.doc.short
    /\ U.pc \in {"save", "prepare_compact"} => ~doc.short
    /\ U.pc \in {"mark", "save", "prepare_compact"} /\ Same(doc, U.doc) => U.ver <= row.ver
    /\ U.pc \in {"save", "prepare_compact"} /\ Same(doc, U.doc) /\ row.ver = U.ver => idle >= 1
    /\ U.pc = "prepare_compact" =>
          /\ base = NoBase \/ (base.rev = U.doc.rev /\ base.born = U.doc.born)
          /\ Same(doc, U.doc) => row.ver > U.ver \/ (base.rev = doc.rev /\ base.born = doc.born /\ base.k = doc.k)
    /\ U.pc = "mark" /\ Same(doc, U.doc) /\ row.ver = U.ver => idle >= 2 /\ (U.cand # Never => idle = 3)
    /\ U.pc = "prepare_retire" /\ Same(doc, U.doc) => RowOf(doc) /\ row.ret

\* What upkeep found out about the operation it works on.
Driven ==
    /\ U.pc = "commit_short" =>
          /\ MatchesSource(U.doc, U.op)
          /\ MatchesSource(doc, op) => idle >= 1 /\ BaseFor(op)
    /\ U.pc \in {"activate", "short_done"} => MatchesPlan(U.doc, U.op)
    /\ U.pc = "short_done" /\ doc.short => base.act = doc.rev
    /\ U.pc \in {"drop_base", "drop_op"} => ~doc.short /\ (MatchesSource(doc, op) => row.ver > op.ver)
    /\ U.pc = "publish" => MatchesTarget(U.doc, U.op)
    /\ U.pc = "publish_done" /\ U.op.kind = "compact" /\ doc.short => RowOf(doc) /\ row.comp
    /\ U.pc = "delete" => MatchesSource(U.doc, op)

\* What a caller with a restoration knows of its document.
Restoring(a) ==
    /\ run[a].pc = "commit_original" => MatchesSource(run[a].doc, run[a].op)
    /\ run[a].pc = "original_done" =>
          /\ run[a].doc.rev > run[a].op.rev => ~run[a].doc.short
          /\ run[a].doc.rev > 0 => run[a].doc.born >= run[a].op.born
    /\ run[a].op.kind = "restore" /\ MatchesSource(doc, run[a].op) => SameOp(op, run[a].op)

\* The document changed while a use was going on: it is as fresh as can be.
Warm == idle = 0 /\ doc.age = 0

Using(a) ==
    /\ run[a].op.kind = "restore" /\ doc.rev > 0 /\ ~MatchesSource(doc, run[a].op) => Warm
    /\ run[a].pc \in {"check_row", "prepare_restore"} \cup CleanPlace /\ doc.rev > 0 /\ ~Same(doc, run[a].doc) => Warm
    /\ run[a].pc = "prepare_restore" /\ doc.rev > 0 /\ Same(doc, run[a].doc) => run[a].op.plan = doc.k /\ doc.short
    /\ run[a].pc \in UsePlace => run[a].doc.rev > 0
    /\ run[a].pc = "return_restored" => ~MatchesSource(doc, run[a].op)
    /\ run[a].pc \in {"restore_l2", "publish_done", "state", "derived"} => run[a].op.phase # "prepared"
    /\ run[a].pc \in {"record_use", "drop_stale_base"} => ~doc.short
    /\ run[a].pc = "drop_stale_base" => idle = 0

\* A use moved the row on under the scan.
Noticed(a) ==
    run[a].pc = "drop_stale_base" /\ U.pc \in {"save", "prepare_compact"} /\ Same(doc, U.doc) => row.ver > U.ver

Deleted == doc.rev = 0 \/ doc.born > 1

Newer(d, e) == d.born > e.born \/ (d.born = e.born /\ d.rev > e.rev)

\* A use whose search found the shortened text will find its row as well: nobody is about to
\* publish a row of another document.
Serving(a) ==
    /\ run[a].pc = "check_row" /\ run[a].doc.short =>
          /\ op = NoOp
          /\ Deleted \/ (RowOf(run[a].doc) /\ row.comp)
          /\ \A b \in Actors : run[b].pc = "restore_l2" /\ run[b].op.born = run[a].doc.born
                                  => run[b].op.tgt <= run[a].doc.rev
          /\ ~Deleted /\ U.pc = "mark" => ~Newer(U.doc, run[a].doc)
          /\ ~Deleted /\ U.pc \in ScanPlace => U.doc.age = 0 \/ ~Newer(U.doc, run[a].doc)
    /\ run[a].pc \in {"record_use", "drop_stale_base"} /\ run[a].doc.short => Deleted

ServedOriginals == Deleted \/ TRUE \notin served

\* No age the row or the document shows is older than the last activity.
FreshRow == doc.rev > 0 => IF RowOf(doc) THEN Activity(row, doc) <= idle ELSE doc.age <= idle

Candidates ==
    doc.rev > 0 /\ RowOf(doc) =>
        /\ row.cand # Never => idle >= 2 /\ (row.cand >= 1 => idle = 3)
        /\ row.ret => idle = 3

StoresRelated ==
    /\ DocWell /\ Coherent /\ Planned(op) /\ RowPast /\ BasePast
    /\ Compacting /\ Published /\ Retiring /\ RestoringOp /\ Shortened
    /\ FreshRow /\ Candidates /\ ServedOriginals

UpkeepRelated == UpkeepPlaced /\ UpkeepDrives /\ Scanned /\ Driven

CallerRelated(a) == Copied(a) /\ Planned(run[a].op) /\ Restoring(a)

UseRelated(a) == UserPlaced(a) /\ UserDrives(a) /\ Using(a) /\ Noticed(a) /\ Serving(a)

Inv ==
    /\ Typed /\ StoresRelated /\ Locked /\ UpkeepRelated
    /\ \A a \in Actors : CallerRelated(a)
    /\ \A a \in Users : UseRelated(a)

----------------------------------------------------------------------------
(* Facts every step needs.                                                 *)

LEMMA StoresAre ==
  ASSUME Typed
  PROVE  /\ doc.rev \in Nat /\ doc.born \in Nat /\ doc.k \in Nat /\ doc.short \in BOOLEAN /\ doc.age \in 0..2
         /\ row.ver \in Nat /\ row.rev \in Nat /\ row.born \in Nat /\ row.n \in Nat /\ row.use \in 0..3
         /\ row.act \in 0..3 /\ row.comp \in BOOLEAN /\ row.cand \in 0..3 /\ row.ret \in BOOLEAN
         /\ base.rev \in Nat /\ base.born \in Nat /\ base.k \in Nat /\ base.age \in 0..2 /\ base.act \in Nat
         /\ op.kind \in {"none", "compact", "restore", "retire"} /\ op.rev \in Nat /\ op.born \in Nat
         /\ op.ver \in Nat /\ op.plan \in Nat /\ op.phase \in {"prepared", "l2", "state", "derived"}
         /\ op.tgt \in Nat /\ op.age \in 0..2
         /\ k \in Nat /\ born \in Nat /\ born > 0 /\ idle \in 0..3
BY Bounds DEF Typed, StoresTyped, CountsTyped, DocRecord, RowRecord, BaseRecord, OpRecord, Ages, Phases

LEMMA CallerIs ==
  ASSUME Typed, NEW a \in Actors
  PROVE  /\ run[a] \in LocalRecord /\ run[a].pc \in Place /\ run[a].ver \in Nat /\ run[a].cand \in 0..3
         /\ run[a].doc \in DocRecord /\ run[a].doc.rev \in Nat /\ run[a].doc.born \in Nat /\ run[a].doc.k \in Nat
         /\ run[a].doc.short \in BOOLEAN /\ run[a].doc.age \in 0..2
         /\ run[a].op \in OpRecord /\ run[a].op.kind \in {"none", "compact", "restore", "retire"}
         /\ run[a].op.rev \in Nat /\ run[a].op.born \in Nat /\ run[a].op.ver \in Nat /\ run[a].op.plan \in Nat
         /\ run[a].op.phase \in {"prepared", "l2", "state", "derived"} /\ run[a].op.tgt \in Nat
         /\ run[a].op.age \in 0..2
<1>1. run[a] \in LocalRecord  BY DEF Typed
<1>2. run[a].doc \in DocRecord /\ run[a].op \in OpRecord /\ run[a].pc \in Place /\ run[a].ver \in Nat
        /\ run[a].cand \in 0..3
  BY <1>1, Bounds DEF LocalRecord
<1>. QED  BY <1>1, <1>2, Bounds DEF DocRecord, OpRecord, Ages, Phases

LEMMA NothingIs ==
  /\ NoDoc.rev = 0 /\ NoDoc.born = 0 /\ NoDoc.short = FALSE /\ NoDoc.age = 0 /\ NoDoc.k = 0
  /\ NoOp.kind = "none" /\ NoOp.rev = 0 /\ NoOp.born = 0 /\ NoOp.tgt = 0 /\ NoOp.phase = "prepared"
  /\ NoRow.ver = 0 /\ NoRow.use = 3 /\ NoRow.n = 0 /\ NoRow.cand = 3 /\ ~NoRow.ret /\ ~NoRow.comp /\ NoRow.act = 3
  /\ NoRow.rev = 0 /\ NoRow.born = 0
  /\ NoBase.rev = 0 /\ NoBase.act = 0 /\ NoBase.born = 0
  /\ Idle.pc = "idle" /\ Idle.doc = NoDoc /\ Idle.op = NoOp
BY DEF NoDoc, NoOp, NoRow, NoBase, Idle, Never

LEMMA ActorsAre ==
  /\ "upkeep" \in Actors /\ "upkeep" \notin Users /\ "none" \notin Users /\ Users \subseteq Actors
  /\ \A a \in Actors : a \notin Users => a = "upkeep"
BY CompactionAssumption DEF Actors

LEMMA StoresKept ==
  ASSUME StoresRelated, UNCHANGED <<doc, row, base, op, owed, k, born, idle, served>>
  PROVE  StoresRelated'
<1>. USE DEF StoresRelated
<1>1. DocWell' /\ Coherent'  BY DEF DocWell, Coherent
<1>2. Planned(op)'  BY DEF Planned, Past, MatchesSource, MatchesTarget
<1>3. RowPast' /\ BasePast'  BY DEF RowPast, BasePast, Past, Same
<1>4. Compacting'  BY DEF Compacting, MatchesSource, BaseFor, RowOf
<1>5. Published' /\ Retiring' /\ RestoringOp'  BY DEF Published, Retiring, RestoringOp, MatchesSource, RowOf
<1>6. Shortened'  BY DEF Shortened, ForCompacted
<1>7. FreshRow' /\ Candidates'  BY DEF FreshRow, Candidates, RowOf, Activity
<1>8. ServedOriginals'  BY DEF ServedOriginals, Deleted
<1>. QED  BY <1>1, <1>2, <1>3, <1>4, <1>5, <1>6, <1>7, <1>8

LEMMA CallerKept ==
  ASSUME NEW b \in Actors, CallerRelated(b), run'[b] = run[b], UNCHANGED <<doc, born, op>>
  PROVE  CallerRelated(b)'
<1>1. Copied(b)'  BY DEF CallerRelated, Copied, Past, Same
<1>2. Planned(run[b].op)'  BY DEF CallerRelated, Planned, Past, MatchesSource, MatchesTarget
<1>3. Restoring(b)'  BY DEF CallerRelated, Restoring, MatchesSource, SameOp
<1>. QED  BY <1>1, <1>2, <1>3 DEF CallerRelated

LEMMA UpkeepKept ==
  ASSUME UpkeepRelated, U' = U, UNCHANGED <<doc, row, base, op, idle>>
  PROVE  UpkeepRelated'
<1>1. UpkeepPlaced'  BY DEF UpkeepRelated, UpkeepPlaced
<1>2. UpkeepDrives'  BY DEF UpkeepRelated, UpkeepDrives, SameOp, MatchesSource
<1>3. Scanned'  BY DEF UpkeepRelated, Scanned, Same, RowOf
<1>4. Driven'  BY DEF UpkeepRelated, Driven, MatchesSource, MatchesPlan, MatchesTarget, BaseFor, RowOf
<1>. QED  BY <1>1, <1>2, <1>3, <1>4 DEF UpkeepRelated

LEMMA UseKept ==
  ASSUME NEW b \in Users, UseRelated(b), run'[b] = run[b], UNCHANGED <<doc, row, op, idle>>
  PROVE  /\ UserPlaced(b)' /\ UserDrives(b)' /\ Using(b)'
<1>1. UserPlaced(b)'  BY DEF UseRelated, UserPlaced
<1>2. UserDrives(b)'  BY DEF UseRelated, UserDrives, MatchesSource
<1>3. Using(b)'  BY DEF UseRelated, Using, Same, MatchesSource, Warm
<1>. QED  BY <1>1, <1>2, <1>3

LEMMA NoticedKept ==
  ASSUME NEW b \in Users, UseRelated(b), run'[b] = run[b], UNCHANGED <<doc, row>>,
         U'.pc \in {"save", "prepare_compact"} =>
            U.pc \in {"save", "prepare_compact"} /\ U'.doc = U.doc /\ U'.ver = U.ver
  PROVE  Noticed(b)'
BY DEF UseRelated, Noticed, Same

\* Nobody starts to publish a use, and the scan looks at nothing else.
LEMMA ServingKept ==
  ASSUME NEW a \in Actors, NEW b \in Users, a # b, UseRelated(b), Steps(a, run'[a]),
         UNCHANGED <<doc, row, op>>,
         run'[a].pc = "restore_l2" => run[a].pc = "restore_l2" /\ run'[a].op = run[a].op,
         U'.pc \in ScanPlace => U.pc \in ScanPlace /\ U'.doc = U.doc,
         U'.pc = "mark" => U.pc = "mark" /\ U'.doc = U.doc
  PROVE  Serving(b)'
<1>1. run'[b] = run[b]  BY ActorsAre DEF Steps
<1>2. ASSUME NEW c \in Actors, run'[c].pc = "restore_l2"
      PROVE  run[c].pc = "restore_l2" /\ run'[c].op = run[c].op
  BY <1>2 DEF Steps
<1>3. Serving(b)  BY DEF UseRelated
<1>4. run[b].pc = "check_row" /\ run[b].doc.short =>
          \A c \in Actors : run'[c].pc = "restore_l2" /\ run'[c].op.born = run[b].doc.born
                                  => run'[c].op.tgt <= run[b].doc.rev
  BY <1>2, <1>3 DEF Serving
<1>. QED  BY <1>1, <1>3, <1>4 DEF Serving, Deleted, RowOf, Newer

LEMMA IdleRelated ==
  ASSUME NEW a \in Actors, Typed', run'[a] = Idle
  PROVE  /\ CallerRelated(a)'
         /\ a \in Users => UseRelated(a)'
         /\ a \notin Users => UpkeepRelated'
<1>. USE NothingIs
<1>1. born' \in Nat /\ born' > 0  BY Bounds DEF Typed, CountsTyped
<1>2. CallerRelated(a)'
  BY <1>1 DEF CallerRelated, Copied, Past, Planned, Restoring, MatchesSource, MatchesTarget
<1>3. ASSUME a \in Users PROVE UseRelated(a)'
  BY DEF UseRelated, UserPlaced, UserDrives, Using, Noticed, Serving, UsePlace, CleanPlace
<1>4. ASSUME a \notin Users PROVE UpkeepRelated'
  <2>1. U' = Idle  BY <1>4, ActorsAre DEF U
  <2>. QED  BY <2>1 DEF UpkeepRelated, UpkeepPlaced, UpkeepDrives, Scanned, Driven, ScanPlace, FinishPlace, CleanPlace
<1>. QED  BY <1>2, <1>3, <1>4

\* The lock changes hands as the place of a says.
LockGoes(a) ==
    \/ lock' = lock /\ (run'[a].pc \in LockedPlace <=> run[a].pc \in LockedPlace)
    \/ lock = "none" /\ lock' = a /\ run'[a].pc \in LockedPlace
    \/ lock = a /\ lock' = "none" /\ run'[a].pc \notin LockedPlace

LEMMA LockedKept ==
  ASSUME Typed, Locked, NEW a \in Actors, Steps(a, run'[a]), LockGoes(a)
  PROVE  Locked' /\ lock' \in Actors \cup {"none"}
BY ActorsAre DEF Locked, Steps, LockGoes, Typed

LEMMA GoneUnlocked == "idle" \notin LockedPlace
BY DEF LockedPlace, CleanPlace, FinishPlace

----------------------------------------------------------------------------
(* Who is where.                                                           *)

LEMMA UpkeepAt ==
  ASSUME UpkeepPlaced
  PROVE  /\ U.pc = "idle" => U = Idle
         /\ U.pc \in ScanPlace => U.op = NoOp
         /\ U.pc \in CompactPlace => U.op.kind = "compact"
         /\ U.pc \in RestorePlace => U.op.kind = "restore"
         /\ U.pc \in RetirePlace => U.op.kind = "retire"
         /\ U.pc \in AnyPlace \cup FinishPlace => U.op.kind # "none"
         /\ U.pc \notin (UsePlace \ CleanPlace) \cup {"return_restored"}
BY NothingIs DEF UpkeepPlaced, ScanPlace, CompactPlace, RestorePlace, RetirePlace, AnyPlace, FinishPlace, CleanPlace,
                 UsePlace

LEMMA UserAt ==
  ASSUME NEW a, UserPlaced(a)
  PROVE  /\ run[a].pc = "idle" => run[a] = Idle
         /\ run[a].pc \in UsePlace => run[a].op.kind = "none"
         /\ run[a].pc \in RestorePlace \cup AnyPlace \cup {"return_restored"} => run[a].op.kind = "restore"
         /\ run[a].pc \notin ScanPlace \cup CompactPlace \cup (RetirePlace \ CleanPlace) \cup FinishPlace
BY NothingIs DEF UserPlaced, ScanPlace, CompactPlace, RestorePlace, RetirePlace, AnyPlace, FinishPlace, CleanPlace,
                 UsePlace

----------------------------------------------------------------------------
(* Steps that change no store.                                             *)

Quiet == UNCHANGED <<doc, row, base, op, owed, k, born, contents, idle, served>>

LEMMA QuietIs ==
  ASSUME Quiet
  PROVE  doc' = doc /\ row' = row /\ base' = base /\ op' = op /\ owed' = owed /\ k' = k /\ born' = born
           /\ contents' = contents /\ idle' = idle /\ served' = served
BY DEF Quiet

LEMMA QuietTyped ==
  ASSUME Typed, Quiet, NEW a, Steps(a, run'[a]), lock' \in Actors \cup {"none"}
  PROVE  Typed'
BY DEF Typed, StoresTyped, CountsTyped, Quiet, Steps

\* What the caller that takes the step knows is all that can go wrong.
LEMMA MoverKeeps ==
  ASSUME Inv, NEW a \in Actors, Steps(a, run'[a]), LockGoes(a), Quiet,
         CallerRelated(a)',
         a \in Users => UseRelated(a)',
         a \notin Users => UpkeepRelated',
         \A b \in Users : b # a => Noticed(b)' /\ Serving(b)'
  PROVE  Inv'
<1>1. \A b \in Actors : b # a => run'[b] = run[b]  BY DEF Steps
<1>2. \A b \in Actors : CallerRelated(b)'
  <2>1. ASSUME NEW b \in Actors, b # a PROVE CallerRelated(b)'
    BY <1>1, <2>1, QuietIs, CallerKept DEF Inv
  <2>. QED  BY <2>1
<1>3. UpkeepRelated'
  <2>1. CASE a \in Users
    <3>1. U' = U  BY <1>1, <2>1, ActorsAre DEF U
    <3>. QED  BY <3>1, QuietIs, UpkeepKept DEF Inv
  <2>. QED  BY <2>1
<1>4. ASSUME NEW b \in Users, b # a PROVE UseRelated(b)'
  <2>1. UseRelated(b) /\ b \in Actors /\ run'[b] = run[b]  BY <1>1, <1>4, ActorsAre DEF Inv
  <2>2. UserPlaced(b)' /\ UserDrives(b)' /\ Using(b)'  BY <2>1, QuietIs, UseKept
  <2>. QED  BY <1>4, <2>2 DEF UseRelated
<1>5. StoresRelated'  BY QuietIs, StoresKept DEF Inv
<1>6. Locked' /\ Typed'  BY LockedKept, QuietTyped DEF Inv
<1>. QED  BY <1>2, <1>3, <1>4, <1>5, <1>6 DEF Inv

\* No other use notices, unless the scan moves on or a restoration is published.
LEMMA OthersServed ==
  ASSUME Inv, NEW a \in Actors, Steps(a, run'[a]), UNCHANGED <<doc, row, op>>,
         run'[a].pc = "restore_l2" => run[a].pc = "restore_l2" /\ run'[a].op = run[a].op,
         a \notin Users => run'[a].pc \notin ScanPlace,
         NEW b \in Users, b # a
  PROVE  Noticed(b)' /\ Serving(b)'
<1>1. run'[b] = run[b] /\ UseRelated(b)  BY ActorsAre DEF Steps, Inv
<1>2. U' = U \/ U'.pc \notin ScanPlace
  <2>1. CASE a \in Users  BY <2>1, ActorsAre DEF U, Steps
  <2>2. CASE a \notin Users  BY <2>2, ActorsAre DEF U
  <2>. QED  BY <2>1, <2>2
<1>3. {"mark", "save", "prepare_compact"} \subseteq ScanPlace  BY DEF ScanPlace
<1>4. Noticed(b)'  BY <1>1, <1>2, <1>3, NoticedKept
<1>5. Serving(b)'  BY <1>1, <1>2, <1>3, ActorsAre, ServingKept
<1>. QED  BY <1>4, <1>5

\* A caller that gives up leaves nothing behind.
LEMMA GoneKeeps ==
  ASSUME Inv, NEW a \in Actors, Gone(a), LockGoes(a), Quiet
  PROVE  Inv'
<1>1. run'[a] = Idle /\ Steps(a, run'[a])  BY DEF Gone, Steps
<1>2. Typed'  BY <1>1, LockedKept, QuietTyped DEF Inv
<1>3. CallerRelated(a)' /\ (a \in Users => UseRelated(a)') /\ (a \notin Users => UpkeepRelated')
  BY <1>1, <1>2, IdleRelated
<1>4. Idle.pc # "restore_l2" /\ Idle.pc \notin ScanPlace  BY NothingIs DEF ScanPlace
<1>5. \A b \in Users : b # a => Noticed(b)' /\ Serving(b)'
  BY <1>1, <1>4, QuietIs, OthersServed
<1>. QED  BY <1>1, <1>3, <1>5, MoverKeeps

\* Where a caller that holds no lock gives up.
LEMMA GoneUnheld ==
  ASSUME NEW a, Gone(a), lock' = lock, run[a].pc \notin LockedPlace
  PROVE  LockGoes(a)
BY GoneUnlocked, NothingIs DEF LockGoes, Gone, Steps

----------------------------------------------------------------------------
(* The scan.                                                               *)

LEMMA StartResumeKeeps == ASSUME Inv, StartResume PROVE Inv'
<1>1. Moves("upkeep", "resume", U.doc, op) /\ U.pc = "idle" /\ op # NoOp
  BY StartResumeGoes DEF Inv, StartResume, At, U
<1>2. U = Idle /\ U.doc = NoDoc /\ op.kind # "none"
  BY <1>1, UpkeepAt, NothingIs DEF Inv, UpkeepRelated, StoresRelated, Coherent
<1>3. U' = run'["upkeep"] /\ U'.pc = "resume" /\ U'.doc = NoDoc /\ U'.op = op /\ Steps("upkeep", run'["upkeep"])
  BY <1>1, <1>2 DEF Moves, U
<1>4. Quiet  BY DEF StartResume, Quiet, stores, jobs, clock
<1>5. LockGoes("upkeep")
  BY <1>1, <1>3 DEF LockGoes, StartResume, LockedPlace, CleanPlace, FinishPlace, U
<1>6. UpkeepRelated'
  <2>1. UpkeepPlaced'  BY <1>2, <1>3 DEF UpkeepPlaced, AnyPlace
  <2>2. UpkeepDrives'  BY <1>3, <1>4, QuietIs DEF UpkeepDrives, ScanPlace, FinishPlace, CleanPlace, SameOp
  <2>3. Scanned' /\ Driven'  BY <1>3 DEF Scanned, Driven, ScanPlace
  <2>. QED  BY <2>1, <2>2, <2>3 DEF UpkeepRelated
<1>7. CallerRelated("upkeep")'
  <2>1. Planned(op) /\ born \in Nat  BY StoresAre DEF Inv, StoresRelated
  <2>2. Planned(U.op)'  BY <1>3, <1>4, <2>1, QuietIs DEF Planned, Past, MatchesSource, MatchesTarget
  <2>3. Copied("upkeep")'  BY <1>3, <1>4, StoresAre, NothingIs, QuietIs DEF Inv, Copied, Past, U
  <2>4. Restoring("upkeep")'  BY <1>3, <1>4, QuietIs DEF Restoring, SameOp, U
  <2>. QED  BY <2>2, <2>3, <2>4 DEF CallerRelated, U
<1>8. \A b \in Users : b # "upkeep" => Noticed(b)' /\ Serving(b)'
  BY <1>3, <1>4, QuietIs, OthersServed, ActorsAre DEF U, ScanPlace
<1>. QED  BY <1>3, <1>4, <1>5, <1>6, <1>7, <1>8, ActorsAre, MoverKeeps

\* A caller that moves on still knows what it knew, or what it just read.
LEMMA MovedKnows ==
  ASSUME Inv, NEW a \in Actors, Steps(a, run'[a]), Quiet,
         run'[a].doc = run[a].doc \/ run'[a].doc = doc \/ run'[a].doc = NoDoc,
         run'[a].op = run[a].op \/ run'[a].op = op,
         run'[a].pc # "commit_original", run'[a].pc # "original_done"
  PROVE  CallerRelated(a)'
<1>1. Copied(a) /\ Planned(run[a].op) /\ Restoring(a) /\ Planned(op) /\ DocWell
  BY DEF Inv, StoresRelated, CallerRelated
<1>0. born > 0 /\ born \in Nat /\ doc.rev \in Nat  BY StoresAre DEF Inv
<1>2. Past(run[a].doc.rev, run[a].doc.born) /\ Past(doc.rev, doc.born) /\ Past(0, 0)
  <2>1. Past(run[a].doc.rev, run[a].doc.born)  BY <1>1 DEF Copied
  <2>2. Past(0, 0)  BY <1>0 DEF Past
  <2>3. Past(doc.rev, doc.born)  BY <1>0, <1>1, <2>2, NothingIs DEF Past, DocWell
  <2>. QED  BY <2>1, <2>2, <2>3
<1>3. Copied(a)'
  <2>1. run'[a].doc.rev = 0 => run'[a].doc = NoDoc  BY <1>1, NothingIs DEF Copied, DocWell
  <2>2. Past(run'[a].doc.rev, run'[a].doc.born)  BY <1>2, NothingIs
  <2>3. /\ run'[a].doc.rev > 0 /\ Same(run'[a].doc, doc) => run'[a].doc = doc
        /\ run'[a].doc.rev > 0 /\ doc.rev > 0 /\ ~Same(run'[a].doc, doc) => doc.age = 0
    BY <1>1, NothingIs DEF Copied, Same
  <2>. QED  BY <2>1, <2>2, <2>3, QuietIs DEF Copied, Past, Same
<1>4. Planned(run[a].op)'
  <2>1. Planned(run'[a].op)  BY <1>1
  <2>. QED  BY <2>1, QuietIs DEF Planned, Past, MatchesSource, MatchesTarget
<1>5. Restoring(a)'  BY <1>1, QuietIs DEF Restoring, SameOp, MatchesSource
<1>. QED  BY <1>3, <1>4, <1>5 DEF CallerRelated

LEMMA StartScanKeeps == ASSUME Inv, StartScan PROVE Inv'
<1>1. Moves("upkeep", "rank", doc, U.op) /\ U.pc = "idle" /\ op = NoOp /\ doc.rev > 0
  BY StartScanGoes DEF Inv, StartScan, At, U
<1>2. U = Idle /\ U.op = NoOp  BY <1>1, UpkeepAt, NothingIs DEF Inv, UpkeepRelated
<1>3. U' = run'["upkeep"] /\ U'.pc = "rank" /\ U'.doc = doc /\ U'.op = NoOp /\ Steps("upkeep", run'["upkeep"])
  BY <1>1, <1>2 DEF Moves, U
<1>4. Quiet  BY DEF StartScan, Quiet, stores, jobs, clock
<1>5. LockGoes("upkeep")
  BY <1>1, <1>3 DEF LockGoes, StartScan, LockedPlace, CleanPlace, FinishPlace, U
<1>6. UpkeepRelated'
  <2>1. UpkeepPlaced'  BY <1>2, <1>3 DEF UpkeepPlaced, ScanPlace
  <2>2. UpkeepDrives'
    BY <1>1, <1>3, <1>4, NothingIs, QuietIs DEF UpkeepDrives, ScanPlace, FinishPlace, CleanPlace
  <2>3. Scanned' /\ Driven'  BY <1>1, <1>3, <1>4, QuietIs, NothingIs DEF Scanned, Driven, ScanPlace, Same
  <2>. QED  BY <2>1, <2>2, <2>3 DEF UpkeepRelated
<1>7. CallerRelated("upkeep")'  BY <1>2, <1>3, <1>4, MovedKnows, ActorsAre DEF U
<1>8. ASSUME NEW b \in Users PROVE Noticed(b)' /\ Serving(b)'
  <2>1. run'[b] = run[b] /\ UseRelated(b) /\ Copied(b) /\ b \in Actors
    BY <1>3, ActorsAre DEF Steps, Inv, CallerRelated
  <2>2. Noticed(b)'  BY <1>3 DEF Noticed
  <2>3. run[b].pc = "check_row" => run[b].doc.rev > 0  BY <2>1 DEF UseRelated, Using, UsePlace
  <2>4. run[b].pc = "check_row" => doc.age = 0 \/ ~Newer(doc, run[b].doc)
    <3>1. Typed  BY DEF Inv
    <3>2. doc.rev \in Nat /\ doc.born \in Nat /\ run[b].doc.rev \in Nat /\ run[b].doc.born \in Nat
      BY <2>1, <3>1, StoresAre, CallerIs
    <3>. QED  BY <1>1, <2>1, <2>3, <3>2 DEF Copied, Same, Newer
  <2>5. \A c \in Actors : run'[c].pc = "restore_l2" => run'[c] = run[c]  BY <1>3 DEF Steps, U
  <2>6. Serving(b)  BY <2>1 DEF UseRelated
  <2>7. run[b].pc = "check_row" /\ run[b].doc.short =>
            \A c \in Actors : run'[c].pc = "restore_l2" /\ run'[c].op.born = run[b].doc.born
                                  => run'[c].op.tgt <= run[b].doc.rev
    BY <2>5, <2>6 DEF Serving
  <2>8. Serving(b)'
    BY <1>3, <1>4, <2>1, <2>4, <2>6, <2>7, QuietIs DEF Serving, Deleted, RowOf, Newer
  <2>. QED  BY <2>2, <2>8
<1>. QED  BY <1>3, <1>4, <1>5, <1>6, <1>7, <1>8, ActorsAre, MoverKeeps

\* What a document is ranked with: its own row, or at most the uses of an earlier revision.
LEMMA ViewIs ==
  ASSUME Typed, NEW d \in DocRecord, Coherent
  PROVE  /\ RowOf(d) => View(d) = row
         /\ ~RowOf(d) => /\ ~View(d).ret /\ ~View(d).comp /\ View(d).cand = Never
                         /\ Activity(View(d), d) <= d.age
         /\ View(d).ver = row.ver \/ View(d).ver = 0
         /\ View(d).ver = 0 => row.ver = 0 \/ row.born # d.born
<1>. USE StoresAre, NothingIs
<1>1. d.age \in 0..2  BY DEF DocRecord, Ages
<1>2. CASE row.ver = 0 \/ row.born # d.born
  <2>1. View(d) = NoRow  BY <1>2 DEF View
  <2>2. ~RowOf(d)  BY <1>2 DEF RowOf
  <2>. QED  BY <1>1, <1>2, <2>1, <2>2 DEF Activity, LesserAge, Never
<1>3. CASE row.ver > 0 /\ row.born = d.born /\ row.rev # d.rev
  <2>. DEFINE v == [NoRow EXCEPT !.ver = row.ver, !.n = row.n, !.use = row.use, !.act = d.age]
  <2>1. View(d) = v  BY <1>3 DEF View
  <2>2. ~v.ret /\ ~v.comp /\ v.cand = Never /\ v.ver = row.ver /\ v.act = d.age /\ v.use = row.use
    BY DEF NoRow
  <2>3. ~RowOf(d)  BY <1>3 DEF RowOf
  <2>. HIDE DEF v
  <2>. QED  BY <1>1, <1>3, <2>1, <2>2, <2>3 DEF Activity, LesserAge, Never
<1>4. CASE row.ver > 0 /\ row.born = d.born /\ row.rev = d.rev
  <2>1. View(d) = row  BY <1>4 DEF View
  <2>. QED  BY <1>4, <2>1 DEF RowOf
<1>. QED  BY <1>2, <1>3, <1>4

LEMMA RankKeeps == ASSUME Inv, Rank PROVE Inv'
<1>. DEFINE d == U.doc
            v == View(d)
<1>1. Typed /\ U.pc = "rank" /\ Coherent /\ Copied("upkeep") /\ UpkeepRelated /\ FreshRow /\ Candidates
        /\ Published /\ DocWell
  BY ActorsAre DEF Inv, StoresRelated, CallerRelated, Rank, At, U
<1>2. Quiet /\ lock' = lock  BY DEF Rank, Quiet, stores, jobs, clock
<1>3. CASE Gone("upkeep")
  BY <1>1, <1>2, <1>3, ActorsAre, GoneUnheld, GoneKeeps DEF LockedPlace, CleanPlace, FinishPlace, U
<1>4. CASE ~Gone("upkeep")
  <2>1. /\ Steps("upkeep", run'["upkeep"]) /\ U' = run'["upkeep"]
        /\ U'.pc \in {"prepare_retire", "mark", "model"} /\ U'.doc = d /\ U'.op = U.op
        /\ U'.ver = v.ver /\ U'.cand = v.cand
        /\ U'.pc = "prepare_retire" => v.ret
        /\ U'.pc = "mark" => RetirementDue(d) /\ v.cand # 0
        /\ U'.pc = "model" => ~v.comp
    BY <1>1, <1>4, RankGoes DEF Ranked, U, Rank, Inv
  <2>2. d.rev > 0 /\ U.op = NoOp /\ (doc.short => Same(doc, d)) /\ op.kind \in {"none", "restore"}
    BY <1>1, UpkeepAt DEF UpkeepRelated, Scanned, UpkeepDrives, ScanPlace
  <2>3. d \in DocRecord /\ d.rev \in Nat /\ d.born \in Nat /\ d.age \in 0..2
    BY <1>1, ActorsAre, CallerIs DEF U
  <2>4. /\ RowOf(d) => v = row
        /\ ~RowOf(d) => ~v.ret /\ ~v.comp /\ v.cand = Never /\ Activity(v, d) <= d.age
        /\ v.ver = row.ver \/ v.ver = 0
    BY <1>1, <2>3, ViewIs
  <2>5. U'.pc = "mark" => Activity(v, d) >= 2  BY <2>1 DEF RetirementDue
  <2>. HIDE DEF v, d
  <2>6. Same(doc, d) => doc = d  BY <1>1, <2>2 DEF Copied, Same, U, d
  <2>7. LockGoes("upkeep")  BY <1>1, <1>2, <2>1 DEF LockGoes, LockedPlace, CleanPlace, FinishPlace, U
  <2>8. UpkeepPlaced'  BY <2>1, <2>2 DEF UpkeepPlaced, ScanPlace
  <2>9. UpkeepDrives'
    BY <1>2, <2>1, <2>2, QuietIs, NothingIs DEF UpkeepDrives, ScanPlace, FinishPlace, CleanPlace
  <2>10. U'.pc = "mark" /\ Same(doc, d) /\ row.ver = v.ver => idle >= 2 /\ (v.cand # Never => idle = 3)
    <3>1. SUFFICES ASSUME U'.pc = "mark", doc = d PROVE idle >= 2 /\ (v.cand # Never => idle = 3)
      BY <2>6
    <3>2. idle \in 0..3 /\ Never = 3 /\ v.cand \in 0..3 /\ Activity(v, d) \in Nat
      <4>1. v \in RowRecord  BY <1>1, <2>3, ViewTyped DEF v
      <4>. QED  BY <1>1, <2>3, <4>1, StoresAre DEF Activity, LesserAge, RowRecord, Never
    <3>3. CASE RowOf(d)
      <4>1. v = row /\ Activity(row, doc) <= idle  BY <1>1, <2>2, <2>4, <3>1, <3>3 DEF FreshRow
      <4>2. v.cand # Never => v.cand >= 1  BY <2>1, <3>1, <3>2
      <4>. QED  BY <1>1, <2>2, <2>5, <3>1, <3>2, <3>3, <4>1, <4>2 DEF Candidates
    <3>4. CASE ~RowOf(d)
      BY <1>1, <2>2, <2>3, <2>4, <2>5, <3>1, <3>2, <3>4 DEF FreshRow
    <3>. QED  BY <3>3, <3>4
  <2>11. U'.pc = "model" /\ d.short => ~Same(doc, d)
    BY <1>1, <2>1, <2>2, <2>4, <2>6 DEF Published
  <2>12. U'.pc = "prepare_retire" /\ Same(doc, d) => RowOf(doc) /\ row.ret
    BY <1>1, <2>1, <2>4, <2>6 DEF RowOf
  <2>13. v.ver <= row.ver  BY <1>1, <2>4, StoresAre
  <2>14. Scanned' /\ Driven'
    BY <1>2, <2>1, <2>2, <2>10, <2>11, <2>12, <2>13, QuietIs, NothingIs DEF Scanned, Driven, ScanPlace, Same, RowOf
  <2>15. CallerRelated("upkeep")'  BY <1>2, <2>1, MovedKnows, ActorsAre DEF U, d
  <2>16. ASSUME NEW b \in Users PROVE Noticed(b)' /\ Serving(b)'
    <3>1. run'[b] = run[b] /\ UseRelated(b) /\ Copied(b) /\ b \in Actors /\ Serving(b)
      BY <2>1, ActorsAre DEF Steps, Inv, CallerRelated, UseRelated
    <3>2. Noticed(b)'  BY <2>1 DEF Noticed
    <3>3. run[b].doc.rev \in Nat /\ run[b].doc.born \in Nat  BY <1>1, <3>1, CallerIs
    <3>4. run[b].pc = "check_row" /\ run[b].doc.short /\ ~Deleted /\ U'.pc = "mark" => ~Newer(d, run[b].doc)
      <4>1. SUFFICES ASSUME run[b].pc = "check_row", run[b].doc.short, ~Deleted, U'.pc = "mark", Newer(d, run[b].doc)
                     PROVE  FALSE
        OBVIOUS
      <4>2. d.age = 0 /\ RowOf(run[b].doc)  BY <1>1, <3>1, <4>1 DEF Serving, ScanPlace, d
      <4>3. ~RowOf(d)  BY <2>3, <3>3, <4>1, <4>2 DEF RowOf, Newer
      <4>4. Activity(v, d) \in Nat
        <5>1. v \in RowRecord  BY <1>1, <2>3, ViewTyped DEF v
        <5>. QED  BY <2>3, <5>1 DEF Activity, LesserAge, RowRecord, Never
      <4>. QED  BY <2>3, <2>4, <2>5, <4>1, <4>2, <4>3, <4>4
    <3>5. \A c \in Actors : run'[c].pc = "restore_l2" => run'[c] = run[c]  BY <2>1 DEF Steps, U
    <3>6. run[b].pc = "check_row" /\ run[b].doc.short =>
            \A c \in Actors : run'[c].pc = "restore_l2" /\ run'[c].op.born = run[b].doc.born
                                  => run'[c].op.tgt <= run[b].doc.rev
      BY <3>1, <3>5 DEF Serving
    <3>7. run[b].pc = "check_row" /\ run[b].doc.short /\ ~Deleted => d.age = 0 \/ ~Newer(d, run[b].doc)
      BY <1>1, <3>1 DEF Serving, ScanPlace, d
    <3>8. Serving(b)'
      BY <1>2, <2>1, <3>1, <3>4, <3>6, <3>7, QuietIs DEF Serving, Deleted, RowOf, Newer
    <3>. QED  BY <3>2, <3>8
  <2>17. UpkeepRelated'  BY <2>8, <2>9, <2>14 DEF UpkeepRelated
  <2>. QED  BY <1>2, <2>1, <2>7, <2>15, <2>16, <2>17, ActorsAre, MoverKeeps
<1>. QED  BY <1>3, <1>4

\* The scan goes on with the same document.
LEMMA ScanServed ==
  ASSUME Inv, Steps("upkeep", run'["upkeep"]), UNCHANGED <<doc, row, op>>,
         U'.pc # "restore_l2", U'.pc # "mark", U'.pc # "save", U'.pc # "prepare_compact",
         U.pc \in ScanPlace, U'.doc = U.doc, NEW b \in Users
  PROVE  Noticed(b)' /\ Serving(b)'
<1>1. run'[b] = run[b] /\ UseRelated(b) /\ b # "upkeep" /\ "upkeep" \in Actors  BY ActorsAre DEF Steps, Inv
<1>2. Noticed(b)'  BY <1>1, NoticedKept
<1>3. Serving(b)'  BY <1>1, ServingKept DEF U
<1>. QED  BY <1>2, <1>3

LEMMA RankAgainKeeps == ASSUME Inv, RankAgain PROVE Inv'
<1>1. Typed /\ U.pc = "reread" /\ Coherent /\ Copied("upkeep") /\ UpkeepRelated
  BY ActorsAre DEF Inv, StoresRelated, CallerRelated, RankAgain, At, U
<1>2. Quiet /\ lock' = lock  BY DEF RankAgain, Quiet, stores, jobs, clock
<1>3. CASE Gone("upkeep")
  BY <1>1, <1>2, <1>3, ActorsAre, GoneUnheld, GoneKeeps DEF LockedPlace, CleanPlace, FinishPlace, U
<1>4. CASE ~Gone("upkeep")
  <2>1. /\ Steps("upkeep", run'["upkeep"]) /\ U' = run'["upkeep"]
        /\ U'.pc = "prepare_retire" /\ U'.doc = U.doc /\ U'.op = U.op /\ View(U.doc).ret
    BY <1>1, <1>4, RankAgainGoes DEF Ranked, U
  <2>2. U.doc.rev > 0 /\ U.op = NoOp /\ (doc.short => Same(doc, U.doc)) /\ op.kind \in {"none", "restore"}
    BY <1>1, UpkeepAt DEF UpkeepRelated, Scanned, UpkeepDrives, ScanPlace
  <2>3. RowOf(U.doc) /\ row.ret  BY <1>1, <2>1, ActorsAre, CallerIs, ViewIs DEF U
  <2>4. LockGoes("upkeep")  BY <1>1, <1>2, <2>1 DEF LockGoes, LockedPlace, CleanPlace, FinishPlace, U
  <2>5. UpkeepPlaced' /\ UpkeepDrives'
    BY <1>2, <2>1, <2>2, QuietIs, NothingIs DEF UpkeepPlaced, UpkeepDrives, ScanPlace, FinishPlace, CleanPlace
  <2>6. Scanned' /\ Driven'
    BY <1>2, <2>1, <2>2, <2>3, QuietIs, NothingIs DEF Scanned, Driven, ScanPlace, Same, RowOf
  <2>7. CallerRelated("upkeep")'  BY <1>2, <2>1, MovedKnows, ActorsAre DEF U
  <2>8. \A b \in Users : Noticed(b)' /\ Serving(b)'
    BY <1>1, <1>2, <2>1, QuietIs, ScanServed DEF ScanPlace
  <2>. QED  BY <1>2, <2>1, <2>4, <2>5, <2>6, <2>7, <2>8, ActorsAre, MoverKeeps DEF UpkeepRelated
<1>. QED  BY <1>3, <1>4

LEMMA ModelKeepsKeeps == ASSUME Inv, ModelKeeps PROVE Inv'
<1>1. Gone("upkeep") /\ U.pc = "model"  BY ModelKeepsGoes DEF Inv, ModelKeeps, At, U
<1>2. Quiet /\ lock' = lock  BY DEF ModelKeeps, Quiet, stores, jobs, clock
<1>. QED  BY <1>1, <1>2, ActorsAre, GoneUnheld, GoneKeeps DEF LockedPlace, CleanPlace, FinishPlace, U

LEMMA ModelShortensKeeps == ASSUME Inv, ModelShortens PROVE Inv'
<1>1. Typed /\ U.pc = "model" /\ UpkeepRelated  BY DEF Inv, ModelShortens, At, U
<1>2. Quiet /\ lock' = lock  BY DEF ModelShortens, Quiet, stores, jobs, clock
<1>3. CASE Gone("upkeep")
  BY <1>1, <1>2, <1>3, ActorsAre, GoneUnheld, GoneKeeps DEF LockedPlace, CleanPlace, FinishPlace, U
<1>4. CASE ~Gone("upkeep")
  <2>1. /\ Steps("upkeep", run'["upkeep"]) /\ U' = run'["upkeep"]
        /\ U'.pc = "rank_shortened" /\ U'.doc = U.doc /\ U'.op = U.op /\ doc = U.doc
    BY <1>1, <1>4, ModelShortensGoes DEF Moves, U
  <2>2. /\ U.doc.rev > 0 /\ U.op = NoOp /\ (doc.short => Same(doc, U.doc)) /\ op.kind \in {"none", "restore"}
        /\ U.doc.short => ~Same(doc, U.doc)
    BY <1>1, UpkeepAt DEF UpkeepRelated, Scanned, UpkeepDrives, ScanPlace
  <2>4. LockGoes("upkeep")  BY <1>1, <1>2, <2>1 DEF LockGoes, LockedPlace, CleanPlace, FinishPlace, U
  <2>5. UpkeepPlaced' /\ UpkeepDrives'
    BY <1>2, <2>1, <2>2, QuietIs, NothingIs DEF UpkeepPlaced, UpkeepDrives, ScanPlace, FinishPlace, CleanPlace
  <2>6. Scanned' /\ Driven'
    BY <1>2, <2>1, <2>2, QuietIs, NothingIs DEF Scanned, Driven, ScanPlace, Same, RowOf
  <2>7. CallerRelated("upkeep")'  BY <1>2, <2>1, MovedKnows, ActorsAre DEF U
  <2>8. \A b \in Users : Noticed(b)' /\ Serving(b)'
    BY <1>1, <1>2, <2>1, QuietIs, ScanServed DEF ScanPlace
  <2>. QED  BY <1>2, <2>1, <2>4, <2>5, <2>6, <2>7, <2>8, ActorsAre, MoverKeeps DEF UpkeepRelated
<1>. QED  BY <1>3, <1>4

LEMMA RankShortenedKeeps == ASSUME Inv, RankShortened PROVE Inv'
<1>. DEFINE d == U.doc
            v == View(d)
<1>1. Typed /\ U.pc = "rank_shortened" /\ Coherent /\ Copied("upkeep") /\ UpkeepRelated /\ FreshRow
  BY ActorsAre DEF Inv, StoresRelated, CallerRelated, RankShortened, At, U
<1>2. Quiet /\ lock' = lock  BY DEF RankShortened, Quiet, stores, jobs, clock
<1>3. CASE Gone("upkeep")
  BY <1>1, <1>2, <1>3, ActorsAre, GoneUnheld, GoneKeeps DEF LockedPlace, CleanPlace, FinishPlace, U
<1>4. CASE ~Gone("upkeep")
  <2>1. /\ Steps("upkeep", run'["upkeep"]) /\ U' = run'["upkeep"]
        /\ U'.pc = "save" /\ U'.doc = d /\ U'.op = U.op /\ U'.ver = v.ver /\ Cold2(d)
    BY <1>1, <1>4, RankShortenedGoes DEF Ranked, U
  <2>2. /\ d.rev > 0 /\ U.op = NoOp /\ (doc.short => Same(doc, d)) /\ op.kind \in {"none", "restore"}
        /\ ~d.short
    BY <1>1, UpkeepAt DEF UpkeepRelated, Scanned, UpkeepDrives, ScanPlace
  <2>3. d \in DocRecord /\ d.rev \in Nat /\ d.born \in Nat /\ d.age \in 0..2
    BY <1>1, ActorsAre, CallerIs DEF U
  <2>4. /\ RowOf(d) => v = row
        /\ ~RowOf(d) => Activity(v, d) <= d.age
        /\ v.ver = row.ver \/ v.ver = 0
    BY <1>1, <2>3, ViewIs
  <2>5. Activity(v, d) >= 1 /\ Activity(v, d) \in Nat
    <3>1. v \in RowRecord  BY <1>1, <2>3, ViewTyped
    <3>. QED  BY <2>1, <2>3, <3>1, Bounds DEF Cold2, Activity, LesserAge, RowRecord
  <2>. HIDE DEF v, d
  <2>6. Same(doc, d) => doc = d  BY <1>1, <2>2 DEF Copied, Same, U, d
  <2>7. Same(doc, d) => idle >= 1
    <3>1. CASE RowOf(d)
      BY <1>1, <2>2, <2>4, <2>5, <2>6, <3>1, StoresAre DEF FreshRow
    <3>2. CASE ~RowOf(d)
      BY <1>1, <2>2, <2>3, <2>4, <2>5, <2>6, <3>2, StoresAre DEF FreshRow
    <3>. QED  BY <3>1, <3>2
  <2>8. LockGoes("upkeep")  BY <1>1, <1>2, <2>1 DEF LockGoes, LockedPlace, CleanPlace, FinishPlace, U
  <2>9. UpkeepPlaced' /\ UpkeepDrives'
    BY <1>2, <2>1, <2>2, QuietIs, NothingIs DEF UpkeepPlaced, UpkeepDrives, ScanPlace, FinishPlace, CleanPlace
  <2>10. v.ver <= row.ver /\ ~doc.short  BY <1>1, <2>2, <2>4, <2>6, StoresAre
  <2>11. Scanned' /\ Driven'
    BY <1>2, <2>1, <2>2, <2>7, <2>10, QuietIs, NothingIs DEF Scanned, Driven, ScanPlace, Same, RowOf
  <2>12. CallerRelated("upkeep")'  BY <1>2, <2>1, MovedKnows, ActorsAre DEF U, d
  <2>13. ASSUME NEW b \in Users PROVE Noticed(b)' /\ Serving(b)'
    <3>1. run'[b] = run[b] /\ UseRelated(b) /\ b # "upkeep" /\ "upkeep" \in Actors
      BY <2>1, ActorsAre DEF Steps, Inv
    <3>2. run[b].pc = "drop_stale_base" => ~Same(doc, d)
      BY <2>7, <3>1 DEF UseRelated, Using
    <3>3. Noticed(b)'  BY <1>2, <2>1, <3>1, <3>2, QuietIs DEF Noticed, Same
    <3>4. Serving(b)'  BY <1>1, <1>2, <2>1, <3>1, QuietIs, ServingKept DEF ScanPlace, U, d
    <3>. QED  BY <3>3, <3>4
  <2>14. UpkeepRelated'  BY <2>9, <2>11 DEF UpkeepRelated
  <2>. QED  BY <1>2, <2>1, <2>8, <2>12, <2>13, <2>14, ActorsAre, MoverKeeps
<1>. QED  BY <1>3, <1>4

----------------------------------------------------------------------------
(* An operation finds out where it is.                                     *)

\* Nobody who holds a compacted document is about to be served while an operation is in the store.
LEMMA NobodyServed ==
  ASSUME NEW b \in Users, UseRelated(b), op.kind # "none"
  PROVE  run[b].pc = "check_row" => ~run[b].doc.short
BY NothingIs DEF UseRelated, Serving

LEMMA ResumeKeeps == ASSUME Inv, NEW a \in Actors, Resume(a) PROVE Inv'
<1>1. Typed /\ run[a].pc = "resume" /\ CallerRelated(a) /\ Planned(op)
  BY DEF Inv, StoresRelated, Resume, At
<1>2. Quiet /\ lock' = lock  BY DEF Resume, Quiet, stores, jobs, clock
<1>3. run[a].op.kind # "none" /\ (a \in Users => run[a].op.kind = "restore" /\ UseRelated(a))
  <2>1. CASE a \in Users  BY <1>1, <2>1, UserAt DEF Inv, UseRelated, AnyPlace
  <2>2. CASE a \notin Users  BY <1>1, <2>2, ActorsAre, UpkeepAt DEF Inv, UpkeepRelated, AnyPlace, U
  <2>. QED  BY <2>1, <2>2
<1>4. CASE Gone(a)
  BY <1>1, <1>2, <1>4, GoneUnheld, GoneKeeps DEF LockedPlace, CleanPlace, FinishPlace
<1>5. CASE ~SameOp(op, run[a].op) /\ a \in Users /\ Moves(a, "return_restored", run[a].doc, run[a].op)
  <2>1. /\ Steps(a, run'[a]) /\ run'[a].pc = "return_restored" /\ run'[a].doc = run[a].doc /\ run'[a].op = run[a].op
    BY <1>5 DEF Moves
  <2>2. LockGoes(a)  BY <1>1, <1>2, <2>1 DEF LockGoes, LockedPlace, CleanPlace, FinishPlace
  <2>3. ~MatchesSource(doc, run[a].op)  BY <1>1, <1>3, <1>5 DEF CallerRelated, Restoring
  <2>4. UserPlaced(a)' /\ UserDrives(a)'  BY <1>3, <1>5, <2>1 DEF UserPlaced, UserDrives, CleanPlace
  <2>5. Using(a)'
    BY <1>2, <1>3, <1>5, <2>1, <2>3, QuietIs DEF UseRelated, Using, UsePlace, CleanPlace, Warm, MatchesSource
  <2>6. Noticed(a)' /\ Serving(a)'  BY <2>1 DEF Noticed, Serving
  <2>7. CallerRelated(a)'  BY <1>2, <2>1, MovedKnows
  <2>8. \A b \in Users : b # a => Noticed(b)' /\ Serving(b)'
    BY <1>2, <1>5, <2>1, QuietIs, OthersServed
  <2>. QED  BY <1>2, <1>5, <2>1, <2>2, <2>4, <2>5, <2>6, <2>7, <2>8, MoverKeeps DEF UseRelated
<1>6. CASE SameOp(op, run[a].op) /\ Resumed(a)
  <2>1. /\ Steps(a, run'[a]) /\ run'[a].pc = Entry(op) /\ run'[a].doc = NoDoc /\ run'[a].op = op
        /\ op.kind = run[a].op.kind /\ op.rev = run[a].op.rev /\ op.born = run[a].op.born
    BY <1>6 DEF Resumed, SameOp
  <2>2. op \in OpRecord  BY <1>1 DEF Typed, StoresTyped
  <2>3. /\ op.kind \in {"compact", "restore", "retire"} /\ op.phase \in {"prepared", "l2", "state", "derived"}
        /\ op.phase = "prepared" => Entry(op) = op.kind
        /\ op.phase = "l2" => /\ op.kind = "compact" => Entry(op) = "compact_l2"
                              /\ op.kind = "restore" => Entry(op) = "restore_l2"
                              /\ op.kind = "retire" => Entry(op) = "retire_l2"
        /\ op.phase = "state" => Entry(op) = IF op.kind = "retire" THEN "retire_state" ELSE "state"
        /\ op.phase = "derived" => Entry(op) = "derived"
    BY <1>3, <2>1, <2>2, EntryPlaces DEF OpRecord, Phases
  <2>4. LockGoes(a)  BY <1>1, <1>2, <2>1, <2>3 DEF LockGoes, LockedPlace, CleanPlace, FinishPlace
  <2>5. ASSUME a \notin Users PROVE UpkeepRelated'
    <3>1. U' = run'[a]  BY <2>5, ActorsAre DEF U
    <3>2. UpkeepPlaced'
      BY <2>1, <2>3, <3>1 DEF UpkeepPlaced, CompactPlace, RestorePlace, RetirePlace, AnyPlace
    <3>3. UpkeepDrives'
      BY <1>2, <2>1, <2>3, <3>1, QuietIs DEF UpkeepDrives, ScanPlace, FinishPlace, CleanPlace, SameOp
    <3>4. Scanned' /\ Driven'  BY <2>1, <2>3, <3>1 DEF Scanned, Driven, ScanPlace
    <3>. QED  BY <3>2, <3>3, <3>4 DEF UpkeepRelated
  <2>6. ASSUME a \in Users PROVE UseRelated(a)'
    <3>1. op.kind = "restore"  BY <1>3, <2>1, <2>6
    <3>2. UserPlaced(a)' /\ UserDrives(a)'
      BY <2>1, <2>3, <3>1 DEF UserPlaced, UserDrives, RestorePlace, AnyPlace, CleanPlace
    <3>3. Using(a)'
      BY <1>2, <1>3, <2>1, <2>3, <2>6, <3>1, QuietIs
         DEF UseRelated, Using, UsePlace, CleanPlace, Warm, MatchesSource
    <3>4. Noticed(a)' /\ Serving(a)'  BY <2>1, <2>3, <3>1 DEF Noticed, Serving
    <3>. QED  BY <3>2, <3>3, <3>4 DEF UseRelated
  <2>7. CallerRelated(a)'  BY <1>2, <2>1, <2>3, MovedKnows
  <2>8. ASSUME NEW b \in Users, b # a PROVE Noticed(b)' /\ Serving(b)'
    <3>1. run'[b] = run[b] /\ UseRelated(b)  BY <2>1, <2>8, ActorsAre DEF Steps, Inv
    <3>2. U' = U \/ U'.pc \notin {"save", "prepare_compact"}
      BY <2>1, <2>3, ActorsAre DEF Steps, U
    <3>3. Noticed(b)'  BY <1>2, <3>1, <3>2, QuietIs, NoticedKept
    <3>4. Serving(b)'  BY <1>2, <2>3, <3>1, QuietIs, NobodyServed DEF UseRelated, Serving, Deleted
    <3>. QED  BY <3>3, <3>4
  <2>. QED  BY <1>2, <2>1, <2>4, <2>5, <2>6, <2>7, <2>8, MoverKeeps
<1>. QED  BY <1>1, <1>3, <1>4, <1>5, <1>6, ResumeGoes

\* A use that goes on with its restoration.
LEMMA UserGoesOn ==
  ASSUME NEW a \in Users, UseRelated(a), UNCHANGED <<doc, idle>>, run[a].op.kind = "restore",
         run'[a].op = run[a].op, run'[a].pc \in RestorePlace \cup AnyPlace \cup {"return_restored"},
         run'[a].pc = "return_restored" => ~MatchesSource(doc, run[a].op),
         run'[a].pc \in {"restore_l2", "publish_done", "state", "derived"} => run[a].op.phase # "prepared"
  PROVE  UseRelated(a)'
<1>1. UserPlaced(a)' /\ UserDrives(a)'  BY DEF UserPlaced, UserDrives, CleanPlace, RestorePlace, AnyPlace
<1>2. Using(a)'  BY DEF UseRelated, Using, UsePlace, CleanPlace, Warm, MatchesSource, RestorePlace, AnyPlace
<1>3. Noticed(a)' /\ Serving(a)'  BY DEF Noticed, Serving, RestorePlace, AnyPlace
<1>. QED  BY <1>1, <1>2, <1>3 DEF UseRelated

LEMMA ResumeCompactKeeps == ASSUME Inv, NEW a \in Actors, ResumeCompact(a) PROVE Inv'
<1>1. Typed /\ run[a].pc = "compact" /\ Planned(op) /\ Compacting
  BY DEF Inv, StoresRelated, ResumeCompact, At
<1>2. Quiet /\ lock' = lock  BY DEF ResumeCompact, Quiet, stores, jobs, clock
<1>3. a = "upkeep" /\ a \notin Users
  BY <1>1, ActorsAre, UserAt DEF Inv, UseRelated, CompactPlace
<1>4. U.pc = "compact" /\ U.op.kind = "compact" /\ op = U.op
  BY <1>1, <1>3, UpkeepAt DEF U, Inv, UpkeepRelated, UpkeepDrives, CompactPlace
<1>5. /\ Steps("upkeep", run'["upkeep"]) /\ U' = run'["upkeep"] /\ U'.doc = doc /\ U'.op = op
      /\ \/ MatchesSource(doc, op) /\ row.ver = op.ver /\ U'.pc = "commit_short"
         \/ ~MatchesSource(doc, op) /\ MatchesPlan(doc, op) /\ U'.pc = "activate"
         \/ (IF MatchesSource(doc, op) THEN row.ver # op.ver ELSE ~MatchesPlan(doc, op)) /\ U'.pc = "drop_base"
  BY <1>1, <1>3, <1>4, ResumeCompactGoes DEF Moves, U
<1>6. LockGoes("upkeep")  BY <1>2, <1>4, <1>5 DEF LockGoes, LockedPlace, CleanPlace, FinishPlace, U
<1>7. U'.pc = "commit_short" => idle >= 1 /\ BaseFor(op)
  BY <1>1, <1>4, <1>5, StoresAre DEF Compacting
<1>8. U'.pc = "drop_base" => ~doc.short /\ (MatchesSource(doc, op) => row.ver > op.ver)
  <2>1. MatchesSource(doc, op) => ~doc.short /\ op.ver <= row.ver  BY <1>1, <1>4 DEF Planned, Compacting
  <2>2. doc.short => MatchesPlan(doc, op)  BY <1>1, <1>4 DEF Compacting, MatchesPlan
  <2>. QED  BY <1>1, <1>5, <2>1, <2>2, StoresAre
<1>9. UpkeepRelated'
  <2>1. UpkeepPlaced'  BY <1>4, <1>5 DEF UpkeepPlaced, CompactPlace
  <2>2. UpkeepDrives'
    BY <1>2, <1>4, <1>5, QuietIs DEF UpkeepDrives, ScanPlace, FinishPlace, CleanPlace
  <2>3. Scanned'  BY <1>5 DEF Scanned, ScanPlace
  <2>4. Driven'
    BY <1>2, <1>4, <1>5, <1>7, <1>8, QuietIs DEF Driven, MatchesSource, MatchesPlan, BaseFor
  <2>. QED  BY <2>1, <2>2, <2>3, <2>4 DEF UpkeepRelated
<1>10. CallerRelated("upkeep")'  BY <1>2, <1>4, <1>5, MovedKnows, ActorsAre DEF U
<1>11. \A b \in Users : Noticed(b)' /\ Serving(b)'
  BY <1>2, <1>5, QuietIs, OthersServed, ActorsAre DEF U, ScanPlace
<1>. QED  BY <1>2, <1>5, <1>6, <1>9, <1>10, <1>11, ActorsAre, MoverKeeps

LEMMA RereadShortKeeps == ASSUME Inv, NEW a \in Actors, RereadShort(a) PROVE Inv'
<1>1. Typed /\ run[a].pc = "reread_short"
  BY DEF Inv, RereadShort, At
<1>2. Quiet /\ lock' = lock  BY DEF RereadShort, Quiet, stores, jobs, clock
<1>3. a = "upkeep" /\ a \notin Users
  BY <1>1, ActorsAre, UserAt DEF Inv, UseRelated, CompactPlace
<1>4. U.pc = "reread_short" /\ U.op.kind = "compact" /\ op = U.op
  BY <1>1, <1>3, UpkeepAt DEF U, Inv, UpkeepRelated, UpkeepDrives, CompactPlace
<1>5. CASE Gone(a)
  BY <1>1, <1>2, <1>5, GoneUnheld, GoneKeeps DEF LockedPlace, CleanPlace, FinishPlace
<1>6. CASE ~Gone(a)
  <2>1. /\ Steps("upkeep", run'["upkeep"]) /\ U' = run'["upkeep"] /\ U'.doc = doc /\ U'.op = op
        /\ U'.pc = "activate" /\ MatchesPlan(doc, op)
    BY <1>1, <1>3, <1>4, <1>6, RereadShortGoes DEF Moves, U
  <2>2. LockGoes("upkeep")  BY <1>2, <1>4, <2>1 DEF LockGoes, LockedPlace, CleanPlace, FinishPlace, U
  <2>3. UpkeepPlaced' /\ UpkeepDrives'
    BY <1>2, <1>4, <2>1, QuietIs DEF UpkeepPlaced, CompactPlace, UpkeepDrives, ScanPlace, FinishPlace, CleanPlace
  <2>4. Scanned' /\ Driven'
    BY <2>1 DEF Scanned, ScanPlace, Driven, MatchesPlan
  <2>5. CallerRelated("upkeep")'  BY <1>2, <1>4, <2>1, MovedKnows, ActorsAre DEF U
  <2>6. \A b \in Users : Noticed(b)' /\ Serving(b)'
    BY <1>2, <2>1, QuietIs, OthersServed, ActorsAre DEF U, ScanPlace
  <2>. QED  BY <1>2, <2>1, <2>2, <2>3, <2>4, <2>5, <2>6, ActorsAre, MoverKeeps DEF UpkeepRelated
<1>. QED  BY <1>5, <1>6

\* Who works on a restoration, and on which.
LEMMA RestorerAt ==
  ASSUME Inv, NEW a \in Actors, run[a].pc \in RestorePlace
  PROVE  /\ run[a].op.kind = "restore"
         /\ a \in Users => UseRelated(a)
         /\ a \notin Users => a = "upkeep" /\ SameOp(op, U.op)
<1>1. CASE a \in Users  BY <1>1, UserAt DEF Inv, UseRelated
<1>2. CASE a \notin Users  BY <1>2, ActorsAre, UpkeepAt DEF Inv, UpkeepRelated, UpkeepDrives, U
<1>. QED  BY <1>1, <1>2

\* Upkeep that goes on with a restoration.
LEMMA UpkeepRestores ==
  ASSUME UpkeepRelated, U.pc \in RestorePlace, UNCHANGED <<doc, op>>,
         U'.op = U.op, U'.pc \in RestorePlace \cup {"publish_done"}
  PROVE  UpkeepRelated'
<1>1. U.op.kind = "restore" /\ SameOp(op, U.op)  BY UpkeepAt DEF UpkeepRelated, UpkeepDrives
<1>2. UpkeepPlaced' /\ UpkeepDrives'
  BY <1>1 DEF UpkeepPlaced, RestorePlace, AnyPlace, UpkeepDrives, ScanPlace, FinishPlace, CleanPlace, SameOp
<1>3. Scanned' /\ Driven'  BY <1>1 DEF Scanned, Driven, ScanPlace, RestorePlace
<1>. QED  BY <1>2, <1>3 DEF UpkeepRelated

\* ... and with the document it just read.
LEMMA ReadKnows ==
  ASSUME Inv, NEW a \in Actors, Steps(a, run'[a]), Quiet, run'[a].doc = doc, run'[a].op = run[a].op,
         run'[a].pc = "commit_original" => MatchesSource(doc, run[a].op),
         run'[a].pc = "original_done" =>
            /\ doc.rev > run[a].op.rev => ~doc.short
            /\ doc.rev > 0 => doc.born >= run[a].op.born
  PROVE  CallerRelated(a)'
<1>1. Copied(a) /\ Planned(run[a].op) /\ Restoring(a) /\ DocWell
  BY DEF Inv, StoresRelated, CallerRelated
<1>2. Past(doc.rev, doc.born)
  BY <1>1, StoresAre, NothingIs DEF Inv, Past, DocWell
<1>3. Copied(a)'  BY <1>1, <1>2, QuietIs, NothingIs DEF Copied, DocWell, Same, Past
<1>4. Planned(run[a].op)'  BY <1>1, QuietIs DEF Planned, Past, MatchesSource, MatchesTarget
<1>5. Restoring(a)'  BY <1>1, QuietIs DEF Restoring, SameOp, MatchesSource
<1>. QED  BY <1>3, <1>4, <1>5 DEF CallerRelated

LEMMA ResumeRestoreKeeps == ASSUME Inv, NEW a \in Actors, ResumeRestore(a) PROVE Inv'
<1>1. Typed /\ run[a].pc = "restore"  BY DEF Inv, ResumeRestore, At
<1>2. Quiet /\ lock' = lock  BY DEF ResumeRestore, Quiet, stores, jobs, clock
<1>3. /\ run[a].op.kind = "restore" /\ (a \in Users => UseRelated(a))
      /\ a \notin Users => a = "upkeep" /\ U = run[a]
  BY <1>1, RestorerAt DEF RestorePlace, U
<1>4. CASE Gone(a)
  BY <1>1, <1>2, <1>4, GoneUnheld, GoneKeeps DEF LockedPlace, CleanPlace, FinishPlace
<1>5. CASE ~Gone(a)
  <2>1. /\ Steps(a, run'[a]) /\ run'[a].doc = doc /\ run'[a].op = run[a].op
        /\ \/ MatchesSource(doc, run[a].op) /\ run'[a].pc = "commit_original"
           \/ MatchesPlan(doc, run[a].op) /\ run'[a].pc = "original_done"
    BY <1>1, <1>5, ResumeRestoreGoes DEF Moves
  <2>2. LockGoes(a)  BY <1>1, <1>2, <2>1 DEF LockGoes, LockedPlace, CleanPlace, FinishPlace
  <2>3. CallerRelated(a)'
    <3>1. run'[a].pc = "original_done" => ~doc.short /\ doc.born >= run[a].op.born
      BY <1>1, <1>3, <2>1, StoresAre DEF MatchesPlan
    <3>. QED  BY <1>2, <2>1, <3>1, ReadKnows
  <2>4. a \in Users => UseRelated(a)'
    BY <1>2, <1>3, <2>1, QuietIs, UserGoesOn DEF RestorePlace
  <2>5. a \notin Users => UpkeepRelated'
    BY <1>1, <1>2, <1>3, <2>1, QuietIs, UpkeepRestores DEF Inv, RestorePlace, U
  <2>6. \A b \in Users : b # a => Noticed(b)' /\ Serving(b)'
    BY <1>2, <2>1, QuietIs, OthersServed DEF ScanPlace
  <2>. QED  BY <1>2, <2>1, <2>2, <2>3, <2>4, <2>5, <2>6, MoverKeeps
<1>. QED  BY <1>4, <1>5

LEMMA RereadOriginalKeeps == ASSUME Inv, NEW a \in Actors, RereadOriginal(a) PROVE Inv'
<1>1. Typed /\ run[a].pc = "reread_original" /\ Planned(run[a].op) /\ DocWell /\ Shortened /\ RestoringOp
  BY DEF Inv, RereadOriginal, At, CallerRelated, StoresRelated
<1>2. Quiet /\ lock' = lock  BY DEF RereadOriginal, Quiet, stores, jobs, clock
<1>3. /\ run[a].op.kind = "restore" /\ (a \in Users => UseRelated(a))
      /\ a \notin Users => a = "upkeep" /\ U = run[a] /\ SameOp(op, run[a].op)
  BY <1>1, RestorerAt DEF RestorePlace, U
<1>4. Steps(a, run'[a]) /\ run'[a].doc = doc /\ run'[a].op = run[a].op /\ run'[a].pc = "original_done"
  BY <1>1, RereadOriginalGoes DEF Moves
<1>5. LockGoes(a)  BY <1>1, <1>2, <1>4 DEF LockGoes, LockedPlace, CleanPlace, FinishPlace
<1>6. doc.rev > 0 => doc.born >= run[a].op.born
  BY <1>1, StoresAre, CallerIs DEF Planned, Past, DocWell
<1>7. doc.rev > run[a].op.rev => ~doc.short
  <2>1. SUFFICES ASSUME doc.rev > run[a].op.rev, doc.short PROVE FALSE  OBVIOUS
  <2>2. doc.rev > 0 /\ ~MatchesSource(doc, run[a].op)
    BY <1>1, <2>1, StoresAre, CallerIs DEF MatchesSource
  <2>3. CASE a \in Users  BY <1>1, <1>3, <2>1, <2>2, <2>3 DEF UseRelated, Using, Warm, Shortened
  <2>4. CASE a \notin Users  BY <1>1, <1>3, <2>1, <2>2, <2>4 DEF RestoringOp, SameOp, MatchesSource
  <2>. QED  BY <2>3, <2>4
<1>8. CallerRelated(a)'  BY <1>2, <1>4, <1>6, <1>7, ReadKnows
<1>9. a \in Users => UseRelated(a)'
  BY <1>2, <1>3, <1>4, QuietIs, UserGoesOn DEF RestorePlace
<1>10. a \notin Users => UpkeepRelated'
  BY <1>1, <1>2, <1>3, <1>4, QuietIs, UpkeepRestores DEF Inv, RestorePlace, U
<1>11. \A b \in Users : b # a => Noticed(b)' /\ Serving(b)'
  BY <1>2, <1>4, QuietIs, OthersServed DEF ScanPlace
<1>. QED  BY <1>2, <1>4, <1>5, <1>8, <1>9, <1>10, <1>11, MoverKeeps

\* Who works on a retirement.
LEMMA RetirerAt ==
  ASSUME Inv, NEW a \in Actors, run[a].pc \in RetirePlace \ CleanPlace
  PROVE  a = "upkeep" /\ a \notin Users /\ U = run[a] /\ U.op.kind = "retire"
<1>1. a \notin Users  BY UserAt DEF Inv, UseRelated
<1>2. a = "upkeep" /\ U = run[a]  BY <1>1, ActorsAre DEF U
<1>. QED  BY <1>1, <1>2, UpkeepAt DEF Inv, UpkeepRelated

LEMMA ResumeRetireKeeps == ASSUME Inv, NEW a \in Actors, ResumeRetire(a) PROVE Inv'
<1>1. Typed /\ run[a].pc = "retire" /\ lock = "none" /\ Retiring /\ DocWell /\ Coherent
  BY DEF Inv, ResumeRetire, At, LockFree, StoresRelated
<1>2. Quiet  BY DEF ResumeRetire, Quiet, stores, jobs, clock
<1>3. a = "upkeep" /\ a \notin Users /\ U = run[a] /\ U.op.kind = "retire"
  BY <1>1, RetirerAt DEF RetirePlace, CleanPlace
<1>4. CASE Gone(a) /\ lock' = lock
  BY <1>1, <1>2, <1>4, GoneUnheld, GoneKeeps DEF LockedPlace, CleanPlace, FinishPlace
<1>5. CASE SameOp(op, U.op) /\ op.phase # "prepared" /\ Moves(a, Entry(op), U.doc, op) /\ lock' = lock
  <2>1. /\ Steps("upkeep", run'["upkeep"]) /\ U' = run'["upkeep"] /\ U'.pc = Entry(op) /\ U'.doc = U.doc /\ U'.op = op
        /\ op.kind = "retire" /\ op \in OpRecord /\ op.phase # "prepared"
    BY <1>1, <1>3, <1>5 DEF Moves, U, SameOp, Typed, StoresTyped
  <2>2. U'.pc \in {"retire_l2", "retire_state", "derived"}
    BY <1>5, <2>1, EntryPlaces DEF OpRecord, Phases
  <2>3. LockGoes("upkeep")  BY <1>1, <1>3, <1>5, <2>1, <2>2 DEF LockGoes, LockedPlace, CleanPlace, FinishPlace
  <2>4. UpkeepPlaced' /\ UpkeepDrives'
    BY <1>2, <2>1, <2>2, QuietIs
       DEF UpkeepPlaced, RetirePlace, AnyPlace, UpkeepDrives, ScanPlace, FinishPlace, CleanPlace, SameOp
  <2>5. Scanned' /\ Driven'  BY <2>1, <2>2 DEF Scanned, Driven, ScanPlace
  <2>6. CallerRelated("upkeep")'  BY <1>2, <2>1, <2>2, MovedKnows, ActorsAre DEF U
  <2>7. \A b \in Users : b # "upkeep" => Noticed(b)' /\ Serving(b)'
    BY <1>2, <2>1, <2>2, QuietIs, OthersServed, ActorsAre DEF U, ScanPlace
  <2>. QED  BY <1>2, <1>3, <2>1, <2>3, <2>4, <2>5, <2>6, <2>7, MoverKeeps DEF UpkeepRelated
<1>6. CASE /\ SameOp(op, U.op) /\ lock' = a
           /\ \E next \in {"delete_done", "delete", "clean_row", "clean_base"} :
                 /\ Moves(a, next, doc, U.op)
                 /\ next = "delete" => MatchesSource(doc, U.op)
                 /\ next # "delete" => ~MatchesSource(doc, U.op)
  <2>1. PICK next \in {"delete_done", "delete", "clean_row", "clean_base"} :
           /\ Moves(a, next, doc, U.op)
           /\ next = "delete" => MatchesSource(doc, U.op)
           /\ next # "delete" => ~MatchesSource(doc, U.op)
    BY <1>6
  <2>2. /\ Steps("upkeep", run'["upkeep"]) /\ U' = run'["upkeep"] /\ U'.pc = next /\ U'.doc = doc /\ U'.op = U.op
        /\ op.kind = "retire" /\ (next = "delete" => MatchesSource(doc, op))
        /\ next # "delete" => ~MatchesSource(doc, op)
    BY <1>3, <1>6, <2>1 DEF Moves, U, SameOp, MatchesSource
  <2>3. next # "delete" => ~doc.short
    BY <1>1, <2>2 DEF Retiring
  <2>4. LockGoes("upkeep")  BY <1>1, <1>3, <1>6, <2>1, <2>2 DEF LockGoes, LockedPlace, CleanPlace, FinishPlace
  <2>5. UpkeepPlaced' /\ UpkeepDrives'
    BY <1>2, <1>3, <1>6, <2>1, <2>2, <2>3, QuietIs
       DEF UpkeepPlaced, RetirePlace, UpkeepDrives, ScanPlace, FinishPlace, CleanPlace, SameOp, MatchesSource
  <2>6. Scanned' /\ Driven'  BY <1>2, <2>1, <2>2, QuietIs DEF Scanned, Driven, ScanPlace, MatchesSource
  <2>7. CallerRelated("upkeep")'  BY <1>2, <2>1, <2>2, MovedKnows, ActorsAre DEF U
  <2>8. \A b \in Users : b # "upkeep" => Noticed(b)' /\ Serving(b)'
    BY <1>2, <2>1, <2>2, QuietIs, OthersServed, ActorsAre DEF U, ScanPlace
  <2>. QED  BY <1>2, <1>3, <2>2, <2>4, <2>5, <2>6, <2>7, <2>8, MoverKeeps DEF UpkeepRelated
<1>7. op.kind # "none" => \/ Gone(a) /\ lock' = lock
                          \/ /\ SameOp(op, U.op) /\ op.phase # "prepared"
                             /\ Moves(a, Entry(op), U.doc, op) /\ lock' = lock
                          \/ /\ SameOp(op, U.op) /\ lock' = a
                             /\ \E next \in {"delete_done", "delete", "clean_row", "clean_base"} :
                                   /\ Moves(a, next, doc, U.op)
                                   /\ next = "delete" => MatchesSource(doc, U.op)
                                   /\ next # "delete" => ~MatchesSource(doc, U.op)
  <2>1. SUFFICES ASSUME op.kind # "none", ~(Gone(a) /\ lock' = lock),
                        ~(/\ SameOp(op, U.op) /\ op.phase # "prepared"
                          /\ Moves(a, Entry(op), U.doc, op) /\ lock' = lock)
                 PROVE  /\ SameOp(op, U.op) /\ lock' = a
                        /\ \E next \in {"delete_done", "delete", "clean_row", "clean_base"} :
                              /\ Moves(a, next, doc, U.op)
                              /\ next = "delete" => MatchesSource(doc, U.op)
                              /\ next # "delete" => ~MatchesSource(doc, U.op)
    OBVIOUS
  <2>2. /\ SameOp(op, U.op) /\ lock' = a
        /\ \/ doc.rev = 0 /\ Moves(a, "delete_done", doc, U.op)
           \/ MatchesSource(doc, U.op) /\ row.ret /\ Moves(a, "delete", doc, U.op)
           \/ MatchesSource(doc, U.op) /\ ~row.ret /\ Moves(a, "clean_base", doc, U.op)
           \/ /\ doc.rev # 0 /\ ~MatchesSource(doc, U.op)
              /\ \E next \in {"clean_row", "clean_base"} : Moves(a, next, doc, U.op)
    BY <1>1, <1>3, <2>1, ResumeRetireGoes
  <2>3. op.kind = "retire" /\ (MatchesSource(doc, U.op) <=> MatchesSource(doc, op))
    BY <1>3, <2>2 DEF SameOp, MatchesSource
  <2>4. MatchesSource(doc, U.op) => row.ret  BY <1>1, <2>3 DEF Retiring
  <2>5. doc.rev = 0 => ~MatchesSource(doc, U.op)  BY DEF MatchesSource
  <2>. QED  BY <2>2, <2>4, <2>5
<1>8. CASE op.kind = "none"
  <2>1. ~SameOp(op, U.op)  BY <1>3, <1>8 DEF SameOp
  <2>2. Leave(a) /\ lock' = lock  BY <1>3, <2>1 DEF ResumeRetire, U
  <2>3. Gone(a)  BY <1>1, <2>2, Leaving DEF Gone, Typed
  <2>. QED  BY <1>4, <2>2, <2>3
<1>. QED  BY <1>4, <1>5, <1>6, <1>7, <1>8

LEMMA StartFinishKeeps == ASSUME Inv, NEW a \in Actors, StartFinish(a) PROVE Inv'
<1>1. Typed /\ run[a].pc = "derived" /\ Planned(run[a].op)
  BY DEF Inv, StartFinish, At, CallerRelated
<1>2. Quiet  BY DEF StartFinish, Quiet, stores, jobs, clock
<1>3. CASE a \notin Users /\ Gone(a) /\ lock' = lock
  BY <1>1, <1>2, <1>3, GoneUnheld, GoneKeeps DEF LockedPlace, CleanPlace, FinishPlace
<1>4. CASE a \in Users /\ Moves(a, "return_restored", run[a].doc, run[a].op) /\ lock' = lock
  <2>1. /\ Steps(a, run'[a]) /\ run'[a].pc = "return_restored" /\ run'[a].doc = run[a].doc /\ run'[a].op = run[a].op
    BY <1>4 DEF Moves
  <2>2. UseRelated(a) /\ run[a].op.kind = "restore"
    BY <1>1, <1>4, UserAt DEF Inv, UseRelated, AnyPlace
  <2>3. run[a].op.phase # "prepared"  BY <1>1, <2>2 DEF UseRelated, Using
  <2>4. ~MatchesSource(doc, run[a].op)  BY <1>1, <2>2, <2>3 DEF Planned
  <2>5. LockGoes(a)  BY <1>1, <1>4, <2>1 DEF LockGoes, LockedPlace, CleanPlace, FinishPlace
  <2>6. UseRelated(a)'  BY <1>2, <1>4, <2>1, <2>2, <2>4, QuietIs, UserGoesOn
  <2>7. CallerRelated(a)'  BY <1>2, <2>1, MovedKnows
  <2>8. \A b \in Users : b # a => Noticed(b)' /\ Serving(b)'
    BY <1>2, <1>4, <2>1, QuietIs, OthersServed
  <2>. QED  BY <1>2, <1>4, <2>1, <2>5, <2>6, <2>7, <2>8, MoverKeeps
<1>5. CASE /\ a \notin Users /\ LockFree /\ lock' = a /\ SameOp(op, run[a].op) /\ op.phase = "derived"
           /\ Moves(a, FinishNext(op), run[a].doc, run[a].op)
  <2>1. a = "upkeep" /\ U = run[a]  BY <1>5, ActorsAre DEF U
  <2>2. U.op.kind # "none" /\ (U.op.kind = "compact" => op = U.op) /\ (U.op.kind = "restore" => SameOp(op, U.op))
    BY <1>1, <2>1, UpkeepAt DEF Inv, UpkeepRelated, UpkeepDrives, AnyPlace
  <2>3. /\ Steps("upkeep", run'["upkeep"]) /\ U' = run'["upkeep"] /\ U'.doc = U.doc /\ U'.op = U.op
        /\ op.kind = U.op.kind
        /\ U'.pc = IF op.kind = "compact" THEN "finish_op" ELSE "finish_base"
    BY <1>5, <2>1 DEF Moves, U, SameOp, FinishNext
  <2>4. op.kind \in {"compact", "restore", "retire"}  BY <1>1, <2>2, <2>3, StoresAre
  <2>5. LockGoes("upkeep")  BY <1>1, <1>5, <2>1, <2>3 DEF LockGoes, LockedPlace, CleanPlace, FinishPlace, LockFree
  <2>6. UpkeepPlaced' /\ UpkeepDrives'
    BY <1>2, <1>5, <2>2, <2>3, <2>4, QuietIs
       DEF UpkeepPlaced, UpkeepDrives, ScanPlace, FinishPlace, CleanPlace, SameOp
  <2>7. Scanned' /\ Driven'  BY <2>3 DEF Scanned, Driven, ScanPlace
  <2>8. CallerRelated("upkeep")'  BY <1>2, <2>3, MovedKnows, ActorsAre DEF U
  <2>9. \A b \in Users : b # "upkeep" => Noticed(b)' /\ Serving(b)'
    BY <1>2, <2>3, QuietIs, OthersServed, ActorsAre DEF U, ScanPlace
  <2>. QED  BY <1>2, <2>3, <2>5, <2>6, <2>7, <2>8, <2>9, ActorsAre, MoverKeeps DEF UpkeepRelated
<1>. QED  BY <1>1, <1>3, <1>4, <1>5, StartFinishGoes

----------------------------------------------------------------------------
(* A use.                                                                  *)

LEMMA StartUseKeeps == ASSUME Inv, NEW a \in Users, StartUse(a) PROVE Inv'
<1>1. Typed /\ run[a].pc = "idle" /\ doc.rev > 0 /\ UseRelated(a) /\ a \in Actors
  BY ActorsAre DEF Inv, StartUse, At
<1>2. Quiet /\ lock' = lock  BY DEF StartUse, Quiet, stores, jobs
<1>3. run[a] = Idle /\ run[a].op = NoOp  BY <1>1, UserAt, NothingIs DEF UseRelated
<1>4. Steps(a, run'[a]) /\ run'[a].pc = "use" /\ run'[a].doc = doc /\ run'[a].op = NoOp
  BY <1>1, <1>3, StartUseGoes DEF Moves
<1>5. LockGoes(a)  BY <1>1, <1>2, <1>4 DEF LockGoes, LockedPlace, CleanPlace, FinishPlace
<1>6. UseRelated(a)'
  BY <1>1, <1>2, <1>4, QuietIs, NothingIs
     DEF UseRelated, UserPlaced, UserDrives, Using, Noticed, Serving, UsePlace, CleanPlace
<1>7. CallerRelated(a)'  BY <1>1, <1>2, <1>3, <1>4, MovedKnows
<1>8. \A b \in Users : b # a => Noticed(b)' /\ Serving(b)'
  BY <1>1, <1>2, <1>4, QuietIs, OthersServed
<1>. QED  BY <1>1, <1>2, <1>4, <1>5, <1>6, <1>7, <1>8, MoverKeeps

LEMMA LockUseKeeps == ASSUME Inv, NEW a \in Users, LockUse(a) PROVE Inv'
<1>1. Typed /\ run[a].pc = "use" /\ UseRelated(a) /\ a \in Actors /\ lock = "none"
  BY ActorsAre DEF Inv, LockUse, At, LockFree
<1>2. Quiet /\ lock' = a  BY DEF LockUse, Quiet, stores, jobs, clock
<1>3. run[a].op.kind = "none" /\ run[a].doc.rev > 0
  BY <1>1, UserAt DEF UseRelated, UsePlace, Using
<1>4. Steps(a, run'[a]) /\ run'[a].pc = "check_use" /\ run'[a].doc = run[a].doc /\ run'[a].op = run[a].op
  BY <1>1, LockUseGoes DEF Moves
<1>5. LockGoes(a)  BY <1>1, <1>2, <1>4 DEF LockGoes, LockedPlace
<1>6. UseRelated(a)'
  BY <1>1, <1>2, <1>3, <1>4, QuietIs
     DEF UseRelated, UserPlaced, UserDrives, Using, Noticed, Serving, UsePlace, CleanPlace
<1>7. CallerRelated(a)'  BY <1>1, <1>2, <1>4, MovedKnows
<1>8. \A b \in Users : b # a => Noticed(b)' /\ Serving(b)'
  BY <1>1, <1>2, <1>4, QuietIs, OthersServed
<1>. QED  BY <1>1, <1>2, <1>4, <1>5, <1>6, <1>7, <1>8, MoverKeeps

LEMMA CheckUseKeeps == ASSUME Inv, NEW a \in Users, CheckUse(a) PROVE Inv'
<1>1. Typed /\ run[a].pc = "check_use" /\ UseRelated(a) /\ a \in Actors /\ Locked
        /\ DocWell /\ Coherent /\ Planned(op) /\ Retiring /\ RestoringOp /\ Published
  BY ActorsAre DEF Inv, StoresRelated, CheckUse, At
<1>2. Quiet  BY DEF CheckUse, Quiet, stores, jobs, clock
<1>3. run[a].op.kind = "none" /\ run[a].doc.rev > 0 /\ lock = a
  BY <1>1, UserAt DEF UseRelated, UsePlace, Using, Locked, LockedPlace
<1>4. CASE Gone(a) /\ lock' = "none"
  <2>1. LockGoes(a)  BY <1>3, <1>4, GoneUnlocked, NothingIs DEF LockGoes, Gone, Steps
  <2>. QED  BY <1>1, <1>2, <1>4, <2>1, GoneKeeps
<1>5. CASE /\ doc = run[a].doc /\ lock' = lock
           /\ ~(op.kind = "retire" /\ ~MatchesSource(doc, op)) /\ ~UseBlocked
           /\ Moves(a, "check_row", run[a].doc, run[a].op)
  <2>1. Steps(a, run'[a]) /\ run'[a].pc = "check_row" /\ run'[a].doc = doc /\ run'[a].op = run[a].op
    BY <1>5 DEF Moves
  <2>2. LockGoes(a)  BY <1>1, <1>5, <2>1 DEF LockGoes, LockedPlace
  <2>3. op = NoOp \/ (op.kind = "restore" /\ op.phase = "derived")  BY <1>5 DEF UseBlocked
  <2>4. op.kind \notin {"compact", "retire"}  BY <2>3, NothingIs
  <2>5. UserPlaced(a)' /\ UserDrives(a)'
    BY <1>2, <1>3, <2>1, <2>4, QuietIs DEF UserPlaced, UserDrives, UsePlace, CleanPlace
  <2>6. Using(a)' /\ Noticed(a)'
    BY <1>2, <1>3, <1>5, <2>1, QuietIs DEF Using, Noticed, UsePlace, CleanPlace, Same
  <2>7. doc.short => op = NoOp /\ RowOf(doc) /\ row.comp
    BY <1>1, <2>3, <2>4 DEF Planned, RestoringOp, Published
  <2>8. ASSUME NEW c \in Actors, run'[c].pc = "restore_l2", run'[c].op.born = doc.born
        PROVE  run'[c].op.tgt <= doc.rev
    <3>1. run'[c] = run[c] /\ Planned(run[c].op)  BY <2>1, <2>8 DEF Steps, Inv, CallerRelated
    <3>. QED  BY <1>1, <1>3, <1>5, <2>8, <3>1 DEF Planned, Past, DocWell
  <2>9. U' = U /\ ~Newer(U.doc, doc)
    <3>1. U' = U  BY <2>1, ActorsAre DEF Steps, U
    <3>2. Past(U.doc.rev, U.doc.born)  BY ActorsAre DEF Inv, CallerRelated, Copied, U
    <3>3. U.doc.rev \in Nat /\ U.doc.born \in Nat  BY <1>1, ActorsAre, CallerIs DEF U
    <3>. QED  BY <1>1, <1>3, <1>5, <3>1, <3>2, <3>3, StoresAre DEF Past, Newer, DocWell
  <2>10. Serving(a)'
    BY <1>2, <2>1, <2>7, <2>8, <2>9, QuietIs DEF Serving, RowOf, Newer, Deleted
  <2>11. CallerRelated(a)'  BY <1>1, <1>2, <2>1, MovedKnows
  <2>12. \A b \in Users : b # a => Noticed(b)' /\ Serving(b)'
    BY <1>1, <1>2, <2>1, QuietIs, OthersServed
  <2>13. UseRelated(a)'  BY <2>5, <2>6, <2>10 DEF UseRelated
  <2>. QED  BY <1>1, <1>2, <2>1, <2>2, <2>11, <2>12, <2>13, MoverKeeps
<1>6. CASE /\ doc = run[a].doc /\ lock' = lock
           /\ op.kind = "retire" /\ ~MatchesSource(doc, op)
           /\ \E next \in {"clean_row", "clean_base"} : Moves(a, next, run[a].doc, run[a].op)
  <2>1. PICK next \in {"clean_row", "clean_base"} : Moves(a, next, run[a].doc, run[a].op)
    BY <1>6
  <2>2. Steps(a, run'[a]) /\ run'[a].pc = next /\ run'[a].doc = doc /\ run'[a].op = run[a].op
    BY <1>6, <2>1 DEF Moves
  <2>3. LockGoes(a)  BY <1>1, <1>6, <2>1, <2>2 DEF LockGoes, LockedPlace, CleanPlace
  <2>4. ~doc.short  BY <1>1, <1>6 DEF Retiring
  <2>5. UseRelated(a)'
    BY <1>2, <1>3, <1>6, <2>1, <2>2, <2>4, QuietIs
       DEF UseRelated, UserPlaced, UserDrives, Using, Noticed, Serving, UsePlace, CleanPlace, MatchesSource, Same
  <2>6. CallerRelated(a)'  BY <1>1, <1>2, <2>1, <2>2, MovedKnows
  <2>7. \A b \in Users : b # a => Noticed(b)' /\ Serving(b)'
    BY <1>1, <1>2, <2>1, <2>2, QuietIs, OthersServed
  <2>. QED  BY <1>1, <1>2, <2>2, <2>3, <2>5, <2>6, <2>7, MoverKeeps
<1>. QED  BY <1>1, <1>4, <1>5, <1>6, CheckUseGoes

LEMMA CheckRowKeeps == ASSUME Inv, NEW a \in Users, CheckRow(a) PROVE Inv'
<1>1. Typed /\ run[a].pc = "check_row" /\ UseRelated(a) /\ Copied(a) /\ a \in Actors /\ Locked
        /\ DocWell /\ Shortened /\ Published
  BY ActorsAre DEF Inv, StoresRelated, CallerRelated, CheckRow, At
<1>2. Quiet  BY DEF CheckRow, Quiet, stores, jobs, clock
<1>3. /\ run[a].op.kind = "none" /\ run[a].doc.rev > 0 /\ lock = a
      /\ op.kind \notin {"compact", "retire"} /\ (doc.rev > 0 /\ ~Same(doc, run[a].doc) => Warm)
      /\ run[a].doc.short => Deleted \/ (RowOf(run[a].doc) /\ row.comp)
  BY <1>1, UserAt DEF UseRelated, UserDrives, UsePlace, Using, Serving, Locked, LockedPlace
<1>4. Same(doc, run[a].doc) => doc = run[a].doc  BY <1>1, <1>3 DEF Copied, Same
<1>5. CASE Gone(a) /\ lock' = "none"
  <2>1. LockGoes(a)  BY <1>3, <1>5, GoneUnlocked, NothingIs DEF LockGoes, Gone, Steps
  <2>. QED  BY <1>1, <1>2, <1>5, <2>1, GoneKeeps
<1>6. CASE /\ RowOf(run[a].doc) /\ row.comp /\ ForCompacted(run[a].doc) /\ lock' = "none"
           /\ \E o \in OpRecord : /\ o.kind = "none" /\ o.plan = base.k /\ o.rev = 0 /\ o.born = 0 /\ o.tgt = 0
                                  /\ Steps(a, run'[a])
                                  /\ run'[a].pc = "prepare_restore" /\ run'[a].doc = run[a].doc
                                  /\ run'[a].op = o
  <2>1. /\ Steps(a, run'[a]) /\ run'[a].pc = "prepare_restore" /\ run'[a].doc = run[a].doc
        /\ run'[a].op.kind = "none" /\ run'[a].op.plan = base.k /\ run'[a].op.rev = 0 /\ run'[a].op.born = 0
        /\ run'[a].op.tgt = 0
    BY <1>6
  <2>2. LockGoes(a)  BY <1>3, <1>6, <2>1 DEF LockGoes, LockedPlace, CleanPlace, FinishPlace
  <2>3. Same(doc, run[a].doc) => base.k = doc.k /\ doc.short
    BY <1>1, <1>3, <1>4, <1>6 DEF Shortened, Published
  <2>4. UseRelated(a)'
    BY <1>2, <1>3, <2>1, <2>3, QuietIs
       DEF UseRelated, UserPlaced, UserDrives, Using, Noticed, Serving, UsePlace, CleanPlace, Same, Warm
  <2>5. CallerRelated(a)'
    <3>1. Copied(a)'  BY <1>1, <1>2, <2>1, QuietIs DEF Copied, Past, Same
    <3>2. Planned(run[a].op)'
      BY <1>1, <1>2, <2>1, QuietIs, StoresAre DEF Planned, Past, MatchesSource, MatchesTarget
    <3>3. Restoring(a)'  BY <2>1 DEF Restoring
    <3>. QED  BY <3>1, <3>2, <3>3 DEF CallerRelated
  <2>6. \A b \in Users : b # a => Noticed(b)' /\ Serving(b)'
    BY <1>1, <1>2, <2>1, QuietIs, OthersServed
  <2>. QED  BY <1>1, <1>2, <2>1, <2>2, <2>4, <2>5, <2>6, MoverKeeps
<1>7. CASE /\ ~(RowOf(run[a].doc) /\ row.comp) /\ lock' = lock
           /\ Moves(a, "record_use", run[a].doc, run[a].op)
  <2>1. Steps(a, run'[a]) /\ run'[a].pc = "record_use" /\ run'[a].doc = run[a].doc /\ run'[a].op = run[a].op
    BY <1>7 DEF Moves
  <2>2. LockGoes(a)  BY <1>1, <1>7, <2>1 DEF LockGoes, LockedPlace
  <2>3. ~doc.short
    <3>1. CASE Same(doc, run[a].doc)  BY <1>1, <1>3, <1>4, <1>7, <3>1 DEF Published
    <3>2. CASE doc.rev > 0 /\ ~Same(doc, run[a].doc)
      BY <1>1, <1>3, <3>2 DEF Shortened, Warm
    <3>3. CASE ~(doc.rev > 0)  BY <1>1, <3>3, StoresAre, NothingIs DEF DocWell
    <3>. QED  BY <3>1, <3>2, <3>3
  <2>4. UseRelated(a)'
    BY <1>2, <1>3, <1>7, <2>1, <2>3, QuietIs
       DEF UseRelated, UserPlaced, UserDrives, Using, Noticed, Serving, Deleted, UsePlace, CleanPlace
  <2>5. CallerRelated(a)'  BY <1>1, <1>2, <2>1, MovedKnows
  <2>6. \A b \in Users : b # a => Noticed(b)' /\ Serving(b)'
    BY <1>1, <1>2, <2>1, QuietIs, OthersServed
  <2>. QED  BY <1>1, <1>2, <2>1, <2>2, <2>4, <2>5, <2>6, MoverKeeps
<1>. QED  BY <1>1, <1>5, <1>6, <1>7, CheckRowGoes

LEMMA StopKeeps == ASSUME Inv, NEW a \in Actors, Stop(a) PROVE Inv'
<1>1. Gone(a) /\ Quiet /\ lock' = IF lock = a THEN "none" ELSE lock
  BY StopGoes DEF Inv, Stop, Quiet, stores, jobs
<1>2. lock = a <=> run[a].pc \in LockedPlace  BY DEF Inv, Locked
<1>3. LockGoes(a)  BY <1>1, <1>2, GoneUnlocked, NothingIs DEF LockGoes, Gone, Steps
<1>. QED  BY <1>1, <1>3, GoneKeeps

----------------------------------------------------------------------------
(* Steps that write the recovery baseline.                                 *)

\* What may go wrong when the baseline is written.
LEMMA BaseStepKeeps ==
  ASSUME Inv, NEW a \in Actors, Steps(a, run'[a]), LockGoes(a),
         UNCHANGED <<doc, row, op, owed, k, born, contents, idle>>, served' \subseteq BOOLEAN,
         base' \in BaseRecord,
         base'.rev = 0 => base' = NoBase, base'.act > 0 => base'.act > base'.rev,
         BasePast', Compacting', Published', Shortened', ServedOriginals',
         UpkeepRelated', CallerRelated(a)', a \in Users => UseRelated(a)',
         \A b \in Users : b # a => Noticed(b)' /\ Serving(b)'
  PROVE  Inv'
<1>1. Typed'
  <2>1. lock' \in Actors \cup {"none"}  BY LockedKept DEF Inv
  <2>. QED  BY <2>1 DEF Inv, Typed, StoresTyped, CountsTyped, Steps
<1>2. StoresRelated'
  <2>. USE DEF Inv, StoresRelated
  <2>1. DocWell' /\ Coherent'  BY DEF DocWell, Coherent
  <2>2. Planned(op)'  BY DEF Planned, Past, MatchesSource, MatchesTarget
  <2>3. RowPast'  BY DEF RowPast, Past
  <2>4. Retiring' /\ RestoringOp'  BY DEF Retiring, RestoringOp, MatchesSource, RowOf
  <2>5. FreshRow' /\ Candidates'  BY DEF FreshRow, Candidates, RowOf, Activity
  <2>. QED  BY <2>1, <2>2, <2>3, <2>4, <2>5
<1>3. \A b \in Actors : b # a => run'[b] = run[b]  BY DEF Steps
<1>4. \A b \in Actors : CallerRelated(b)'  BY <1>3, CallerKept DEF Inv
<1>5. \A b \in Users : UseRelated(b)'
  <2>1. ASSUME NEW b \in Users, b # a PROVE UseRelated(b)'
    BY <1>3, <2>1, ActorsAre, UseKept DEF Inv, UseRelated
  <2>. QED  BY <2>1
<1>6. Locked'  BY LockedKept DEF Inv
<1>. QED  BY <1>1, <1>2, <1>4, <1>5, <1>6 DEF Inv

\* A caller that moves on with the documents it has, and writes neither the document nor the operation.
LEMMA CallerMoves ==
  ASSUME NEW a \in Actors, CallerRelated(a), run'[a].doc = run[a].doc, run'[a].op = run[a].op,
         run'[a].pc \notin {"commit_original", "original_done"}, UNCHANGED <<doc, born, op>>
  PROVE  CallerRelated(a)'
<1>1. Copied(a)'  BY DEF CallerRelated, Copied, Past, Same
<1>2. Planned(run[a].op)'  BY DEF CallerRelated, Planned, Past, MatchesSource, MatchesTarget
<1>3. Restoring(a)'  BY DEF CallerRelated, Restoring, MatchesSource, SameOp
<1>. QED  BY <1>1, <1>2, <1>3 DEF CallerRelated

\* Where upkeep is busy with a compaction.
LEMMA CompacterAt ==
  ASSUME Inv, NEW a \in Actors, run[a].pc \in CompactPlace
  PROVE  a = "upkeep" /\ a \notin Users /\ U = run[a] /\ op = U.op /\ op.kind = "compact"
<1>1. a \notin Users  BY UserAt DEF Inv, UseRelated
<1>2. a = "upkeep" /\ U = run[a]  BY <1>1, ActorsAre DEF U
<1>. QED  BY <1>1, <1>2, UpkeepAt DEF Inv, UpkeepRelated, UpkeepDrives

LEMMA SaveBaselineKeeps == ASSUME Inv, SaveBaseline PROVE Inv'
<1>. DEFINE d == U.doc
            current == base.rev > 0 /\ base.born = d.born
<1>1. Typed /\ U.pc = "save" /\ Coherent /\ CallerRelated("upkeep") /\ UpkeepRelated /\ BasePast /\ Shortened /\ DocWell
  BY ActorsAre DEF Inv, StoresRelated, SaveBaseline, At, U
<1>2. UNCHANGED <<doc, row, op, owed, k, born, contents, idle, served>> /\ lock' = lock
  BY DEF SaveBaseline, jobs, clock
<1>3. CASE Gone("upkeep") /\ base' = base
  <2>1. Quiet  BY <1>2, <1>3 DEF Quiet
  <2>. QED  BY <1>1, <1>2, <1>3, <2>1, ActorsAre, GoneUnheld, GoneKeeps DEF LockedPlace, CleanPlace, FinishPlace, U
<1>4. CASE ~(Gone("upkeep") /\ base' = base)
  <2>1. /\ Steps("upkeep", run'["upkeep"]) /\ U' = run'["upkeep"] /\ U'.pc = "prepare_compact"
        /\ U'.doc = d /\ U'.op = U.op /\ U'.ver = U.ver
    BY <1>1, <1>4, SaveBaselineGoes DEF Moves, U
  <2>2. /\ d.rev > 0 /\ U.op = NoOp /\ op.kind \in {"none", "restore"} /\ ~d.short /\ ~doc.short
        /\ Same(doc, d) => U.ver <= row.ver /\ (row.ver = U.ver => idle >= 1)
    BY <1>1, UpkeepAt DEF UpkeepRelated, Scanned, UpkeepDrives, ScanPlace
  <2>3. base' = IF current /\ base.rev = d.rev THEN base ELSE SavedBase(d)
    <3>1. U.pc # "idle" /\ U'.pc # "idle"  BY <1>1, <2>1
    <3>2. ~Leave("upkeep")
      BY <1>1, <2>1, NothingIs, ActorsAre, Leaving DEF Typed, Steps, U
    <3>. QED  BY <3>2 DEF SaveBaseline, U
  <2>4. d \in DocRecord /\ d.rev \in Nat /\ d.born \in Nat /\ d.k \in 0..MaxK /\ d.age \in Ages /\ d.born \in 0..MaxBorn
    BY <1>1, ActorsAre, CallerIs DEF U, DocRecord
  <2>5. /\ SavedBase(d) \in BaseRecord /\ SavedBase(d).rev = d.rev /\ SavedBase(d).born = d.born
        /\ SavedBase(d).k = d.k /\ SavedBase(d).age = d.age /\ SavedBase(d).act = 0
    BY <2>4 DEF SavedBase, BaseRecord
  <2>6. /\ Same(doc, d) => doc = d
        /\ Past(d.rev, d.born)
    BY <1>1, <2>2 DEF CallerRelated, Copied, Same, U
  <2>7. Past(0, d.born)  BY <1>1, <2>6, StoresAre DEF Past
  <2>. HIDE DEF d
  <2>8. /\ base' \in BaseRecord /\ base'.rev = d.rev /\ base'.born = d.born /\ base'.rev # 0
        /\ base'.act > 0 => base'.act > base'.rev
        /\ Same(base', doc) => base'.k = doc.k /\ base'.age = doc.age
        /\ Past(base'.rev, base'.born) /\ Past(base'.act, base'.born)
        /\ base'.act > 0 => base' = base
    <3>1. CASE current /\ base.rev = d.rev
      BY <1>1, <2>2, <2>3, <2>4, <3>1 DEF Typed, StoresTyped, Coherent, BasePast
    <3>2. CASE ~(current /\ base.rev = d.rev)
      BY <2>2, <2>3, <2>4, <2>5, <2>6, <2>7, <3>2 DEF Same
    <3>. QED  BY <3>1, <3>2
  <2>9. BasePast' /\ Compacting' /\ Published'
    BY <1>2, <2>2, <2>8 DEF BasePast, Compacting, Published, Past, Same
  <2>10. Shortened'
    BY <1>1, <1>2, <2>8 DEF Shortened, ForCompacted
  <2>11. ServedOriginals' /\ served' \subseteq BOOLEAN
    BY <1>2 DEF Inv, StoresRelated, ServedOriginals, Deleted, Typed, CountsTyped
  <2>12. UpkeepPlaced' /\ UpkeepDrives'
    BY <1>2, <2>1, <2>2, NothingIs DEF UpkeepPlaced, UpkeepDrives, ScanPlace, FinishPlace, CleanPlace
  <2>13. Scanned' /\ Driven'
    BY <1>2, <2>1, <2>2, <2>6, <2>8, NothingIs DEF Scanned, Driven, ScanPlace, Same
  <2>14. CallerRelated("upkeep")'  BY <1>1, <1>2, <2>1, ActorsAre, CallerMoves DEF U, d
  <2>15. ASSUME NEW b \in Users PROVE Noticed(b)' /\ Serving(b)'
    <3>1. run'[b] = run[b] /\ UseRelated(b) /\ b # "upkeep" /\ "upkeep" \in Actors
      BY <2>1, ActorsAre DEF Steps, Inv
    <3>2. Noticed(b)'  BY <1>1, <1>2, <2>1, <3>1, NoticedKept DEF d
    <3>3. Serving(b)'  BY <1>1, <1>2, <2>1, <3>1, ServingKept DEF ScanPlace, U, d
    <3>. QED  BY <3>2, <3>3
  <2>16. LockGoes("upkeep")  BY <1>1, <1>2, <2>1 DEF LockGoes, LockedPlace, CleanPlace, FinishPlace, U
  <2>17. UpkeepRelated'  BY <2>12, <2>13 DEF UpkeepRelated
  <2>. QED
    BY <1>2, <2>1, <2>8, <2>9, <2>10, <2>11, <2>14, <2>15, <2>16, <2>17, ActorsAre, BaseStepKeeps
<1>. QED  BY <1>3, <1>4

\* Binding the baseline to the short text.
LEMMA BoundBase ==
  ASSUME Compacting, UNCHANGED <<doc, row, op, idle>>, op.kind = "compact",
         base.rev = op.rev, base.born = op.born,
         base'.rev = base.rev, base'.born = base.born, base'.k = base.k, base'.age = base.age,
         base'.act = op.rev + 1
  PROVE  Compacting'
<1>1. doc' = doc /\ row' = row /\ op' = op /\ idle' = idle  OBVIOUS
<1>2. BaseFor(op) => BaseFor(op)'  BY <1>1 DEF BaseFor
<1>3. base'.rev = op'.rev /\ base'.born = op'.born  BY <1>1
<1>4. MatchesSource(doc, op)' =>
        /\ BaseFor(op)' \/ row'.ver > op'.ver
        /\ op'.ver <= row'.ver
        /\ row'.ver = op'.ver => idle' >= 1
  BY <1>1, <1>2 DEF Compacting, MatchesSource
<1>5. doc'.short =>
        /\ doc'.rev = op'.rev + 1 /\ doc'.born = op'.born /\ doc'.k = op'.plan /\ BaseFor(op)'
        /\ RowOf(doc)' /\ row'.comp => base'.act = doc'.rev
        /\ op'.phase \in {"prepared", "l2"} => LesserAge(base'.age, LesserAge(row'.use, row'.act)) <= idle'
        /\ op'.phase \in {"state", "derived"} => RowOf(doc)' /\ row'.comp
  BY <1>1, <1>2 DEF Compacting, RowOf
<1>. QED  BY <1>3, <1>4, <1>5 DEF Compacting

\* The short text gets its baseline.
LEMMA ActivateBaseKeeps == ASSUME Inv, NEW a \in Actors, ActivateBase(a) PROVE Inv'
<1>1. Typed /\ run[a].pc = "activate" /\ Coherent /\ BasePast /\ Compacting /\ Planned(op) /\ ServedOriginals
  BY DEF Inv, StoresRelated, ActivateBase, At
<1>2. UNCHANGED <<doc, row, op, owed, k, born, contents, idle, served>> /\ lock' = lock
  BY DEF ActivateBase, jobs, clock
<1>3. a = "upkeep" /\ a \notin Users /\ U = run[a] /\ op = U.op /\ op.kind = "compact"
  BY <1>1, CompacterAt DEF CompactPlace
<1>4. CASE Gone(a) /\ base' = base
  <2>1. Quiet  BY <1>2, <1>4 DEF Quiet
  <2>. QED  BY <1>1, <1>2, <1>4, <2>1, GoneUnheld, GoneKeeps DEF LockedPlace, CleanPlace, FinishPlace
<1>5. CASE ~(Gone(a) /\ base' = base)
  <2>1. /\ Steps("upkeep", run'["upkeep"]) /\ U' = run'["upkeep"] /\ U'.pc = "short_done"
        /\ U'.doc = U.doc /\ U'.op = U.op
        /\ base.rev # 0 /\ base.born = op.born /\ base' = [base EXCEPT !.act = U.doc.rev]
    BY <1>1, <1>3, <1>5, ActivateBaseGoes DEF Moves, U
  <2>2. MatchesPlan(U.doc, U.op) /\ CallerRelated("upkeep")
    BY <1>1, <1>3, ActorsAre DEF Inv, UpkeepRelated, Driven
  <2>3. U.doc.rev = op.rev + 1 /\ U.doc.born = op.born /\ U.doc.short
    BY <1>3, <2>2 DEF MatchesPlan
  <2>4. base.rev = op.rev  BY <1>1, <1>3, <2>1, NothingIs DEF Compacting
  <2>5. base \in BaseRecord /\ U.doc.rev \in Nat
    BY <1>1, ActorsAre, CallerIs DEF Typed, StoresTyped, U
  <2>6. /\ base' \in BaseRecord /\ base'.rev = base.rev /\ base'.born = base.born /\ base'.k = base.k
        /\ base'.age = base.age /\ base'.act = op.rev + 1
    BY <2>1, <2>3, <2>5 DEF BaseRecord
  <2>7. base'.act > base'.rev /\ base'.rev # 0  BY <1>1, <2>1, <2>4, <2>6, StoresAre
  <2>8. BasePast'
    <3>1. Past(U.doc.rev, U.doc.born)  BY <2>2 DEF CallerRelated, Copied, U
    <3>2. Past(op.rev + 1, op.born)  BY <2>3, <3>1
    <3>. QED  BY <1>1, <1>2, <2>1, <2>6, <3>2 DEF BasePast, Past, Same
  <2>9. Compacting'  BY <1>1, <1>2, <1>3, <2>1, <2>4, <2>6, BoundBase
  <2>10. Published' /\ ServedOriginals'
    BY <1>1, <1>2, <1>3 DEF Published, ServedOriginals, Deleted
  <2>11. Shortened'
    <3>1. doc.rev = op.rev + 1 /\ doc.born = op.born => doc.short
      <4>1. Copied("upkeep") /\ U.doc.rev > 0  BY <1>1, <2>2, <2>3, StoresAre DEF CallerRelated
      <4>2. U.doc.rev = doc.rev /\ U.doc.born = doc.born => U.doc = doc
        BY <4>1 DEF Copied, Same, U
      <4>. QED  BY <2>3, <4>2
    <3>. QED  BY <1>2, <2>1, <2>6, <3>1 DEF Inv, StoresRelated, Shortened, ForCompacted
  <2>12. UpkeepRelated'
    <3>1. UpkeepPlaced' /\ UpkeepDrives'
      BY <1>2, <1>3, <2>1 DEF UpkeepPlaced, CompactPlace, UpkeepDrives, ScanPlace, FinishPlace, CleanPlace
    <3>2. Scanned'  BY <2>1 DEF Scanned, ScanPlace
    <3>3. doc.short => doc.rev = op.rev + 1  BY <1>1, <1>3 DEF Compacting
    <3>4. Driven'  BY <1>2, <2>1, <2>2, <2>6, <3>3 DEF Driven, MatchesPlan
    <3>. QED  BY <3>1, <3>2, <3>4 DEF UpkeepRelated
  <2>13. CallerRelated("upkeep")'  BY <1>2, <2>1, <2>2, ActorsAre, CallerMoves DEF U
  <2>14. \A b \in Users : b # "upkeep" => Noticed(b)' /\ Serving(b)'
    BY <1>2, <2>1, OthersServed, ActorsAre DEF U, ScanPlace
  <2>15. LockGoes("upkeep")  BY <1>1, <1>2, <1>3, <2>1 DEF LockGoes, LockedPlace, CleanPlace, FinishPlace
  <2>16. served' \subseteq BOOLEAN  BY <1>1, <1>2 DEF Typed, CountsTyped
  <2>. QED
    BY <1>2, <1>3, <2>1, <2>6, <2>7, <2>8, <2>9, <2>10, <2>11, <2>12, <2>13, <2>14, <2>15, <2>16, BaseStepKeeps
<1>. QED  BY <1>4, <1>5

LEMMA CheckShortKeeps == ASSUME Inv, NEW a \in Actors, CheckShort(a) PROVE Inv'
<1>1. Typed /\ run[a].pc = "compact_l2" /\ Coherent /\ BasePast /\ Compacting /\ Planned(op) /\ ServedOriginals
        /\ DocWell
  BY DEF Inv, StoresRelated, CheckShort, At
<1>2. UNCHANGED <<doc, row, op, owed, k, born, contents, idle, served>> /\ lock' = lock
  BY DEF CheckShort, jobs, clock
<1>3. a = "upkeep" /\ a \notin Users /\ U = run[a] /\ op = U.op /\ op.kind = "compact"
  BY <1>1, CompacterAt DEF CompactPlace
<1>4. CASE Gone(a) /\ base' = base
  <2>1. Quiet  BY <1>2, <1>4 DEF Quiet
  <2>. QED  BY <1>1, <1>2, <1>4, <2>1, GoneUnheld, GoneKeeps DEF LockedPlace, CleanPlace, FinishPlace
<1>5. CASE ~(Gone(a) /\ base' = base)
  <2>1. /\ Steps("upkeep", run'["upkeep"]) /\ U' = run'["upkeep"] /\ U'.pc = "publish"
        /\ U'.doc = doc /\ U'.op = op /\ MatchesTarget(doc, op)
        /\ base.rev # 0 /\ base.born = op.born /\ base' = [base EXCEPT !.act = doc.rev]
    BY <1>1, <1>3, <1>5, CheckShortGoes DEF Moves, U
  <2>2. doc.rev = op.rev + 1 /\ doc.born = op.born /\ doc.short
    BY <1>1, <1>3, <2>1 DEF Planned, MatchesTarget
  <2>4. base.rev = op.rev  BY <1>1, <1>3, <2>1, NothingIs DEF Compacting
  <2>5. base \in BaseRecord  BY <1>1 DEF Typed, StoresTyped
  <2>6. /\ base' \in BaseRecord /\ base'.rev = base.rev /\ base'.born = base.born /\ base'.k = base.k
        /\ base'.age = base.age /\ base'.act = doc.rev
    BY <1>1, <2>1, <2>5, StoresAre DEF BaseRecord
  <2>7. base'.act > base'.rev /\ base'.rev # 0  BY <1>1, <2>1, <2>2, <2>4, <2>6, StoresAre
  <2>8. BasePast'
    BY <1>1, <1>2, <2>1, <2>2, <2>6, StoresAre DEF BasePast, Past, Same, DocWell
  <2>9. Compacting'  BY <1>1, <1>2, <1>3, <2>1, <2>2, <2>4, <2>6, BoundBase
  <2>10. Published' /\ ServedOriginals'
    BY <1>1, <1>2, <1>3 DEF Published, ServedOriginals, Deleted
  <2>11. Shortened'  BY <1>2, <2>2 DEF Inv, StoresRelated, Shortened
  <2>12. UpkeepRelated'
    <3>1. UpkeepPlaced' /\ UpkeepDrives'
      BY <1>2, <1>3, <2>1 DEF UpkeepPlaced, CompactPlace, UpkeepDrives, ScanPlace, FinishPlace, CleanPlace
    <3>2. Scanned'  BY <2>1 DEF Scanned, ScanPlace
    <3>3. Driven'  BY <1>2, <2>1 DEF Driven, MatchesTarget
    <3>. QED  BY <3>1, <3>2, <3>3 DEF UpkeepRelated
  <2>13. CallerRelated("upkeep")'
    <3>1. Planned(U.op)'  BY <1>1, <1>2, <2>1 DEF Planned, Past, MatchesSource, MatchesTarget
    <3>2. Copied("upkeep")'  BY <1>1, <1>2, <2>1, <2>2, StoresAre DEF Copied, Past, Same, U, DocWell
    <3>3. Restoring("upkeep")'  BY <1>3, <2>1 DEF Restoring, U
    <3>. QED  BY <3>1, <3>2, <3>3 DEF CallerRelated, U
  <2>14. \A b \in Users : b # "upkeep" => Noticed(b)' /\ Serving(b)'
    BY <1>2, <2>1, OthersServed, ActorsAre DEF U, ScanPlace
  <2>15. LockGoes("upkeep")  BY <1>1, <1>2, <1>3, <2>1 DEF LockGoes, LockedPlace, CleanPlace, FinishPlace
  <2>16. served' \subseteq BOOLEAN  BY <1>1, <1>2 DEF Typed, CountsTyped
  <2>. QED
    BY <1>2, <1>3, <2>1, <2>6, <2>7, <2>8, <2>9, <2>10, <2>11, <2>12, <2>13, <2>14, <2>15, <2>16, BaseStepKeeps
<1>. QED  BY <1>4, <1>5

\* The baseline may go when the document does not need it.
LEMMA BaseMayGo ==
  ASSUME Inv, base' = NoBase, UNCHANGED <<doc, row, op, born, idle>>, ~doc.short,
         op.kind = "compact" => (MatchesSource(doc, op) => row.ver > op.ver)
  PROVE  /\ base' \in BaseRecord /\ (base'.rev = 0 => base' = NoBase) /\ (base'.act > 0 => base'.act > base'.rev)
         /\ BasePast' /\ Compacting' /\ Published' /\ Shortened'
<1>1. base' \in BaseRecord /\ base'.rev = 0 /\ base'.act = 0  BY NothingIs, NothingTyped
<1>2. BasePast' /\ Published' /\ Shortened'
  BY <1>1 DEF BasePast, Published, Shortened, ForCompacted
<1>3. Compacting'  BY DEF Inv, StoresRelated, Compacting, MatchesSource
<1>. QED  BY <1>1, <1>2, <1>3

LEMMA DropBaseKeeps == ASSUME Inv, NEW a \in Actors, DropBase(a) PROVE Inv'
<1>1. Typed /\ run[a].pc = "drop_base" /\ ServedOriginals
  BY DEF Inv, StoresRelated, DropBase, At
<1>2. UNCHANGED <<doc, row, op, owed, k, born, contents, idle, served>> /\ lock' = lock /\ base' = NoBase
  BY DEF DropBase, jobs, clock
<1>3. a = "upkeep" /\ a \notin Users /\ U = run[a] /\ op = U.op /\ op.kind = "compact"
  BY <1>1, CompacterAt DEF CompactPlace
<1>4. /\ Steps("upkeep", run'["upkeep"]) /\ U' = run'["upkeep"] /\ U'.pc = "drop_op"
      /\ U'.doc = U.doc /\ U'.op = U.op
  BY <1>1, <1>3, DropBaseGoes DEF Moves, U
<1>5. ~doc.short /\ (MatchesSource(doc, op) => row.ver > op.ver) /\ CallerRelated("upkeep")
  BY <1>1, <1>3, ActorsAre DEF Inv, UpkeepRelated, Driven
<1>6. /\ base' \in BaseRecord /\ (base'.rev = 0 => base' = NoBase) /\ (base'.act > 0 => base'.act > base'.rev)
      /\ BasePast' /\ Compacting' /\ Published' /\ Shortened'
  BY <1>2, <1>5, BaseMayGo
<1>7. UpkeepRelated'
  <2>1. UpkeepPlaced' /\ UpkeepDrives'
    BY <1>2, <1>3, <1>4 DEF UpkeepPlaced, CompactPlace, UpkeepDrives, ScanPlace, FinishPlace, CleanPlace
  <2>2. Scanned'  BY <1>4 DEF Scanned, ScanPlace
  <2>3. Driven'  BY <1>2, <1>4, <1>5 DEF Driven, MatchesSource
  <2>. QED  BY <2>1, <2>2, <2>3 DEF UpkeepRelated
<1>8. CallerRelated("upkeep")'  BY <1>2, <1>4, <1>5, ActorsAre, CallerMoves DEF U
<1>9. \A b \in Users : b # "upkeep" => Noticed(b)' /\ Serving(b)'
  BY <1>2, <1>4, OthersServed, ActorsAre DEF U, ScanPlace
<1>10. LockGoes("upkeep")  BY <1>1, <1>2, <1>3, <1>4 DEF LockGoes, LockedPlace, CleanPlace, FinishPlace
<1>11. served' \subseteq BOOLEAN /\ ServedOriginals'
  BY <1>1, <1>2 DEF Typed, CountsTyped, ServedOriginals, Deleted
<1>. QED  BY <1>2, <1>3, <1>4, <1>6, <1>7, <1>8, <1>9, <1>10, <1>11, BaseStepKeeps

\* Who cleans up after an operation on a document that is gone.
LEMMA CleanerAt ==
  ASSUME Inv, NEW a \in Actors, run[a].pc \in CleanPlace
  PROVE  /\ op.kind = "retire" /\ ~MatchesSource(doc, op) /\ ~doc.short
         /\ a \in Users => UseRelated(a) /\ run[a].op.kind = "none" /\ ~run[a].doc.short /\ run[a].doc.rev > 0
         /\ a \notin Users => a = "upkeep" /\ U = run[a] /\ U.op.kind = "retire" /\ SameOp(op, U.op)
<1>0. CleanPlace \subseteq UsePlace /\ CleanPlace \subseteq RetirePlace  BY DEF UsePlace, RetirePlace
<1>1. CASE a \in Users
  BY <1>0, <1>1, UserAt DEF Inv, UseRelated, UserDrives, Using
<1>2. CASE a \notin Users
  <2>1. a = "upkeep" /\ U = run[a]  BY <1>2, ActorsAre DEF U
  <2>2. UpkeepPlaced /\ UpkeepDrives  BY DEF Inv, UpkeepRelated
  <2>3. U.op.kind = "retire"  BY <1>0, <2>1, <2>2, UpkeepAt
  <2>. QED  BY <1>2, <2>1, <2>2, <2>3 DEF UpkeepDrives
<1>. QED  BY <1>1, <1>2

\* Upkeep where a use writes the baseline.
LEMMA UpkeepUnbased ==
  ASSUME UpkeepRelated, U' = U, UNCHANGED <<doc, row, op, idle>>,
         U.pc \notin {"commit_short", "short_done"},
         U.pc = "prepare_compact" => base' = NoBase /\ (Same(doc, U.doc) => row.ver > U.ver)
  PROVE  UpkeepRelated'
<1>1. UpkeepPlaced'  BY DEF UpkeepRelated, UpkeepPlaced
<1>2. UpkeepDrives'  BY DEF UpkeepRelated, UpkeepDrives, SameOp, MatchesSource
<1>3. Scanned'  BY DEF UpkeepRelated, Scanned, Same, RowOf
<1>4. Driven'  BY DEF UpkeepRelated, Driven, MatchesSource, MatchesPlan, MatchesTarget, RowOf
<1>. QED  BY <1>1, <1>2, <1>3, <1>4 DEF UpkeepRelated

LEMMA CleanBaseKeeps == ASSUME Inv, NEW a \in Actors, CleanBase(a) PROVE Inv'
<1>1. Typed /\ run[a].pc = "clean_base" /\ ServedOriginals /\ UpkeepRelated /\ CallerRelated(a)
  BY DEF Inv, StoresRelated, CleanBase, At
<1>2. UNCHANGED <<doc, row, op, owed, k, born, contents, idle, served>> /\ lock' = lock /\ base' = NoBase
  BY DEF CleanBase, jobs, clock
<1>3. /\ op.kind = "retire" /\ ~MatchesSource(doc, op) /\ ~doc.short
      /\ a \in Users => UseRelated(a) /\ run[a].op.kind = "none" /\ ~run[a].doc.short /\ run[a].doc.rev > 0
      /\ a \notin Users => a = "upkeep" /\ U = run[a] /\ U.op.kind = "retire" /\ SameOp(op, U.op)
  BY <1>1, CleanerAt DEF CleanPlace
<1>4. Steps(a, run'[a]) /\ run'[a].pc = "clean_op" /\ run'[a].doc = run[a].doc /\ run'[a].op = run[a].op
  BY <1>1, CleanBaseGoes DEF Moves
<1>5. /\ base' \in BaseRecord /\ (base'.rev = 0 => base' = NoBase) /\ (base'.act > 0 => base'.act > base'.rev)
      /\ BasePast' /\ Compacting' /\ Published' /\ Shortened'
  BY <1>2, <1>3, BaseMayGo
<1>6. UpkeepRelated'
  <2>1. CASE a \in Users
    <3>1. U' = U  BY <1>4, <2>1, ActorsAre DEF Steps, U
    <3>2. U.pc \notin ScanPlace /\ U.pc \notin CompactPlace
      BY <1>1, <1>3, UpkeepAt DEF UpkeepRelated, UpkeepDrives
    <3>. QED  BY <1>1, <1>2, <3>1, <3>2, UpkeepUnbased DEF ScanPlace, CompactPlace
  <2>2. CASE a \notin Users
    <3>1. U' = run'[a]  BY <1>3, <2>2 DEF U
    <3>2. UpkeepPlaced' /\ UpkeepDrives'
      BY <1>2, <1>3, <1>4, <2>2, <3>1
         DEF UpkeepPlaced, RetirePlace, CleanPlace, UpkeepDrives, ScanPlace, FinishPlace, SameOp, MatchesSource
    <3>3. Scanned' /\ Driven'  BY <1>4, <3>1 DEF Scanned, ScanPlace, Driven
    <3>. QED  BY <3>2, <3>3 DEF UpkeepRelated
  <2>. QED  BY <2>1, <2>2
<1>7. ASSUME a \in Users PROVE UseRelated(a)'
  <2>1. doc.rev > 0 /\ ~Same(doc, run[a].doc) => Warm  BY <1>1, <1>3, <1>7 DEF UseRelated, Using, CleanPlace
  <2>2. Warm' <=> Warm  BY <1>2 DEF Warm
  <2>3. Same(doc, run[a].doc)' <=> Same(doc, run[a].doc)  BY <1>2, <1>4 DEF Same
  <2>. QED  BY <1>2, <1>3, <1>4, <1>7, <2>1, <2>2, <2>3
     DEF UseRelated, UserPlaced, UserDrives, Using, Noticed, Serving, UsePlace, CleanPlace, MatchesSource
<1>8. CallerRelated(a)'  BY <1>1, <1>2, <1>4, CallerMoves
<1>9. \A b \in Users : b # a => Noticed(b)' /\ Serving(b)'
  BY <1>2, <1>4, OthersServed DEF ScanPlace
<1>10. LockGoes(a)  BY <1>1, <1>2, <1>4 DEF LockGoes, LockedPlace, CleanPlace
<1>11. served' \subseteq BOOLEAN /\ ServedOriginals'
  BY <1>1, <1>2 DEF Typed, CountsTyped, ServedOriginals, Deleted
<1>. QED  BY <1>2, <1>4, <1>5, <1>6, <1>7, <1>8, <1>9, <1>10, <1>11, BaseStepKeeps

\* Where an operation is being finished.
LEMMA FinisherAt ==
  ASSUME Inv, NEW a \in Actors, run[a].pc \in FinishPlace
  PROVE  /\ a = "upkeep" /\ a \notin Users /\ U = run[a] /\ U.op.kind # "none"
         /\ op.kind # "none" /\ op.phase = "derived"
         /\ op.kind \in {"restore", "retire"} => ~doc.short /\ ~MatchesSource(doc, op)
<1>1. a \notin Users  BY UserAt DEF Inv, UseRelated
<1>2. a = "upkeep" /\ U = run[a]  BY <1>1, ActorsAre DEF U
<1>3. U.op.kind # "none" /\ op.kind # "none" /\ op.phase = "derived"
  BY <1>2, UpkeepAt DEF Inv, UpkeepRelated, UpkeepDrives
<1>4. op.kind \in {"restore", "retire"} => ~MatchesSource(doc, op)
  <2>1. Planned(op)  BY DEF Inv, StoresRelated
  <2>. QED  BY <1>3, <2>1 DEF Planned
<1>5. op.kind \in {"restore", "retire"} => ~doc.short
  BY <1>4 DEF Inv, StoresRelated, Retiring, RestoringOp
<1>. QED  BY <1>1, <1>2, <1>3, <1>4, <1>5

LEMMA FinishBaseKeeps == ASSUME Inv, NEW a \in Actors, FinishBase(a) PROVE Inv'
<1>1. Typed /\ run[a].pc = "finish_base" /\ ServedOriginals /\ UpkeepRelated /\ CallerRelated(a)
  BY DEF Inv, StoresRelated, FinishBase, At
<1>2. UNCHANGED <<doc, row, op, owed, k, born, contents, idle, served>> /\ lock' = lock /\ base' = NoBase
  BY DEF FinishBase, jobs, clock
<1>3. a = "upkeep" /\ a \notin Users /\ U = run[a] /\ U.op.kind # "none" /\ op.kind # "none" /\ op.phase = "derived"
  BY <1>1, FinisherAt DEF FinishPlace
<1>4. op.kind \in {"restore", "retire"}  BY <1>1, <1>3 DEF UpkeepRelated, UpkeepDrives
<1>5. ~doc.short /\ ~MatchesSource(doc, op)  BY <1>1, <1>4, FinisherAt DEF FinishPlace
<1>6. /\ Steps("upkeep", run'["upkeep"]) /\ U' = run'["upkeep"] /\ U'.doc = U.doc /\ U'.op = U.op
      /\ U'.pc = IF op.kind = "retire" THEN "finish_row" ELSE "finish_op"
  BY <1>1, <1>3, FinishBaseGoes DEF Moves, U
<1>7. /\ base' \in BaseRecord /\ (base'.rev = 0 => base' = NoBase) /\ (base'.act > 0 => base'.act > base'.rev)
      /\ BasePast' /\ Compacting' /\ Published' /\ Shortened'
  BY <1>2, <1>4, <1>5, BaseMayGo
<1>8. UpkeepRelated'
  <2>1. UpkeepPlaced'  BY <1>3, <1>6 DEF UpkeepPlaced, FinishPlace
  <2>2. UpkeepDrives'
    BY <1>1, <1>2, <1>3, <1>6 DEF UpkeepRelated, UpkeepDrives, ScanPlace, FinishPlace, CleanPlace, SameOp
  <2>3. Scanned' /\ Driven'  BY <1>6 DEF Scanned, ScanPlace, Driven
  <2>. QED  BY <2>1, <2>2, <2>3 DEF UpkeepRelated
<1>9. CallerRelated("upkeep")'  BY <1>1, <1>2, <1>3, <1>6, ActorsAre, CallerMoves DEF U
<1>10. \A b \in Users : b # "upkeep" => Noticed(b)' /\ Serving(b)'
  BY <1>2, <1>6, OthersServed, ActorsAre DEF U, ScanPlace
<1>11. LockGoes("upkeep")  BY <1>1, <1>2, <1>3, <1>6 DEF LockGoes, LockedPlace, FinishPlace
<1>12. served' \subseteq BOOLEAN /\ ServedOriginals'
  BY <1>1, <1>2 DEF Typed, CountsTyped, ServedOriginals, Deleted
<1>. QED  BY <1>2, <1>3, <1>6, <1>7, <1>8, <1>9, <1>10, <1>11, <1>12, BaseStepKeeps

LEMMA DropStaleBaseKeeps == ASSUME Inv, NEW a \in Users, DropStaleBase(a) PROVE Inv'
<1>1. /\ Typed /\ run[a].pc = "drop_stale_base" /\ ServedOriginals /\ UpkeepRelated /\ a \in Actors
      /\ UseRelated(a) /\ Locked /\ StoresRelated
  BY ActorsAre DEF Inv, StoresRelated, DropStaleBase, At
<1>2. UNCHANGED <<doc, row, op, owed, k, born, contents, idle>> /\ lock' = "none"
        /\ base' = (IF op = NoOp THEN NoBase ELSE base) /\ served' = served \cup {run[a].doc.short}
  BY DEF DropStaleBase, jobs, clock
<1>3. ~doc.short /\ op.kind # "compact" /\ (run[a].doc.short => Deleted) /\ lock = a
  BY <1>1 DEF UseRelated, Using, UserDrives, Serving, Locked, LockedPlace
<1>4. Gone(a) /\ Steps(a, run'[a]) /\ run'[a] = Idle /\ run'[a].pc = "idle"
  BY <1>1, DropStaleBaseGoes, NothingIs DEF Gone, Steps
<1>5. /\ base' \in BaseRecord /\ (base'.rev = 0 => base' = NoBase) /\ (base'.act > 0 => base'.act > base'.rev)
      /\ BasePast' /\ Compacting' /\ Published' /\ Shortened'
  <2>1. CASE op = NoOp  BY <1>2, <1>3, <2>1, BaseMayGo
  <2>2. CASE op # NoOp
    <3>1. base' = base  BY <1>2, <2>2
    <3>2. base' \in BaseRecord /\ (base'.rev = 0 => base' = NoBase) /\ (base'.act > 0 => base'.act > base'.rev)
      BY <1>1, <3>1 DEF Typed, StoresTyped, StoresRelated, Coherent
    <3>3. BasePast' /\ Published'
      BY <1>1, <1>2, <3>1 DEF StoresRelated, BasePast, Published, Past, Same, RowOf
    <3>4. Compacting' /\ Shortened'
      BY <1>1, <1>2, <1>3, <3>1 DEF StoresRelated, Compacting, Shortened, ForCompacted
    <3>. QED  BY <3>2, <3>3, <3>4
  <2>. QED  BY <2>1, <2>2
<1>6. UpkeepRelated'
  <2>1. U' = U  BY <1>4, ActorsAre DEF Steps, U
  <2>2. U.pc \notin CompactPlace  BY <1>1, <1>3, UpkeepAt DEF UpkeepRelated, UpkeepDrives
  <2>3. CASE op = NoOp
    <3>1. base' = NoBase  BY <1>2, <2>3
    <3>2. U.pc = "prepare_compact" /\ Same(doc, U.doc) => row.ver > U.ver
      BY <1>1 DEF UseRelated, Noticed
    <3>. QED  BY <1>1, <1>2, <2>1, <2>2, <3>1, <3>2, UpkeepUnbased DEF CompactPlace
  <2>4. CASE op # NoOp
    <3>1. base' = base  BY <1>2, <2>4
    <3>. QED  BY <1>1, <1>2, <2>1, <3>1, UpkeepKept
  <2>. QED  BY <2>3, <2>4
<1>7. served' \subseteq BOOLEAN /\ ServedOriginals'
  <2>1. run[a].doc.short \in BOOLEAN  BY <1>1, CallerIs
  <2>. QED  BY <1>1, <1>2, <1>3, <2>1 DEF Typed, CountsTyped, ServedOriginals, Deleted
<1>8. LockGoes(a)  BY <1>2, <1>3, <1>4, GoneUnlocked DEF LockGoes
<1>9. Typed'
  <2>1. lock' \in Actors \cup {"none"}  BY <1>2
  <2>. QED  BY <1>1, <1>2, <1>4, <1>5, <1>7, <2>1 DEF Typed, StoresTyped, CountsTyped, Steps
<1>10. CallerRelated(a)' /\ UseRelated(a)'  BY <1>1, <1>4, <1>9, IdleRelated
<1>11. \A b \in Users : b # a => Noticed(b)' /\ Serving(b)'
  BY <1>1, <1>2, <1>4, OthersServed
<1>. QED  BY <1>1, <1>2, <1>4, <1>5, <1>6, <1>7, <1>8, <1>10, <1>11, BaseStepKeeps

----------------------------------------------------------------------------
(* Steps that write the recall row.                                        *)

\* What a row checks of itself.
RowWell(r) ==
    /\ r \in RowRecord
    /\ r.ver = 0 => r = NoRow
    /\ r.ret => r.cand # Never
    /\ (r.n = 0) <=> (r.use = Never)
    /\ r.comp => r.act # Never

LEMMA RowIsWell == ASSUME Typed, Coherent PROVE RowWell(row)
BY DEF RowWell, Typed, StoresTyped, Coherent

LEMMA NoRowWell == RowWell(NoRow)
BY NothingIs, NothingTyped, Bounds DEF RowWell

\* A row, field by field.
RowWith(ver, rev, b, n, use, act, comp, cand, ret) ==
    [ver |-> ver, rev |-> rev, born |-> b, n |-> n, use |-> use, act |-> act, comp |-> comp, cand |-> cand,
     ret |-> ret]

\* The row is another version, of document d.
Rewritten(d) == RowWell(row') /\ row'.ver = row.ver + 1 /\ row'.rev = d.rev /\ row'.born = d.born

LEMMA UsedRowIs ==
  ASSUME Typed, Coherent, NEW d \in DocRecord, NEW age \in 0..2, row' = UsedRow(d, age)
  PROVE  /\ Rewritten(d) /\ row'.cand = Never /\ ~row'.ret /\ row'.use <= age
         /\ row'.comp => RowOf(d) /\ row.comp
         /\ IF RowOf(d) THEN row'.act = row.act /\ row'.use <= row.use ELSE row'.act = Never
<1>. USE StoresAre, NothingIs, Bounds
<1>1. d.rev \in Nat /\ d.born \in 0..MaxBorn /\ d.born \in Nat  BY DEF DocRecord
<1>2. CASE row.ver = 0 \/ row.born # d.born
  <2>1. row' = [NoRow EXCEPT !.ver = row.ver + 1, !.rev = d.rev, !.born = d.born, !.n = 1, !.use = age]
    BY <1>2 DEF UsedRow
  <2>2. /\ row' \in RowRecord /\ row'.ver = row.ver + 1 /\ row'.rev = d.rev /\ row'.born = d.born
        /\ row'.n = 1 /\ row'.use = age /\ row'.act = Never /\ row'.cand = Never /\ ~row'.comp /\ ~row'.ret
    <3>1. row' = RowWith(row.ver + 1, d.rev, d.born, 1, age, Never, FALSE, Never, FALSE)
      BY <2>1 DEF RowWith, NoRow
    <3>. QED  BY <1>1, <3>1, Bounds DEF RowWith, RowRecord
  <2>3. ~RowOf(d)  BY <1>2 DEF RowOf
  <2>. QED  BY <2>2, <2>3 DEF Rewritten, RowWell
<1>3. CASE ~(row.ver = 0 \/ row.born # d.born)
  <2>1. row' = [row EXCEPT !.ver = @ + 1, !.rev = d.rev, !.n = @ + 1, !.use = LesserAge(@, age),
                           !.act = IF row.rev # d.rev THEN Never ELSE @,
                           !.comp = (row.rev = d.rev) /\ @, !.cand = Never, !.ret = FALSE]
    BY <1>3 DEF UsedRow
  <2>2. row \in RowRecord  BY DEF Typed, StoresTyped
  <2>. DEFINE use == LesserAge(row.use, age)
              act == IF row.rev # d.rev THEN Never ELSE row.act
              comp == (row.rev = d.rev) /\ row.comp
  <2>3. use \in 0..2 /\ use <= age /\ use <= row.use /\ act \in 0..3 /\ comp \in BOOLEAN
    BY DEF LesserAge
  <2>4. row' = RowWith(row.ver + 1, d.rev, d.born, row.n + 1, use, act, comp, Never, FALSE)
    BY <1>1, <1>3, <2>1, <2>2 DEF RowRecord, RowWith
  <2>5. /\ row' \in RowRecord /\ row'.ver = row.ver + 1 /\ row'.rev = d.rev /\ row'.born = d.born
        /\ row'.n = row.n + 1 /\ row'.use = use /\ row'.act = act /\ row'.comp = comp /\ row'.cand = Never
        /\ row'.ret = FALSE
    <3>. HIDE DEF use, act, comp
    <3>. QED  BY <1>1, <2>3, <2>4, Bounds DEF RowWith, RowRecord
  <2>6. RowOf(d) <=> row.rev = d.rev  BY <1>3 DEF RowOf
  <2>7. RowWell(row')
    <3>1. row'.comp => row.comp /\ row'.act = row.act  BY <2>5
    <3>2. row.comp => row.act # Never  BY DEF Coherent
    <3>. QED  BY <2>3, <2>5, <3>1, <3>2 DEF RowWell
  <2>. QED  BY <2>3, <2>5, <2>6, <2>7 DEF Rewritten
<1>. QED  BY <1>2, <1>3

LEMMA CandidateRowIs ==
  ASSUME Typed, Coherent, NEW d \in DocRecord, row' = CandidateRow(d)
  PROVE  /\ Rewritten(d)
         /\ RowOf(d) => /\ row'.comp = row.comp /\ row'.ret = row.ret /\ row'.use = row.use /\ row'.act = row.act
                        /\ row'.cand = IF row.cand = Never THEN 0 ELSE row.cand
         /\ ~RowOf(d) => ~row'.comp /\ ~row'.ret /\ row'.act = Never /\ row'.cand = 0
<1>. USE StoresAre, NothingIs, Bounds
<1>1. d.rev \in Nat /\ d.born \in 0..MaxBorn /\ d.born \in Nat /\ d.age \in 0..2  BY DEF DocRecord, Ages
<1>2. row \in RowRecord  BY DEF Typed, StoresTyped
<1>3. CASE RowOf(d)
  <2>1. row' = [row EXCEPT !.ver = @ + 1, !.cand = IF @ = Never THEN 0 ELSE @]
    BY <1>3 DEF CandidateRow
  <2>2. /\ row' \in RowRecord /\ row'.ver = row.ver + 1 /\ row'.rev = row.rev /\ row'.born = row.born
        /\ row'.n = row.n /\ row'.comp = row.comp /\ row'.ret = row.ret /\ row'.use = row.use
        /\ row'.act = row.act /\ row'.cand = IF row.cand = Never THEN 0 ELSE row.cand
    <3>. DEFINE cand == IF row.cand = Never THEN 0 ELSE row.cand
    <3>1. row' = RowWith(row.ver + 1, row.rev, row.born, row.n, row.use, row.act, row.comp, cand, row.ret)
      BY <1>2, <2>1 DEF RowRecord, RowWith
    <3>2. cand \in 0..3 /\ row.born \in 0..MaxBorn  BY <1>2 DEF RowRecord
    <3>. HIDE DEF cand
    <3>3. /\ row' \in RowRecord /\ row'.ver = row.ver + 1 /\ row'.rev = row.rev /\ row'.born = row.born
          /\ row'.n = row.n /\ row'.comp = row.comp /\ row'.ret = row.ret /\ row'.use = row.use
          /\ row'.act = row.act /\ row'.cand = cand
      BY <3>1, <3>2, Bounds DEF RowWith, RowRecord
    <3>. QED  BY <3>3 DEF cand
  <2>. QED  BY <1>3, <2>2 DEF Rewritten, RowWell, RowOf, Coherent
<1>4. CASE ~RowOf(d)
  <2>1. row' = [View(d) EXCEPT !.ver = row.ver + 1, !.rev = d.rev, !.born = d.born, !.act = Never, !.cand = 0]
    BY <1>4 DEF CandidateRow
  <2>2. View(d) \in RowRecord  BY ViewTyped
  <2>3. ~View(d).ret /\ ~View(d).comp  BY <1>4, ViewIs
  <2>4. (View(d).n = 0) <=> (View(d).use = Never)
    <3>1. CASE row.ver = 0 \/ row.born # d.born  BY <3>1 DEF View
    <3>2. CASE row.ver > 0 /\ row.born = d.born /\ row.rev # d.rev
      <4>1. View(d) = [NoRow EXCEPT !.ver = row.ver, !.n = row.n, !.use = row.use, !.act = d.age]
        BY <3>2 DEF View
      <4>2. View(d).n = row.n /\ View(d).use = row.use  BY <4>1 DEF NoRow
      <4>. QED  BY <4>2 DEF Coherent
    <3>. QED  BY <1>4, <3>1, <3>2 DEF RowOf
  <2>. HIDE DEF View
  <2>5. /\ row' \in RowRecord /\ row'.ver = row.ver + 1 /\ row'.rev = d.rev /\ row'.born = d.born
        /\ row'.n = View(d).n /\ row'.use = View(d).use /\ row'.comp = View(d).comp /\ row'.ret = View(d).ret
        /\ row'.act = Never /\ row'.cand = 0
    <3>. DEFINE v == View(d)
    <3>1. v \in RowRecord  BY <2>2
    <3>2. row' = [v EXCEPT !.ver = row.ver + 1, !.rev = d.rev, !.born = d.born, !.act = Never, !.cand = 0]
      BY <2>1
    <3>. HIDE DEF v
    <3>3. row' = RowWith(row.ver + 1, d.rev, d.born, v.n, v.use, Never, v.comp, 0, v.ret)
      BY <3>1, <3>2 DEF RowRecord, RowWith
    <3>4. v.n \in Nat /\ v.use \in 0..3 /\ v.comp \in BOOLEAN /\ v.ret \in BOOLEAN  BY <3>1 DEF RowRecord
    <3>5. /\ row' \in RowRecord /\ row'.ver = row.ver + 1 /\ row'.rev = d.rev /\ row'.born = d.born
          /\ row'.n = v.n /\ row'.use = v.use /\ row'.comp = v.comp /\ row'.ret = v.ret
          /\ row'.act = Never /\ row'.cand = 0
      BY <1>1, <3>3, <3>4, Bounds DEF RowWith, RowRecord
    <3>. QED  BY <3>5 DEF v
  <2>. QED  BY <1>4, <2>3, <2>4, <2>5 DEF Rewritten, RowWell
<1>. QED  BY <1>3, <1>4

LEMMA CompactedRowIs ==
  ASSUME Typed, Coherent, NEW d \in DocRecord, row' = CompactedRow(d)
  PROVE  /\ Rewritten(d) /\ row'.comp /\ ~row'.ret /\ row'.cand = Never
         /\ row'.act = LesserAge(base.age, LesserAge(row.use, row.act)) /\ row'.act \in 0..2
         /\ row'.use \in 0..3 /\ (row.born = d.born => row'.use = row.use)
<1>. USE StoresAre, NothingIs, Bounds
<1>1. d.rev \in Nat /\ d.born \in 0..MaxBorn  BY DEF DocRecord
<1>. DEFINE n == IF row.born = d.born THEN row.n ELSE 0
            use == IF row.born = d.born THEN row.use ELSE Never
            act == LesserAge(base.age, LesserAge(row.use, row.act))
<1>2. act \in 0..2 /\ n \in Nat /\ use \in 0..3 /\ (n = 0 <=> use = Never)
  BY DEF LesserAge, Coherent
<1>3. row' = [NoRow EXCEPT !.ver = row.ver + 1, !.rev = d.rev, !.born = d.born, !.n = n, !.use = use, !.act = act,
                           !.comp = TRUE]
  BY DEF CompactedRow
<1>4. row.born = d.born => use = row.use  OBVIOUS
<1>. HIDE DEF n, use
<1>5. /\ row' \in RowRecord /\ row'.ver = row.ver + 1 /\ row'.rev = d.rev /\ row'.born = d.born
      /\ row'.n = n /\ row'.use = use /\ row'.comp /\ ~row'.ret /\ row'.act = act /\ row'.cand = Never
  <2>. HIDE DEF act
  <2>1. row' = RowWith(row.ver + 1, d.rev, d.born, n, use, act, TRUE, Never, FALSE)
    BY <1>3 DEF NoRow, RowWith
  <2>2. act \in 0..3  BY <1>2
  <2>. QED  BY <1>1, <1>2, <2>1, <2>2, Bounds DEF RowWith, RowRecord
<1>. QED  BY <1>2, <1>4, <1>5 DEF Rewritten, RowWell

\* What may go wrong when the row is written, or forgotten with a deletion.
LEMMA RowStepKeeps ==
  ASSUME Inv, NEW a \in Actors, Steps(a, run'[a]), LockGoes(a),
         UNCHANGED <<doc, base, op, k, born, contents, served>>, owed' \in BOOLEAN, owed' => owed,
         idle' \in 0..Never, RowWell(row'),
         RowPast', Compacting', Published', Retiring', Shortened', FreshRow', Candidates',
         UpkeepRelated', CallerRelated(a)', a \in Users => UseRelated(a)',
         \A b \in Users : b # a => Using(b)' /\ Noticed(b)' /\ Serving(b)'
  PROVE  Inv'
<1>1. Typed'
  <2>1. lock' \in Actors \cup {"none"}  BY LockedKept DEF Inv
  <2>. QED  BY <2>1 DEF Inv, Typed, StoresTyped, CountsTyped, Steps, RowWell
<1>2. StoresRelated'
  <2>. USE DEF Inv, StoresRelated
  <2>1. DocWell' /\ Coherent'  BY DEF DocWell, Coherent, RowWell
  <2>2. Planned(op)'  BY DEF Planned, Past, MatchesSource, MatchesTarget
  <2>3. BasePast'  BY DEF BasePast, Past, Same
  <2>4. RestoringOp'  BY DEF RestoringOp, MatchesSource
  <2>5. ServedOriginals'  BY DEF ServedOriginals, Deleted
  <2>. QED  BY <2>1, <2>2, <2>3, <2>4, <2>5
<1>3. \A b \in Actors : b # a => run'[b] = run[b]  BY DEF Steps
<1>4. \A b \in Actors : CallerRelated(b)'  BY <1>3, CallerKept DEF Inv
<1>5. \A b \in Users : UseRelated(b)'
  <2>1. ASSUME NEW b \in Users, b # a PROVE UseRelated(b)'
    <3>1. run'[b] = run[b] /\ UserPlaced(b) /\ UserDrives(b)  BY <1>3, <2>1, ActorsAre DEF Inv, UseRelated
    <3>2. UserPlaced(b)' /\ UserDrives(b)'  BY <3>1 DEF UserPlaced, UserDrives, MatchesSource
    <3>. QED  BY <2>1, <3>2 DEF UseRelated
  <2>. QED  BY <2>1
<1>6. Locked'  BY LockedKept DEF Inv
<1>. QED  BY <1>1, <1>2, <1>4, <1>5, <1>6 DEF Inv

LEMMA MarkRetirementKeeps == ASSUME Inv, MarkRetirement PROVE Inv'
<1>. DEFINE d == U.doc
            first == U.cand = Never
<1>1. /\ Typed /\ U.pc = "mark" /\ UpkeepRelated /\ CallerRelated("upkeep")
      /\ Coherent /\ RowPast /\ Published /\ Shortened /\ FreshRow /\ Candidates /\ DocWell
  BY ActorsAre DEF Inv, StoresRelated, MarkRetirement, At, U
<1>2. UNCHANGED <<doc, base, op, owed, k, born, contents, idle, served>> /\ lock' = lock
  BY DEF MarkRetirement, jobs, clock
<1>3. /\ d.rev > 0 /\ U.op = NoOp /\ (doc.short => Same(doc, d)) /\ op.kind \in {"none", "restore"}
      /\ Same(doc, d) /\ row.ver = U.ver => idle >= 2 /\ (U.cand # Never => idle = 3)
  BY <1>1, UpkeepAt DEF UpkeepRelated, Scanned, UpkeepDrives, ScanPlace
<1>4. /\ d \in DocRecord /\ d.rev \in Nat /\ d.born \in Nat /\ Copied("upkeep") /\ Past(d.rev, d.born)
      /\ Same(doc, d) => doc = d
      /\ doc.rev > 0 /\ ~Same(doc, d) => doc.age = 0
  BY <1>1, <1>3, ActorsAre, CallerIs DEF CallerRelated, Copied, Same, U
<1>5. CASE Gone("upkeep") /\ row' = row
  <2>1. Quiet  BY <1>2, <1>5 DEF Quiet
  <2>. QED  BY <1>1, <1>2, <1>5, <2>1, ActorsAre, GoneUnheld, GoneKeeps DEF LockedPlace, CleanPlace, FinishPlace, U
<1>6. CASE ~(Gone("upkeep") /\ row' = row)
  <2>1. /\ Steps("upkeep", run'["upkeep"]) /\ U' = run'["upkeep"] /\ U'.pc = "reread"
        /\ U'.doc = d /\ U'.op = U.op
    BY <1>1, <1>6, MarkRetirementGoes DEF Moves, U
  <2>2. LockGoes("upkeep")  BY <1>1, <1>2, <2>1 DEF LockGoes, LockedPlace, CleanPlace, FinishPlace, U
  <2>3. UpkeepRelated'
    <3>1. UpkeepPlaced' /\ UpkeepDrives'
      BY <1>2, <1>3, <2>1, NothingIs DEF UpkeepPlaced, UpkeepDrives, ScanPlace, FinishPlace, CleanPlace
    <3>2. Scanned' /\ Driven'  BY <1>2, <1>3, <2>1, NothingIs DEF Scanned, Driven, ScanPlace, Same
    <3>. QED  BY <3>1, <3>2 DEF UpkeepRelated
  <2>4. CallerRelated("upkeep")'  BY <1>1, <1>2, <2>1, ActorsAre, CallerMoves DEF U
  <2>5. CASE row' = row
    <3>1. Quiet  BY <1>2, <2>5 DEF Quiet
    <3>2. \A b \in Users : Noticed(b)' /\ Serving(b)'
      BY <1>1, <1>2, <2>1, <2>5, ScanServed DEF ScanPlace
    <3>. QED  BY <2>1, <2>2, <2>3, <2>4, <3>1, <3>2, ActorsAre, MoverKeeps
  <2>6. CASE row' # row
    <3>1. /\ ~RowNewer(d) /\ row.ver = U.ver
          /\ \/ first /\ ~UseRefused(d) /\ row' = CandidateRow(d)
             \/ ~first /\ RowOf(d) /\ row.cand # Never /\ row' = [row EXCEPT !.ver = @ + 1, !.ret = TRUE]
      BY <2>6 DEF MarkRetirement, U
    <3>. HIDE DEF d, first
    <3>2. /\ Rewritten(d)
          /\ RowOf(d) => /\ row'.comp = row.comp /\ row'.use = row.use /\ row'.act = row.act
                         /\ row'.cand = IF row.cand = Never THEN 0 ELSE row.cand
                         /\ row'.ret => row.ret \/ ~first
          /\ ~RowOf(d) => ~row'.comp /\ ~row'.ret /\ row'.act = Never /\ row'.cand = 0
      <4>1. CASE row' = CandidateRow(d)  BY <1>1, <1>4, <4>1, CandidateRowIs
      <4>2. CASE ~first /\ RowOf(d) /\ row.cand # Never /\ row' = [row EXCEPT !.ver = @ + 1, !.ret = TRUE]
        <5>1. row' = RowWith(row.ver + 1, row.rev, row.born, row.n, row.use, row.act, row.comp, row.cand, TRUE)
          BY <1>1, <4>2 DEF Typed, StoresTyped, RowRecord, RowWith
        <5>2. row.born \in 0..MaxBorn  BY <1>1 DEF Typed, StoresTyped, RowRecord
        <5>3. /\ row' \in RowRecord /\ row'.ver = row.ver + 1 /\ row'.rev = row.rev /\ row'.born = row.born
              /\ row'.n = row.n /\ row'.comp = row.comp /\ row'.ret /\ row'.use = row.use
              /\ row'.act = row.act /\ row'.cand = row.cand
          BY <1>1, <5>1, <5>2, StoresAre, Bounds DEF RowWith, RowRecord
        <5>. QED  BY <1>1, <4>2, <5>3, StoresAre DEF Rewritten, RowWell, RowOf, Coherent
      <4>. QED  BY <3>1, <4>1, <4>2
    <3>3. row.ver \in Nat /\ idle \in 0..3 /\ row'.ver > 0  BY <1>1, <3>2, StoresAre DEF Rewritten
    <3>4. RowOf(doc)' <=> Same(doc, d)  BY <1>2, <3>2, <3>3 DEF RowOf, Rewritten, Same
    <3>5. RowPast'  BY <1>2, <1>4, <3>2 DEF RowPast, Rewritten, Past
    <3>6. Published'
      BY <1>1, <1>2, <1>3, <1>4, <3>2, <3>4 DEF Published
    <3>7. Compacting' /\ Retiring' /\ Shortened'
      BY <1>1, <1>2, <1>3 DEF Compacting, Retiring, Shortened, ForCompacted
    <3>8. FreshRow'
      <4>1. SUFFICES ASSUME doc.rev > 0 PROVE IF RowOf(doc)' THEN Activity(row', doc) <= idle ELSE doc.age <= idle
        BY <1>2 DEF FreshRow, Activity
      <4>2. CASE ~Same(doc, d)  BY <1>4, <3>3, <3>4, <4>1, <4>2
      <4>3. CASE Same(doc, d) /\ RowOf(d)
        <5>1. Activity(row', doc) = Activity(row, doc)  BY <3>2, <4>3 DEF Activity
        <5>2. RowOf(doc)  BY <1>4, <4>3
        <5>. QED  BY <1>1, <3>4, <4>1, <4>3, <5>1, <5>2 DEF FreshRow
      <4>4. CASE Same(doc, d) /\ ~RowOf(d)
        <5>1. Activity(row', doc) = LesserAge(doc.age, row'.use)  BY <3>2, <4>4 DEF Activity
        <5>2. row'.use \in 0..3  BY <3>2, Bounds DEF Rewritten, RowWell, RowRecord
        <5>3. doc.age <= idle  BY <1>1, <1>4, <4>1, <4>4 DEF FreshRow
        <5>. QED  BY <1>1, <3>3, <3>4, <4>4, <5>1, <5>2, <5>3, StoresAre DEF LesserAge
      <4>. QED  BY <4>2, <4>3, <4>4
    <3>9. Candidates'
      <4>1. SUFFICES ASSUME doc.rev > 0, Same(doc, d)
                     PROVE  /\ row'.cand # Never => idle >= 2 /\ (row'.cand >= 1 => idle = 3)
                            /\ row'.ret => idle = 3
        BY <1>2, <3>4 DEF Candidates
      <4>2. idle >= 2 /\ (~first => idle = 3)  BY <1>3, <3>1, <4>1 DEF first, d
      <4>3. CASE RowOf(d)
        <5>1. (row.cand # Never => (row.cand >= 1 => idle = 3)) /\ (row.ret => idle = 3)
          BY <1>1, <1>4, <4>1, <4>3 DEF Candidates
        <5>. QED  BY <1>1, <3>2, <4>2, <4>3, <5>1, StoresAre
      <4>4. CASE ~RowOf(d)  BY <3>2, <4>2, <4>4
      <4>. QED  BY <4>3, <4>4
    <3>10. ASSUME NEW b \in Users PROVE Using(b)' /\ Noticed(b)' /\ Serving(b)'
      <4>1. run'[b] = run[b] /\ UseRelated(b) /\ b \in Actors
        BY <2>1, ActorsAre DEF Steps, Inv
      <4>2. Using(b)'  BY <1>2, <4>1 DEF UseRelated, Using, Same, MatchesSource, Warm
      <4>3. Noticed(b)'  BY <2>1 DEF Noticed
      <4>4. Serving(b)  BY <4>1 DEF UseRelated
      <4>5. run[b].doc.rev \in Nat /\ run[b].doc.born \in Nat  BY <1>1, <4>1, CallerIs
      <4>6. run[b].pc = "check_row" /\ run[b].doc.short /\ ~Deleted => RowOf(run[b].doc)' /\ row'.comp
        <5>1. SUFFICES ASSUME run[b].pc = "check_row", run[b].doc.short, ~Deleted
                       PROVE  RowOf(run[b].doc)' /\ row'.comp
          OBVIOUS
        <5>2. RowOf(run[b].doc) /\ row.comp /\ ~Newer(d, run[b].doc)
          BY <1>1, <4>4, <5>1 DEF Serving, d
        <5>3. run[b].doc.rev = d.rev /\ run[b].doc.born = d.born
          BY <1>1, <1>4, <3>1, <4>5, <5>2, StoresAre DEF RowNewer, Newer, RowOf
        <5>4. RowOf(d)  BY <5>2, <5>3 DEF RowOf
        <5>. QED  BY <3>2, <3>3, <4>1, <5>2, <5>3, <5>4 DEF RowOf, Rewritten
      <4>7. run[b].pc = "check_row" /\ run[b].doc.short =>
                \A c \in Actors : run'[c].pc = "restore_l2" /\ run'[c].op.born = run[b].doc.born
                                      => run'[c].op.tgt <= run[b].doc.rev
        <5>1. \A c \in Actors : run'[c].pc = "restore_l2" => run'[c] = run[c]  BY <2>1 DEF Steps
        <5>. QED  BY <4>4, <5>1 DEF Serving
      <4>8. run[b].pc = "check_row" /\ run[b].doc.short /\ ~Deleted => d.age = 0 \/ ~Newer(d, run[b].doc)
        BY <1>1, <4>4 DEF Serving, ScanPlace, d
      <4>9. Serving(b)'
        BY <1>2, <2>1, <4>1, <4>4, <4>6, <4>7, <4>8 DEF Serving, Deleted, Newer, d
      <4>. QED  BY <4>2, <4>3, <4>9
    <3>11. RowWell(row') /\ owed' \in BOOLEAN /\ idle' \in 0..Never
      BY <1>1, <1>2, <3>2 DEF Rewritten, Typed, CountsTyped
    <3>. QED
      BY <1>2, <2>1, <2>2, <2>3, <2>4, <3>5, <3>6, <3>7, <3>8, <3>9, <3>10, <3>11, ActorsAre, RowStepKeeps
  <2>. QED  BY <2>5, <2>6
<1>. QED  BY <1>5, <1>6

LEMMA PublishCompactedKeeps == ASSUME Inv, NEW a \in Actors, PublishCompacted(a) PROVE Inv'
<1>. DEFINE d == U.doc
<1>1. /\ Typed /\ run[a].pc = "publish" /\ UpkeepRelated /\ CallerRelated(a)
      /\ Coherent /\ RowPast /\ BasePast /\ Compacting /\ Shortened /\ FreshRow /\ Planned(op) /\ DocWell
  BY DEF Inv, StoresRelated, PublishCompacted, At
<1>2. UNCHANGED <<doc, base, op, owed, k, born, contents, idle, served>> /\ lock' = lock
  BY DEF PublishCompacted, jobs, clock
<1>3. a = "upkeep" /\ a \notin Users /\ U = run[a] /\ op = U.op /\ op.kind = "compact"
  BY <1>1, CompacterAt DEF CompactPlace
<1>4. CASE Gone(a) /\ row' = row
  <2>1. Quiet  BY <1>2, <1>4 DEF Quiet
  <2>. QED  BY <1>1, <1>2, <1>4, <2>1, GoneUnheld, GoneKeeps DEF LockedPlace, CleanPlace, FinishPlace
<1>5. CASE ~(Gone(a) /\ row' = row)
  <2>1. /\ Steps("upkeep", run'["upkeep"]) /\ U' = run'["upkeep"] /\ U'.pc = "publish_done"
        /\ U'.doc = d /\ U'.op = op
        /\ \/ row' = row /\ RowOf(d) /\ row.comp
           \/ row.ver = op.ver /\ ForCompacted(d) /\ row' = CompactedRow(d)
    BY <1>1, <1>3, <1>5, PublishCompactedGoes DEF Moves, U
  <2>2. MatchesTarget(d, op) /\ op.tgt = op.rev + 1 /\ (MatchesTarget(doc, op) => doc.short)
    BY <1>1, <1>3 DEF UpkeepRelated, Driven, Planned, MatchesTarget
  <2>3. d.rev = op.rev + 1 /\ d.born = op.born /\ Past(d.rev, d.born)
    BY <1>1, <2>2 DEF MatchesTarget, Planned
  <2>4. doc.short => doc.rev = op.rev + 1 /\ doc.born = op.born  BY <1>1, <1>3 DEF Compacting
  <2>5. /\ d \in DocRecord /\ d.rev \in Nat /\ d.born \in Nat /\ d.rev > 0
        /\ Same(doc, d) => doc = d
        /\ doc.rev > 0 /\ ~Same(doc, d) => doc.age = 0
    BY <1>1, <1>3, <2>3, CallerIs, StoresAre DEF CallerRelated, Copied, Same, U
  <2>6. LockGoes("upkeep")  BY <1>1, <1>2, <1>3, <2>1 DEF LockGoes, LockedPlace, CleanPlace, FinishPlace
  <2>7. CallerRelated("upkeep")'  BY <1>1, <1>2, <1>3, <2>1, ActorsAre, CallerMoves DEF U
  <2>. HIDE DEF d
  <2>8. ASSUME doc.short => RowOf(doc)' /\ row'.comp PROVE UpkeepRelated'
    <3>1. UpkeepPlaced' /\ UpkeepDrives'
      BY <1>2, <1>3, <2>1 DEF UpkeepPlaced, AnyPlace, UpkeepDrives, ScanPlace, FinishPlace, CleanPlace
    <3>2. Scanned' /\ Driven'  BY <1>2, <2>1, <2>8 DEF Scanned, ScanPlace, Driven
    <3>. QED  BY <3>1, <3>2 DEF UpkeepRelated
  <2>9. CASE row' = row /\ RowOf(d) /\ row.comp
    <3>1. Quiet  BY <1>2, <2>9 DEF Quiet
    <3>2. doc.short => RowOf(doc)' /\ row'.comp
      BY <1>2, <2>3, <2>4, <2>9 DEF RowOf
    <3>3. \A b \in Users : b # "upkeep" => Noticed(b)' /\ Serving(b)'
      BY <1>2, <2>1, <2>9, OthersServed, ActorsAre DEF U, ScanPlace
    <3>. QED  BY <1>3, <2>1, <2>6, <2>7, <2>8, <3>1, <3>2, <3>3, MoverKeeps
  <2>10. CASE row.ver = op.ver /\ ForCompacted(d) /\ row' = CompactedRow(d)
    <3>1. /\ Rewritten(d) /\ row'.comp /\ ~row'.ret /\ row'.cand = Never
          /\ row'.act = LesserAge(base.age, LesserAge(row.use, row.act)) /\ row'.act \in 0..2
          /\ row'.use \in 0..3 /\ (row.born = d.born => row'.use = row.use)
      BY <1>1, <2>5, <2>10, CompactedRowIs
    <3>2. row.ver \in Nat /\ op.ver \in Nat /\ idle \in 0..3 /\ row'.ver > 0 /\ row'.ver = row.ver + 1
      BY <1>1, <3>1, StoresAre DEF Rewritten
    <3>3. RowOf(doc)' <=> Same(doc, d)  BY <1>2, <3>1, <3>2 DEF RowOf, Rewritten, Same
    <3>4. doc.short => Same(doc, d) /\ RowOf(doc)' /\ row'.comp
      BY <2>3, <2>4, <3>1, <3>3 DEF Same
    <3>5. RowPast'  BY <1>2, <2>3, <3>1 DEF RowPast, Rewritten, Past
    <3>6. Same(doc, d) => doc.short /\ LesserAge(row'.act, row'.use) <= idle
      <4>1. SUFFICES ASSUME Same(doc, d) PROVE doc.short /\ LesserAge(row'.act, row'.use) <= idle
        OBVIOUS
      <4>2. MatchesTarget(doc, op) /\ doc.short /\ doc.rev > 0
        BY <2>2, <2>5, <4>1 DEF MatchesTarget, Same
      <4>. DEFINE X == LesserAge(row.use, row.act)
      <4>3. row'.act = LesserAge(base.age, X) /\ row'.act <= X /\ X \in Nat
        BY <1>1, <3>1, StoresAre DEF LesserAge
      <4>4. row'.act <= idle
        <5>1. CASE op.phase \in {"prepared", "l2"}
          <6>1. LesserAge(base.age, X) <= idle  BY <1>1, <1>3, <4>2, <5>1 DEF Compacting
          <6>. QED  BY <4>3, <6>1
        <5>2. CASE op.phase \in {"state", "derived"}
          <6>1. RowOf(doc) /\ row.comp /\ row.act # Never  BY <1>1, <1>3, <4>2, <5>2 DEF Compacting, Coherent
          <6>2. LesserAge(row.act, row.use) <= idle  BY <1>1, <4>2, <6>1 DEF FreshRow, Activity
          <6>3. X = LesserAge(row.act, row.use)  BY <1>1, StoresAre DEF LesserAge
          <6>. HIDE DEF X
          <6>. QED  BY <3>1, <3>2, <4>3, <6>2, <6>3
        <5>. QED  BY <1>1, <5>1, <5>2, StoresAre
      <4>. QED  BY <3>1, <3>2, <4>2, <4>4 DEF LesserAge
    <3>7. Compacting'
      <4>1. LesserAge(base.age, LesserAge(row'.use, row'.act)) <= row'.act
        BY <1>1, <3>1, StoresAre DEF LesserAge
      <4>2. doc.short /\ op.phase \in {"prepared", "l2"} =>
              LesserAge(base.age, LesserAge(row'.use, row'.act)) <= idle
        <5>1. LesserAge(base.age, LesserAge(row'.use, row'.act)) <= LesserAge(row'.act, row'.use)
          BY <1>1, <3>1, StoresAre DEF LesserAge
        <5>2. LesserAge(base.age, LesserAge(row'.use, row'.act)) \in Nat /\ LesserAge(row'.act, row'.use) \in Nat
          BY <1>1, <3>1, StoresAre DEF LesserAge
        <5>. QED  BY <3>2, <3>4, <3>6, <5>1, <5>2
      <4>3. base.act = d.rev  BY <2>10 DEF ForCompacted
      <4>4. MatchesSource(doc, op) => row'.ver > op.ver  BY <2>10, <3>2
      <4>5. op.ver <= row'.ver /\ row'.ver # op.ver  BY <2>10, <3>2
      <4>6. doc.short => base.act = doc.rev  BY <3>4, <4>3 DEF Same
      <4>7. doc' = doc /\ base' = base /\ op' = op /\ idle' = idle  BY <1>2
      <4>8. BaseFor(op)' <=> BaseFor(op)  BY <4>7 DEF BaseFor
      <4>9. MatchesSource(doc, op)' <=> MatchesSource(doc, op)  BY <4>7 DEF MatchesSource
      <4>. QED  BY <1>1, <1>3, <3>4, <4>2, <4>4, <4>5, <4>6, <4>7, <4>8, <4>9 DEF Compacting
    <3>8. Published' /\ Retiring' /\ Shortened'
      BY <1>1, <1>2, <1>3 DEF Published, Retiring, Shortened, ForCompacted
    <3>9. FreshRow'
      <4>1. Activity(row', doc) = LesserAge(row'.act, row'.use)  BY <3>1, Bounds DEF Activity
      <4>2. ~Same(doc, d) /\ doc.rev > 0 => doc.age <= idle  BY <2>5, <3>2
      <4>. QED  BY <1>2, <3>3, <3>6, <4>1, <4>2 DEF FreshRow, Activity
    <3>10. Candidates'  BY <3>1 DEF Candidates
    <3>11. UpkeepRelated'  BY <2>8, <3>4
    <3>12. ASSUME NEW b \in Users PROVE Using(b)' /\ Noticed(b)' /\ Serving(b)'
      <4>1. run'[b] = run[b] /\ UseRelated(b)  BY <2>1, ActorsAre DEF Steps, Inv
      <4>2. Using(b)'  BY <1>2, <4>1 DEF UseRelated, Using, Same, MatchesSource, Warm
      <4>3. Noticed(b)'  BY <2>1 DEF Noticed
      <4>4. Serving(b)'  BY <1>2, <1>3, <4>1, NobodyServed DEF UseRelated, Serving, Deleted
      <4>. QED  BY <4>2, <4>3, <4>4
    <3>13. RowWell(row') /\ owed' \in BOOLEAN /\ idle' \in 0..Never
      BY <1>1, <1>2, <3>1 DEF Rewritten, Typed, CountsTyped
    <3>. QED
      BY <1>2, <1>3, <2>1, <2>6, <2>7, <3>5, <3>7, <3>8, <3>9, <3>10, <3>11, <3>12, <3>13, RowStepKeeps
  <2>. QED  BY <2>1, <2>9, <2>10
<1>. QED  BY <1>4, <1>5

\* The row goes with a document that is gone.
LEMMA RowGone ==
  ASSUME Inv, row' = NoRow, UNCHANGED <<doc, base, op, born, idle>>, op.kind = "retire",
         ~MatchesSource(doc, op), ~doc.short
  PROVE  RowWell(row') /\ RowPast' /\ Compacting' /\ Published' /\ Retiring' /\ Shortened' /\ FreshRow' /\ Candidates'
<1>1. RowWell(row')  BY NoRowWell
<1>2. row'.ver = 0 /\ ~RowOf(doc)'  BY NothingIs DEF RowOf
<1>3. RowPast' /\ Candidates' /\ Compacting' /\ Published'
  BY <1>2 DEF RowPast, Candidates, Compacting, Published
<1>4. Shortened'  BY DEF Inv, StoresRelated, Shortened, ForCompacted
<1>5. Retiring'  BY DEF Inv, StoresRelated, Retiring, MatchesSource
<1>6. FreshRow'  BY <1>2 DEF Inv, StoresRelated, Retiring, FreshRow
<1>. QED  BY <1>1, <1>3, <1>4, <1>5, <1>6

\* A retirement is nothing to a use, and nothing to a scan.
LEMMA OthersRetired ==
  ASSUME Inv, op.kind = "retire", UNCHANGED <<doc, op, idle>>, NEW b \in Users, run'[b] = run[b],
         U'.pc \notin ScanPlace
  PROVE  Using(b)' /\ Noticed(b)' /\ Serving(b)'
<1>1. UseRelated(b)  BY DEF Inv
<1>2. Using(b)'  BY <1>1 DEF UseRelated, Using, Same, MatchesSource, Warm
<1>3. Noticed(b)'  BY DEF Noticed, ScanPlace
<1>4. Serving(b)'  BY <1>1, NobodyServed DEF UseRelated, Serving, Deleted
<1>. QED  BY <1>2, <1>3, <1>4

LEMMA CleanRowKeeps == ASSUME Inv, NEW a \in Actors, CleanRow(a) PROVE Inv'
<1>1. Typed /\ run[a].pc = "clean_row" /\ UpkeepRelated /\ CallerRelated(a)
  BY DEF Inv, CleanRow, At
<1>2. UNCHANGED <<doc, base, op, owed, k, born, contents, idle, served>> /\ lock' = lock /\ row' = NoRow
  BY DEF CleanRow, jobs, clock
<1>3. /\ op.kind = "retire" /\ ~MatchesSource(doc, op) /\ ~doc.short
      /\ a \in Users => UseRelated(a) /\ run[a].op.kind = "none" /\ ~run[a].doc.short /\ run[a].doc.rev > 0
      /\ a \notin Users => a = "upkeep" /\ U = run[a] /\ U.op.kind = "retire" /\ SameOp(op, U.op)
  BY <1>1, CleanerAt DEF CleanPlace
<1>4. Steps(a, run'[a]) /\ run'[a].pc = "clean_base" /\ run'[a].doc = run[a].doc /\ run'[a].op = run[a].op
  BY <1>1, CleanRowGoes DEF Moves
<1>5. RowWell(row') /\ RowPast' /\ Compacting' /\ Published' /\ Retiring' /\ Shortened' /\ FreshRow' /\ Candidates'
  BY <1>2, <1>3, RowGone
<1>6. UpkeepRelated' /\ U'.pc \notin ScanPlace
  <2>1. CASE a \in Users
    <3>1. U' = U  BY <1>4, <2>1, ActorsAre DEF Steps, U
    <3>2. U.pc \notin ScanPlace /\ U.pc \notin CompactPlace /\ U.op.kind # "compact"
      BY <1>1, <1>3, UpkeepAt DEF UpkeepRelated, UpkeepDrives
    <3>3. UpkeepPlaced' /\ UpkeepDrives'
      BY <1>1, <1>2, <3>1 DEF UpkeepRelated, UpkeepPlaced, UpkeepDrives, SameOp, MatchesSource
    <3>4. Scanned'  BY <3>1, <3>2 DEF Scanned, ScanPlace
    <3>5. Driven'  BY <1>1, <1>2, <3>1, <3>2 DEF UpkeepRelated, Driven, CompactPlace, MatchesSource
    <3>. QED  BY <3>1, <3>2, <3>3, <3>4, <3>5 DEF UpkeepRelated
  <2>2. CASE a \notin Users
    <3>1. U' = run'[a]  BY <1>3, <2>2 DEF U
    <3>2. UpkeepPlaced' /\ UpkeepDrives'
      BY <1>2, <1>3, <1>4, <2>2, <3>1
         DEF UpkeepPlaced, RetirePlace, CleanPlace, UpkeepDrives, ScanPlace, FinishPlace, SameOp, MatchesSource
    <3>3. Scanned' /\ Driven'  BY <1>4, <3>1 DEF Scanned, ScanPlace, Driven
    <3>. QED  BY <1>4, <3>1, <3>2, <3>3 DEF UpkeepRelated, ScanPlace
  <2>. QED  BY <2>1, <2>2
<1>7. ASSUME a \in Users PROVE UseRelated(a)'
  <2>1. doc.rev > 0 /\ ~Same(doc, run[a].doc) => Warm  BY <1>1, <1>3, <1>7 DEF UseRelated, Using, CleanPlace
  <2>2. Warm' <=> Warm  BY <1>2 DEF Warm
  <2>3. Same(doc, run[a].doc)' <=> Same(doc, run[a].doc)  BY <1>2, <1>4 DEF Same
  <2>. QED  BY <1>2, <1>3, <1>4, <1>7, <2>1, <2>2, <2>3
     DEF UseRelated, UserPlaced, UserDrives, Using, Noticed, Serving, UsePlace, CleanPlace, MatchesSource
<1>8. CallerRelated(a)'  BY <1>1, <1>2, <1>4, CallerMoves
<1>9. \A b \in Users : b # a => Using(b)' /\ Noticed(b)' /\ Serving(b)'
  BY <1>2, <1>3, <1>4, <1>6, OthersRetired, ActorsAre DEF Steps
<1>10. LockGoes(a)  BY <1>1, <1>2, <1>4 DEF LockGoes, LockedPlace, CleanPlace
<1>11. owed' \in BOOLEAN /\ idle' \in 0..Never  BY <1>1, <1>2 DEF Typed, CountsTyped
<1>. QED  BY <1>2, <1>4, <1>5, <1>6, <1>7, <1>8, <1>9, <1>10, <1>11, RowStepKeeps

LEMMA FinishRowKeeps == ASSUME Inv, NEW a \in Actors, FinishRow(a) PROVE Inv'
<1>1. Typed /\ run[a].pc = "finish_row" /\ UpkeepRelated /\ CallerRelated(a)
  BY DEF Inv, FinishRow, At
<1>2. UNCHANGED <<doc, base, op, owed, k, born, contents, idle, served>> /\ lock' = lock /\ row' = NoRow
  BY DEF FinishRow, jobs, clock
<1>3. a = "upkeep" /\ a \notin Users /\ U = run[a] /\ U.op.kind # "none" /\ op.phase = "derived"
  BY <1>1, FinisherAt DEF FinishPlace
<1>4. op.kind = "retire"  BY <1>1, <1>3 DEF UpkeepRelated, UpkeepDrives
<1>5. ~doc.short /\ ~MatchesSource(doc, op)  BY <1>1, <1>4, FinisherAt DEF FinishPlace
<1>6. /\ Steps("upkeep", run'["upkeep"]) /\ U' = run'["upkeep"] /\ U'.doc = U.doc /\ U'.op = U.op
      /\ U'.pc = "finish_op"
  BY <1>1, <1>3, FinishRowGoes DEF Moves, U
<1>7. RowWell(row') /\ RowPast' /\ Compacting' /\ Published' /\ Retiring' /\ Shortened' /\ FreshRow' /\ Candidates'
  BY <1>2, <1>4, <1>5, RowGone
<1>8. UpkeepRelated'
  <2>1. UpkeepPlaced'  BY <1>3, <1>6 DEF UpkeepPlaced, FinishPlace
  <2>2. UpkeepDrives'
    BY <1>1, <1>2, <1>3, <1>6 DEF UpkeepRelated, UpkeepDrives, ScanPlace, FinishPlace, CleanPlace, SameOp
  <2>3. Scanned' /\ Driven'  BY <1>6 DEF Scanned, ScanPlace, Driven
  <2>. QED  BY <2>1, <2>2, <2>3 DEF UpkeepRelated
<1>9. CallerRelated("upkeep")'  BY <1>1, <1>2, <1>3, <1>6, ActorsAre, CallerMoves DEF U
<1>10. \A b \in Users : b # "upkeep" => Using(b)' /\ Noticed(b)' /\ Serving(b)'
  BY <1>2, <1>4, <1>6, OthersRetired, ActorsAre DEF Steps, ScanPlace
<1>11. LockGoes("upkeep")  BY <1>1, <1>2, <1>3, <1>6 DEF LockGoes, LockedPlace, FinishPlace
<1>12. owed' \in BOOLEAN /\ idle' \in 0..Never  BY <1>1, <1>2 DEF Typed, CountsTyped
<1>. QED  BY <1>2, <1>3, <1>6, <1>7, <1>8, <1>9, <1>10, <1>11, <1>12, RowStepKeeps

\* A deletion job forgets the row of a document that is no more.
LEMMA JobForgetKeeps == ASSUME Inv, JobForget PROVE Inv'
<1>1. /\ Typed /\ owed /\ UpkeepRelated /\ CallerRelated("upkeep") /\ DocWell /\ StoresRelated
      /\ Coherent /\ RowPast /\ Compacting /\ Retiring /\ Shortened
  BY ActorsAre DEF Inv, StoresRelated, JobForget
<1>2. UNCHANGED <<doc, base, op, k, born, contents, idle, served, lock, run>> /\ ~owed' /\ owed' \in BOOLEAN
        /\ (row' = NoRow \/ row' = row)
  BY DEF JobForget
<1>3. doc.rev = 0 /\ ~doc.short /\ ~(doc.rev > 0) /\ Deleted  BY <1>1, NothingIs DEF DocWell, Deleted
<1>4. RowWell(row')  BY <1>1, <1>2, NoRowWell, RowIsWell
<1>5. RowPast'  BY <1>1, <1>2, NothingIs DEF RowPast, Past
<1>6. Compacting'  BY <1>1, <1>2, <1>3 DEF Compacting, MatchesSource
<1>7. Published' /\ Retiring' /\ Shortened' /\ FreshRow' /\ Candidates'
  BY <1>1, <1>2, <1>3 DEF Published, Retiring, Shortened, FreshRow, Candidates, MatchesSource, ForCompacted
<1>8. U' = U /\ Steps("upkeep", run'["upkeep"])  BY <1>1, <1>2, ActorsAre DEF U, Steps, Typed
<1>9. U.pc \in ScanPlace => ~Same(doc, U.doc)  BY <1>1, <1>3 DEF UpkeepRelated, Scanned, Same
<1>10. UpkeepRelated'
  <2>1. UpkeepPlaced' /\ UpkeepDrives'
    BY <1>1, <1>2, <1>8 DEF UpkeepRelated, UpkeepPlaced, UpkeepDrives, SameOp, MatchesSource
  <2>2. Scanned'  BY <1>1, <1>2, <1>8, <1>9 DEF UpkeepRelated, Scanned, Same, ScanPlace
  <2>3. Driven'
    BY <1>1, <1>2, <1>3, <1>8 DEF UpkeepRelated, Driven, MatchesSource, MatchesPlan, MatchesTarget, BaseFor
  <2>. QED  BY <2>1, <2>2, <2>3 DEF UpkeepRelated
<1>11. CallerRelated("upkeep")'  BY <1>1, <1>2, ActorsAre, CallerKept
<1>12. ASSUME NEW b \in Users PROVE Using(b)' /\ Noticed(b)' /\ Serving(b)'
  <2>1. run'[b] = run[b] /\ UseRelated(b) /\ \A c \in Actors : run'[c] = run[c]  BY <1>2 DEF Inv
  <2>2. Using(b)'  BY <1>2, <2>1 DEF UseRelated, Using, Same, MatchesSource, Warm
  <2>3. Noticed(b)'  BY <1>2, <1>8, <1>9 DEF Noticed, ScanPlace, Same
  <2>4. Serving(b)'  BY <1>2, <1>3, <1>8, <2>1 DEF UseRelated, Serving, Deleted
  <2>. QED  BY <2>2, <2>3, <2>4
<1>13. LockGoes("upkeep")  BY <1>2 DEF LockGoes
<1>14. idle' \in 0..Never  BY <1>1, <1>2 DEF Typed, CountsTyped
<1>. QED
  BY <1>1, <1>2, <1>4, <1>5, <1>6, <1>7, <1>8, <1>10, <1>11, <1>12, <1>13, <1>14, ActorsAre, RowStepKeeps

\* What a recorded use of d leaves of the row's ages.
LEMMA UsedAges ==
  ASSUME Typed, Coherent, FreshRow, NEW d \in DocRecord, NEW age \in 0..2, row' = UsedRow(d, age),
         UNCHANGED doc, doc.rev > 0, idle' \in 0..3, idle' <= idle,
         Same(doc, d) => idle' = LesserAge(idle, age),
         ~Same(doc, d) => doc.age <= idle'
  PROVE  FreshRow' /\ Candidates'
<1>1. /\ Rewritten(d) /\ row'.cand = Never /\ ~row'.ret /\ row'.use <= age
      /\ IF RowOf(d) THEN row'.act = row.act /\ row'.use <= row.use ELSE row'.act = Never
  BY UsedRowIs
<1>2. row'.ver > 0 /\ row'.use \in 0..3 /\ row'.act \in 0..3
  BY <1>1, StoresAre, Bounds DEF Rewritten, RowWell, RowRecord
<1>3. RowOf(doc)' <=> Same(doc, d)  BY <1>1, <1>2 DEF RowOf, Rewritten, Same
<1>4. Candidates'  BY <1>1 DEF Candidates
<1>5. ASSUME Same(doc, d) PROVE Activity(row', doc) <= idle'
  <2>1. Activity(row', doc) <= age  BY <1>1, <1>2, StoresAre DEF Activity, LesserAge
  <2>2. Activity(row', doc) <= idle
    <3>1. CASE RowOf(d)
      <4>1. Activity(row, doc) <= idle  BY <1>5, <3>1 DEF FreshRow, RowOf, Same
      <4>2. Activity(row', doc) <= Activity(row, doc)
        BY <1>1, <1>2, <3>1, StoresAre DEF Activity, LesserAge
      <4>3. Activity(row', doc) \in Nat /\ Activity(row, doc) \in Nat
        BY <1>2, StoresAre DEF Activity, LesserAge
      <4>. QED  BY <4>1, <4>2, <4>3, StoresAre
    <3>2. CASE ~RowOf(d)
      <4>1. doc.age <= idle  BY <1>5, <3>2 DEF FreshRow, RowOf, Same
      <4>2. Activity(row', doc) = LesserAge(doc.age, row'.use)  BY <1>1, <3>2 DEF Activity
      <4>. QED  BY <1>2, <4>1, <4>2, StoresAre DEF LesserAge
    <3>. QED  BY <3>1, <3>2
  <2>. QED  BY <1>5, <2>1, <2>2 DEF LesserAge
<1>6. FreshRow'  BY <1>3, <1>5 DEF FreshRow, Activity
<1>. QED  BY <1>4, <1>6

\* Upkeep while somebody else records a use.
LEMMA UpkeepUsed ==
  ASSUME Typed, UpkeepRelated, U' = U, UNCHANGED <<doc, base, op>>, row'.ver = row.ver + 1,
         U.pc = "prepare_retire" => ~Same(doc, U.doc),
         U.pc = "commit_short" => ~MatchesSource(doc, op),
         ~doc.short
  PROVE  UpkeepRelated'
<1>1. row.ver \in Nat /\ op.ver \in Nat /\ U.ver \in Nat  BY StoresAre, ActorsAre, CallerIs DEF U
<1>2. UpkeepPlaced' /\ UpkeepDrives'
  BY DEF UpkeepRelated, UpkeepPlaced, UpkeepDrives, SameOp, MatchesSource
<1>3. Scanned'
  <2>. DEFINE d == U.doc
  <2>1. Scanned /\ U'.doc = d /\ U'.pc = U.pc /\ U'.ver = U.ver /\ U'.cand = U.cand /\ row'.ver > row.ver
        /\ doc' = doc /\ base' = base
    BY <1>1 DEF UpkeepRelated
  <2>2. U.pc \in {"mark", "save", "prepare_compact"} /\ Same(doc, d) => row'.ver > U.ver
    BY <1>1, <2>1 DEF Scanned
  <2>3. U.pc \in {"mark", "save", "prepare_compact"} /\ Same(doc, d) => U.ver <= row'.ver /\ row'.ver # U.ver
    BY <1>1, <2>1, <2>2
  <2>4. Same(doc, d)' <=> Same(doc, d)  BY <2>1 DEF Same
  <2>. HIDE DEF d
  <2>. QED  BY <2>1, <2>2, <2>3, <2>4 DEF Scanned, d
<1>4. Driven'
  <2>1. Driven  BY DEF UpkeepRelated
  <2>. QED  BY <1>1, <2>1 DEF Driven, MatchesSource, MatchesPlan, MatchesTarget
<1>. QED  BY <1>2, <1>3, <1>4 DEF UpkeepRelated

LEMMA AcknowledgeRestoreKeeps == ASSUME Inv, NEW a \in Actors, AcknowledgeRestore(a) PROVE Inv'
<1>. DEFINE o == run[a].op
<1>1. /\ Typed /\ run[a].pc = "restore_l2" /\ UpkeepRelated /\ CallerRelated(a)
      /\ Coherent /\ RowPast /\ Compacting /\ Retiring /\ Shortened /\ FreshRow /\ Candidates /\ DocWell
      /\ ServedOriginals
  BY DEF Inv, StoresRelated, AcknowledgeRestore, At
<1>2. UNCHANGED <<doc, base, op, owed, k, born, contents, served>> /\ lock' = lock
  BY DEF AcknowledgeRestore, jobs
<1>3. /\ o.kind = "restore" /\ (a \in Users => UseRelated(a))
      /\ a \notin Users => a = "upkeep" /\ U = run[a] /\ SameOp(op, U.op)
  BY <1>1, RestorerAt DEF RestorePlace, U
<1>4. CASE Gone(a) /\ row' = row /\ idle' = idle
  <2>1. Quiet  BY <1>2, <1>4 DEF Quiet
  <2>. QED  BY <1>1, <1>2, <1>4, <2>1, GoneUnheld, GoneKeeps DEF LockedPlace, CleanPlace, FinishPlace
<1>5. CASE ~(Gone(a) /\ row' = row /\ idle' = idle)
  <2>1. /\ Steps(a, run'[a]) /\ run'[a].pc = "publish_done" /\ run'[a].doc = run[a].doc /\ run'[a].op = o
        /\ MatchesTarget(doc, o)
        /\ \/ row' = row /\ idle' = idle
           \/ /\ ~UseRefused(doc) /\ ~RowNewer(doc)
              /\ row' = UsedRow(doc, o.age) /\ idle' = LesserAge(idle, o.age)
    BY <1>1, <1>5, AcknowledgeRestoreGoes DEF Moves
  <2>2. a \in Users => o.phase # "prepared"  BY <1>1, <1>3 DEF UseRelated, Using
  <2>3. ~doc.short /\ o.tgt > o.rev /\ doc.rev = o.tgt /\ doc.born = o.born /\ doc.rev > 0 /\ o.age \in 0..2
    BY <1>1, <1>3, <2>1, StoresAre, CallerIs DEF CallerRelated, Planned, MatchesTarget
  <2>4. ~MatchesSource(doc, o)  BY <1>1, <2>3, StoresAre, CallerIs DEF MatchesSource
  <2>5. a \in Users => idle = 0  BY <1>3, <2>3, <2>4 DEF UseRelated, Using, Warm
  <2>6. a \notin Users => op.kind = "restore"  BY <1>3 DEF SameOp
  <2>7. LockGoes(a)  BY <1>1, <1>2, <2>1 DEF LockGoes, LockedPlace, CleanPlace, FinishPlace
  <2>8. CallerRelated(a)'  BY <1>1, <1>2, <2>1, CallerMoves
  <2>9. ASSUME a \in Users, idle' = idle PROVE UseRelated(a)'
    <3>1. run'[a].pc \in AnyPlace /\ run'[a].pc # "return_restored"  BY <2>1 DEF AnyPlace
    <3>. QED  BY <1>2, <1>3, <2>1, <2>2, <2>9, <3>1, UserGoesOn
  <2>10. a \notin Users => UpkeepRelated'
    BY <1>1, <1>2, <1>3, <2>1, UpkeepRestores DEF RestorePlace, U
  <2>11. CASE row' = row /\ idle' = idle
    <3>1. Quiet  BY <1>2, <2>11 DEF Quiet
    <3>2. \A b \in Users : b # a => Noticed(b)' /\ Serving(b)'
      BY <1>2, <2>1, <2>11, OthersServed DEF ScanPlace
    <3>. QED  BY <2>1, <2>7, <2>8, <2>9, <2>10, <2>11, <3>1, <3>2, MoverKeeps
  <2>12. CASE /\ ~UseRefused(doc) /\ ~RowNewer(doc)
              /\ row' = UsedRow(doc, o.age) /\ idle' = LesserAge(idle, o.age)
    <3>. HIDE DEF o
    <3>1. doc \in DocRecord /\ idle \in 0..3 /\ row.ver \in Nat /\ op.ver \in Nat
      BY <1>1, StoresAre DEF Typed, StoresTyped
    <3>2. Rewritten(doc) /\ row'.ver = row.ver + 1
      BY <1>1, <2>3, <2>12, <3>1, UsedRowIs DEF Rewritten
    <3>3. idle' \in 0..3 /\ idle' <= idle /\ (idle = 0 => idle' = 0)  BY <2>3, <2>12, <3>1 DEF LesserAge
    <3>4. FreshRow' /\ Candidates'
      <4>1. Same(doc, doc)  BY DEF Same
      <4>. QED  BY <1>1, <1>2, <2>3, <2>12, <3>1, <3>3, <4>1, UsedAges
    <3>5. RowPast'
      <4>1. Past(doc.rev, doc.born)  BY <1>1, <2>3, StoresAre DEF Past, DocWell
      <4>. QED  BY <1>2, <3>2, <4>1 DEF RowPast, Rewritten, Past
    <3>6. Compacting'
      <4>1. CASE op.kind = "compact"
        <5>1. a \in Users /\ idle = 0  BY <2>5, <2>6, <4>1
        <5>2. MatchesSource(doc, op) => row'.ver > op.ver  BY <1>1, <3>1, <3>2, <4>1, <5>1 DEF Compacting
        <5>3. MatchesSource(doc, op) => op.ver <= row'.ver /\ row'.ver # op.ver
          BY <3>1, <3>2, <5>2
        <5>4. MatchesSource(doc, op)' <=> MatchesSource(doc, op)  BY <1>2 DEF MatchesSource
        <5>. QED  BY <1>1, <1>2, <2>3, <4>1, <5>2, <5>3, <5>4 DEF Compacting
      <4>2. CASE op.kind # "compact"  BY <1>2, <4>2 DEF Compacting
      <4>. QED  BY <4>1, <4>2
    <3>7. Retiring'
      <4>1. CASE op.kind = "retire"
        <5>1. idle = 0 /\ idle' = 0  BY <2>5, <2>6, <3>3, <4>1
        <5>2. ~MatchesSource(doc, op)  BY <1>1, <2>3, <4>1, <5>1 DEF Retiring, Candidates
        <5>. QED  BY <1>1, <1>2, <2>3, <4>1, <5>1, <5>2 DEF Retiring, MatchesSource
      <4>2. CASE op.kind # "retire"  BY <1>2, <4>2 DEF Retiring
      <4>. QED  BY <4>1, <4>2
    <3>8. Published' /\ Shortened'
      BY <1>1, <1>2, <2>3 DEF Published, Shortened, ForCompacted
    <3>9. ASSUME a \in Users PROVE UpkeepRelated' /\ UseRelated(a)'
      <4>1. U' = U  BY <2>1, <3>9, ActorsAre DEF Steps, U
      <4>2. idle = 0 /\ idle' = idle  BY <2>5, <3>3, <3>9
      <4>3. U.pc = "prepare_retire" => ~Same(doc, U.doc)
        BY <1>1, <2>12 DEF UpkeepRelated, Scanned, UseRefused
      <4>4. U.pc = "commit_short" => ~MatchesSource(doc, op)
        BY <1>1, <4>2 DEF UpkeepRelated, Driven
      <4>5. UpkeepRelated'  BY <1>1, <1>2, <2>3, <3>2, <4>1, <4>3, <4>4, UpkeepUsed
      <4>. QED  BY <2>9, <3>9, <4>2, <4>5
    <3>10. ASSUME NEW b \in Users, b # a PROVE Using(b)' /\ Noticed(b)' /\ Serving(b)'
      <4>1. run'[b] = run[b] /\ UseRelated(b) /\ b \in Actors /\ CallerRelated(b)
        BY <2>1, <3>10, ActorsAre DEF Steps, Inv
      <4>2. Using(b)'
        BY <1>2, <3>3, <4>1 DEF UseRelated, Using, Same, MatchesSource, Warm
      <4>3. Noticed(b)'
        <5>1. CASE a \in Users
          <6>1. U' = U /\ U.ver \in Nat  BY <1>1, <2>1, <5>1, ActorsAre, CallerIs DEF Steps, U
          <6>. QED  BY <1>2, <3>1, <3>2, <4>1, <6>1 DEF UseRelated, Noticed, Same
        <5>2. CASE a \notin Users
          <6>1. U' = run'[a]  BY <1>3, <5>2 DEF U
          <6>. QED  BY <2>1, <6>1 DEF Noticed
        <5>. QED  BY <5>1, <5>2
      <4>4. Serving(b)'
        <5>1. Serving(b)  BY <4>1 DEF UseRelated
        <5>2. run[b].pc = "check_row" /\ run[b].doc.short => Deleted
          <6>1. SUFFICES ASSUME run[b].pc = "check_row", run[b].doc.short, ~Deleted PROVE FALSE
            OBVIOUS
          <6>2. op = NoOp /\ RowOf(run[b].doc) /\ (o.born = run[b].doc.born => o.tgt <= run[b].doc.rev)
            BY <1>1, <5>1, <6>1 DEF Serving, o
          <6>3. a \in Users  BY <2>6, <6>2, NothingIs
          <6>4. doc.born = 1 /\ born = 1  BY <1>1, <2>3, <6>1, StoresAre DEF Deleted, DocWell
          <6>5. run[b].doc.rev > 0 /\ Copied(b) /\ run[b].doc.rev \in Nat /\ run[b].doc.born \in Nat
            BY <1>1, <4>1, <6>1, CallerIs DEF UseRelated, Using, UsePlace, CallerRelated
          <6>6. run[b].doc.born = 1  BY <6>4, <6>5 DEF Copied, Past
          <6>7. run[b].doc.rev = doc.rev
            BY <1>1, <2>3, <6>2, <6>4, <6>5, <6>6, StoresAre DEF Copied, Past
          <6>8. doc = run[b].doc  BY <6>4, <6>5, <6>6, <6>7 DEF Copied, Same
          <6>. QED  BY <2>3, <6>1, <6>8
        <5>3. run[b].pc = "check_row" /\ run[b].doc.short =>
                  \A c \in Actors : run'[c].pc = "restore_l2" /\ run'[c].op.born = run[b].doc.born
                                        => run'[c].op.tgt <= run[b].doc.rev
          <6>1. \A c \in Actors : run'[c].pc = "restore_l2" => run'[c] = run[c]  BY <2>1 DEF Steps
          <6>. QED  BY <5>1, <6>1 DEF Serving
        <5>4. Deleted' <=> Deleted  BY <1>2 DEF Deleted
        <5>. QED  BY <1>2, <4>1, <5>1, <5>2, <5>3, <5>4 DEF Serving
      <4>. QED  BY <4>2, <4>3, <4>4
    <3>11. RowWell(row') /\ owed' \in BOOLEAN /\ idle' \in 0..Never
      BY <1>1, <1>2, <3>2, <3>3, Bounds DEF Rewritten, Typed, CountsTyped
    <3>. QED
      BY <1>2, <2>1, <2>7, <2>8, <2>10, <3>4, <3>5, <3>6, <3>7, <3>8, <3>9, <3>10, <3>11, RowStepKeeps
  <2>. QED  BY <2>1, <2>11, <2>12
<1>. QED  BY <1>4, <1>5

LEMMA RecordUseKeeps == ASSUME Inv, NEW a \in Users, RecordUse(a) PROVE Inv'
<1>. DEFINE d == run[a].doc
<1>1. /\ Typed /\ run[a].pc = "record_use" /\ a \in Actors /\ UseRelated(a) /\ UpkeepRelated /\ CallerRelated(a)
      /\ Coherent /\ RowPast /\ Compacting /\ Retiring /\ Shortened /\ FreshRow /\ Candidates /\ DocWell
      /\ Locked
  BY ActorsAre DEF Inv, StoresRelated, RecordUse, At
<1>2. UNCHANGED <<doc, base, op, owed, k, born, contents, served>>
  BY DEF RecordUse, jobs
<1>3. /\ run[a].op.kind = "none" /\ d.rev > 0 /\ lock = a /\ ~doc.short
      /\ op.kind \notin {"compact", "retire"} /\ (d.short => Deleted)
  BY <1>1, UserAt DEF UseRelated, UserDrives, UsePlace, Using, Serving, Locked, LockedPlace
<1>4. CASE Gone(a) /\ lock' = "none" /\ row' = row /\ idle' = idle
  <2>1. LockGoes(a)  BY <1>3, <1>4, GoneUnlocked, NothingIs DEF LockGoes, Gone, Steps
  <2>2. Quiet  BY <1>2, <1>4 DEF Quiet
  <2>. QED  BY <1>1, <1>4, <2>1, <2>2, GoneKeeps
<1>5. CASE /\ Moves(a, "drop_stale_base", d, run[a].op) /\ lock' = lock
           /\ ~UseRefused(d) /\ ~RowNewer(d)
           /\ row' = UsedRow(d, 0) /\ idle' = 0
  <2>1. /\ Steps(a, run'[a]) /\ run'[a].pc = "drop_stale_base" /\ run'[a].doc = d /\ run'[a].op = run[a].op
    BY <1>5 DEF Moves
  <2>2. LockGoes(a)  BY <1>1, <1>5, <2>1 DEF LockGoes, LockedPlace
  <2>3. CallerRelated(a)'  BY <1>1, <1>2, <2>1, CallerMoves
  <2>4. /\ d \in DocRecord /\ d.rev \in Nat /\ d.born \in Nat /\ Past(d.rev, d.born)
        /\ doc.rev > 0 /\ ~Same(doc, d) => doc.age = 0
    BY <1>1, <1>3, CallerIs DEF CallerRelated, Copied, Same
  <2>5. U' = U /\ U.ver \in Nat /\ row.ver \in Nat
    BY <1>1, <2>1, ActorsAre, CallerIs, StoresAre DEF Steps, U
  <2>6. Rewritten(d) /\ row'.ver = row.ver + 1 /\ (row'.ret => FALSE) /\ row'.cand = Never
    BY <1>1, <1>5, <2>4, UsedRowIs DEF Rewritten
  <2>7. FreshRow' /\ Candidates'
    <3>1. CASE doc.rev > 0
      <4>1. LesserAge(idle, 0) = 0 /\ idle' \in 0..3 /\ idle' <= idle  BY <1>1, <1>5, StoresAre DEF LesserAge
      <4>2. ~Same(doc, d) => doc.age <= idle'  BY <1>5, <2>4, <3>1
      <4>. QED  BY <1>1, <1>2, <1>5, <2>4, <3>1, <4>1, <4>2, UsedAges
    <3>2. CASE ~(doc.rev > 0)  BY <1>2, <3>2 DEF FreshRow, Candidates
    <3>. QED  BY <3>1, <3>2
  <2>. HIDE DEF d
  <2>8. RowPast'  BY <1>2, <2>4, <2>6 DEF RowPast, Rewritten, Past
  <2>9. Compacting' /\ Retiring' /\ Published' /\ Shortened'
    BY <1>1, <1>2, <1>3 DEF Compacting, Retiring, Published, Shortened, ForCompacted
  <2>10. UpkeepRelated'
    <3>1. U.pc = "prepare_retire" => ~Same(doc, U.doc)
      <4>1. SUFFICES ASSUME U.pc = "prepare_retire", Same(doc, U.doc) PROVE FALSE  OBVIOUS
      <4>2. RowOf(doc) /\ row.ret /\ doc.rev > 0
        BY <1>1, <4>1 DEF UpkeepRelated, Scanned, ScanPlace, Same
      <4>3. doc.rev # d.rev \/ doc.born # d.born  BY <1>5, <4>2 DEF UseRefused, RowOf, d
      <4>4. RowNewer(d)
        BY <1>1, <2>4, <4>2, <4>3, StoresAre DEF RowNewer, RowOf, Past, DocWell
      <4>. QED  BY <1>5, <4>4 DEF d
    <3>2. U.pc # "commit_short"
      BY <1>1, <1>3, UpkeepAt DEF UpkeepRelated, UpkeepDrives, CompactPlace
    <3>. QED  BY <1>1, <1>2, <1>3, <2>5, <2>6, <3>1, <3>2, UpkeepUsed
  <2>11. UseRelated(a)'
    <3>1. UserPlaced(a)' /\ UserDrives(a)'
      BY <1>2, <1>3, <2>1 DEF UserPlaced, UserDrives, UsePlace, CleanPlace
    <3>2. Using(a)'  BY <1>2, <1>3, <1>5, <2>1 DEF Using, UsePlace, CleanPlace, d
    <3>3. Noticed(a)'
      BY <1>1, <1>2, <2>5, <2>6 DEF Noticed, UpkeepRelated, Scanned, Same
    <3>4. Serving(a)'  BY <1>2, <1>3, <2>1 DEF Serving, Deleted
    <3>. QED  BY <3>1, <3>2, <3>3, <3>4 DEF UseRelated
  <2>12. ASSUME NEW b \in Users, b # a PROVE Using(b)' /\ Noticed(b)' /\ Serving(b)'
    <3>1. run'[b] = run[b] /\ UseRelated(b) /\ b \in Actors  BY <2>1, <2>12, ActorsAre DEF Steps, Inv
    <3>2. run[b].pc \notin LockedPlace  BY <1>1, <1>3, <2>12, <3>1 DEF Locked
    <3>3. Using(b)'
      BY <1>2, <1>5, <3>1 DEF UseRelated, Using, Same, MatchesSource, Warm
    <3>4. Noticed(b)' /\ Serving(b)'  BY <3>1, <3>2 DEF Noticed, Serving, LockedPlace
    <3>. QED  BY <3>3, <3>4
  <2>13. RowWell(row') /\ owed' \in BOOLEAN /\ idle' \in 0..Never
    BY <1>1, <1>2, <1>5, <2>6, Bounds DEF Rewritten, Typed, CountsTyped
  <2>. QED
    BY <1>1, <1>2, <2>1, <2>2, <2>3, <2>7, <2>8, <2>9, <2>10, <2>11, <2>12, <2>13, RowStepKeeps
<1>. QED  BY <1>1, <1>4, <1>5, RecordUseGoes

----------------------------------------------------------------------------
(* Steps that write the operation.                                         *)

\* What may go wrong when the operation is written.
LEMMA OpStepKeeps ==
  ASSUME Inv, NEW a \in Actors, Steps(a, run'[a]), LockGoes(a),
         UNCHANGED <<doc, row, base, owed, k, born, contents, idle, served>>, op' \in OpRecord,
         op'.kind = "none" => op' = NoOp, op'.tgt > 0 => op'.tgt > op'.rev,
         op'.kind \in {"compact", "restore"} /\ op'.phase # "prepared" => op'.tgt > 0,
         Planned(op)', Compacting', Published', Retiring', RestoringOp',
         UpkeepRelated', CallerRelated(a)', a \in Users => UseRelated(a)',
         \A b \in Actors : b # a => Restoring(b)',
         \A b \in Users : b # a => UserDrives(b)' /\ Noticed(b)' /\ Serving(b)'
  PROVE  Inv'
<1>1. Typed'
  <2>1. lock' \in Actors \cup {"none"}  BY LockedKept DEF Inv
  <2>. QED  BY <2>1 DEF Inv, Typed, StoresTyped, CountsTyped, Steps
<1>2. StoresRelated'
  <2>. USE DEF Inv, StoresRelated
  <2>1. DocWell' /\ Coherent'  BY DEF DocWell, Coherent
  <2>2. RowPast' /\ BasePast'  BY DEF RowPast, BasePast, Past, Same
  <2>3. Shortened'  BY DEF Shortened, ForCompacted
  <2>4. FreshRow' /\ Candidates'  BY DEF FreshRow, Candidates, RowOf, Activity
  <2>5. ServedOriginals'  BY DEF ServedOriginals, Deleted
  <2>. QED  BY <2>1, <2>2, <2>3, <2>4, <2>5
<1>3. \A b \in Actors : b # a => run'[b] = run[b]  BY DEF Steps
<1>4. \A b \in Actors : CallerRelated(b)'
  <2>1. ASSUME NEW b \in Actors, b # a PROVE CallerRelated(b)'
    <3>1. run'[b] = run[b] /\ Copied(b) /\ Planned(run[b].op)  BY <1>3, <2>1 DEF Inv, CallerRelated
    <3>2. Copied(b)'  BY <3>1 DEF Copied, Past, Same
    <3>3. Planned(run[b].op)'  BY <3>1 DEF Planned, Past, MatchesSource, MatchesTarget
    <3>. QED  BY <2>1, <3>2, <3>3 DEF CallerRelated
  <2>. QED  BY <2>1
<1>5. \A b \in Users : UseRelated(b)'
  <2>1. ASSUME NEW b \in Users, b # a PROVE UseRelated(b)'
    <3>1. run'[b] = run[b] /\ UserPlaced(b) /\ Using(b)  BY <1>3, <2>1, ActorsAre DEF Inv, UseRelated
    <3>2. UserPlaced(b)'  BY <3>1 DEF UserPlaced
    <3>3. Using(b)'  BY <3>1 DEF Using, Warm, MatchesSource, Same
    <3>. QED  BY <2>1, <3>2, <3>3 DEF UseRelated
  <2>. QED  BY <2>1
<1>6. Locked'  BY LockedKept DEF Inv
<1>. QED  BY <1>1, <1>2, <1>4, <1>5, <1>6 DEF Inv

\* The others, while the operation advances.
LEMMA OthersAdvanced ==
  ASSUME Inv, NEW a \in Actors, Steps(a, run'[a]), UNCHANGED <<doc, row>>,
         op.kind # "none", SameOp(op', op), a \notin Users => run'[a].pc \notin ScanPlace
  PROVE  /\ \A b \in Actors : b # a => Restoring(b)'
         /\ \A b \in Users : b # a => UserDrives(b)' /\ Noticed(b)' /\ Serving(b)'
<1>1. ASSUME NEW b \in Actors, b # a PROVE Restoring(b)'
  <2>1. run'[b] = run[b] /\ Restoring(b)  BY <1>1 DEF Steps, Inv, CallerRelated
  <2>. QED  BY <2>1 DEF Restoring, MatchesSource, SameOp
<1>2. ASSUME NEW b \in Users, b # a PROVE UserDrives(b)' /\ Noticed(b)' /\ Serving(b)'
  <2>1. run'[b] = run[b] /\ UseRelated(b)  BY <1>2, ActorsAre DEF Steps, Inv
  <2>2. U' = U \/ U'.pc \notin ScanPlace  BY ActorsAre DEF Steps, U
  <2>3. UserDrives(b)'  BY <2>1 DEF UseRelated, UserDrives, MatchesSource, SameOp
  <2>4. Noticed(b)'  BY <2>1, <2>2 DEF UseRelated, Noticed, Same, ScanPlace
  <2>5. Serving(b)'  BY <2>1, NobodyServed DEF UseRelated, Serving, Deleted
  <2>. QED  BY <2>3, <2>4, <2>5
<1>. QED  BY <1>1, <1>2

\* The others, while an operation is prepared.
LEMMA OthersPrepared ==
  ASSUME Inv, NEW a \in Actors, Steps(a, run'[a]), UNCHANGED <<doc, row>>,
         op = NoOp, lock = "none", a \notin Users => run'[a].pc \notin ScanPlace
  PROVE  /\ \A b \in Actors : b # a => Restoring(b)'
         /\ \A b \in Users : b # a => UserDrives(b)' /\ Noticed(b)' /\ Serving(b)'
<1>1. ASSUME NEW b \in Actors, b # a PROVE Restoring(b)'
  <2>1. run'[b] = run[b] /\ Restoring(b)  BY <1>1 DEF Steps, Inv, CallerRelated
  <2>. QED  BY <2>1, NothingIs DEF Restoring, MatchesSource, SameOp
<1>2. ASSUME NEW b \in Users, b # a PROVE UserDrives(b)' /\ Noticed(b)' /\ Serving(b)'
  <2>1. run'[b] = run[b] /\ UseRelated(b) /\ b # "none" /\ b \in Actors
    BY <1>2, ActorsAre DEF Steps, Inv
  <2>2. run[b].pc \notin LockedPlace  BY <2>1 DEF Inv, Locked
  <2>3. UserDrives(b)' /\ Serving(b)'  BY <2>1, <2>2 DEF UserDrives, Serving, LockedPlace, CleanPlace
  <2>4. U' = U \/ U'.pc \notin ScanPlace  BY ActorsAre DEF Steps, U
  <2>5. Noticed(b)'  BY <2>1, <2>4 DEF UseRelated, Noticed, Same, ScanPlace
  <2>. QED  BY <2>3, <2>5
<1>. QED  BY <1>1, <1>2

\* The others, when an operation ends.
LEMMA OthersEnded ==
  ASSUME Inv, NEW a \in Actors, Steps(a, run'[a]), UNCHANGED <<doc, row>>,
         op.kind # "none", op' = NoOp, lock \in {a, "none"}, op.kind = "restore" => ~MatchesSource(doc, op),
         a \notin Users => run'[a].pc \notin ScanPlace
  PROVE  /\ \A b \in Actors : b # a => Restoring(b)'
         /\ \A b \in Users : b # a => UserDrives(b)' /\ Noticed(b)' /\ Serving(b)'
<1>1. ASSUME NEW b \in Actors, b # a PROVE Restoring(b)'
  <2>1. run'[b] = run[b] /\ Restoring(b)  BY <1>1 DEF Steps, Inv, CallerRelated
  <2>2. ~(run[b].op.kind = "restore" /\ MatchesSource(doc, run[b].op))
    BY <2>1 DEF Restoring, SameOp, MatchesSource
  <2>3. MatchesSource(doc, run[b].op)' <=> MatchesSource(doc, run[b].op)  BY <2>1 DEF MatchesSource
  <2>. QED  BY <2>1, <2>2, <2>3 DEF Restoring, MatchesSource
<1>2. ASSUME NEW b \in Users, b # a PROVE UserDrives(b)' /\ Noticed(b)' /\ Serving(b)'
  <2>1. run'[b] = run[b] /\ UseRelated(b) /\ b # "none" /\ b \in Actors
    BY <1>2, ActorsAre DEF Steps, Inv
  <2>2. run[b].pc \notin LockedPlace  BY <1>2, <2>1 DEF Inv, Locked
  <2>3. UserDrives(b)' /\ Serving(b)'  BY <2>1, <2>2 DEF UserDrives, Serving, LockedPlace, CleanPlace
  <2>4. U' = U \/ U'.pc \notin ScanPlace  BY ActorsAre DEF Steps, U
  <2>5. Noticed(b)'  BY <2>1, <2>4 DEF UseRelated, Noticed, Same, ScanPlace
  <2>. QED  BY <2>3, <2>5
<1>. QED  BY <1>1, <1>2

LEMMA PrepareRetireKeeps == ASSUME Inv, PrepareRetire PROVE Inv'
<1>. DEFINE d == U.doc
<1>1. /\ Typed /\ U.pc = "prepare_retire" /\ UpkeepRelated /\ CallerRelated("upkeep")
      /\ DocWell /\ Published /\ "upkeep" \in Actors
  BY ActorsAre DEF Inv, StoresRelated, PrepareRetire, At, U
<1>2. UNCHANGED <<doc, row, base, owed, k, born, contents, idle, served>> /\ lock' = lock
  BY DEF PrepareRetire, Prepare, jobs, clock
<1>3. CASE Gone("upkeep") /\ op' = op
  <2>1. Quiet  BY <1>2, <1>3 DEF Quiet
  <2>2. LockGoes("upkeep")
    BY <1>1, <1>2, <1>3, GoneUnheld DEF LockedPlace, CleanPlace, FinishPlace, U
  <2>. QED  BY <1>1, <1>3, <2>1, <2>2, GoneKeeps
<1>4. CASE /\ Moves("upkeep", "resume", d, op') /\ LockFree /\ op' \in OpRecord
           /\ IF op = NoOp
              THEN /\ op'.kind = "retire" /\ op'.rev = d.rev /\ op'.born = d.born
                   /\ op'.phase = "prepared" /\ op'.tgt = 0
              ELSE op' = op /\ op.kind = "retire" /\ op.rev = d.rev /\ op.born = d.born
  <2>1. op.kind # "retire"  BY <1>1 DEF UpkeepRelated, UpkeepDrives, ScanPlace
  <2>2. /\ op = NoOp /\ op.kind = "none" /\ op'.kind = "retire" /\ op'.rev = d.rev /\ op'.born = d.born
        /\ op'.phase = "prepared" /\ op'.tgt = 0 /\ lock = "none"
    BY <1>4, <2>1, NothingIs DEF LockFree
  <2>3. /\ Steps("upkeep", run'["upkeep"]) /\ U' = run'["upkeep"] /\ U'.pc = "resume" /\ U'.doc = d /\ U'.op = op'
    BY <1>4 DEF Moves, U
  <2>4. /\ d.rev > 0 /\ (doc.short => Same(doc, d)) /\ (Same(doc, d) => RowOf(doc) /\ row.ret)
        /\ d.rev \in Nat /\ d.born \in Nat /\ Past(d.rev, d.born)
        /\ (doc.rev > 0 /\ ~Same(doc, d) => doc.age = 0)
    BY <1>1, CallerIs DEF UpkeepRelated, Scanned, ScanPlace, CallerRelated, Copied, Same, U
  <2>5. doc.rev > 0 => (MatchesSource(doc, op') <=> Same(doc, d))  BY <2>2 DEF MatchesSource, Same
  <2>. HIDE DEF d
  <2>6. MatchesSource(doc, op)' <=> MatchesSource(doc, op')  BY <1>2 DEF MatchesSource
  <2>7. doc.short => doc.rev > 0  BY <1>1, NothingIs, StoresAre DEF DocWell
  <2>8. Planned(op)'
    BY <1>2, <2>2, <2>4, StoresAre, <1>1 DEF Planned, Past, MatchesTarget
  <2>9. Compacting' /\ RestoringOp'  BY <2>2 DEF Compacting, RestoringOp
  <2>10. Published'  BY <1>1, <1>2, <2>2 DEF Published, RowOf
  <2>11. Retiring'
    <3>1. doc.short => MatchesSource(doc, op')  BY <2>4, <2>5, <2>7
    <3>2. MatchesSource(doc, op') => RowOf(doc) /\ row.ret  BY <2>4, <2>5 DEF MatchesSource
    <3>3. doc.rev > 0 /\ ~MatchesSource(doc, op') => doc.age <= idle  BY <1>1, <2>4, <2>5, StoresAre
    <3>. QED  BY <1>2, <2>6, <3>1, <3>2, <3>3 DEF Retiring, RowOf
  <2>12. UpkeepRelated'
    <3>1. UpkeepPlaced' /\ UpkeepDrives'
      BY <2>2, <2>3 DEF UpkeepPlaced, AnyPlace, UpkeepDrives, ScanPlace, FinishPlace, CleanPlace
    <3>2. Scanned' /\ Driven'  BY <2>3 DEF Scanned, ScanPlace, Driven
    <3>. QED  BY <3>1, <3>2 DEF UpkeepRelated
  <2>13. CallerRelated("upkeep")'
    <3>1. Copied("upkeep")'  BY <1>1, <1>2, <2>3 DEF CallerRelated, Copied, Past, Same, U, d
    <3>2. Planned(run["upkeep"].op)'  BY <2>3, <2>8 DEF U
    <3>3. Restoring("upkeep")'  BY <2>2, <2>3 DEF Restoring, U
    <3>. QED  BY <3>1, <3>2, <3>3 DEF CallerRelated
  <2>14. LockGoes("upkeep")  BY <1>1, <1>2, <2>3 DEF LockGoes, LockedPlace, CleanPlace, FinishPlace, U
  <2>15. /\ \A b \in Actors : b # "upkeep" => Restoring(b)'
         /\ \A b \in Users : b # "upkeep" => UserDrives(b)' /\ Noticed(b)' /\ Serving(b)'
    BY <1>1, <1>2, <2>2, <2>3, OthersPrepared DEF ScanPlace
  <2>. QED
    BY <1>1, <1>2, <1>4, <2>2, <2>3, <2>8, <2>9, <2>10, <2>11, <2>12, <2>13, <2>14, <2>15, ActorsAre, OpStepKeeps
<1>. QED  BY <1>1, <1>3, <1>4, PrepareRetireGoes

LEMMA PrepareCompactKeeps == ASSUME Inv, PrepareCompact PROVE Inv'
<1>. DEFINE d == U.doc
<1>1. /\ Typed /\ U.pc = "prepare_compact" /\ UpkeepRelated /\ CallerRelated("upkeep")
      /\ DocWell /\ Published /\ "upkeep" \in Actors
  BY ActorsAre DEF Inv, StoresRelated, PrepareCompact, At, U
<1>2. UNCHANGED <<doc, row, base, owed, k, born, contents, idle, served>> /\ lock' = lock
  BY DEF PrepareCompact, Prepare, jobs, clock
<1>3. CASE Gone("upkeep") /\ op' = op
  <2>1. Quiet  BY <1>2, <1>3 DEF Quiet
  <2>2. LockGoes("upkeep")
    BY <1>1, <1>2, <1>3, GoneUnheld DEF LockedPlace, CleanPlace, FinishPlace, U
  <2>. QED  BY <1>1, <1>3, <2>1, <2>2, GoneKeeps
<1>4. CASE /\ Moves("upkeep", "resume", d, op') /\ LockFree /\ op' \in OpRecord
           /\ IF op = NoOp
              THEN /\ op'.kind = "compact" /\ op'.rev = d.rev /\ op'.born = d.born
                   /\ op'.plan = d.k /\ op'.ver = U.ver
                   /\ op'.phase = "prepared" /\ op'.tgt = 0
              ELSE op' = op /\ op.kind = "compact"
  <2>1. op.kind # "compact"  BY <1>1 DEF UpkeepRelated, UpkeepDrives, ScanPlace
  <2>2. /\ op = NoOp /\ op.kind = "none" /\ op'.kind = "compact" /\ op'.rev = d.rev /\ op'.born = d.born
        /\ op'.plan = d.k /\ op'.ver = U.ver /\ op'.phase = "prepared" /\ op'.tgt = 0 /\ lock = "none"
    BY <1>4, <2>1, NothingIs DEF LockFree
  <2>3. /\ Steps("upkeep", run'["upkeep"]) /\ U' = run'["upkeep"] /\ U'.pc = "resume" /\ U'.doc = d /\ U'.op = op'
    BY <1>4 DEF Moves, U
  <2>4. /\ d.rev > 0 /\ ~doc.short /\ d.rev \in Nat /\ d.born \in Nat /\ Past(d.rev, d.born)
        /\ Same(doc, d) => /\ doc = d /\ U.ver <= row.ver /\ (row.ver = U.ver => idle >= 1)
                           /\ row.ver > U.ver \/ (base.rev = doc.rev /\ base.born = doc.born /\ base.k = doc.k)
        /\ base = NoBase \/ (base.rev = d.rev /\ base.born = d.born)
    BY <1>1, CallerIs DEF UpkeepRelated, Scanned, ScanPlace, CallerRelated, Copied, Same, U
  <2>5. MatchesSource(doc, op') => Same(doc, d)  BY <2>2 DEF MatchesSource, Same
  <2>. HIDE DEF d
  <2>6. MatchesSource(doc, op)' <=> MatchesSource(doc, op')  BY <1>2 DEF MatchesSource
  <2>7. Planned(op)'
    <3>1. MatchesSource(doc, op)' => op'.plan = doc'.k /\ ~doc'.short  BY <1>2, <2>2, <2>4, <2>5, <2>6
    <3>. QED  BY <1>1, <1>2, <2>2, <2>4, <3>1, StoresAre DEF Planned, Past, MatchesTarget
  <2>8. Retiring' /\ RestoringOp' /\ Published'  BY <2>2 DEF Retiring, RestoringOp, Published
  <2>9. Compacting'
    <3>1. base = NoBase \/ (base.rev = op'.rev /\ base.born = op'.born)  BY <2>2, <2>4
    <3>2. MatchesSource(doc, op') => /\ op'.ver <= row.ver /\ (row.ver = op'.ver => idle >= 1)
                                     /\ BaseFor(op') \/ row.ver > op'.ver
      BY <2>2, <2>4, <2>5 DEF BaseFor
    <3>3. BaseFor(op)' <=> BaseFor(op')  BY <1>2 DEF BaseFor
    <3>. QED  BY <1>2, <2>4, <2>6, <3>1, <3>2, <3>3 DEF Compacting
  <2>10. UpkeepRelated'
    <3>1. UpkeepPlaced' /\ UpkeepDrives'
      BY <2>2, <2>3 DEF UpkeepPlaced, AnyPlace, UpkeepDrives, ScanPlace, FinishPlace, CleanPlace
    <3>2. Scanned' /\ Driven'  BY <2>3 DEF Scanned, ScanPlace, Driven
    <3>. QED  BY <3>1, <3>2 DEF UpkeepRelated
  <2>11. CallerRelated("upkeep")'
    <3>1. Copied("upkeep")'  BY <1>1, <1>2, <2>3 DEF CallerRelated, Copied, Past, Same, U, d
    <3>2. Planned(run["upkeep"].op)'  BY <2>3, <2>7 DEF U
    <3>3. Restoring("upkeep")'  BY <2>2, <2>3 DEF Restoring, U
    <3>. QED  BY <3>1, <3>2, <3>3 DEF CallerRelated
  <2>12. LockGoes("upkeep")  BY <1>1, <1>2, <2>3 DEF LockGoes, LockedPlace, CleanPlace, FinishPlace, U
  <2>13. /\ \A b \in Actors : b # "upkeep" => Restoring(b)'
         /\ \A b \in Users : b # "upkeep" => UserDrives(b)' /\ Noticed(b)' /\ Serving(b)'
    BY <1>1, <1>2, <2>2, <2>3, OthersPrepared DEF ScanPlace
  <2>. QED
    BY <1>1, <1>2, <1>4, <2>2, <2>3, <2>7, <2>8, <2>9, <2>10, <2>11, <2>12, <2>13, ActorsAre, OpStepKeeps
<1>. QED  BY <1>1, <1>3, <1>4, PrepareCompactGoes

LEMMA PrepareRestoreKeeps == ASSUME Inv, NEW a \in Users, PrepareRestore(a) PROVE Inv'
<1>. DEFINE d == run[a].doc
<1>1. /\ Typed /\ run[a].pc = "prepare_restore" /\ UpkeepRelated /\ CallerRelated(a) /\ UseRelated(a)
      /\ DocWell /\ Published /\ Shortened /\ a \in Actors /\ Planned(op)
  BY ActorsAre DEF Inv, StoresRelated, PrepareRestore, At
<1>2. UNCHANGED <<doc, row, base, owed, k, born, contents, idle, served>> /\ lock' = lock
  BY DEF PrepareRestore, Prepare, jobs, clock
<1>3. CASE Gone(a) /\ op' = op
  <2>1. Quiet  BY <1>2, <1>3 DEF Quiet
  <2>2. LockGoes(a)  BY <1>1, <1>2, <1>3, GoneUnheld DEF LockedPlace, CleanPlace, FinishPlace
  <2>. QED  BY <1>1, <1>3, <2>1, <2>2, GoneKeeps
<1>4. CASE /\ Moves(a, "resume", d, op') /\ LockFree /\ op' \in OpRecord
           /\ op'.rev = d.rev /\ op'.born = d.born
           /\ IF op = NoOp
              THEN /\ op'.kind = "restore" /\ op'.plan = run[a].op.plan
                   /\ op'.phase = "prepared" /\ op'.tgt = 0 /\ op'.age = 0
              ELSE op' = op /\ op.kind = "restore" /\ op.plan = run[a].op.plan
  <2>1. /\ Steps(a, run'[a]) /\ run'[a].pc = "resume" /\ run'[a].doc = d /\ run'[a].op = op' /\ lock = "none"
        /\ op'.kind = "restore"
    BY <1>4 DEF Moves, LockFree
  <2>2. /\ d.rev > 0 /\ d.rev \in Nat /\ d.born \in Nat /\ Past(d.rev, d.born)
        /\ doc.rev > 0 /\ ~Same(doc, d) => Warm
        /\ doc.rev > 0 /\ Same(doc, d) => run[a].op.plan = doc.k /\ doc.short
    BY <1>1, CallerIs DEF UseRelated, Using, UsePlace, CallerRelated, Copied
  <2>3. MatchesSource(doc, op') <=> doc.rev > 0 /\ Same(doc, d)  BY <1>4 DEF MatchesSource, Same
  <2>. HIDE DEF d
  <2>4. MatchesSource(doc, op)' <=> MatchesSource(doc, op')  BY <1>2 DEF MatchesSource
  <2>5. Planned(op)'
    <3>1. CASE op = NoOp
      <4>1. op'.tgt = 0 /\ op'.phase = "prepared" /\ op'.plan = run[a].op.plan  BY <1>4, <3>1
      <4>2. MatchesSource(doc, op)' => op'.plan = doc'.k /\ doc'.short  BY <1>2, <2>2, <2>3, <2>4, <4>1
      <4>. QED  BY <1>1, <1>2, <1>4, <2>1, <2>2, <4>1, <4>2, StoresAre DEF Planned, Past, MatchesTarget
    <3>2. CASE op # NoOp
      <4>1. op' = op  BY <1>4, <3>2
      <4>. QED  BY <1>1, <1>2, <4>1 DEF Planned, Past, MatchesTarget, MatchesSource
    <3>. QED  BY <3>1, <3>2
  <2>6. UserPlaced(a)' /\ UserDrives(a)'  BY <2>1 DEF UserPlaced, UserDrives, AnyPlace, CleanPlace
  <2>7. Using(a)'
    <3>1. doc.rev > 0 /\ ~MatchesSource(doc, op') => Warm  BY <2>2, <2>3
    <3>. QED  BY <1>2, <2>1, <2>4, <3>1 DEF Using, UsePlace, CleanPlace, Warm
  <2>8. Noticed(a)' /\ Serving(a)'  BY <2>1 DEF Noticed, Serving
  <2>9. UseRelated(a)'  BY <2>6, <2>7, <2>8 DEF UseRelated
  <2>10. CallerRelated(a)'
    <3>1. Copied(a)'  BY <1>1, <1>2, <2>1 DEF CallerRelated, Copied, Past, Same, d
    <3>2. Planned(run[a].op)'  BY <2>1, <2>5
    <3>3. Restoring(a)'  BY <2>1 DEF Restoring, SameOp
    <3>. QED  BY <3>1, <3>2, <3>3 DEF CallerRelated
  <2>11. LockGoes(a)  BY <1>1, <1>2, <2>1 DEF LockGoes, LockedPlace, CleanPlace, FinishPlace
  <2>12. CASE op # NoOp
    <3>1. Quiet  BY <1>2, <1>4, <2>12 DEF Quiet
    <3>2. \A b \in Users : b # a => Noticed(b)' /\ Serving(b)'
      BY <2>1, <3>1, QuietIs, OthersServed, <1>1
    <3>. QED  BY <1>1, <2>1, <2>9, <2>10, <2>11, <3>1, <3>2, MoverKeeps
  <2>13. CASE op = NoOp
    <3>1. op'.tgt = 0 /\ op'.phase = "prepared" /\ op.kind = "none"  BY <1>4, <2>13, NothingIs
    <3>2. Compacting' /\ Retiring'  BY <2>1 DEF Compacting, Retiring
    <3>3. RestoringOp'
      <4>1. doc.short => doc.rev > 0 /\ ~Warm
        BY <1>1, NothingIs, StoresAre DEF DocWell, Shortened, Warm
      <4>2. doc.short => MatchesSource(doc, op')  BY <2>2, <2>3, <4>1
      <4>. QED  BY <1>2, <2>4, <4>2 DEF RestoringOp
    <3>4. Published'  BY <1>1, <1>2, <3>1 DEF Published, RowOf
    <3>5. UpkeepRelated'
      <4>1. U' = U  BY <2>1, ActorsAre DEF Steps, U
      <4>2. U.op.kind # "compact" /\ ~(U.op.kind = "restore")
        BY <1>1, <3>1 DEF UpkeepRelated, UpkeepDrives, SameOp
      <4>3. U.pc \notin CompactPlace /\ U.pc \notin FinishPlace /\ U.pc \notin {"delete", "delete_done"} \cup CleanPlace
        BY <1>1, <3>1, <4>2, UpkeepAt DEF UpkeepRelated, UpkeepDrives
      <4>4. UpkeepPlaced' /\ UpkeepDrives'
        BY <1>1, <2>1, <4>1, <4>2, <4>3 DEF UpkeepRelated, UpkeepPlaced, UpkeepDrives, FinishPlace, CleanPlace
      <4>5. Scanned'  BY <1>1, <1>2, <4>1 DEF UpkeepRelated, Scanned, Same, RowOf
      <4>6. Driven'  BY <1>1, <1>2, <4>1, <4>2, <4>3 DEF Driven, CompactPlace
      <4>. QED  BY <4>4, <4>5, <4>6 DEF UpkeepRelated
    <3>6. /\ \A b \in Actors : b # a => Restoring(b)'
          /\ \A b \in Users : b # a => UserDrives(b)' /\ Noticed(b)' /\ Serving(b)'
      BY <1>1, <1>2, <2>1, <2>13, OthersPrepared DEF ScanPlace
    <3>. QED
      BY <1>1, <1>2, <1>4, <2>1, <2>5, <2>9, <2>10, <2>11, <3>1, <3>2, <3>3, <3>4, <3>5, <3>6, OpStepKeeps
  <2>. QED  BY <2>12, <2>13
<1>. QED  BY <1>1, <1>3, <1>4, PrepareRestoreGoes

\* What may go wrong when the operation advances.
LEMMA AdvancedKeeps ==
  ASSUME Inv, NEW a \in Actors, Steps(a, run'[a]), LockGoes(a), run'[a].doc = run[a].doc, run'[a].op = op',
         run'[a].pc \notin {"commit_original", "original_done"} \cup ScanPlace,
         UNCHANGED <<doc, row, base, owed, k, born, contents, idle, served>>,
         op.kind # "none", op' \in OpRecord, SameOp(op', op),
         op'.tgt > 0 => op'.tgt > op'.rev, op'.tgt > 0 \/ op.kind = "retire",
         Planned(op)', Compacting', UpkeepRelated', a \in Users => UseRelated(a)'
  PROVE  Inv'
<1>1. Published /\ Retiring /\ RestoringOp /\ CallerRelated(a)  BY DEF Inv, StoresRelated
<1>2. op'.kind = op.kind /\ op'.rev = op.rev /\ op'.born = op.born  BY DEF SameOp
<1>3. Published' /\ Retiring' /\ RestoringOp'
  BY <1>1, <1>2 DEF Published, Retiring, RestoringOp, MatchesSource, RowOf
<1>4. CallerRelated(a)'
  <2>1. Copied(a)'  BY <1>1 DEF CallerRelated, Copied, Past, Same
  <2>2. Restoring(a)'  BY <1>2 DEF Restoring, SameOp
  <2>. QED  BY <2>1, <2>2 DEF CallerRelated
<1>5. /\ \A b \in Actors : b # a => Restoring(b)'
      /\ \A b \in Users : b # a => UserDrives(b)' /\ Noticed(b)' /\ Serving(b)'
  BY OthersAdvanced
<1>. QED  BY <1>2, <1>3, <1>4, <1>5, OpStepKeeps

\* A use whose restoration advances.
LEMMA UserAdvances ==
  ASSUME NEW a \in Users, UseRelated(a), UNCHANGED <<doc, idle>>, run[a].op.kind = "restore",
         SameOp(op, run[a].op), SameOp(op', op), run'[a].op = op', op'.phase # "prepared",
         run'[a].pc \in {"restore_l2", "state", "derived"}
  PROVE  UseRelated(a)'
<1>1. run'[a].op.kind = "restore" /\ (MatchesSource(doc, run[a].op)' <=> MatchesSource(doc, run[a].op))
  BY DEF SameOp, MatchesSource
<1>2. UserPlaced(a)' /\ UserDrives(a)'  BY <1>1 DEF UserPlaced, UserDrives, CleanPlace, RestorePlace, AnyPlace
<1>3. Using(a)'  BY <1>1 DEF UseRelated, Using, UsePlace, CleanPlace, Warm
<1>4. Noticed(a)' /\ Serving(a)'  BY DEF Noticed, Serving
<1>. QED  BY <1>2, <1>3, <1>4 DEF UseRelated

\* Upkeep while a use advances its restoration.
LEMMA UpkeepAdvanced ==
  ASSUME UpkeepRelated, U' = U, UNCHANGED <<doc, row, base, idle>>, op.kind = "restore", SameOp(op', op),
         U.pc \notin FinishPlace
  PROVE  UpkeepRelated'
<1>1. op'.kind = "restore" /\ op'.rev = op.rev /\ op'.born = op.born  BY DEF SameOp
<1>2. U.pc \notin CompactPlace /\ U.pc \notin {"delete", "delete_done"} \cup CleanPlace /\ U.op.kind # "compact"
  BY UpkeepAt DEF UpkeepRelated, UpkeepDrives
<1>3. UpkeepPlaced' /\ UpkeepDrives'
  BY <1>1, <1>2 DEF UpkeepRelated, UpkeepPlaced, UpkeepDrives, FinishPlace, CleanPlace, SameOp
<1>4. Scanned'  BY DEF UpkeepRelated, Scanned, Same, RowOf
<1>5. Driven'  BY <1>2 DEF Driven, CompactPlace
<1>. QED  BY <1>3, <1>4, <1>5 DEF UpkeepRelated

LEMMA PlannedOn ==
  ASSUME Typed, DocWell, Planned(op), UNCHANGED <<doc, born>>, op' \in OpRecord, SameOp(op', op),
         op'.plan = op.plan, op'.tgt = op.tgt,
         op.kind = "retire" => ~MatchesSource(doc, op), op.kind = "restore" => op.tgt > 0
  PROVE  Planned(op)'
<1>1. op'.kind = op.kind /\ op'.rev = op.rev /\ op'.born = op.born  BY DEF SameOp
<1>2. op.kind = "restore" => ~MatchesSource(doc, op)
  BY StoresAre DEF Planned, Past, MatchesSource, DocWell
<1>. QED  BY <1>1, <1>2 DEF Planned, Past, MatchesSource, MatchesTarget

\* The recall state of the operation is published.
LEMMA StateWritten ==
  ASSUME Inv, NEW a \in Actors, NEW next \in {"state", "derived"}, run[a].pc \in {"publish_done", "state"},
         UNCHANGED <<doc, row, base, owed, k, born, contents, idle, served>>, lock' = lock, lock = "none",
         Moves(a, next, run[a].doc, op'), SameOp(op, run[a].op),
         op' \in OpRecord, SameOp(op', op), op'.ver = op.ver, op'.plan = op.plan, op'.phase = next,
         op'.tgt = op.tgt, op'.tgt # 0,
         U.op.kind = "compact" /\ a = "upkeep" /\ doc.short => RowOf(doc) /\ row.comp
  PROVE  Inv'
<1>1. Typed /\ DocWell /\ Planned(op) /\ Compacting /\ UpkeepRelated /\ Locked /\ Coherent
  BY DEF Inv, StoresRelated
<1>2. /\ Steps(a, run'[a]) /\ run'[a].pc = next /\ run'[a].doc = run[a].doc /\ run'[a].op = op'
      /\ op'.kind = op.kind /\ op'.rev = op.rev /\ op'.born = op.born
  BY DEF Moves, SameOp
<1>3. /\ a \in Users => run[a].op.kind = "restore" /\ op.kind = "restore" /\ UseRelated(a)
      /\ a \notin Users => a = "upkeep" /\ U = run[a] /\ U' = run'[a] /\ op.kind \in {"compact", "restore"}
                           /\ op.kind = U.op.kind
  <2>1. CASE a \in Users  BY <2>1, UserAt DEF Inv, UseRelated, AnyPlace, SameOp
  <2>2. CASE a \notin Users
    <3>1. a = "upkeep" /\ U = run[a] /\ U' = run'[a]  BY <2>2, ActorsAre DEF U
    <3>2. U.op.kind \in {"compact", "restore"}  BY <1>1, <3>1 DEF UpkeepRelated, UpkeepDrives
    <3>. QED  BY <2>2, <3>1, <3>2 DEF SameOp
  <2>. QED  BY <2>1, <2>2
<1>4. op.kind \in {"compact", "restore"}  BY <1>3
<1>5. op'.tgt > 0 /\ op'.tgt > op'.rev  BY <1>1, <1>2, StoresAre DEF Coherent
<1>6. Planned(op)'  BY <1>1, <1>2, <1>4, <1>5, PlannedOn
<1>7. Compacting'
  <2>1. CASE op.kind = "compact"
    <3>1. doc.short => RowOf(doc) /\ row.comp  BY <1>3, <2>1
    <3>2. (MatchesSource(doc, op)' <=> MatchesSource(doc, op)) /\ (BaseFor(op)' <=> BaseFor(op))
      BY <1>2 DEF MatchesSource, BaseFor
    <3>3. RowOf(doc)' <=> RowOf(doc)  BY DEF RowOf
    <3>. QED  BY <1>1, <1>2, <2>1, <3>1, <3>2, <3>3 DEF Compacting
  <2>2. CASE op.kind # "compact"  BY <1>2, <2>2 DEF Compacting
  <2>. QED  BY <2>1, <2>2
<1>8. UpkeepRelated'
  <2>1. CASE a \in Users
    <3>1. U' = U /\ "upkeep" \in Actors /\ "upkeep" # "none"  BY <1>2, <2>1, ActorsAre DEF Steps, U
    <3>2. U.pc \notin FinishPlace  BY <1>1, <3>1 DEF Locked, LockedPlace, U
    <3>. QED  BY <1>1, <1>3, <2>1, <3>1, <3>2, UpkeepAdvanced
  <2>2. CASE a \notin Users
    <3>1. UpkeepPlaced' /\ UpkeepDrives'
      BY <1>2, <1>3, <2>2 DEF UpkeepPlaced, AnyPlace, UpkeepDrives, ScanPlace, FinishPlace, CleanPlace, SameOp
    <3>2. Scanned' /\ Driven'  BY <1>2, <1>3, <2>2 DEF Scanned, ScanPlace, Driven
    <3>. QED  BY <3>1, <3>2 DEF UpkeepRelated
  <2>. QED  BY <2>1, <2>2
<1>9. a \in Users => UseRelated(a)'  BY <1>2, <1>3, UserAdvances
<1>10. LockGoes(a)  BY <1>2 DEF LockGoes, LockedPlace, CleanPlace, FinishPlace
<1>11. run'[a].pc \notin {"commit_original", "original_done"} \cup ScanPlace  BY <1>2 DEF ScanPlace
<1>12. op.kind # "none"  BY <1>4
<1>. QED  BY <1>2, <1>5, <1>6, <1>7, <1>8, <1>9, <1>10, <1>11, <1>12, AdvancedKeeps

LEMMA PublishDoneKeeps == ASSUME Inv, NEW a \in Actors, PublishDone(a) PROVE Inv'
<1>1. Typed /\ run[a].pc = "publish_done" /\ UpkeepRelated  BY DEF Inv, PublishDone, At
<1>2. UNCHANGED <<doc, row, base, owed, k, born, contents, idle, served>> /\ lock' = lock
  BY DEF PublishDone, Advance, jobs, clock
<1>3. CASE Gone(a) /\ op' = op
  <2>1. Quiet  BY <1>2, <1>3 DEF Quiet
  <2>. QED  BY <1>1, <1>2, <1>3, <2>1, GoneUnheld, GoneKeeps DEF LockedPlace, CleanPlace, FinishPlace
<1>4. CASE ~(Gone(a) /\ op' = op)
  <2>1. U.op.kind = "compact" /\ a = "upkeep" /\ doc.short => RowOf(doc) /\ row.comp
    BY <1>1 DEF UpkeepRelated, Driven, U
  <2>. QED  BY <1>1, <1>2, <1>4, <2>1, PublishDoneGoes, StateWritten DEF LockFree
<1>. QED  BY <1>3, <1>4

LEMMA StateDoneKeeps == ASSUME Inv, NEW a \in Actors, StateDone(a) PROVE Inv'
<1>1. Typed /\ run[a].pc = "state" /\ UpkeepRelated /\ Compacting  BY DEF Inv, StoresRelated, StateDone, At
<1>2. UNCHANGED <<doc, row, base, owed, k, born, contents, idle, served>> /\ lock' = lock
  BY DEF StateDone, Advance, jobs, clock
<1>3. CASE Gone(a) /\ op' = op
  <2>1. Quiet  BY <1>2, <1>3 DEF Quiet
  <2>. QED  BY <1>1, <1>2, <1>3, <2>1, GoneUnheld, GoneKeeps DEF LockedPlace, CleanPlace, FinishPlace
<1>4. CASE ~(Gone(a) /\ op' = op)
  <2>1. ASSUME U.op.kind = "compact", a = "upkeep", doc.short PROVE RowOf(doc) /\ row.comp
    <3>1. op = U.op /\ U.op.phase = "state"  BY <1>1, <2>1 DEF UpkeepRelated, UpkeepDrives, U
    <3>. QED  BY <1>1, <2>1, <3>1 DEF Compacting
  <2>. QED  BY <1>1, <1>2, <1>4, <2>1, StateDoneGoes, StateWritten DEF LockFree
<1>. QED  BY <1>3, <1>4

LEMMA ShortDoneKeeps == ASSUME Inv, NEW a \in Actors, ShortDone(a) PROVE Inv'
<1>. DEFINE d == U.doc
<1>1. /\ Typed /\ run[a].pc = "short_done" /\ UpkeepRelated /\ Compacting /\ Planned(op) /\ DocWell
      /\ CallerRelated("upkeep") /\ Coherent
  BY ActorsAre DEF Inv, StoresRelated, ShortDone, At
<1>2. UNCHANGED <<doc, row, base, owed, k, born, contents, idle, served>> /\ lock' = lock
  BY DEF ShortDone, Advance, jobs, clock
<1>3. a = "upkeep" /\ a \notin Users /\ U = run[a] /\ op = U.op /\ op.kind = "compact"
  BY <1>1, CompacterAt DEF CompactPlace
<1>4. CASE Gone(a) /\ op' = op
  <2>1. Quiet  BY <1>2, <1>4 DEF Quiet
  <2>. QED  BY <1>1, <1>2, <1>4, <2>1, GoneUnheld, GoneKeeps DEF LockedPlace, CleanPlace, FinishPlace
<1>5. CASE ~(Gone(a) /\ op' = op)
  <2>1. /\ Moves(a, "compact_l2", d, op') /\ LockFree /\ op' \in OpRecord /\ SameOp(op', op)
        /\ op'.ver = op.ver /\ op'.plan = op.plan /\ op'.phase = "l2"
        /\ op'.tgt = IF d.rev = 0 THEN op.tgt ELSE d.rev
    BY <1>1, <1>3, <1>5, ShortDoneGoes
  <2>2. /\ Steps(a, run'[a]) /\ run'[a].pc = "compact_l2" /\ run'[a].doc = run[a].doc /\ run'[a].op = op'
        /\ U' = run'[a] /\ op'.kind = "compact" /\ op'.rev = op.rev /\ op'.born = op.born
    BY <1>3, <2>1 DEF Moves, SameOp, U
  <2>3. op.phase \in {"prepared", "l2"}
    <3>1. ~(PhaseNo("l2") < PhaseNo(run[a].op.phase))
      <4>1. SUFFICES ASSUME PhaseNo("l2") < PhaseNo(run[a].op.phase) PROVE FALSE  OBVIOUS
      <4>2. Gone(a) /\ op' = op  BY <1>1, <4>1, Leaving DEF ShortDone, Advance, Gone, Typed
      <4>. QED  BY <1>5, <4>2
    <3>2. run[a].op.phase = op.phase /\ op.phase \in {"prepared", "l2", "state", "derived"}
      BY <1>1, <1>3, StoresAre
    <3>. QED  BY <3>1, <3>2 DEF PhaseNo
  <2>4. /\ d.rev = op.rev + 1 /\ d.born = op.born /\ d.short /\ d.rev \in Nat /\ d.born \in Nat
        /\ Past(d.rev, d.born) /\ (Same(doc, d) => doc = d)
    BY <1>1, <1>3, CallerIs, StoresAre
       DEF UpkeepRelated, Driven, MatchesPlan, CallerRelated, Copied, Same, U
  <2>5. op'.tgt = d.rev /\ op'.tgt = op.rev + 1 /\ op'.tgt > 0 /\ op'.tgt > op'.rev
    BY <1>1, <2>1, <2>2, <2>4, StoresAre
  <2>6. MatchesTarget(doc, op') => doc.short  BY <2>2, <2>4, <2>5 DEF MatchesTarget, Same
  <2>7. MatchesSource(doc, op') <=> MatchesSource(doc, op)  BY <2>2 DEF MatchesSource
  <2>. HIDE DEF d
  <2>8. Planned(op)'
    <3>1. MatchesSource(doc, op)' <=> MatchesSource(doc, op)  BY <1>2, <2>7 DEF MatchesSource
    <3>2. MatchesTarget(doc, op)' <=> MatchesTarget(doc, op')  BY <1>2 DEF MatchesTarget
    <3>. QED  BY <1>1, <1>2, <1>3, <2>1, <2>2, <2>4, <2>5, <2>6, <3>1, <3>2 DEF Planned, Past
  <2>9. Compacting'
    <3>1. (MatchesSource(doc, op)' <=> MatchesSource(doc, op)) /\ (BaseFor(op)' <=> BaseFor(op))
      BY <1>2, <2>1, <2>2, <2>7 DEF BaseFor, MatchesSource
    <3>2. RowOf(doc)' <=> RowOf(doc)  BY <1>2 DEF RowOf
    <3>. QED  BY <1>1, <1>2, <1>3, <2>1, <2>2, <2>3, <3>1, <3>2 DEF Compacting
  <2>10. UpkeepRelated'
    <3>1. UpkeepPlaced' /\ UpkeepDrives'
      BY <2>2 DEF UpkeepPlaced, CompactPlace, UpkeepDrives, ScanPlace, FinishPlace, CleanPlace
    <3>2. Scanned' /\ Driven'  BY <2>2 DEF Scanned, ScanPlace, Driven
    <3>. QED  BY <3>1, <3>2 DEF UpkeepRelated
  <2>11. LockGoes(a)  BY <1>1, <1>2, <2>2 DEF LockGoes, LockedPlace, CleanPlace, FinishPlace
  <2>12. run'[a].pc \notin {"commit_original", "original_done"} \cup ScanPlace  BY <2>2 DEF ScanPlace
  <2>. QED
    BY <1>2, <1>3, <2>1, <2>2, <2>5, <2>8, <2>9, <2>10, <2>11, <2>12, AdvancedKeeps
<1>. QED  BY <1>4, <1>5

LEMMA OriginalDoneKeeps == ASSUME Inv, NEW a \in Actors, OriginalDone(a) PROVE Inv'
<1>. DEFINE d == run[a].doc
<1>1. /\ Typed /\ run[a].pc = "original_done" /\ UpkeepRelated /\ DocWell /\ Planned(op)
      /\ CallerRelated(a) /\ Coherent /\ Locked
  BY DEF Inv, StoresRelated, OriginalDone, At
<1>2. UNCHANGED <<doc, row, base, owed, k, born, contents, idle, served>> /\ lock' = lock
  BY DEF OriginalDone, Advance, jobs, clock, stores
<1>3. /\ run[a].op.kind = "restore" /\ (a \in Users => UseRelated(a))
      /\ a \notin Users => a = "upkeep" /\ U = run[a]
  BY <1>1, RestorerAt DEF RestorePlace, U
<1>4. CASE Gone(a) /\ op' = op
  <2>1. Quiet  BY <1>2, <1>4 DEF Quiet
  <2>. QED  BY <1>1, <1>2, <1>4, <2>1, GoneUnheld, GoneKeeps DEF LockedPlace, CleanPlace, FinishPlace
<1>5. CASE ~(Gone(a) /\ op' = op)
  <2>1. /\ Moves(a, "restore_l2", d, op') /\ lock = "none" /\ SameOp(op, run[a].op) /\ d.rev > run[a].op.rev
        /\ op' \in OpRecord /\ SameOp(op', op)
        /\ op'.ver = op.ver /\ op'.plan = op.plan /\ op'.phase = "l2" /\ op'.tgt = d.rev
    BY <1>1, <1>5, OriginalDoneGoes DEF LockFree
  <2>2. /\ Steps(a, run'[a]) /\ run'[a].pc = "restore_l2" /\ run'[a].doc = d /\ run'[a].op = op'
        /\ op.kind = "restore" /\ op'.kind = "restore" /\ op'.rev = op.rev /\ op'.born = op.born
        /\ op.rev = run[a].op.rev /\ op.born = run[a].op.born
    BY <1>3, <2>1 DEF Moves, SameOp
  <2>3. /\ d.rev > op.rev /\ ~d.short /\ d.born >= op.born /\ d.rev \in Nat /\ d.born \in Nat /\ d.rev > 0
        /\ Past(d.rev, d.born) /\ (Same(doc, d) => doc = d)
    BY <1>1, <2>1, <2>2, CallerIs, StoresAre DEF CallerRelated, Restoring, Copied, Same
  <2>4. Past(d.rev, op.born) /\ Past(op.rev, op.born) /\ op.rev > 0
    BY <1>1, <2>2, <2>3, StoresAre DEF Past, Planned
  <2>5. MatchesTarget(doc, op') => ~doc.short
    <3>1. SUFFICES ASSUME MatchesTarget(doc, op') PROVE ~doc.short  OBVIOUS
    <3>2. doc.rev = d.rev /\ doc.born = op.born /\ doc.born = born
      BY <1>1, <2>1, <2>2, <2>3, <3>1 DEF MatchesTarget, DocWell
    <3>3. d.born = born  BY <1>1, <2>3, <3>2, StoresAre DEF Past
    <3>. QED  BY <2>3, <3>2, <3>3 DEF Same
  <2>6. ~MatchesSource(doc, op)
    BY <1>1, <2>2, <2>3, <2>4, StoresAre DEF MatchesSource, Past, DocWell
  <2>. HIDE DEF d
  <2>7. op'.tgt > 0 /\ op'.tgt > op'.rev  BY <2>1, <2>2, <2>3
  <2>8. Planned(op)'
    <3>1. ~MatchesSource(doc, op)'  BY <1>2, <2>2, <2>6 DEF MatchesSource
    <3>2. MatchesTarget(doc, op)' <=> MatchesTarget(doc, op')  BY <1>2 DEF MatchesTarget
    <3>. QED  BY <1>2, <2>1, <2>2, <2>4, <2>5, <2>7, <3>1, <3>2 DEF Planned, Past
  <2>9. Compacting'  BY <2>2 DEF Compacting
  <2>10. UpkeepRelated'
    <3>1. CASE a \in Users
      <4>1. U' = U /\ "upkeep" \in Actors /\ "upkeep" # "none"  BY <2>2, <3>1, ActorsAre DEF Steps, U
      <4>2. U.pc \notin FinishPlace  BY <1>1, <2>1, <4>1 DEF Locked, LockedPlace, U
      <4>. QED  BY <1>1, <1>2, <2>1, <2>2, <4>1, <4>2, UpkeepAdvanced
    <3>2. CASE a \notin Users
      <4>1. U' = run'[a]  BY <1>3, <3>2 DEF U
      <4>2. UpkeepPlaced' /\ UpkeepDrives'
        BY <2>2, <4>1 DEF UpkeepPlaced, RestorePlace, UpkeepDrives, ScanPlace, FinishPlace, CleanPlace, SameOp
      <4>3. Scanned' /\ Driven'  BY <2>2, <4>1 DEF Scanned, ScanPlace, Driven
      <4>. QED  BY <4>2, <4>3 DEF UpkeepRelated
    <3>. QED  BY <3>1, <3>2
  <2>11. a \in Users => UseRelated(a)'  BY <1>2, <1>3, <2>1, <2>2, UserAdvances
  <2>12. LockGoes(a)  BY <1>1, <1>2, <2>2 DEF LockGoes, LockedPlace, CleanPlace, FinishPlace
  <2>13. run'[a].pc \notin {"commit_original", "original_done"} \cup ScanPlace  BY <2>2 DEF ScanPlace
  <2>. QED
    BY <1>2, <2>1, <2>2, <2>7, <2>8, <2>9, <2>10, <2>11, <2>12, <2>13, AdvancedKeeps DEF d
<1>. QED  BY <1>4, <1>5

\* A retirement that goes on after the document is gone.
LEMMA RetirementAdvanced ==
  ASSUME Inv, NEW next \in {"retire_l2", "retire_state", "derived"}, Moves("upkeep", next, U.doc, op'),
         LockGoes("upkeep"), UNCHANGED <<doc, row, base, owed, k, born, contents, idle, served>>,
         op.kind = "retire", ~MatchesSource(doc, op),
         op' \in OpRecord, SameOp(op', op), op'.plan = op.plan, op'.tgt = op.tgt, op'.phase # "prepared"
  PROVE  Inv'
<1>1. Typed /\ DocWell /\ Planned(op) /\ Coherent /\ "upkeep" \in Actors /\ "upkeep" \notin Users
  BY ActorsAre DEF Inv, StoresRelated
<1>2. /\ Steps("upkeep", run'["upkeep"]) /\ U' = run'["upkeep"] /\ U'.pc = next /\ U'.doc = U.doc /\ U'.op = op'
      /\ op'.kind = "retire" /\ op'.rev = op.rev /\ op'.born = op.born
  BY DEF Moves, SameOp, U
<1>3. Planned(op)'  BY <1>1, PlannedOn
<1>4. Compacting'  BY <1>2 DEF Compacting
<1>5. UpkeepRelated'
  <2>1. UpkeepPlaced' /\ UpkeepDrives'
    BY <1>2 DEF UpkeepPlaced, RetirePlace, AnyPlace, UpkeepDrives, ScanPlace, FinishPlace, CleanPlace, SameOp
  <2>2. Scanned' /\ Driven'  BY <1>2 DEF Scanned, ScanPlace, Driven
  <2>. QED  BY <2>1, <2>2 DEF UpkeepRelated
<1>6. U'.pc \notin {"commit_original", "original_done"} \cup ScanPlace  BY <1>2 DEF ScanPlace
<1>7. op'.tgt > 0 => op'.tgt > op'.rev  BY <1>1, <1>2 DEF Coherent
<1>. QED  BY <1>1, <1>2, <1>3, <1>4, <1>5, <1>6, <1>7, AdvancedKeeps DEF U

LEMMA DeleteDoneKeeps == ASSUME Inv, NEW a \in Actors, DeleteDone(a) PROVE Inv'
<1>1. Typed /\ run[a].pc = "delete_done" /\ UpkeepRelated /\ Locked  BY DEF Inv, DeleteDone, At
<1>2. UNCHANGED <<doc, row, base, owed, k, born, contents, idle, served>> /\ lock' = "none"
  BY DEF DeleteDone, jobs, clock
<1>3. a = "upkeep" /\ a \notin Users /\ U = run[a] /\ U.op.kind = "retire"
  BY <1>1, RetirerAt DEF RetirePlace, CleanPlace
<1>4. /\ Moves(a, "retire_l2", run[a].doc, op') /\ op' \in OpRecord /\ SameOp(op', op) /\ op'.phase = "l2"
      /\ op'.plan = op.plan /\ op'.tgt = op.tgt
  BY <1>1, DeleteDoneGoes
<1>5. op.kind = "retire" /\ ~MatchesSource(doc, op)  BY <1>1, <1>3 DEF UpkeepRelated, UpkeepDrives
<1>6. lock = a /\ run'[a].pc = "retire_l2"  BY <1>1, <1>4 DEF Locked, LockedPlace, Moves
<1>7. LockGoes(a)  BY <1>2, <1>6 DEF LockGoes, LockedPlace, CleanPlace, FinishPlace
<1>. QED  BY <1>2, <1>3, <1>4, <1>5, <1>7, RetirementAdvanced

LEMMA AdvanceRetireKeeps == ASSUME Inv, NEW a \in Actors, AdvanceRetire(a) PROVE Inv'
<1>1. Typed /\ run[a].pc \in {"retire_l2", "retire_state"} /\ UpkeepRelated /\ CallerRelated(a)
  BY DEF Inv, AdvanceRetire, At
<1>2. UNCHANGED <<doc, row, base, owed, k, born, contents, idle, served>> /\ lock' = lock
  BY DEF AdvanceRetire, jobs, clock
<1>3. a = "upkeep" /\ a \notin Users /\ U = run[a] /\ U.op.kind = "retire"
  BY <1>1, RetirerAt DEF RetirePlace, CleanPlace
<1>4. CASE Gone(a) /\ op' = op
  <2>1. Quiet  BY <1>2, <1>4 DEF Quiet
  <2>. QED  BY <1>1, <1>2, <1>4, <2>1, GoneUnheld, GoneKeeps DEF LockedPlace, CleanPlace, FinishPlace
<1>5. CASE ~(Gone(a) /\ op' = op)
  <2>1. /\ SameOp(op, run[a].op) /\ op' \in OpRecord /\ SameOp(op', op)
        /\ op'.plan = op.plan /\ op'.tgt = op.tgt
        /\ \/ op'.phase = "state" /\ Moves(a, "retire_state", run[a].doc, op')
           \/ op'.phase = "derived" /\ Moves(a, "derived", run[a].doc, op')
    BY <1>1, <1>5, AdvanceRetireGoes
  <2>2. PICK next \in {"retire_state", "derived"} : Moves(a, next, run[a].doc, op')  BY <2>1
  <2>3. op.kind = "retire"  BY <1>3, <2>1 DEF SameOp
  <2>4. ~MatchesSource(doc, op)
    <3>1. run[a].op.phase # "prepared"  BY <1>1, <1>3 DEF UpkeepRelated, UpkeepDrives
    <3>2. ~MatchesSource(doc, run[a].op)  BY <1>1, <1>3, <3>1 DEF CallerRelated, Planned
    <3>. QED  BY <2>1, <3>2 DEF SameOp, MatchesSource
  <2>5. run'[a].pc = next  BY <2>2 DEF Moves
  <2>6. LockGoes(a)  BY <1>1, <1>2, <2>2, <2>5 DEF LockGoes, LockedPlace, CleanPlace, FinishPlace
  <2>7. op'.phase # "prepared"  BY <2>1
  <2>. QED  BY <1>2, <1>3, <2>1, <2>2, <2>3, <2>4, <2>6, <2>7, RetirementAdvanced
<1>. QED  BY <1>4, <1>5

LEMMA CleanOpKeeps == ASSUME Inv, NEW a \in Actors, CleanOp(a) PROVE Inv'
<1>1. /\ Typed /\ run[a].pc = "clean_op" /\ UpkeepRelated /\ CallerRelated(a) /\ Locked /\ DocWell
  BY DEF Inv, StoresRelated, CleanOp, At
<1>2. UNCHANGED <<doc, row, base, owed, k, born, contents, idle, served>> /\ op' = NoOp
  BY DEF CleanOp, jobs, clock
<1>3. /\ op.kind = "retire" /\ ~MatchesSource(doc, op) /\ ~doc.short
      /\ a \in Users => UseRelated(a) /\ run[a].op.kind = "none" /\ ~run[a].doc.short /\ run[a].doc.rev > 0
      /\ a \notin Users => a = "upkeep" /\ U = run[a] /\ U.op.kind = "retire" /\ SameOp(op, U.op)
  BY <1>1, CleanerAt DEF CleanPlace
<1>4. lock = a  BY <1>1 DEF Locked, LockedPlace, CleanPlace
<1>5. /\ Steps(a, run'[a])
      /\ a \in Users => /\ run'[a].pc = "check_row" /\ run'[a].doc = run[a].doc /\ run'[a].op = run[a].op
                        /\ lock' = lock
      /\ a \notin Users => run'[a] = Idle /\ lock' = "none"
  BY <1>1, CleanOpGoes DEF Moves, Gone, Steps
<1>6. LockGoes(a)
  BY <1>1, <1>4, <1>5, NothingIs DEF LockGoes, LockedPlace, CleanPlace, FinishPlace
<1>7. op'.kind = "none" /\ op' \in OpRecord /\ op'.tgt = 0 /\ op'.phase = "prepared" /\ op'.rev = 0
  BY <1>2, NothingIs, NothingTyped
<1>8. Planned(op)'
  <2>1. Past(0, 0)  BY <1>1, StoresAre DEF Past
  <2>. QED  BY <1>1, <1>2, <1>7, <2>1, NothingIs, StoresAre DEF Planned, Past, MatchesSource, MatchesTarget
<1>9. Compacting' /\ Retiring' /\ RestoringOp' /\ Published'
  BY <1>2, <1>3, <1>7 DEF Compacting, Retiring, RestoringOp, Published
<1>10. UpkeepRelated' /\ CallerRelated(a)' /\ (a \in Users => UseRelated(a)')
  <2>1. CASE a \notin Users
    <3>1. Typed'
      <4>1. lock' \in Actors \cup {"none"}  BY <1>5, <2>1
      <4>. QED  BY <1>1, <1>2, <1>5, <1>7, <4>1 DEF Typed, StoresTyped, CountsTyped, Steps
    <3>. QED  BY <1>5, <2>1, <3>1, IdleRelated
  <2>2. CASE a \in Users
    <3>1. U' = U /\ "upkeep" \in Actors /\ a # "upkeep"  BY <1>5, <2>2, ActorsAre DEF Steps, U
    <3>2. U.pc \notin LockedPlace  BY <1>1, <1>4, <3>1 DEF Locked, U
    <3>3. U.pc \notin ScanPlace /\ U.op.kind # "compact" /\ U.op.kind # "restore" /\ U.pc \notin CompactPlace
      BY <1>1, <1>3, UpkeepAt DEF UpkeepRelated, UpkeepDrives, SameOp
    <3>4. UpkeepPlaced' /\ UpkeepDrives'
      BY <1>1, <1>7, <3>1, <3>2, <3>3
         DEF UpkeepRelated, UpkeepPlaced, UpkeepDrives, LockedPlace, FinishPlace, CleanPlace
    <3>5. Scanned'  BY <3>1, <3>3 DEF Scanned, ScanPlace
    <3>6. Driven'
      BY <3>1, <3>2, <3>3 DEF Driven, CompactPlace, LockedPlace
    <3>7. CallerRelated(a)'
      <4>1. Copied(a)'  BY <1>1, <1>2, <1>5, <2>2 DEF CallerRelated, Copied, Past, Same
      <4>2. Planned(run[a].op)'
        BY <1>1, <1>2, <1>5, <2>2 DEF CallerRelated, Planned, Past, MatchesSource, MatchesTarget
      <4>3. Restoring(a)'  BY <1>3, <1>5, <2>2 DEF Restoring
      <4>. QED  BY <4>1, <4>2, <4>3 DEF CallerRelated
    <3>8. UserPlaced(a)' /\ UserDrives(a)'
      BY <1>3, <1>5, <1>7, <2>2 DEF UserPlaced, UserDrives, UsePlace, CleanPlace
    <3>9. Using(a)'
      <4>1. doc.rev > 0 /\ ~Same(doc, run[a].doc) => Warm  BY <1>1, <1>3, <2>2 DEF UseRelated, Using, CleanPlace
      <4>2. Warm' <=> Warm  BY <1>2 DEF Warm
      <4>3. Same(doc, run[a].doc)' <=> Same(doc, run[a].doc)  BY <1>2, <1>5, <2>2 DEF Same
      <4>. QED  BY <1>2, <1>3, <1>5, <2>2, <4>1, <4>2, <4>3 DEF Using, UsePlace
    <3>10. Noticed(a)' /\ Serving(a)'  BY <1>3, <1>5, <2>2 DEF Noticed, Serving
    <3>. QED  BY <3>4, <3>5, <3>6, <3>7, <3>8, <3>9, <3>10 DEF UpkeepRelated, UseRelated
  <2>. QED  BY <2>1, <2>2
<1>11. a \notin Users => run'[a].pc \notin ScanPlace  BY <1>5, NothingIs DEF ScanPlace
<1>12. /\ \A b \in Actors : b # a => Restoring(b)'
       /\ \A b \in Users : b # a => UserDrives(b)' /\ Noticed(b)' /\ Serving(b)'
  BY <1>2, <1>3, <1>4, <1>5, <1>11, OthersEnded
<1>. QED
  BY <1>2, <1>5, <1>6, <1>7, <1>8, <1>9, <1>10, <1>12, OpStepKeeps

\* Upkeep completes the operation and leaves.
LEMMA CompletedKeeps ==
  ASSUME Inv, Gone("upkeep"), LockGoes("upkeep"),
         UNCHANGED <<doc, row, base, owed, k, born, contents, idle, served>>, op' = NoOp,
         op.kind # "none", lock \in {"upkeep", "none"}, op.kind = "restore" => ~MatchesSource(doc, op),
         Published'
  PROVE  Inv'
<1>1. Typed /\ "upkeep" \in Actors /\ "upkeep" \notin Users  BY ActorsAre DEF Inv
<1>2. Steps("upkeep", run'["upkeep"]) /\ run'["upkeep"] = Idle  BY <1>1 DEF Gone, Steps
<1>3. op'.kind = "none" /\ op' \in OpRecord /\ op'.tgt = 0 /\ op'.phase = "prepared" /\ op'.rev = 0
  BY NothingIs, NothingTyped
<1>4. Typed'
  <2>1. lock' \in Actors \cup {"none"}  BY <1>1, <1>2, LockedKept DEF Inv
  <2>. QED  BY <1>1, <1>2, <1>3, <2>1 DEF Typed, StoresTyped, CountsTyped, Steps
<1>5. Planned(op)'
  BY <1>1, <1>3, NothingIs, StoresAre DEF Planned, Past, MatchesSource, MatchesTarget
<1>6. Compacting' /\ Retiring' /\ RestoringOp'  BY <1>3 DEF Compacting, Retiring, RestoringOp
<1>7. UpkeepRelated' /\ CallerRelated("upkeep")'  BY <1>1, <1>2, <1>4, IdleRelated
<1>8. run'["upkeep"].pc \notin ScanPlace  BY <1>2, NothingIs DEF ScanPlace
<1>9. /\ \A b \in Actors : b # "upkeep" => Restoring(b)'
      /\ \A b \in Users : b # "upkeep" => UserDrives(b)' /\ Noticed(b)' /\ Serving(b)'
  BY <1>1, <1>2, <1>8, OthersEnded
<1>. QED  BY <1>1, <1>2, <1>3, <1>5, <1>6, <1>7, <1>9, OpStepKeeps

LEMMA FinishOpKeeps == ASSUME Inv, NEW a \in Actors, FinishOp(a) PROVE Inv'
<1>1. Typed /\ run[a].pc = "finish_op" /\ Locked /\ Compacting /\ Published /\ Planned(op) /\ DocWell
  BY DEF Inv, StoresRelated, FinishOp, At
<1>2. UNCHANGED <<doc, row, base, owed, k, born, contents, idle, served>> /\ op' = NoOp /\ lock' = "none"
  BY DEF FinishOp, jobs, clock
<1>3. /\ a = "upkeep" /\ op.kind # "none" /\ op.phase = "derived"
      /\ op.kind \in {"restore", "retire"} => ~doc.short /\ ~MatchesSource(doc, op)
  BY <1>1, FinisherAt DEF FinishPlace
<1>4. lock = a  BY <1>1 DEF Locked, LockedPlace, FinishPlace
<1>5. Gone(a)  BY <1>1, FinishOpGoes
<1>6. LockGoes(a)  BY <1>2, <1>4, <1>5, GoneUnlocked, NothingIs DEF LockGoes, Gone, Steps
<1>7. Published'
  <2>1. SUFFICES ASSUME doc.short PROVE Published'  BY <1>2 DEF Published
  <2>2. op.kind = "compact"  BY <1>1, <1>3, <2>1, StoresAre
  <2>3. /\ doc.rev = op.rev + 1 /\ doc.born = op.born /\ doc.k = op.plan /\ BaseFor(op)
        /\ RowOf(doc) /\ row.comp /\ base.act = doc.rev /\ op.rev > 0
    BY <1>1, <1>3, <2>1, <2>2 DEF Compacting, Planned
  <2>4. base.rev > 0 /\ base.born = doc.born /\ base.k = doc.k /\ base.rev < doc.rev
    BY <1>1, <2>3, StoresAre DEF BaseFor
  <2>. QED  BY <1>2, <2>3, <2>4 DEF Published, RowOf
<1>. QED  BY <1>2, <1>3, <1>4, <1>5, <1>6, <1>7, CompletedKeeps

LEMMA DropOperationKeeps == ASSUME Inv, NEW a \in Actors, DropOperation(a) PROVE Inv'
<1>1. Typed /\ run[a].pc = "drop_op" /\ UpkeepRelated  BY DEF Inv, StoresRelated, DropOperation, At
<1>2. UNCHANGED <<doc, row, base, owed, k, born, contents, idle, served>> /\ lock' = lock
  BY DEF DropOperation, jobs, clock
<1>3. a = "upkeep" /\ a \notin Users /\ U = run[a] /\ op = U.op /\ op.kind = "compact"
  BY <1>1, CompacterAt DEF CompactPlace
<1>4. Gone(a)  BY <1>1, DropOperationGoes
<1>5. LockGoes(a)  BY <1>1, <1>2, <1>4, GoneUnheld DEF LockedPlace, CleanPlace, FinishPlace
<1>6. CASE op' = op
  <2>1. Quiet  BY <1>2, <1>6 DEF Quiet
  <2>. QED  BY <1>4, <1>5, <2>1, GoneKeeps
<1>7. CASE LockFree /\ op' = NoOp
  <2>1. ~doc.short  BY <1>1, <1>3 DEF UpkeepRelated, Driven
  <2>2. Published'  BY <1>2, <2>1 DEF Published
  <2>3. lock = "none"  BY <1>7 DEF LockFree
  <2>. QED  BY <1>2, <1>3, <1>4, <1>5, <1>7, <2>2, <2>3, CompletedKeeps
<1>. QED  BY <1>6, <1>7 DEF DropOperation

----------------------------------------------------------------------------
(* Steps that write the document.                                          *)

\* The document is deleted, written over, or created.
DocMoves ==
    \/ doc' = NoDoc /\ born' = born
    \/ doc.rev > 0 /\ doc'.rev = doc.rev + 1 /\ doc'.born = doc.born /\ doc'.age = 0 /\ born' = born
    \/ doc.rev = 0 /\ doc'.rev = 1 /\ doc'.born = born + 1 /\ doc'.age = 0 /\ born' = born + 1

\* What existed stays past, and is not the document any more.
LEMMA Outdated ==
  ASSUME Typed, DocWell, DocMoves, NEW r \in Nat, NEW b \in Nat, Past(r, b)
  PROVE  Past(r, b)' /\ ~(doc'.rev > 0 /\ doc'.rev = r /\ doc'.born = b)
BY StoresAre, NothingIs DEF DocMoves, DocWell, Past

LEMMA OutdatedDeleted == ASSUME Typed, DocMoves, Deleted PROVE Deleted'
BY StoresAre, NothingIs DEF DocMoves, Deleted

LEMMA OutdatedAge == ASSUME DocMoves, doc'.rev > 0 PROVE doc'.age = 0
BY NothingIs DEF DocMoves

LEMMA OutdatedOp ==
  ASSUME Typed, DocWell, DocMoves, NEW o \in OpRecord, Planned(o)
  PROVE  Past(o.rev, o.born)' /\ Past(o.tgt, o.born)' /\ ~MatchesSource(doc', o) /\ ~MatchesTarget(doc', o)
<1>1. o.rev \in Nat /\ o.born \in Nat /\ o.tgt \in Nat  BY Bounds DEF OpRecord
<1>2. Past(o.rev, o.born) /\ Past(o.tgt, o.born)  BY DEF Planned
<1>3. Past(o.rev, o.born)' /\ ~(doc'.rev > 0 /\ doc'.rev = o.rev /\ doc'.born = o.born)
  BY <1>1, <1>2, Outdated
<1>4. Past(o.tgt, o.born)' /\ ~(doc'.rev > 0 /\ doc'.rev = o.tgt /\ doc'.born = o.born)
  BY <1>1, <1>2, Outdated
<1>. QED  BY <1>1, <1>3, <1>4 DEF MatchesSource, MatchesTarget

\* What a caller knows of a document that is replaced.
LEMMA CallerOutdated ==
  ASSUME Typed, DocWell, DocMoves, UNCHANGED op, NEW b \in Actors, CallerRelated(b),
         run'[b].doc = run[b].doc, run'[b].op = run[b].op,
         run'[b].pc = run[b].pc \/ run'[b].pc \notin {"commit_original", "original_done"}
  PROVE  CallerRelated(b)'
<1>. DEFINE d == run[b].doc
            o == run[b].op
<1>1. /\ d.rev \in Nat /\ d.born \in Nat /\ o \in OpRecord /\ Planned(o) /\ Past(d.rev, d.born)
      /\ d.rev = 0 => d = NoDoc
  BY CallerIs DEF CallerRelated, Copied
<1>2. Past(d.rev, d.born)' /\ ~(doc'.rev > 0 /\ doc'.rev = d.rev /\ doc'.born = d.born)
  BY <1>1, Outdated
<1>3. Past(o.rev, o.born)' /\ Past(o.tgt, o.born)' /\ ~MatchesSource(doc', o) /\ ~MatchesTarget(doc', o)
  BY <1>1, OutdatedOp
<1>4. Copied(b)'
  <2>1. doc'.rev > 0 => doc'.age = 0  BY OutdatedAge
  <2>. HIDE DEF d
  <2>2. run'[b].doc = d /\ Past(d.rev, d.born)' /\ d' = d  BY <1>2 DEF d
  <2>. QED  BY <1>1, <1>2, <2>1, <2>2 DEF Copied, Same, Past
<1>5. Planned(run[b].op)'
  <2>1. run'[b].op = o  OBVIOUS
  <2>. HIDE DEF o
  <2>2. o' = o  BY <2>1 DEF o
  <2>. QED  BY <1>1, <1>3, <2>1, <2>2 DEF Planned, MatchesSource, MatchesTarget, Past
<1>6. Restoring(b)'
  <2>1. ~MatchesSource(doc', run'[b].op)  BY <1>3
  <2>. QED  BY <2>1 DEF CallerRelated, Restoring, MatchesSource
<1>. QED  BY <1>4, <1>5, <1>6 DEF CallerRelated

\* What a use knows of a document that is replaced by another full one.
LEMMA UserOutdated ==
  ASSUME Inv, DocMoves, UNCHANGED <<row, op>>, ~doc'.short, doc'.rev > 0 => idle' = 0, idle' \in {idle, 0},
         NEW b \in Users, run'[b] = run[b], U' = U \/ U'.pc \notin ScanPlace,
         \A c \in Actors : run'[c].pc = "restore_l2" => run'[c] = run[c]
  PROVE  UseRelated(b)'
<1>1. Typed /\ DocWell /\ UseRelated(b) /\ CallerRelated(b) /\ Planned(op) /\ CallerRelated("upkeep") /\ b \in Actors
  BY ActorsAre DEF Inv, StoresRelated
<1>. DEFINE d == run[b].doc
            o == run[b].op
<1>2. ~(doc'.rev > 0 /\ doc'.rev = d.rev /\ doc'.born = d.born)
  BY <1>1, CallerIs, Outdated DEF CallerRelated, Copied
<1>3. ~MatchesSource(doc', o)  BY <1>1, CallerIs, OutdatedOp DEF CallerRelated
<1>4. ~MatchesSource(doc', op)  BY <1>1, OutdatedOp DEF Typed, StoresTyped
<1>5. doc'.rev > 0 => Warm'  BY OutdatedAge DEF Warm
<1>6. UserPlaced(b)'  BY <1>1 DEF UseRelated, UserPlaced
<1>7. UserDrives(b)'  BY <1>1, <1>4 DEF UseRelated, UserDrives, MatchesSource
<1>8. Using(b)'
  <2>1. Using(b) /\ run'[b] = run[b]  BY <1>1 DEF UseRelated
  <2>2. ~MatchesSource(doc', run'[b].op) /\ (doc'.rev > 0 => ~Same(doc', run'[b].doc))
    BY <1>2, <1>3 DEF Same
  <2>. QED  BY <1>5, <2>1, <2>2 DEF Using, MatchesSource, Same
<1>9. Noticed(b)'
  <2>1. SUFFICES ASSUME U' = U, U.pc \in {"save", "prepare_compact"}, Same(doc', U.doc) PROVE FALSE
    BY DEF Noticed, ScanPlace, Same
  <2>2. U.doc.rev > 0 /\ U.doc.rev \in Nat /\ U.doc.born \in Nat /\ Past(U.doc.rev, U.doc.born)
    BY <1>1, <2>1, ActorsAre, CallerIs DEF Inv, UpkeepRelated, Scanned, ScanPlace, CallerRelated, Copied, U
  <2>. QED  BY <1>1, <2>1, <2>2, Outdated DEF Same
<1>10. Serving(b)'
  <2>1. Deleted => Deleted'  BY <1>1, OutdatedDeleted
  <2>2. Serving(b)  BY <1>1 DEF UseRelated
  <2>3. U'.pc \in ScanPlace => U' = U  OBVIOUS
  <2>4. "mark" \in ScanPlace  BY DEF ScanPlace
  <2>5. RowOf(run[b].doc)' <=> RowOf(run[b].doc)  BY DEF RowOf
  <2>. HIDE DEF U
  <2>. QED  BY <2>1, <2>2, <2>3, <2>4, <2>5 DEF Serving, Newer
<1>. QED  BY <1>6, <1>7, <1>8, <1>9, <1>10 DEF UseRelated

\* What upkeep knows of a document that is replaced by another full one.
LEMMA UpkeepOutdated ==
  ASSUME Inv, DocMoves, UNCHANGED <<row, base, op>>, ~doc'.short, U' = U
  PROVE  UpkeepRelated'
<1>1. Typed /\ DocWell /\ UpkeepRelated /\ Planned(op) /\ CallerRelated("upkeep")
  BY ActorsAre DEF Inv, StoresRelated
<1>. DEFINE d == U.doc
<1>2. d.rev > 0 => ~Same(doc', d)
  BY <1>1, ActorsAre, CallerIs, Outdated DEF CallerRelated, Copied, Same, U
<1>3. ~MatchesSource(doc', op)  BY <1>1, OutdatedOp DEF Typed, StoresTyped
<1>4. UpkeepPlaced' /\ UpkeepDrives'
  BY <1>1, <1>3 DEF UpkeepRelated, UpkeepPlaced, UpkeepDrives, SameOp, MatchesSource
<1>5. Scanned'
  <2>1. U.pc \in ScanPlace => d.rev > 0 /\ ~Same(doc', d)  BY <1>1, <1>2 DEF UpkeepRelated, Scanned
  <2>2. U'.pc = U.pc /\ U'.doc = d /\ (Same(doc, U.doc)' <=> Same(doc', d))  BY DEF Same
  <2>3. {"mark", "model", "rank_shortened", "save", "prepare_compact", "prepare_retire"} \subseteq ScanPlace
    BY DEF ScanPlace
  <2>4. Scanned  BY <1>1 DEF UpkeepRelated
  <2>. QED  BY <2>1, <2>2, <2>3, <2>4 DEF Scanned
<1>6. Driven'
  <2>1. Driven  BY <1>1 DEF UpkeepRelated
  <2>. QED  BY <1>3, <2>1 DEF Driven, MatchesSource, MatchesPlan, MatchesTarget
<1>. QED  BY <1>4, <1>5, <1>6 DEF UpkeepRelated

\* What may go wrong when a document is replaced by another full one.
LEMMA DocStepKeeps ==
  ASSUME Inv, DocMoves, NEW a \in Actors, Steps(a, run'[a]), LockGoes(a),
         UNCHANGED <<row, base, op, served>>, doc' \in DocRecord,
         k' \in 0..MaxK, contents' \in 1..MaxK, born' \in 1..MaxBorn, owed' \in BOOLEAN,
         doc'.rev > 0 => doc'.k = k' /\ ~owed',
         ~doc'.short, doc'.rev > 0 => idle' = 0, idle' \in {idle, 0},
         run'[a].pc \notin ScanPlace \/ run'[a] = run[a],
         run'[a].pc # "restore_l2" \/ run'[a] = run[a],
         UpkeepRelated', CallerRelated(a)', a \in Users => UseRelated(a)'
  PROVE  Inv'
<1>1. Typed /\ DocWell /\ Coherent /\ Planned(op) /\ RowPast /\ BasePast /\ Compacting /\ ServedOriginals /\ Locked
  BY DEF Inv, StoresRelated
<1>2. Typed'
  <2>1. lock' \in Actors \cup {"none"} /\ idle' \in 0..Never
    BY <1>1, LockedKept, Bounds DEF Typed, CountsTyped
  <2>. QED  BY <1>1, <2>1 DEF Typed, StoresTyped, CountsTyped, Steps
<1>3. StoresRelated'
  <2>1. doc'.rev = 0 => doc' = NoDoc  BY <1>1, StoresAre DEF DocMoves
  <2>2. doc'.rev > 0 => doc'.born = born' /\ doc'.age = 0
    BY <1>1, NothingIs, StoresAre DEF DocMoves, DocWell
  <2>3. DocWell' /\ Coherent'
    <3>1. doc'.rev \in Nat  BY DEF DocRecord
    <3>2. owed' => doc'.rev = 0  BY <3>1
    <3>. QED  BY <1>1, <2>1, <2>2, <3>2 DEF DocWell, Coherent
  <2>4. /\ Past(op.rev, op.born)' /\ Past(op.tgt, op.born)'
        /\ ~MatchesSource(doc', op) /\ ~MatchesTarget(doc', op)
    BY <1>1, OutdatedOp DEF Typed, StoresTyped
  <2>5. Planned(op)'  BY <1>1, <2>4 DEF Planned, MatchesSource, MatchesTarget
  <2>6. row.ver > 0 => /\ Past(row.rev, row.born)'
                       /\ ~(doc'.rev > 0 /\ doc'.rev = row.rev /\ doc'.born = row.born)
    BY <1>1, StoresAre, Outdated DEF RowPast
  <2>7. base.rev > 0 => /\ Past(base.rev, base.born)' /\ Past(base.act, base.born)'
                        /\ ~(doc'.rev > 0 /\ doc'.rev = base.rev /\ doc'.born = base.born)
                        /\ ~(doc'.rev > 0 /\ doc'.rev = base.act /\ doc'.born = base.born)
    BY <1>1, StoresAre, Outdated DEF BasePast
  <2>8. RowPast'  BY <2>6 DEF RowPast
  <2>9. BasePast'  BY <2>7 DEF BasePast, Same
  <2>10. Compacting'
    <3>1. ~MatchesSource(doc, op)'  BY <2>4 DEF MatchesSource
    <3>. QED  BY <1>1, <3>1 DEF Compacting
  <2>11. Published' /\ RestoringOp'  BY DEF Published, RestoringOp
  <2>12. Retiring'
    <3>1. ~MatchesSource(doc, op)'  BY <2>4 DEF MatchesSource
    <3>. QED  BY <2>2, <3>1 DEF Retiring
  <2>13. Shortened'
    <3>1. ~ForCompacted(doc')
      <4>1. SUFFICES ASSUME ForCompacted(doc') PROVE FALSE  OBVIOUS
      <4>2. base.rev > 0 /\ base.born = doc'.born /\ base.act > 0 /\ base.act = doc'.rev
        BY <4>1 DEF ForCompacted
      <4>. QED  BY <2>7, <4>2
    <3>2. ~ForCompacted(doc)'  BY <3>1 DEF ForCompacted
    <3>. QED  BY <3>2 DEF Shortened
  <2>14. doc'.rev > 0 => ~RowOf(doc)'  BY <2>6 DEF RowOf
  <2>15. FreshRow' /\ Candidates'  BY <2>2, <2>14 DEF FreshRow, Candidates
  <2>16. ServedOriginals'  BY <1>1, OutdatedDeleted DEF ServedOriginals
  <2>. QED  BY <2>3, <2>5, <2>8, <2>9, <2>10, <2>11, <2>12, <2>13, <2>15, <2>16 DEF StoresRelated
<1>4. \A b \in Actors : b # a => run'[b] = run[b]  BY DEF Steps
<1>5. \A b \in Actors : CallerRelated(b)'
  <2>1. ASSUME NEW b \in Actors, b # a PROVE CallerRelated(b)'
    <3>1. run'[b] = run[b] /\ CallerRelated(b)  BY <1>4, <2>1 DEF Inv
    <3>. QED  BY <1>1, <3>1, CallerOutdated
  <2>. QED  BY <2>1
<1>6. \A b \in Users : UseRelated(b)'
  <2>1. ASSUME NEW b \in Users, b # a PROVE UseRelated(b)'
    <3>1. run'[b] = run[b]  BY <1>4, <2>1, ActorsAre
    <3>2. U' = U \/ U'.pc \notin ScanPlace  BY <1>4, ActorsAre DEF U
    <3>3. \A c \in Actors : run'[c].pc = "restore_l2" => run'[c] = run[c]  BY <1>4
    <3>. QED  BY <3>1, <3>2, <3>3, UserOutdated
  <2>. QED  BY <2>1
<1>7. Locked'  BY <1>1, LockedKept
<1>. QED  BY <1>2, <1>3, <1>5, <1>6, <1>7 DEF Inv

LEMMA CommitOriginalKeeps == ASSUME Inv, NEW a \in Actors, CommitOriginal(a) PROVE Inv'
<1>. DEFINE o == run[a].op
<1>1. /\ Typed /\ run[a].pc = "commit_original" /\ UpkeepRelated /\ CallerRelated(a) /\ DocWell /\ Planned(op)
  BY DEF Inv, StoresRelated, CommitOriginal, At
<1>2. UNCHANGED <<row, base, op, served, owed, k, born, contents>> /\ lock' = lock
  BY DEF CommitOriginal, CommitFields, jobs
<1>3. /\ o.kind = "restore" /\ (a \in Users => UseRelated(a))
      /\ a \notin Users => a = "upkeep" /\ U = run[a] /\ SameOp(op, U.op)
  BY <1>1, RestorerAt DEF RestorePlace, U
<1>4. CASE Gone(a) /\ doc' = doc /\ idle' = idle
  <2>1. Quiet  BY <1>2, <1>4 DEF Quiet
  <2>. QED  BY <1>1, <1>2, <1>4, <2>1, GoneUnheld, GoneKeeps DEF LockedPlace, CleanPlace, FinishPlace
<1>5. CASE ~(Gone(a) /\ doc' = doc /\ idle' = idle)
  <2>1. /\ Moves(a, "reread_original", run[a].doc, o) /\ doc = run[a].doc
        /\ doc' \in DocRecord /\ doc'.rev = doc.rev + 1 /\ doc'.born = doc.born /\ doc'.k = o.plan
        /\ ~doc'.short /\ doc'.age = 0 /\ idle' = 0
    BY <1>1, <1>5, CommitOriginalGoes
  <2>2. /\ Steps(a, run'[a]) /\ run'[a].pc = "reread_original" /\ run'[a].doc = run[a].doc /\ run'[a].op = o
    BY <2>1 DEF Moves
  <2>3. MatchesSource(doc, o) /\ doc.rev > 0  BY <1>1, <2>1 DEF CallerRelated, Restoring, MatchesSource
  <2>4. DocMoves  BY <1>2, <2>1, <2>3 DEF DocMoves
  <2>5. doc'.k = k' /\ ~owed'
    <3>1. o.plan = doc.k  BY <1>1, <1>3, <2>3 DEF CallerRelated, Planned
    <3>. QED  BY <1>1, <1>2, <2>1, <2>3, <3>1, StoresAre DEF DocWell
  <2>6. CallerRelated(a)'  BY <1>1, <1>2, <2>2, <2>4, CallerOutdated
  <2>7. LockGoes(a)  BY <1>1, <1>2, <2>2 DEF LockGoes, LockedPlace, CleanPlace, FinishPlace
  <2>8. UpkeepRelated'
    <3>1. CASE a \in Users
      <4>1. U' = U  BY <2>2, <3>1, ActorsAre DEF Steps, U
      <4>. QED  BY <1>2, <2>1, <2>4, <4>1, UpkeepOutdated
    <3>2. CASE a \notin Users
      <4>1. U' = run'[a] /\ U'.op = U.op /\ U.op.kind = "restore" /\ SameOp(op, U.op)
        BY <1>3, <2>2, <3>2 DEF U
      <4>2. UpkeepPlaced' /\ UpkeepDrives'
        BY <1>2, <2>2, <4>1
           DEF UpkeepPlaced, RestorePlace, UpkeepDrives, ScanPlace, FinishPlace, CleanPlace, SameOp
      <4>3. Scanned' /\ Driven'  BY <2>2, <4>1 DEF Scanned, ScanPlace, Driven
      <4>. QED  BY <4>2, <4>3 DEF UpkeepRelated
    <3>. QED  BY <3>1, <3>2
  <2>9. ASSUME a \in Users PROVE UseRelated(a)'
    <3>1. UserPlaced(a)' /\ UserDrives(a)'
      BY <1>3, <2>2 DEF UserPlaced, UserDrives, RestorePlace, CleanPlace
    <3>2. Using(a)'  BY <2>1, <2>2 DEF Using, Warm, UsePlace, CleanPlace
    <3>3. Noticed(a)' /\ Serving(a)'  BY <2>2 DEF Noticed, Serving
    <3>. QED  BY <3>1, <3>2, <3>3 DEF UseRelated
  <2>10. k' \in 0..MaxK /\ contents' \in 1..MaxK /\ born' \in 1..MaxBorn /\ owed' \in BOOLEAN
    BY <1>1, <1>2 DEF Typed, CountsTyped
  <2>11. run'[a].pc \notin ScanPlace /\ run'[a].pc # "restore_l2"  BY <2>2 DEF ScanPlace
  <2>. QED
    BY <1>2, <2>1, <2>2, <2>4, <2>5, <2>6, <2>7, <2>8, <2>9, <2>10, <2>11, DocStepKeeps
<1>. QED  BY <1>4, <1>5

LEMMA DeleteRetiredKeeps == ASSUME Inv, NEW a \in Actors, DeleteRetired(a) PROVE Inv'
<1>1. /\ Typed /\ run[a].pc = "delete" /\ UpkeepRelated /\ CallerRelated(a) /\ DocWell /\ Locked
  BY DEF Inv, StoresRelated, DeleteRetired, At
<1>2. UNCHANGED <<row, base, op, served, owed, k, born, contents, idle>>
  BY DEF DeleteRetired, jobs, clock
<1>3. a = "upkeep" /\ a \notin Users /\ U = run[a] /\ U.op.kind = "retire"
  BY <1>1, RetirerAt DEF RetirePlace, CleanPlace
<1>4. lock = a  BY <1>1 DEF Locked, LockedPlace
<1>5. CASE Gone(a) /\ lock' = "none" /\ doc' = doc
  <2>1. Quiet  BY <1>2, <1>5 DEF Quiet
  <2>2. LockGoes(a)  BY <1>4, <1>5, GoneUnlocked, NothingIs DEF LockGoes, Gone, Steps
  <2>. QED  BY <1>5, <2>1, <2>2, GoneKeeps
<1>6. CASE Moves(a, "delete_done", run[a].doc, run[a].op) /\ lock' = lock /\ doc' = NoDoc
  <2>1. /\ Steps(a, run'[a]) /\ run'[a].pc = "delete_done" /\ run'[a].doc = run[a].doc /\ run'[a].op = run[a].op
        /\ U' = run'[a]
    BY <1>3, <1>6 DEF Moves, U
  <2>2. DocMoves  BY <1>2, <1>6 DEF DocMoves
  <2>3. CallerRelated(a)'  BY <1>1, <1>2, <2>1, <2>2, CallerOutdated
  <2>4. LockGoes(a)  BY <1>1, <1>6, <2>1 DEF LockGoes, LockedPlace
  <2>5. op.kind = "retire" /\ SameOp(op, U.op)  BY <1>1, <1>3 DEF UpkeepRelated, UpkeepDrives
  <2>6. doc' \in DocRecord /\ doc'.rev = 0 /\ ~doc'.short  BY <1>6, NothingIs, NothingTyped
  <2>7. UpkeepRelated'
    <3>1. UpkeepPlaced' /\ UpkeepDrives'
      BY <1>2, <1>3, <2>1, <2>5, <2>6
         DEF UpkeepPlaced, RetirePlace, UpkeepDrives, ScanPlace, FinishPlace, CleanPlace, SameOp, MatchesSource
    <3>2. Scanned' /\ Driven'  BY <2>1 DEF Scanned, ScanPlace, Driven
    <3>. QED  BY <3>1, <3>2 DEF UpkeepRelated
  <2>8. k' \in 0..MaxK /\ contents' \in 1..MaxK /\ born' \in 1..MaxBorn /\ owed' \in BOOLEAN
    BY <1>1, <1>2 DEF Typed, CountsTyped
  <2>9. run'[a].pc \notin ScanPlace /\ run'[a].pc # "restore_l2"  BY <2>1 DEF ScanPlace
  <2>10. idle' \in {idle, 0} /\ ~(doc'.rev > 0)  BY <1>2, <2>6
  <2>. QED  BY <1>2, <1>3, <2>1, <2>2, <2>3, <2>4, <2>6, <2>7, <2>8, <2>9, <2>10, DocStepKeeps
<1>. QED  BY <1>1, <1>5, <1>6, DeleteRetiredGoes

\* A job writes the document while everybody else stays where they are.
LEMMA JobKeeps ==
  ASSUME Inv, DocMoves, UNCHANGED <<row, base, op, served, run, lock>>, doc' \in DocRecord,
         k' \in 0..MaxK, contents' \in 1..MaxK, born' \in 1..MaxBorn, owed' \in BOOLEAN,
         doc'.rev > 0 => doc'.k = k' /\ ~owed',
         ~doc'.short, doc'.rev > 0 => idle' = 0, idle' \in {idle, 0}
  PROVE  Inv'
<1>1. /\ Typed /\ DocWell /\ "upkeep" \in Actors /\ "upkeep" \notin Users /\ CallerRelated("upkeep")
  BY ActorsAre DEF Inv, StoresRelated
<1>2. Steps("upkeep", run'["upkeep"]) /\ run'["upkeep"] = run["upkeep"]
  BY <1>1, CallerIs DEF Typed, Steps
<1>3. LockGoes("upkeep")  BY <1>2 DEF LockGoes
<1>4. U' = U  BY DEF U
<1>5. UpkeepRelated'  BY <1>4, UpkeepOutdated
<1>6. CallerRelated("upkeep")'  BY <1>1, <1>2, CallerOutdated
<1>. QED  BY <1>1, <1>2, <1>3, <1>5, <1>6, DocStepKeeps

LEMMA JobEditKeeps == ASSUME Inv, JobEdit PROVE Inv'
<1>1. Typed /\ DocWell  BY DEF Inv, StoresRelated
<1>2. /\ doc.rev > 0 /\ ~owed /\ contents < MaxK
      /\ doc' = [doc EXCEPT !.rev = @ + 1, !.k = contents + 1, !.short = FALSE, !.age = 0]
      /\ k' = contents + 1 /\ contents' = contents + 1 /\ idle' = 0
      /\ UNCHANGED <<row, base, op, served, run, lock, owed, born>>
  BY DEF JobEdit
<1>3. contents + 1 \in 1..MaxK /\ contents + 1 \in 0..MaxK  BY <1>1, <1>2, Bounds DEF Typed, CountsTyped
<1>4. /\ doc' \in DocRecord /\ doc'.rev = doc.rev + 1 /\ doc'.born = doc.born /\ doc'.k = contents + 1
      /\ ~doc'.short /\ doc'.age = 0
  <2>1. doc \in DocRecord  BY <1>1 DEF Typed, StoresTyped
  <2>2. doc' = [rev |-> doc.rev + 1, born |-> doc.born, k |-> contents + 1, short |-> FALSE, age |-> 0]
    BY <1>2, <2>1 DEF DocRecord
  <2>3. doc.rev + 1 \in Nat /\ doc.born \in 0..MaxBorn /\ 0 \in Ages  BY <2>1 DEF DocRecord, Ages
  <2>. QED  BY <1>3, <2>2, <2>3 DEF DocRecord
<1>5. DocMoves  BY <1>2, <1>4 DEF DocMoves
<1>6. born' \in 1..MaxBorn /\ owed' \in BOOLEAN  BY <1>1, <1>2 DEF Typed, CountsTyped
<1>. QED  BY <1>2, <1>3, <1>4, <1>5, <1>6, JobKeeps

LEMMA JobCreateKeeps == ASSUME Inv, JobCreate PROVE Inv'
<1>1. Typed  BY DEF Inv
<1>2. /\ doc.rev = 0 /\ ~owed /\ contents < MaxK /\ born < MaxBorn
      /\ doc' = [rev |-> 1, born |-> born + 1, k |-> contents + 1, short |-> FALSE, age |-> 0]
      /\ born' = born + 1 /\ k' = contents + 1 /\ contents' = contents + 1 /\ idle' = 0
      /\ UNCHANGED <<row, base, op, served, run, lock, owed>>
  BY DEF JobCreate
<1>3. contents + 1 \in 1..MaxK /\ contents + 1 \in 0..MaxK /\ born + 1 \in 1..MaxBorn /\ born + 1 \in 0..MaxBorn
  BY <1>1, <1>2, Bounds DEF Typed, CountsTyped
<1>4. doc' \in DocRecord  BY <1>2, <1>3 DEF DocRecord, Ages
<1>5. DocMoves  BY <1>2 DEF DocMoves
<1>6. owed' \in BOOLEAN  BY <1>1, <1>2 DEF Typed, CountsTyped
<1>. QED  BY <1>2, <1>3, <1>4, <1>5, <1>6, JobKeeps

LEMMA JobDeleteKeeps == ASSUME Inv, JobDelete PROVE Inv'
<1>1. Typed  BY DEF Inv
<1>2. /\ doc' = NoDoc /\ k' = 0 /\ owed' = TRUE
      /\ UNCHANGED <<row, base, op, served, run, lock, idle, born, contents>>
  BY DEF JobDelete
<1>3. doc' \in DocRecord /\ doc'.rev = 0 /\ ~doc'.short  BY <1>2, NothingIs, NothingTyped
<1>4. DocMoves  BY <1>2 DEF DocMoves
<1>5. k' \in 0..MaxK /\ contents' \in 1..MaxK /\ born' \in 1..MaxBorn
  BY <1>1, <1>2, Bounds DEF Typed, CountsTyped
<1>. QED  BY <1>2, <1>3, <1>4, <1>5, JobKeeps

LEMMA CommitShortKeeps == ASSUME Inv, NEW a \in Actors, CommitShort(a) PROVE Inv'
<1>1. /\ Typed /\ run[a].pc = "commit_short" /\ UpkeepRelated /\ DocWell /\ Coherent /\ Planned(op) /\ RowPast
      /\ BasePast /\ Compacting /\ ServedOriginals /\ FreshRow /\ Locked
  BY DEF Inv, StoresRelated, CommitShort, At
<1>2. UNCHANGED <<row, base, op, served, owed, k, born, contents>> /\ lock' = lock
  BY DEF CommitShort, CommitFields, jobs
<1>3. a = "upkeep" /\ a \notin Users /\ U = run[a] /\ op = U.op /\ op.kind = "compact"
  BY <1>1, CompacterAt DEF CompactPlace
<1>4. CASE Gone(a) /\ doc' = doc /\ idle' = idle
  <2>1. Quiet  BY <1>2, <1>4 DEF Quiet
  <2>. QED  BY <1>1, <1>2, <1>4, <2>1, GoneUnheld, GoneKeeps DEF LockedPlace, CleanPlace, FinishPlace
<1>5. CASE ~(Gone(a) /\ doc' = doc /\ idle' = idle)
  <2>1. /\ Moves(a, "reread_short", run[a].doc, run[a].op) /\ doc = run[a].doc
        /\ doc' \in DocRecord /\ doc'.rev = doc.rev + 1 /\ doc'.born = doc.born /\ doc'.k = run[a].op.plan
        /\ doc'.short /\ doc'.age = 0 /\ idle' = idle
    BY <1>1, <1>5, CommitShortGoes
  <2>2. /\ Steps(a, run'[a]) /\ run'[a].pc = "reread_short" /\ run'[a].doc = run[a].doc /\ run'[a].op = run[a].op
        /\ U' = run'[a]
    BY <1>3, <2>1 DEF Moves, U
  <2>3. MatchesSource(doc, op) /\ idle >= 1 /\ BaseFor(op)
    BY <1>1, <1>3, <2>1 DEF UpkeepRelated, Driven, U
  <2>4. doc.rev > 0 /\ doc.rev = op.rev /\ doc.born = op.born /\ doc.born = born /\ op.plan = doc.k /\ ~doc.short
    BY <1>1, <1>3, <2>3 DEF MatchesSource, Planned, DocWell
  <2>5. DocMoves  BY <1>2, <2>1, <2>4 DEF DocMoves
  <2>6. op.phase = "prepared"
    BY <1>1, <1>3, <2>4, StoresAre DEF Coherent, Planned, Past
  <2>7. Typed'
    <3>1. idle' \in 0..Never /\ lock' \in Actors \cup {"none"}  BY <1>1, <1>2, <2>1 DEF Typed, CountsTyped
    <3>. QED  BY <1>1, <1>2, <2>1, <2>2, <3>1 DEF Typed, StoresTyped, CountsTyped, Steps
  <2>8. StoresRelated'
    <3>0. Typed /\ DocWell /\ RowPast /\ BasePast /\ Planned(op) /\ FreshRow /\ op \in OpRecord /\ doc'.rev > 0
      BY <1>1, <2>1, <2>4, StoresAre DEF Typed, StoresTyped
    <3>1. doc'.rev > 0 /\ doc'.k = k /\ ~owed
      BY <1>1, <1>3, <2>1, <2>4, StoresAre DEF DocWell
    <3>2. DocWell' /\ Coherent'  BY <1>1, <1>2, <2>1, <2>4, <3>1 DEF DocWell, Coherent
    <3>a. \A o \in OpRecord : Planned(o) => /\ Past(o.rev, o.born)' /\ Past(o.tgt, o.born)'
                                            /\ ~MatchesSource(doc', o) /\ ~MatchesTarget(doc', o)
      BY <2>5, <3>0, OutdatedOp
    <3>b. \A r, b \in Nat : Past(r, b) => Past(r, b)' /\ ~(doc'.rev > 0 /\ doc'.rev = r /\ doc'.born = b)
      BY <2>5, <3>0, Outdated
    <3>3. /\ Past(op.rev, op.born)' /\ Past(op.tgt, op.born)'
          /\ ~MatchesSource(doc', op) /\ ~MatchesTarget(doc', op)
      BY <1>2, <3>0, <3>a DEF Past
    <3>4. Planned(op)'  BY <1>1, <1>2, <3>3 DEF Planned, MatchesSource, MatchesTarget
    <3>5. row.ver > 0 => /\ Past(row.rev, row.born)'
                         /\ ~(doc'.rev > 0 /\ doc'.rev = row.rev /\ doc'.born = row.born)
      BY <1>2, <3>0, <3>b, StoresAre DEF RowPast, Past
    <3>6. base.rev > 0 => /\ Past(base.rev, base.born)' /\ Past(base.act, base.born)'
                          /\ ~(doc'.rev > 0 /\ doc'.rev = base.rev /\ doc'.born = base.born)
      BY <1>2, <3>0, <3>b, StoresAre DEF BasePast, Past
    <3>7. RowPast'  BY <1>2, <3>5 DEF RowPast
    <3>8. BasePast'  BY <1>2, <3>6 DEF BasePast, Same
    <3>9. ~RowOf(doc)'  BY <1>2, <3>1, <3>5 DEF RowOf
    <3>10. LesserAge(base.age, LesserAge(row.use, row.act)) <= idle
      <4>1. base.age = doc.age  BY <1>1, <2>3, <2>4 DEF BaseFor, BasePast, Same
      <4>2. CASE RowOf(doc)
        <5>1. Activity(row, doc) <= idle  BY <1>1, <2>4, <4>2 DEF FreshRow
        <5>. QED  BY <1>1, <4>1, <5>1, StoresAre DEF Activity, LesserAge
      <4>3. CASE ~RowOf(doc)
        <5>1. doc.age <= idle  BY <1>1, <2>4, <4>3 DEF FreshRow
        <5>. QED  BY <1>1, <4>1, <5>1, StoresAre DEF LesserAge
      <4>. QED  BY <4>2, <4>3
    <3>11. Compacting'
      <4>1. ~MatchesSource(doc, op)'  BY <1>2, <3>3 DEF MatchesSource
      <4>2. BaseFor(op)'  BY <1>2, <2>3 DEF BaseFor
      <4>3. base = NoBase \/ (base.rev = op.rev /\ base.born = op.born)  BY <2>3 DEF BaseFor
      <4>. QED  BY <1>2, <1>3, <2>1, <2>4, <2>6, <3>9, <3>10, <4>1, <4>2, <4>3 DEF Compacting
    <3>12. Published' /\ Retiring' /\ RestoringOp'  BY <1>2, <1>3 DEF Published, Retiring, RestoringOp
    <3>13. Shortened'  BY <2>1, <2>3 DEF Shortened
    <3>14. FreshRow' /\ Candidates'
      <4>1. idle' >= 0  BY <1>1, <2>1, StoresAre
      <4>. QED  BY <2>1, <3>9, <4>1 DEF FreshRow, Candidates
    <3>15. ServedOriginals'  BY <1>1, <1>2, <2>5, OutdatedDeleted DEF ServedOriginals
    <3>. QED
      BY <3>2, <3>4, <3>7, <3>8, <3>11, <3>12, <3>13, <3>14, <3>15 DEF StoresRelated
  <2>9. UpkeepRelated'
    <3>1. UpkeepPlaced' /\ UpkeepDrives'
      BY <1>2, <1>3, <2>2 DEF UpkeepPlaced, CompactPlace, UpkeepDrives, ScanPlace, FinishPlace, CleanPlace
    <3>2. Scanned' /\ Driven'  BY <2>2 DEF Scanned, ScanPlace, Driven
    <3>. QED  BY <3>1, <3>2 DEF UpkeepRelated
  <2>10. ASSUME NEW b \in Actors PROVE CallerRelated(b)'
    <3>1. CallerRelated(b) /\ run'[b].doc = run[b].doc /\ run'[b].op = run[b].op
      BY <2>2 DEF Inv, Steps
    <3>2. run'[b].pc = run[b].pc \/ run'[b].pc \notin {"commit_original", "original_done"}
      BY <2>2 DEF Steps
    <3>. QED  BY <1>1, <1>2, <2>5, <3>1, <3>2, CallerOutdated
  <2>11. ASSUME NEW b \in Users PROVE UseRelated(b)'
    <3>1. run'[b] = run[b] /\ UseRelated(b) /\ Restoring(b)
      BY <1>3, <2>2, ActorsAre DEF Steps, Inv, CallerRelated
    <3>2. ~Warm  BY <2>3 DEF Warm
    <3>3. run[b].op.kind # "restore"
      BY <1>3, <2>4, <3>1, <3>2 DEF UseRelated, Using, Restoring, SameOp
    <3>4. run[b].pc \notin {"check_row", "record_use", "drop_stale_base", "prepare_restore"} \cup CleanPlace
      BY <1>3, <2>4, <3>1, <3>2 DEF UseRelated, UserDrives, Using, Same
    <3>5. run[b] = Idle \/ (run[b].pc \in UsePlace /\ run[b].op.kind = "none")
      BY <3>1, <3>3 DEF UseRelated, UserPlaced
    <3>6. UserPlaced(b)' /\ UserDrives(b)'  BY <3>1, <3>4 DEF UseRelated, UserPlaced, UserDrives
    <3>7. run[b].pc \notin {"return_restored", "restore_l2", "publish_done", "state", "derived"}
      BY <3>5, NothingIs DEF UsePlace, CleanPlace
    <3>8. Using(b)'  BY <3>1, <3>3, <3>4, <3>7 DEF UseRelated, Using
    <3>9. Noticed(b)' /\ Serving(b)'  BY <3>1, <3>4 DEF Noticed, Serving
    <3>. QED  BY <3>6, <3>8, <3>9 DEF UseRelated
  <2>12. Locked'
    <3>1. LockGoes(a)  BY <1>1, <1>2, <2>2 DEF LockGoes, LockedPlace, CleanPlace, FinishPlace
    <3>. QED  BY <1>1, <2>2, <3>1, LockedKept
  <2>. QED  BY <2>7, <2>8, <2>9, <2>10, <2>11, <2>12 DEF Inv
<1>. QED  BY <1>4, <1>5

----------------------------------------------------------------------------
(* Time passes while nobody is at work.                                    *)

LEMMA OlderIs ==
  ASSUME NEW x \in 0..3
  PROVE  /\ Older(x) \in 0..3 /\ (Older(x) = 3 <=> x = 3) /\ (Older(x) >= 1) /\ (x <= 2 => Older(x) <= 2)
         /\ \A y \in 0..3 : Older(LesserAge(x, y)) = LesserAge(Older(x), Older(y)) /\ LesserAge(x, y) \in 0..3
         /\ \A y \in 0..3 : x <= y => Older(x) <= IF y = 3 THEN 3 ELSE y + 1
BY DEF Older, LesserAge

LEMMA TickStores ==
  ASSUME Typed, DocWell, Coherent, Tick
  PROVE  /\ doc'.rev = doc.rev /\ doc'.born = doc.born /\ doc'.k = doc.k /\ doc'.short = doc.short
         /\ doc.rev > 0 => doc'.age = Older(doc.age)
         /\ doc.rev = 0 => doc' = NoDoc
         /\ row'.ver = row.ver /\ row'.rev = row.rev /\ row'.born = row.born /\ row'.n = row.n
         /\ row'.comp = row.comp /\ row'.ret = row.ret
         /\ row'.use = Older(row.use) /\ row'.act = Older(row.act) /\ row'.cand = Older(row.cand)
         /\ row.ver = 0 => row' = NoRow
         /\ base'.rev = base.rev /\ base'.born = base.born /\ base'.k = base.k /\ base'.act = base.act
         /\ base.rev > 0 => base'.age = Older(base.age)
         /\ base.rev = 0 => base' = NoBase
         /\ op'.kind = op.kind /\ op'.rev = op.rev /\ op'.born = op.born /\ op'.ver = op.ver /\ op'.plan = op.plan
         /\ op'.phase = op.phase /\ op'.tgt = op.tgt
         /\ op.kind = "none" => op' = NoOp
         /\ doc' \in DocRecord /\ row' \in RowRecord /\ base' \in BaseRecord /\ op' \in OpRecord
<1>1. doc \in DocRecord /\ row \in RowRecord /\ base \in BaseRecord /\ op \in OpRecord  BY DEF Typed, StoresTyped
<1>2. /\ doc' = IF doc = NoDoc THEN NoDoc ELSE [doc EXCEPT !.age = Older(@)]
      /\ row' = [row EXCEPT !.use = Older(@), !.act = Older(@), !.cand = Older(@)]
      /\ base' = IF base = NoBase THEN NoBase ELSE [base EXCEPT !.age = Older(@)]
      /\ op' = IF op = NoOp THEN NoOp ELSE [op EXCEPT !.age = Older(@)]
  BY DEF Tick
<1>3. \A x \in Ages : Older(x) \in Ages  BY DEF Ages, Older
<1>4. \A x \in 0..Never : Older(x) \in 0..Never  BY OlderIs, Bounds
<1>5. /\ doc'.rev = doc.rev /\ doc'.born = doc.born /\ doc'.k = doc.k /\ doc'.short = doc.short
      /\ doc.rev > 0 => doc'.age = Older(doc.age)
      /\ doc.rev = 0 => doc' = NoDoc
      /\ doc' \in DocRecord
  <2>1. CASE doc = NoDoc  BY <1>2, <2>1, NothingIs, NothingTyped
  <2>2. CASE doc # NoDoc
    <3>1. doc' = [rev |-> doc.rev, born |-> doc.born, k |-> doc.k, short |-> doc.short, age |-> Older(doc.age)]
      BY <1>1, <1>2, <2>2 DEF DocRecord
    <3>2. Older(doc.age) \in Ages  BY <1>1, <1>3 DEF DocRecord
    <3>. QED  BY <1>1, <2>2, <3>1, <3>2 DEF DocRecord, DocWell
  <2>. QED  BY <2>1, <2>2
<1>6. /\ row'.ver = row.ver /\ row'.rev = row.rev /\ row'.born = row.born /\ row'.n = row.n
      /\ row'.comp = row.comp /\ row'.ret = row.ret
      /\ row'.use = Older(row.use) /\ row'.act = Older(row.act) /\ row'.cand = Older(row.cand)
      /\ row' \in RowRecord
  <2>1. row' = RowWith(row.ver, row.rev, row.born, row.n, Older(row.use), Older(row.act), row.comp, Older(row.cand),
                       row.ret)
    BY <1>1, <1>2 DEF RowRecord, RowWith
  <2>2. Older(row.use) \in 0..Never /\ Older(row.act) \in 0..Never /\ Older(row.cand) \in 0..Never
    BY <1>1, <1>4 DEF RowRecord
  <2>. QED  BY <1>1, <2>1, <2>2 DEF RowWith, RowRecord
<1>7. row.ver = 0 => row' = NoRow
  <2>1. SUFFICES ASSUME row.ver = 0 PROVE row' = NoRow  OBVIOUS
  <2>2. row = NoRow  BY <2>1 DEF Coherent
  <2>3. Older(Never) = Never  BY DEF Older, Never
  <2>. QED  BY <1>2, <2>2, <2>3 DEF NoRow
<1>8. /\ base'.rev = base.rev /\ base'.born = base.born /\ base'.k = base.k /\ base'.act = base.act
      /\ base.rev > 0 => base'.age = Older(base.age)
      /\ base.rev = 0 => base' = NoBase
      /\ base' \in BaseRecord
  <2>1. CASE base = NoBase  BY <1>2, <2>1, NothingIs, NothingTyped
  <2>2. CASE base # NoBase
    <3>1. base' = [rev |-> base.rev, born |-> base.born, k |-> base.k, age |-> Older(base.age), act |-> base.act]
      BY <1>1, <1>2, <2>2 DEF BaseRecord
    <3>2. Older(base.age) \in Ages  BY <1>1, <1>3 DEF BaseRecord
    <3>. QED  BY <1>1, <2>2, <3>1, <3>2 DEF BaseRecord, Coherent
  <2>. QED  BY <2>1, <2>2
<1>9. /\ op'.kind = op.kind /\ op'.rev = op.rev /\ op'.born = op.born /\ op'.ver = op.ver /\ op'.plan = op.plan
      /\ op'.phase = op.phase /\ op'.tgt = op.tgt
      /\ op.kind = "none" => op' = NoOp
      /\ op' \in OpRecord
  <2>1. CASE op = NoOp  BY <1>2, <2>1, NothingIs, NothingTyped
  <2>2. CASE op # NoOp
    <3>1. op' = [kind |-> op.kind, rev |-> op.rev, born |-> op.born, ver |-> op.ver, plan |-> op.plan,
                 phase |-> op.phase, tgt |-> op.tgt, age |-> Older(op.age)]
      BY <1>1, <1>2, <2>2 DEF OpRecord
    <3>2. Older(op.age) \in Ages  BY <1>1, <1>3 DEF OpRecord
    <3>. QED  BY <1>1, <2>2, <3>1, <3>2 DEF OpRecord, Coherent
  <2>. QED  BY <2>1, <2>2
<1>. QED  BY <1>5, <1>6, <1>7, <1>8, <1>9

LEMMA TickKeeps == ASSUME Inv, Tick PROVE Inv'
<1>1. /\ Typed /\ DocWell /\ Coherent /\ Planned(op) /\ RowPast /\ BasePast /\ Compacting /\ Published /\ Retiring
      /\ RestoringOp /\ Shortened /\ FreshRow /\ Candidates /\ ServedOriginals /\ Locked
  BY DEF Inv, StoresRelated
<1>2. /\ doc'.rev = doc.rev /\ doc'.born = doc.born /\ doc'.k = doc.k /\ doc'.short = doc.short
      /\ doc.rev > 0 => doc'.age = Older(doc.age)
      /\ doc.rev = 0 => doc' = NoDoc
      /\ row'.ver = row.ver /\ row'.rev = row.rev /\ row'.born = row.born /\ row'.n = row.n
      /\ row'.comp = row.comp /\ row'.ret = row.ret
      /\ row'.use = Older(row.use) /\ row'.act = Older(row.act) /\ row'.cand = Older(row.cand)
      /\ row.ver = 0 => row' = NoRow
      /\ base'.rev = base.rev /\ base'.born = base.born /\ base'.k = base.k /\ base'.act = base.act
      /\ base.rev > 0 => base'.age = Older(base.age)
      /\ base.rev = 0 => base' = NoBase
      /\ op'.kind = op.kind /\ op'.rev = op.rev /\ op'.born = op.born /\ op'.ver = op.ver /\ op'.plan = op.plan
      /\ op'.phase = op.phase /\ op'.tgt = op.tgt
      /\ op.kind = "none" => op' = NoOp
      /\ doc' \in DocRecord /\ row' \in RowRecord /\ base' \in BaseRecord /\ op' \in OpRecord
  BY <1>1, TickStores
<1>3. /\ UNCHANGED <<lock, run, owed, k, born, contents, served>>
      /\ idle' = IF idle = 3 THEN 3 ELSE idle + 1
      /\ \A a \in Actors : run[a].pc = "idle"
  BY DEF Tick, jobs, At
<1>4. idle \in 0..3 /\ idle' \in 0..3 /\ idle' >= idle /\ idle' >= 1 /\ (idle >= 2 => idle' = 3)
  BY <1>1, <1>3, StoresAre
<1>5. \A x \in 0..3 : x <= idle => Older(x) <= idle'  BY <1>3, <1>4, OlderIs
<1>6. Typed'
  <2>1. idle' \in 0..Never  BY <1>4, Bounds
  <2>. QED  BY <1>1, <1>2, <1>3, <2>1 DEF Typed, StoresTyped, CountsTyped
<1>7. StoresRelated'
  <2>1. DocWell'  BY <1>1, <1>2, <1>3 DEF DocWell
  <2>2. Coherent'
    <3>1. (row'.cand = 3 <=> row.cand = 3) /\ (row'.use = 3 <=> row.use = 3) /\ (row'.act = 3 <=> row.act = 3)
      BY <1>1, <1>2, StoresAre, OlderIs
    <3>. QED  BY <1>1, <1>2, <3>1, Bounds DEF Coherent
  <2>3. /\ MatchesSource(doc, op)' <=> MatchesSource(doc, op)
        /\ MatchesTarget(doc, op)' <=> MatchesTarget(doc, op)
        /\ RowOf(doc)' <=> RowOf(doc)
        /\ BaseFor(op)' <=> BaseFor(op)
        /\ ForCompacted(doc)' <=> ForCompacted(doc)
        /\ Same(base, doc)' <=> Same(base, doc)
        /\ \A r, b : Past(r, b)' <=> Past(r, b)
    BY <1>2, <1>3 DEF MatchesSource, MatchesTarget, RowOf, BaseFor, ForCompacted, Same, Past
  <2>4. Planned(op)'
    <3>1. Past(op.rev, op.born)' /\ Past(op.tgt, op.born)'
      BY <1>1, <1>2, <1>3 DEF Planned, Past
    <3>. QED  BY <1>1, <1>2, <2>3, <3>1 DEF Planned
  <2>5. RowPast'  BY <1>1, <1>2, <1>3 DEF RowPast, Past
  <2>6. BasePast'
    <3>1. base.rev > 0 => Past(base.rev, base.born)' /\ Past(base.act, base.born)'
      BY <1>1, <1>2, <1>3 DEF BasePast, Past
    <3>2. base.rev > 0 /\ Same(base, doc) => base'.k = doc'.k /\ base'.age = doc'.age
      BY <1>1, <1>2 DEF BasePast, Same
    <3>. QED  BY <1>2, <2>3, <3>1, <3>2 DEF BasePast
  <2>7. Compacting'
    <3>1. CASE op.kind = "compact"
      <4>1. base' = NoBase \/ (base'.rev = op'.rev /\ base'.born = op'.born)
        BY <1>1, <1>2, <3>1, NothingIs DEF Compacting
      <4>2. MatchesSource(doc, op)' => /\ BaseFor(op)' \/ row'.ver > op'.ver
                                       /\ op'.ver <= row'.ver
        BY <1>1, <1>2, <2>3, <3>1 DEF Compacting
      <4>3. ASSUME doc.short, op.phase \in {"prepared", "l2"}
            PROVE  LesserAge(base'.age, LesserAge(row'.use, row'.act)) <= idle'
        <5>1. base.rev > 0 /\ LesserAge(base.age, LesserAge(row.use, row.act)) <= idle
          BY <1>1, <3>1, <4>3 DEF Compacting, BaseFor, Planned
        <5>. DEFINE x == LesserAge(row.use, row.act)
                    y == LesserAge(base.age, x)
        <5>2. row.use \in 0..3 /\ row.act \in 0..3 /\ base.age \in 0..3  BY <1>1, StoresAre
        <5>3. x \in 0..3 /\ Older(x) = LesserAge(row'.use, row'.act)  BY <1>2, <5>2, OlderIs
        <5>4. base'.age = Older(base.age)  BY <1>2, <5>1
        <5>. HIDE DEF x
        <5>5. y \in 0..3 /\ Older(y) = LesserAge(base'.age, Older(x))  BY <5>2, <5>3, <5>4, OlderIs
        <5>. HIDE DEF y
        <5>6. y <= idle  BY <5>1 DEF x, y
        <5>7. Older(y) <= idle'  BY <1>5, <5>5, <5>6
        <5>. QED  BY <5>3, <5>5, <5>7
      <4>4. doc.short =>
              /\ doc.rev = op.rev + 1 /\ doc.born = op.born /\ doc.k = op.plan /\ BaseFor(op)
              /\ RowOf(doc) /\ row.comp => base.act = doc.rev
              /\ op.phase \in {"state", "derived"} => RowOf(doc) /\ row.comp
        BY <1>1, <3>1 DEF Compacting
      <4>. HIDE DEF LesserAge
      <4>. QED  BY <1>2, <1>4, <2>3, <4>1, <4>2, <4>3, <4>4 DEF Compacting
    <3>2. CASE op.kind # "compact"  BY <1>2, <3>2 DEF Compacting
    <3>. QED  BY <3>1, <3>2
  <2>8. Published' /\ RestoringOp'  BY <1>1, <1>2, <2>3 DEF Published, RestoringOp
  <2>9. doc.rev > 0 /\ doc.age <= idle => doc'.age <= idle'
    BY <1>1, <1>2, <1>5, StoresAre
  <2>10. Retiring'  BY <1>1, <1>2, <2>3, <2>9 DEF Retiring
  <2>11. Shortened'  BY <1>1, <1>2, <1>4, <2>3 DEF Shortened
  <2>12. FreshRow'
    <3>1. ASSUME doc.rev > 0, RowOf(doc) PROVE Activity(row, doc)' <= idle'
      <4>. DEFINE e == IF row.act = Never THEN doc.age ELSE row.act
      <4>1. e \in 0..3 /\ row.use \in 0..3  BY <1>1, StoresAre
      <4>2. (IF row'.act = Never THEN doc'.age ELSE row'.act) = Older(e)
        <5>1. row'.act = 3 <=> row.act = 3  BY <1>1, <1>2, StoresAre, OlderIs
        <5>. QED  BY <1>2, <3>1, <5>1, Bounds
      <4>. HIDE DEF e
      <4>3. Activity(row, doc)' = LesserAge(Older(e), Older(row.use))  BY <1>2, <4>2 DEF Activity
      <4>4. LesserAge(e, row.use) <= idle  BY <1>1, <3>1 DEF FreshRow, Activity, e
      <4>5. LesserAge(Older(e), Older(row.use)) = Older(LesserAge(e, row.use)) /\ LesserAge(e, row.use) \in 0..3
        BY <4>1, OlderIs
      <4>6. Older(LesserAge(e, row.use)) <= idle'  BY <1>5, <4>4, <4>5
      <4>. QED  BY <4>3, <4>5, <4>6
    <3>2. doc.rev > 0 /\ ~RowOf(doc) => doc'.age <= idle'  BY <1>1, <2>9 DEF FreshRow
    <3>. QED  BY <1>2, <2>3, <3>1, <3>2 DEF FreshRow
  <2>13. Candidates'
    <3>1. row'.cand = 3 <=> row.cand = 3  BY <1>1, <1>2, StoresAre, OlderIs
    <3>2. doc.rev > 0 /\ RowOf(doc) => /\ row.cand # 3 => idle >= 2
                                       /\ row.ret => idle = 3
      BY <1>1, Bounds DEF Candidates
    <3>. QED  BY <1>2, <1>4, <2>3, <3>1, <3>2, Bounds DEF Candidates
  <2>14. ServedOriginals'  BY <1>1, <1>2, <1>3 DEF ServedOriginals, Deleted
  <2>. QED
    BY <2>1, <2>2, <2>4, <2>5, <2>6, <2>7, <2>8, <2>10, <2>11, <2>12, <2>13, <2>14 DEF StoresRelated
<1>8. \A a \in Actors : run'[a] = Idle
  <2>1. ASSUME NEW a \in Actors PROVE run[a] = Idle
    <3>1. CASE a \in Users  BY <1>3, <3>1, UserAt DEF Inv, UseRelated
    <3>2. CASE a \notin Users  BY <1>3, <3>2, ActorsAre, UpkeepAt DEF Inv, UpkeepRelated, U
    <3>. QED  BY <3>1, <3>2
  <2>. QED  BY <1>3, <2>1
<1>9. \A a \in Actors : CallerRelated(a)'  BY <1>6, <1>8, IdleRelated
<1>10. \A a \in Users : UseRelated(a)'  BY <1>6, <1>8, ActorsAre, IdleRelated
<1>11. UpkeepRelated'  BY <1>6, <1>8, ActorsAre, IdleRelated
<1>12. Locked'  BY <1>1, <1>3 DEF Locked
<1>. QED  BY <1>6, <1>7, <1>9, <1>10, <1>11, <1>12 DEF Inv

LEMMA ReturnRestoredKeeps == ASSUME Inv, NEW a \in Users, ReturnRestored(a) PROVE Inv'
<1>1. /\ Typed /\ run[a].pc = "return_restored" /\ StoresRelated /\ UseRelated(a) /\ a \in Actors
      /\ UpkeepRelated
  BY ActorsAre DEF Inv, ReturnRestored, At
<1>2. /\ UNCHANGED <<doc, row, base, op, owed, k, born, contents, idle>> /\ lock' = lock
      /\ served' = (IF doc.rev > 0 THEN served \cup {doc.short} ELSE served)
  BY DEF ReturnRestored, stores, jobs, clock
<1>3. Gone(a) /\ Steps(a, run'[a]) /\ run'[a] = Idle /\ run'[a].pc = "idle"
  BY <1>1, ReturnRestoredGoes, NothingIs DEF Gone, Steps
<1>4. doc.rev > 0 => ~doc.short
  <2>1. run[a].op.kind = "restore" /\ ~MatchesSource(doc, run[a].op)
    BY <1>1, NothingIs DEF UseRelated, UserPlaced, Using, UsePlace, CleanPlace
  <2>2. doc.rev > 0 => idle = 0  BY <1>1, <2>1 DEF UseRelated, Using, Warm
  <2>. QED  BY <1>1, <2>2 DEF StoresRelated, Shortened
<1>5. served' \subseteq BOOLEAN /\ ServedOriginals'
  <2>1. doc.short \in BOOLEAN /\ ServedOriginals /\ served \subseteq BOOLEAN
    BY <1>1, StoresAre DEF StoresRelated, Typed, CountsTyped
  <2>. QED  BY <1>2, <1>4, <2>1 DEF ServedOriginals, Deleted
<1>6. /\ base' \in BaseRecord /\ (base'.rev = 0 => base' = NoBase) /\ (base'.act > 0 => base'.act > base'.rev)
      /\ BasePast' /\ Compacting' /\ Published' /\ Shortened'
  <2>1. base' \in BaseRecord /\ (base'.rev = 0 => base' = NoBase) /\ (base'.act > 0 => base'.act > base'.rev)
    BY <1>1, <1>2 DEF Typed, StoresTyped, StoresRelated, Coherent
  <2>2. BasePast' /\ Published'
    BY <1>1, <1>2 DEF StoresRelated, BasePast, Published, Past, Same, RowOf
  <2>3. Compacting'  BY <1>1, <1>2 DEF StoresRelated, Compacting, MatchesSource, BaseFor, RowOf
  <2>4. Shortened'  BY <1>1, <1>2 DEF StoresRelated, Shortened, ForCompacted
  <2>. QED  BY <2>1, <2>2, <2>3, <2>4
<1>7. UpkeepRelated'
  <2>1. U' = U  BY <1>3, ActorsAre DEF Steps, U
  <2>. QED  BY <1>1, <1>2, <2>1, UpkeepKept
<1>8. LockGoes(a)
  BY <1>1, <1>2, <1>3, GoneUnheld DEF LockedPlace, CleanPlace, FinishPlace
<1>9. Typed'
  <2>1. lock' \in Actors \cup {"none"}  BY <1>1, <1>2 DEF Typed, CountsTyped
  <2>. QED  BY <1>1, <1>2, <1>3, <1>5, <1>6, <2>1 DEF Typed, StoresTyped, CountsTyped, Steps
<1>10. CallerRelated(a)' /\ UseRelated(a)'  BY <1>1, <1>3, <1>9, IdleRelated
<1>11. \A b \in Users : b # a => Noticed(b)' /\ Serving(b)'
  BY <1>1, <1>2, <1>3, OthersServed
<1>. QED  BY <1>1, <1>2, <1>3, <1>5, <1>6, <1>7, <1>8, <1>10, <1>11, BaseStepKeeps

----------------------------------------------------------------------------
(* The specification.                                                      *)

LEMMA AtStart == Init => Inv
<1>. SUFFICES ASSUME Init PROVE Inv  OBVIOUS
<1>1. Typed  BY TypedAtStart
<1>2. /\ doc = [rev |-> 1, born |-> 1, k |-> 1, short |-> FALSE, age |-> 0]
      /\ row = NoRow /\ base = NoBase /\ op = NoOp /\ lock = "none" /\ served = {}
      /\ owed = FALSE /\ k = 1 /\ idle = 0 /\ born = 1
      /\ run = [a \in Actors |-> Idle]
  BY DEF Init
<1>3. \A a \in Actors : run[a] = Idle  BY <1>2
<1>4. StoresRelated
  <2>. USE NothingIs
  <2>1. DocWell /\ Coherent  BY <1>2 DEF DocWell, Coherent, Never
  <2>2. Planned(op) /\ RowPast /\ BasePast  BY <1>2 DEF Planned, Past, MatchesSource, MatchesTarget, RowPast, BasePast
  <2>3. Compacting /\ Published /\ Retiring /\ RestoringOp
    BY <1>2 DEF Compacting, Published, Retiring, RestoringOp
  <2>4. Shortened /\ FreshRow /\ Candidates /\ ServedOriginals
    BY <1>2 DEF Shortened, ForCompacted, FreshRow, Candidates, RowOf, ServedOriginals
  <2>. QED  BY <2>1, <2>2, <2>3, <2>4 DEF StoresRelated
<1>5. Locked
  BY <1>2, <1>3, GoneUnlocked, NothingIs, ActorsAre DEF Locked, Actors
<1>6. UpkeepRelated
  <2>1. U = Idle  BY <1>3, ActorsAre DEF U
  <2>. QED
    BY <2>1, NothingIs DEF UpkeepRelated, UpkeepPlaced, UpkeepDrives, Scanned, Driven, ScanPlace, FinishPlace, CleanPlace
<1>7. ASSUME NEW a \in Actors PROVE CallerRelated(a)
  BY <1>2, <1>3, NothingIs DEF CallerRelated, Copied, Past, Planned, Restoring, MatchesSource, MatchesTarget
<1>8. ASSUME NEW a \in Users PROVE UseRelated(a)
  BY <1>3, NothingIs, ActorsAre
     DEF UseRelated, UserPlaced, UserDrives, Using, Noticed, Serving, UsePlace, CleanPlace
<1>. QED  BY <1>1, <1>4, <1>5, <1>6, <1>7, <1>8 DEF Inv

LEMMA ResumeStepKeeps == ASSUME Inv, NEW a \in Actors, ResumeStep(a) PROVE Inv'
<1>1. CASE Resume(a)  BY <1>1, ResumeKeeps
<1>2. CASE ResumeCompact(a)  BY <1>2, ResumeCompactKeeps
<1>3. CASE CommitShort(a)  BY <1>3, CommitShortKeeps
<1>4. CASE RereadShort(a)  BY <1>4, RereadShortKeeps
<1>5. CASE ActivateBase(a)  BY <1>5, ActivateBaseKeeps
<1>6. CASE ShortDone(a)  BY <1>6, ShortDoneKeeps
<1>7. CASE DropBase(a)  BY <1>7, DropBaseKeeps
<1>8. CASE DropOperation(a)  BY <1>8, DropOperationKeeps
<1>9. CASE CheckShort(a)  BY <1>9, CheckShortKeeps
<1>10. CASE PublishCompacted(a)  BY <1>10, PublishCompactedKeeps
<1>11. CASE PublishDone(a)  BY <1>11, PublishDoneKeeps
<1>12. CASE StateDone(a)  BY <1>12, StateDoneKeeps
<1>13. CASE ResumeRestore(a)  BY <1>13, ResumeRestoreKeeps
<1>14. CASE CommitOriginal(a)  BY <1>14, CommitOriginalKeeps
<1>15. CASE RereadOriginal(a)  BY <1>15, RereadOriginalKeeps
<1>16. CASE OriginalDone(a)  BY <1>16, OriginalDoneKeeps
<1>17. CASE AcknowledgeRestore(a)  BY <1>17, AcknowledgeRestoreKeeps
<1>18. CASE ResumeRetire(a)  BY <1>18, ResumeRetireKeeps
<1>19. CASE DeleteRetired(a)  BY <1>19, DeleteRetiredKeeps
<1>20. CASE DeleteDone(a)  BY <1>20, DeleteDoneKeeps
<1>21. CASE CleanRow(a)  BY <1>21, CleanRowKeeps
<1>22. CASE CleanBase(a)  BY <1>22, CleanBaseKeeps
<1>23. CASE CleanOp(a)  BY <1>23, CleanOpKeeps
<1>24. CASE AdvanceRetire(a)  BY <1>24, AdvanceRetireKeeps
<1>25. CASE StartFinish(a)  BY <1>25, StartFinishKeeps
<1>26. CASE FinishBase(a)  BY <1>26, FinishBaseKeeps
<1>27. CASE FinishRow(a)  BY <1>27, FinishRowKeeps
<1>28. CASE FinishOp(a)  BY <1>28, FinishOpKeeps
<1>. QED
  BY <1>1, <1>2, <1>3, <1>4, <1>5, <1>6, <1>7, <1>8, <1>9, <1>10, <1>11, <1>12, <1>13, <1>14, <1>15, <1>16, <1>17,
     <1>18, <1>19, <1>20, <1>21, <1>22, <1>23, <1>24, <1>25, <1>26, <1>27, <1>28 DEF ResumeStep

LEMMA UpkeepStepKeeps == ASSUME Inv, UpkeepStep PROVE Inv'
<1>1. CASE StartResume  BY <1>1, StartResumeKeeps
<1>2. CASE StartScan  BY <1>2, StartScanKeeps
<1>3. CASE Rank  BY <1>3, RankKeeps
<1>4. CASE MarkRetirement  BY <1>4, MarkRetirementKeeps
<1>5. CASE RankAgain  BY <1>5, RankAgainKeeps
<1>6. CASE PrepareRetire  BY <1>6, PrepareRetireKeeps
<1>7. CASE ModelKeeps  BY <1>7, ModelKeepsKeeps
<1>8. CASE ModelShortens  BY <1>8, ModelShortensKeeps
<1>9. CASE RankShortened  BY <1>9, RankShortenedKeeps
<1>10. CASE SaveBaseline  BY <1>10, SaveBaselineKeeps
<1>11. CASE PrepareCompact  BY <1>11, PrepareCompactKeeps
<1>12. CASE ResumeStep("upkeep")  BY <1>12, ResumeStepKeeps, UpkeepActs
<1>. QED
  BY <1>1, <1>2, <1>3, <1>4, <1>5, <1>6, <1>7, <1>8, <1>9, <1>10, <1>11, <1>12 DEF UpkeepStep

LEMMA UseStepKeeps == ASSUME Inv, NEW a \in Users, StartUse(a) \/ UseStep(a) PROVE Inv'
<1>1. CASE StartUse(a)  BY <1>1, StartUseKeeps
<1>2. CASE LockUse(a)  BY <1>2, LockUseKeeps
<1>3. CASE CheckUse(a)  BY <1>3, CheckUseKeeps
<1>4. CASE CheckRow(a)  BY <1>4, CheckRowKeeps
<1>5. CASE RecordUse(a)  BY <1>5, RecordUseKeeps
<1>6. CASE DropStaleBase(a)  BY <1>6, DropStaleBaseKeeps
<1>7. CASE PrepareRestore(a)  BY <1>7, PrepareRestoreKeeps
<1>8. CASE ReturnRestored(a)  BY <1>8, ReturnRestoredKeeps
<1>9. CASE ResumeStep(a)  BY <1>9, ResumeStepKeeps, ActorsAre
<1>. QED  BY <1>1, <1>2, <1>3, <1>4, <1>5, <1>6, <1>7, <1>8, <1>9 DEF UseStep

LEMMA StutterKeeps == ASSUME Inv, UNCHANGED vars PROVE Inv'
<1>1. Quiet /\ lock' = lock /\ run' = run /\ keep' = keep /\ uses' = uses /\ ticks' = ticks /\ faults' = faults
  BY DEF vars, Quiet
<1>2. Typed /\ StoresRelated /\ Locked /\ UpkeepRelated  BY DEF Inv
<1>3. Typed' /\ Locked'
  BY <1>1, <1>2, QuietIs DEF Typed, StoresTyped, CountsTyped, Locked
<1>4. StoresRelated'  BY <1>1, <1>2, QuietIs, StoresKept
<1>5. U' = U  BY <1>1 DEF U
<1>6. UpkeepRelated'  BY <1>1, <1>2, <1>5, QuietIs, UpkeepKept
<1>7. ASSUME NEW a \in Actors PROVE CallerRelated(a)'  BY <1>1, QuietIs, CallerKept DEF Inv
<1>8. ASSUME NEW a \in Users PROVE UseRelated(a)'
  <2>1. UserPlaced(a)' /\ UserDrives(a)' /\ Using(a)'
    BY <1>1, <1>8, QuietIs, ActorsAre, UseKept DEF Inv, UseRelated
  <2>2. Noticed(a)'  BY <1>1, <1>5, <1>8, QuietIs, NoticedKept DEF Inv, UseRelated
  <2>3. Serving(a)
    BY <1>8 DEF Inv, UseRelated
  <2>4. Serving(a)'  BY <1>1, <1>5, <2>3, QuietIs DEF Serving, Deleted, RowOf, Newer
  <2>. QED  BY <2>1, <2>2, <2>4 DEF UseRelated
<1>. QED  BY <1>3, <1>4, <1>6, <1>7, <1>8 DEF Inv

LEMMA NextKeeps == Inv /\ [Next]_vars => Inv'
<1>. SUFFICES ASSUME Inv, [Next]_vars PROVE Inv'  OBVIOUS
<1>1. CASE UpkeepStep  BY <1>1, UpkeepStepKeeps
<1>2. CASE \E a \in Users : StartUse(a) \/ UseStep(a)  BY <1>2, UseStepKeeps
<1>3. CASE JobEdit  BY <1>3, JobEditKeeps
<1>4. CASE JobCreate  BY <1>4, JobCreateKeeps
<1>5. CASE JobDelete  BY <1>5, JobDeleteKeeps
<1>6. CASE JobForget  BY <1>6, JobForgetKeeps
<1>7. CASE Tick  BY <1>7, TickKeeps
<1>8. CASE \E a \in Actors : Stop(a)  BY <1>8, StopKeeps
<1>9. CASE UNCHANGED vars  BY <1>9, StutterKeeps
<1>. QED  BY <1>1, <1>2, <1>3, <1>4, <1>5, <1>6, <1>7, <1>8, <1>9 DEF Next

\* The invariant, for every behaviour.
THEOREM CompactionInvariant == Spec => []Inv
<1>. QED  BY AtStart, NextKeeps, PTL DEF Spec

----------------------------------------------------------------------------
(* What the code promises.                                                 *)

\* The records keep what they check of themselves when they are read back
\* (the validators of recall_state.py, recovery.py and operation.py).
THEOREM CompactionTypeCorrect == Spec => []TypeOK
<1>1. Inv => TypeOK
  <2>. SUFFICES ASSUME Inv PROVE TypeOK  OBVIOUS
  <2>1. Typed /\ Coherent  BY DEF Inv, StoresRelated
  <2>2. doc \in DocRecord /\ row \in RowRecord /\ base \in BaseRecord /\ op \in OpRecord
          /\ lock \in Actors \cup {"none"} /\ served \subseteq BOOLEAN
    BY <2>1 DEF Typed, StoresTyped, CountsTyped
  <2>. QED  BY <2>1, <2>2 DEF TypeOK, Coherent, DocRecord, RowRecord, BaseRecord, OpRecord
<1>. QED  BY <1>1, CompactionInvariant, PTL

\* A document is only ever short while its original can be brought back: SaveBaseline comes before
\* the commit, ActivateBase binds it, and no clean-up of another operation deletes it.
THEOREM OriginalIsKept == Spec => []OriginalKept
<1>1. Inv => OriginalKept
  <2>. SUFFICES ASSUME Inv, doc.short
       PROVE  /\ base.rev > 0 /\ base.born = doc.born /\ base.k = doc.k /\ base.rev < doc.rev
              /\ base.act = doc.rev \/ (op.kind = "compact" /\ op.rev = base.rev)
              /\ (RowOf(doc) /\ row.comp) => base.act = doc.rev
    BY DEF OriginalKept
  <2>1. Typed /\ Compacting /\ Published /\ Planned(op)  BY DEF Inv, StoresRelated
  <2>2. CASE op.kind = "compact"
    <3>1. /\ doc.rev = op.rev + 1 /\ doc.born = op.born /\ doc.k = op.plan /\ BaseFor(op) /\ op.rev > 0
          /\ (RowOf(doc) /\ row.comp) => base.act = doc.rev
      BY <2>1, <2>2 DEF Compacting, Planned
    <3>. QED  BY <2>1, <2>2, <3>1, StoresAre DEF BaseFor
  <2>3. CASE op.kind # "compact"  BY <2>1, <2>3 DEF Published
  <2>. QED  BY <2>2, <2>3
<1>. QED  BY <1>1, CompactionInvariant, PTL

\* A compaction or a restoration prepared before an edit never writes over it: replace_fields is
\* fenced by the document it read, and that document is the source of its plan.
THEOREM EditsAlwaysSurvive == Spec => []EditsSurvive
<1>1. Inv => EditsSurvive  BY DEF Inv, StoresRelated, DocWell, EditsSurvive
<1>. QED  BY <1>1, CompactionInvariant, PTL

\* record_context_use hands out the shortened text to nobody, as long as no job deletes the memory
\* while the use is going on.
THEOREM OriginalsAreReturned == Spec => []ReturnsOriginal
<1>1. Inv => ReturnsOriginal
  <2>. SUFFICES ASSUME Inv, doc.rev > 0, doc.born = 1 PROVE TRUE \notin served  BY DEF ReturnsOriginal
  <2>1. ServedOriginals  BY DEF Inv, StoresRelated
  <2>2. ~(1 > 1) /\ ~(doc.rev > 0 /\ doc.rev = 0)  OBVIOUS
  <2>3. ~Deleted  BY <2>2 DEF Deleted
  <2>. QED  BY <2>1, <2>3 DEF ServedOriginals
<1>. QED  BY <1>1, CompactionInvariant, PTL

\* MemoryLifecycleCommitter.delete is reached only for a memory nobody used or edited for the
\* retirement period and the grace period.
THEOREM OnlyUnusedRetire == Spec => RetiredWasUnused
<1>1. Inv /\ [Next]_vars => [\A a \in Actors : DeleteRetired(a) /\ doc' # doc => idle = 3]_vars
  <2>. SUFFICES ASSUME Inv, NEW a \in Actors, DeleteRetired(a), doc' # doc PROVE idle = 3  OBVIOUS
  <2>1. /\ run[a].pc = "delete" /\ doc = run[a].doc /\ Retiring /\ Candidates
        /\ Typed /\ UpkeepRelated
    BY DEF Inv, StoresRelated, DeleteRetired, At
  <2>2. a = "upkeep"  BY <2>1, RetirerAt DEF RetirePlace, CleanPlace
  <2>3. op.kind = "retire" /\ MatchesSource(doc, op)
    BY <2>1, <2>2 DEF UpkeepRelated, UpkeepDrives, Driven, U
  <2>. QED  BY <2>1, <2>3 DEF Retiring, Candidates, MatchesSource
<1>. QED  BY <1>1, CompactionInvariant, PTL DEF Spec, RetiredWasUnused
=============================================================================

------------------------- MODULE MemoryIndexProofs -------------------------
(***************************************************************************)
(* What holds of MemoryIndex for any documents, embedding models, wordings *)
(* and bounds: a collection that says it is ready is whole, a search       *)
(* answers from one publication, and, with the one index object a process  *)
(* has, nothing that was committed is missing from a settled index.        *)
(***************************************************************************)
EXTENDS MemoryIndex, FiniteSetTheorems, TLAPS

----------------------------------------------------------------------------
(* Types.                                                                  *)

Layering == [src : [Docs -> 0..MaxContent], text : Texts \cup {0}]

Content == (0..MaxContent) \cup Layering

\* A record set: a version per document, and the layers.
Records == {m \in [Ids -> Content] :
              /\ m[Layers] \in Layering
              /\ \A d \in Docs : m[d] \in 0..MaxContent}

States == [model : Models \cup {"none"}, ckpt : Nat, gen : Nat, count : Nat]

Claims == {"none", "building", "ready"}

RunRecord ==
    [pc : PCs, tries : Int, left : Int,
     back : {"idle", "sync", "load", "compare", "finish"}, ckpt : Nat,
     st : States, cl : Claims, src : Records, next : States, loaded : Records]

Typed ==
    /\ docs \in [Docs -> 0..MaxContent]
    /\ layer \in Layering
    /\ reworded \in BOOLEAN
    /\ dim \in Nat
    /\ state \in States
    /\ claim \in Claims
    /\ recs \in Records
    /\ published \in Records
    /\ config \in Models
    /\ job \in [seq : 0..MaxJobs, owed : BOOLEAN, changed : SUBSET Docs]
    /\ upkeep \in [count : Nat, owed : BOOLEAN]
    /\ run \in [Actors -> RunRecord]
    /\ indexLock \in SUBSET Actors
    /\ pubLock \in SUBSET Actors

----------------------------------------------------------------------------
(* Who is where.                                                           *)

\* The steps under the publication guard.
Guarded == {"claim", "clear", "fill", "upsert", "delete", "publish", "open"}

Rebuilds == {"state", "walk", "replace", "claim", "clear", "fill"}

Increments == {"sync", "compare", "apply", "upsert", "delete"}

Reads == {"load", "query", "verify", "answer"}

Early == {"idle", "snapshot", "refresh"}

\* Which caller may have these local variables.
Fits(a, r) ==
    /\ r.pc \in Rebuilds => r.back # "idle"
    /\ r.pc \in Early \cup {"ensure"} => r.back = "idle"
    /\ r.pc \in Increments => a = "job" /\ r.back = "idle"
    /\ r.pc \in Reads => a = "search"
    /\ r.back \in {"compare", "sync"} => a = "job"
    /\ r.back = "load" => a = "search"

Roles ==
    /\ \A a \in Actors : Fits(a, run[a])
    /\ \A a \in Actors : run[a].pc \in Guarded <=> a \in pubLock
    /\ \A a, b \in pubLock : a = b
    /\ run["job"].pc # "idle" => job.owed
    /\ run["upkeep"].pc # "idle" => upkeep.owed

----------------------------------------------------------------------------
(* Publications.                                                           *)

\* The records after an increment.
Merged(m, src, C) == [i \in Ids |-> IF i \in C THEN src[i] ELSE m[i]]

Count(m) == Cardinality(Present(m))

\* A collection that is not half published is whole; before the first
\* publication it is empty, and so is its metadata.
Whole ==
    /\ PublicationIsWhole
    /\ claim = "none" => recs = published

\* How far the publication of a is.
Progress(a) ==
    LET r == run[a] IN
    /\ r.pc \in Guarded \ {"claim"} => claim = "building"
    /\ r.pc \in Guarded \ {"open"} => r.next.gen > state.gen
    /\ r.pc \in {"claim", "clear", "fill"} => r.next.count = Count(r.src)
    /\ r.pc \in {"upsert", "delete"} => r.next.count = Count(Merged(recs, r.src, Changed))
    /\ r.pc = "delete" => \A i \in Changed \cap Present(r.src) : recs[i] = r.src[i]
    /\ r.pc = "publish" => r.next.count = Count(recs)
    /\ r.pc = "open" => /\ state = r.next
                        /\ state.gen > 0
                        /\ recs = published
                        /\ state.count = Count(recs)

Publishing == Whole /\ \A a \in Actors : Progress(a)

\* The dimension of the backend is that of the state, of the state about to be
\* written, and of the configured model once somebody has checked it.
Dimensions ==
    /\ state # NoState => dim = DimOf[state.model]
    /\ \A a \in Actors :
         /\ run[a].pc \in Guarded => dim = DimOf[run[a].next.model]
         /\ run[a].pc \in Guarded /\ run[a].back # "idle" => dim = DimOf[config]
         /\ run[a].pc \in Reads => dim = DimOf[config]

\* What the search knows about the publication it loaded: it is still the one
\* there is, or a later state was written; what it read while the collection
\* was half published is not yet under a claim it could match.
Later == run["search"].st.gen < state.gen

Reading ==
    LET r == run["search"] IN
    /\ r.pc \in {"query", "verify"} =>
          /\ r.cl # "building"
          /\ \/ Later
             \/ /\ state = r.st /\ published = r.loaded
                /\ \A a \in Actors : run[a].pc # "open"
    /\ r.pc = "verify" => r.src = r.loaded \/ claim = "building" \/ Later
    /\ r.pc = "answer" => r.src = r.loaded

IInv == Typed /\ Roles /\ Publishing /\ Dimensions /\ Reading

----------------------------------------------------------------------------
(* The index and the tree.                                                 *)

\* The same source, and the same wording of the layers unless w.
Alike(w, m, n, i) == m[i] = n[i] \/ (w /\ i = Layers /\ m[i].src = n[i].src)

\* The steps under the lock of the index.
Locked == {"compare", "apply"} \cup Rebuilds \cup Guarded

Exclusive ==
    /\ \A a \in Actors : run[a].pc \in Locked => a \in indexLock
    /\ \A a, b \in indexLock : a = b

\* The job j, where it is, still has an increment to publish over a
\* publication with checkpoint c, and i is part of it.
JobDue(j, pc, c, i) == j.owed /\ pc # "finish" /\ c < j.seq /\ i \in j.changed \cup {Layers}

\* m, published with checkpoint c, is the tree but for that increment.
Near(w, m, tree, j, pc, c) == \A i \in Ids : Alike(w, m, tree, i) \/ JobDue(j, pc, c, i)

\* The upkeep operation still has to write its rebuild.
UpkeepDue == upkeep.owed /\ run["upkeep"].pc \notin {"open", "finish"}

\* Whose checkpoint a publication carries.
Checkpoints ==
    /\ state.ckpt <= job.seq
    /\ \A a \in Actors :
         /\ run[a].ckpt <= job.seq
         /\ run[a].pc \in Guarded /\ run[a].back # "idle" => run[a].next.ckpt = run[a].ckpt
         /\ run[a].pc \in Guarded /\ run[a].back = "idle" =>
               a = "job" /\ run[a].next.ckpt = job.seq
    /\ run["job"].pc = "compare" => run["job"].st.ckpt = state.ckpt
    /\ run["job"].back # "finish"

\* The layers were written from these documents, or an unfinished operation
\* that changed them has not refreshed them yet and nothing published carries
\* its checkpoint.
Overviews ==
    \/ layer.src = docs
    \/ upkeep.owed /\ run["upkeep"].pc \in Early
    \/ /\ job.owed /\ run["job"].pc \in Early
       /\ state.ckpt < job.seq /\ \A a \in Actors : run[a].ckpt < job.seq

\* What a publishes as m with checkpoint c.
Follows(a, m, c) ==
    (UpkeepDue /\ a # "upkeep") \/ Near(reworded, m, Tree, job, run["job"].pc, c)

\* What a is going to publish.
Carries(a) ==
    LET r == run[a] IN
    /\ r.pc \in {"replace", "claim", "clear", "fill"} => Follows(a, r.src, r.ckpt)
    /\ r.pc = "publish" => Follows(a, recs, r.next.ckpt)
    /\ r.pc \in {"apply", "upsert", "delete"} =>
          UpkeepDue \/ \A i \in Changed : Alike(reworded, r.src, Tree, i)
    /\ r.pc \in {"upsert", "delete"} =>
          UpkeepDue \/ \A i \in Ids \ Changed : Alike(reworded, recs, Tree, i)

\* A state that is or is about to be ready.
Opened == claim = "ready" \/ \E a \in Actors : run[a].pc = "open"

Covered == Opened => UpkeepDue \/ Near(reworded, published, Tree, job, run["job"].pc, state.ckpt)

Coverage == Covered /\ \A a \in Actors : Carries(a)

FInv == Exclusive /\ Checkpoints /\ Overviews /\ Coverage

----------------------------------------------------------------------------
(* Record sets and local variables have their types.                       *)

LEMMA BoundsAreNats ==
    /\ MaxContent \in Nat /\ StaleRetries \in Nat /\ ReadAttempts \in Nat
    /\ MaxJobs \in Nat /\ Texts \subseteq Nat \ {0}
    /\ \A m \in Models : DimOf[m] \in Nat \ {0}
    /\ IsFiniteSet(Docs) /\ Layers \notin Docs
BY IndexAssumption DEF Layers

LEMMA EmptyThings ==
    /\ NoDocs \in [Docs -> 0..MaxContent]
    /\ NoLayer \in Layering
    /\ NoState \in States
    /\ Nothing \in Records
    /\ Idle \in RunRecord
<1>1. NoDocs \in [Docs -> 0..MaxContent]
  BY BoundsAreNats DEF NoDocs
<1>2. NoLayer \in Layering
  BY <1>1 DEF NoLayer, Layering
<1>3. NoState \in States
  BY DEF NoState, States
<1>4. Nothing \in Records
  BY <1>2, BoundsAreNats DEF Nothing, Absent, Records, Content, Ids
<1>5. Idle \in RunRecord
  BY <1>3, <1>4 DEF Idle, RunRecord, PCs, Claims
<1> QED
  BY <1>1, <1>2, <1>3, <1>4, <1>5

LEMMA TreeIsRecords ==
    ASSUME docs \in [Docs -> 0..MaxContent], layer \in Layering
    PROVE  Tree \in Records
BY BoundsAreNats DEF Tree, Records, Content, Ids

LEMMA MergedIsRecords ==
    ASSUME NEW m \in Records, NEW src \in Records, NEW C
    PROVE  Merged(m, src, C) \in Records
BY DEF Merged, Records, Ids

\* A caller's local variables, some of them set.
LEMMA SetPc ==
    ASSUME NEW r \in RunRecord, NEW p \in PCs
    PROVE  [r EXCEPT !.pc = p] \in RunRecord
BY DEF RunRecord

LEMMA SetTries ==
    ASSUME NEW r \in RunRecord, NEW p \in PCs, NEW n \in Int
    PROVE  [r EXCEPT !.pc = p, !.tries = n] \in RunRecord
BY DEF RunRecord

LEMMA SetLeft ==
    ASSUME NEW r \in RunRecord, NEW p \in PCs, NEW n \in Int
    PROVE  [r EXCEPT !.pc = p, !.left = n] \in RunRecord
BY DEF RunRecord

LEMMA SetSt ==
    ASSUME NEW r \in RunRecord, NEW p \in PCs, NEW s \in States
    PROVE  [r EXCEPT !.pc = p, !.st = s] \in RunRecord
BY DEF RunRecord

LEMMA SetSrc ==
    ASSUME NEW r \in RunRecord, NEW p \in PCs, NEW m \in Records
    PROVE  [r EXCEPT !.pc = p, !.src = m] \in RunRecord
BY DEF RunRecord

LEMMA SetNext ==
    ASSUME NEW r \in RunRecord, NEW p \in PCs, NEW s \in States
    PROVE  [r EXCEPT !.pc = p, !.next = s] \in RunRecord
BY DEF RunRecord

LEMMA SetStNext ==
    ASSUME NEW r \in RunRecord, NEW p \in PCs, NEW s \in States, NEW n \in States
    PROVE  [r EXCEPT !.pc = p, !.st = s, !.next = n] \in RunRecord
BY DEF RunRecord

LEMMA SetTriesSt ==
    ASSUME NEW r \in RunRecord, NEW p \in PCs, NEW n \in Int, NEW s \in States
    PROVE  [r EXCEPT !.pc = p, !.tries = n, !.st = s] \in RunRecord
BY DEF RunRecord

LEMMA SetLoaded ==
    ASSUME NEW r \in RunRecord, NEW p \in PCs,
           NEW s \in States, NEW c \in Claims, NEW l \in Records
    PROVE  [r EXCEPT !.pc = p, !.st = s, !.cl = c, !.loaded = l] \in RunRecord
BY DEF RunRecord

LEMMA SetBack ==
    ASSUME NEW r \in RunRecord, NEW p \in PCs,
           NEW b \in {"idle", "sync", "load", "compare", "finish"},
           NEW n \in Int, NEW k \in Nat
    PROVE  [r EXCEPT !.pc = p, !.back = b, !.left = n, !.ckpt = k] \in RunRecord
BY DEF RunRecord

LEMMA PcsAre ==
    /\ {"idle", "snapshot", "refresh", "ensure", "rebuild", "sync", "compare",
        "state", "walk", "replace", "claim", "clear"} \subseteq PCs
    /\ {"fill", "apply", "upsert", "delete", "publish", "open", "finish", "load",
        "query", "verify", "answer"} \subseteq PCs
BY DEF PCs

\* What is in them.
LEMMA LocalsAre ==
    ASSUME Typed, NEW a \in Actors
    PROVE  /\ run[a] \in RunRecord
           /\ run[a].pc \in PCs /\ run[a].tries \in Int /\ run[a].left \in Int
           /\ run[a].ckpt \in Nat /\ run[a].st \in States /\ run[a].next \in States
           /\ run[a].src \in Records /\ run[a].loaded \in Records /\ run[a].cl \in Claims
BY DEF Typed, RunRecord

LEMMA InitTyped == Init => Typed
<1> SUFFICES ASSUME Init PROVE Typed
  OBVIOUS
<1>1. /\ docs \in [Docs -> 0..MaxContent] /\ layer \in Layering
      /\ state \in States /\ recs \in Records /\ published \in Records
      /\ reworded \in BOOLEAN /\ config \in Models
  BY EmptyThings DEF Init
<1>2. run \in [Actors -> RunRecord]
  BY EmptyThings DEF Init
<1> QED
  BY <1>1, <1>2, BoundsAreNats DEF Init, Typed, Claims

\* One caller's record replaced by another one.
LEMMA RunTyped ==
    ASSUME Typed, NEW a \in Actors, NEW r \in RunRecord, run' = [run EXCEPT ![a] = r]
    PROVE  run' \in [Actors -> RunRecord]
BY DEF Typed

LEMMA RaiseTyped ==
    ASSUME Typed, NEW a \in Actors, Raise(a)
    PROVE  /\ run' \in [Actors -> RunRecord]
           /\ indexLock' \in SUBSET Actors /\ pubLock' \in SUBSET Actors
BY EmptyThings DEF Typed, Raise

LEMMA ActorsAre == Actors = {"job", "upkeep", "search"}
BY DEF Actors

\* The steps that touch neither the backend nor the publication guard.
LEMMA CallsTyped ==
    ASSUME Typed,
           \/ CommitJob \/ CommitUpkeep \/ StartSearch \/ Reconfigure
           \/ \E a \in {"job", "upkeep"} : StartDerived(a) \/ Finish(a)
           \/ \E a \in Actors : Stop(a)
    PROVE  Typed'
<1> USE BoundsAreNats, ActorsAre
<1>1. CASE CommitJob
  BY <1>1 DEF CommitJob, Typed, backend, locks
<1>2. CASE CommitUpkeep
  BY <1>2 DEF CommitUpkeep, Typed, backend, locks
<1>3. CASE StartSearch
  <2>1. run' \in [Actors -> RunRecord]
    BY <1>3, SetPc, PcsAre, LocalsAre DEF StartSearch, Go, Typed
  <2> QED
    BY <1>3, <2>1 DEF StartSearch, Typed, backend, work, locks
<1>4. CASE Reconfigure
  BY <1>4 DEF Reconfigure, Typed, backend, locks
<1>5. ASSUME NEW a \in {"job", "upkeep"}, StartDerived(a)
      PROVE  Typed'
  <2>1. [Idle EXCEPT !.pc = "snapshot", !.tries = StaleRetries] \in RunRecord
    <3>1. StaleRetries \in Int /\ "snapshot" \in PCs /\ Idle \in RunRecord
      BY PcsAre, EmptyThings
    <3> QED
      BY <3>1, SetTries, Zenon
  <2>2. run' \in [Actors -> RunRecord]
    BY <1>5, <2>1 DEF StartDerived, Typed
  <2> QED
    BY <1>5, <2>2 DEF StartDerived, Typed, backend, work, locks
<1>6. ASSUME NEW a \in {"job", "upkeep"}, Finish(a)
      PROVE  Typed'
  <2>1. run' \in [Actors -> RunRecord]
    BY <1>6, EmptyThings DEF Finish, Typed
  <2> QED
    BY <1>6, <2>1 DEF Finish, Typed, backend, locks
<1>7. ASSUME NEW a \in Actors, Stop(a)
      PROVE  Typed'
  BY <1>7, RaiseTyped DEF Stop, Typed, backend
<1> QED
  BY <1>1, <1>2, <1>3, <1>4, <1>5, <1>6, <1>7

LEMMA LayersTyped ==
    ASSUME Typed, NEW a \in {"job", "upkeep"}, Snapshot(a) \/ RefreshLayers(a)
    PROVE  Typed'
<1> USE BoundsAreNats, ActorsAre, EmptyThings
<1>1. CASE Snapshot(a)
  <2> DEFINE src == [run[a].src EXCEPT ![Layers] = [NoLayer EXCEPT !.src = docs]]
  <2>1. [NoLayer EXCEPT !.src = docs] \in Layering
    BY DEF Typed, Layering
  <2>2. run[a] \in RunRecord /\ run[a].src \in Records
    BY DEF Typed, RunRecord
  <2>3. src \in Records
    BY <2>1, <2>2 DEF Records, Content, Ids
  <2>4. [run[a] EXCEPT !.pc = "refresh", !.src = src] \in RunRecord
    BY <2>2, <2>3 DEF RunRecord, PCs
  <2>5. run' = [run EXCEPT ![a] = [run[a] EXCEPT !.pc = "refresh", !.src = src]]
    BY <1>1 DEF Snapshot, Typed
  <2> HIDE DEF src
  <2>6. run' \in [Actors -> RunRecord]
    BY <2>4, <2>5 DEF Typed
  <2> QED
    BY <1>1, <2>6 DEF Snapshot, Typed, backend, work, locks
<1>2. CASE RefreshLayers(a)
  <2>1. CASE docs # run[a].src[Layers].src
    <3>1. CASE run[a].tries > 0
      <4>1. [run[a] EXCEPT !.pc = "snapshot", !.tries = @ - 1] \in RunRecord
        <5>1. run[a].tries - 1 \in Int /\ "snapshot" \in PCs /\ run[a] \in RunRecord
          BY PcsAre, LocalsAre
        <5> QED
          BY <5>1, SetTries, Zenon
      <4>2. run' \in [Actors -> RunRecord]
        BY <1>2, <2>1, <3>1, <4>1 DEF RefreshLayers, Typed
      <4> QED
        BY <1>2, <2>1, <3>1, <4>2 DEF RefreshLayers, Typed, backend, work, locks
    <3>2. CASE ~(run[a].tries > 0)
      BY <1>2, <2>1, <3>2, RaiseTyped DEF RefreshLayers, Typed, backend, work
    <3> QED
      BY <3>1, <3>2
  <2>2. CASE docs = run[a].src[Layers].src
    <3>1. layer' \in Layering
      BY <1>2, <2>2 DEF RefreshLayers, Typed, Layering
    <3>2. \A p \in PCs : [Idle EXCEPT !.pc = p] \in RunRecord
      BY DEF RunRecord
    <3>3. run' \in [Actors -> RunRecord]
      BY <1>2, <2>2, <3>2 DEF RefreshLayers, Call, Typed, PCs
    <3> QED
      BY <1>2, <2>2, <3>1, <3>3 DEF RefreshLayers, Typed, backend, work, locks
  <2> QED
    BY <2>1, <2>2
<1> QED
  BY <1>1, <1>2

LEMMA RebuildingTyped ==
    ASSUME Typed, NEW a \in Actors, NEW back \in {"sync", "load", "compare", "finish"}
    PROVE  Rebuilding(run[a], back) \in RunRecord
<1>1. state.ckpt \in Nat
  BY DEF Typed, States
<1> QED
  <2>1. StaleRetries \in Int /\ "state" \in PCs /\ run[a] \in RunRecord
    BY PcsAre, LocalsAre, BoundsAreNats
  <2>2. back \in {"idle", "sync", "load", "compare", "finish"}
    OBVIOUS
  <2> QED
    BY <1>1, <2>1, <2>2, SetBack, Zenon DEF Rebuilding

\* The index: what is compared and read before a publication.
LEMMA IndexTyped ==
    ASSUME Typed,
           \/ Ensure("job") \/ Ensure("search") \/ Rebuild("upkeep")
           \/ Synchronize \/ Compare
           \/ \E a \in Actors : ReadState(a) \/ Walk(a)
    PROVE  Typed'
<1> USE BoundsAreNats, ActorsAre, EmptyThings
<1>1. ASSUME NEW a \in {"job", "search"}, Ensure(a)
      PROVE  Typed'
  <2> DEFINE after == IF a = "job" THEN "sync" ELSE "load"
  <2>1. [run[a] EXCEPT !.pc = after, !.tries = Tries(a)] \in RunRecord
    <3>1. Tries(a) \in Int /\ after \in PCs /\ run[a] \in RunRecord
      BY PcsAre, LocalsAre DEF Tries
    <3> QED
      BY <3>1, SetTries, Zenon
  <2>2. Rebuilding(run[a], after) \in RunRecord
    BY RebuildingTyped
  <2>3. run' \in [Actors -> RunRecord]
    BY <1>1, <2>1, <2>2 DEF Ensure, Typed
  <2>4. indexLock' \in SUBSET Actors
    BY <1>1 DEF Ensure, Typed
  <2> QED
    BY <1>1, <2>3, <2>4 DEF Ensure, Typed, backend, work
<1>2. CASE Rebuild("upkeep")
  BY <1>2, RebuildingTyped DEF Rebuild, Typed, backend, work
<1>3. CASE Synchronize
  <2>1. [run["job"] EXCEPT !.pc = "compare", !.st = state] \in RunRecord
    BY SetSt, PcsAre, LocalsAre DEF Typed
  <2>2. Rebuilding(run["job"], "compare") \in RunRecord
    BY RebuildingTyped
  <2>3. run' \in [Actors -> RunRecord]
    BY <1>3, <2>1, <2>2 DEF Synchronize, Typed
  <2> QED
    BY <1>3, <2>3 DEF Synchronize, Typed, backend, work
<1>4. CASE Compare
  <2>1. [Idle EXCEPT !.pc = "finish"] \in RunRecord
    BY DEF RunRecord, PCs
  <2>2. [run["job"] EXCEPT !.pc = "apply", !.src = Tree] \in RunRecord
    BY SetSrc, PcsAre, LocalsAre, TreeIsRecords DEF Typed
  <2>3. run["job"].st.ckpt \in Nat /\ job.seq \in Nat
    BY DEF Typed, RunRecord, States
  <2>4. CASE run["job"].st.ckpt = job.seq
    <3>1. run' \in [Actors -> RunRecord]
      BY <1>4, <2>1, <2>4 DEF Compare, Typed
    <3> QED
      BY <1>4, <2>4, <3>1 DEF Compare, Typed, backend, work
  <2>5. CASE run["job"].st.ckpt > job.seq
    BY <1>4, <2>3, <2>5, RaiseTyped DEF Compare, Typed, backend, work
  <2>6. CASE run["job"].st.ckpt < job.seq
    <3>1. run' \in [Actors -> RunRecord]
      <4>1. run["job"].st.ckpt # job.seq /\ ~(run["job"].st.ckpt > job.seq)
        BY <2>3, <2>6
      <4>2. run' = [run EXCEPT !["job"] = [run["job"] EXCEPT !.pc = "apply", !.src = Tree]]
        BY <1>4, <4>1 DEF Compare, Typed
      <4> QED
        BY <2>2, <4>2 DEF Typed
    <3>2. UNCHANGED <<docs, layer, reworded, backend, work, locks>>
      BY <1>4, <2>3, <2>6 DEF Compare, locks
    <3> QED
      BY <3>1, <3>2 DEF Typed, backend, work, locks
  <2> QED
    BY <2>3, <2>4, <2>5, <2>6
<1>5. ASSUME NEW a \in Actors, ReadState(a)
      PROVE  Typed'
  <2>1. [run[a] EXCEPT !.pc = "walk", !.st = state] \in RunRecord
    BY SetSt, PcsAre, LocalsAre DEF Typed
  <2>2. run' \in [Actors -> RunRecord]
    BY <1>5, <2>1 DEF ReadState, Typed
  <2> QED
    BY <1>5, <2>2 DEF ReadState, Typed, backend, work, locks
<1>6. ASSUME NEW a \in Actors, Walk(a)
      PROVE  Typed'
  <2>1. [run[a] EXCEPT !.pc = "replace", !.src = Tree] \in RunRecord
    BY SetSrc, PcsAre, LocalsAre, TreeIsRecords DEF Typed
  <2>2. run' \in [Actors -> RunRecord]
    BY <1>6, <2>1 DEF Walk, Typed
  <2> QED
    BY <1>6, <2>2 DEF Walk, Typed, backend, work, locks
<1> QED
  BY <1>1, <1>2, <1>3, <1>4, <1>5, <1>6

LEMMA CountsAreNats ==
    ASSUME NEW m \in Records
    PROVE  IsFiniteSet(Present(m)) /\ Count(m) \in Nat
<1>1. IsFiniteSet(Ids)
  BY BoundsAreNats, FS_AddElement, FS_Union, FS_Singleton DEF Ids
<1>2. Present(m) \subseteq Ids
  BY DEF Present, Records
<1> QED
  BY <1>1, <1>2, FS_Subset, FS_CardinalityType DEF Count

LEMMA ReplaceTyped ==
    ASSUME Typed, NEW a \in Actors, Replace(a)
    PROVE  Typed'
<1> USE BoundsAreNats, ActorsAre, EmptyThings
<1>1. CASE run[a].st.gen # state.gen
  <2>1. CASE run[a].left > 0
    <3>1. run[a].left - 1 \in Int /\ "state" \in PCs /\ run[a] \in RunRecord
      BY PcsAre, LocalsAre
    <3>2. [run[a] EXCEPT !.pc = "state", !.left = @ - 1] \in RunRecord
      BY <3>1, SetLeft, Zenon
    <3>3. run' \in [Actors -> RunRecord]
      BY <1>1, <2>1, <3>2 DEF Replace, ConflictedRebuild, Typed
    <3> QED
      BY <1>1, <2>1, <3>3 DEF Replace, ConflictedRebuild, Typed, backend, work, locks
  <2>2. CASE ~(run[a].left > 0)
    BY <1>1, <2>2, RaiseTyped DEF Replace, ConflictedRebuild, Typed, backend, work
  <2> QED
    BY <2>1, <2>2
<1>2. CASE run[a].st.gen = state.gen
  <2> DEFINE n == [model |-> config, ckpt |-> run[a].ckpt, gen |-> state.gen + 1,
                   count |-> Cardinality(Present(run[a].src))]
  <2>1. Cardinality(Present(run[a].src)) \in Nat
    BY CountsAreNats, LocalsAre DEF Count
  <2>2. n \in States
    BY <2>1, LocalsAre DEF Typed, States
  <2>3. [run[a] EXCEPT !.pc = "claim", !.next = n] \in RunRecord
    BY <2>2, SetNext, PcsAre, LocalsAre
  <2>4. run' = [run EXCEPT ![a] = [run[a] EXCEPT !.pc = "claim", !.next = n]]
    BY <1>2 DEF Replace, Typed
  <2> HIDE DEF n
  <2>5. run' \in [Actors -> RunRecord]
    BY <2>3, <2>4 DEF Typed
  <2>6. /\ dim' \in Nat /\ state' \in States /\ claim' \in Claims
        /\ recs' \in Records /\ published' \in Records
    BY <1>2 DEF Replace, Typed, Claims
  <2>7. /\ pubLock' \in SUBSET Actors /\ indexLock' = indexLock
        /\ UNCHANGED <<docs, layer, reworded, config, job, upkeep>>
    BY <1>2 DEF Replace, Enter, Typed, work
  <2> QED
    BY <2>5, <2>6, <2>7 DEF Typed
<1> QED
  BY <1>1, <1>2

LEMMA RebuildTyped ==
    ASSUME Typed, NEW a \in Actors, Claim(a) \/ DeleteAll(a) \/ UpsertAll(a)
    PROVE  Typed'
<1> USE BoundsAreNats, ActorsAre, EmptyThings
<1>1. CASE Claim(a)
  <2>1. run' \in [Actors -> RunRecord]
    BY <1>1, SetPc, PcsAre, LocalsAre DEF Claim, Go, Typed
  <2> QED
    BY <1>1, <2>1 DEF Claim, Typed, work, locks, Claims
<1>2. CASE DeleteAll(a)
  <2>1. run' \in [Actors -> RunRecord]
    BY <1>2, SetPc, PcsAre, LocalsAre DEF DeleteAll, Go, Typed
  <2> QED
    BY <1>2, <2>1 DEF DeleteAll, Typed, work, locks
<1>3. CASE UpsertAll(a)
  <2>1. [run[a] EXCEPT !.pc = "publish", !.src = Nothing] \in RunRecord
    BY SetSrc, PcsAre, LocalsAre
  <2>2. run' \in [Actors -> RunRecord]
    BY <1>3, <2>1 DEF UpsertAll, Typed
  <2> QED
    BY <1>3, <2>2, LocalsAre DEF UpsertAll, Typed, work, locks
<1> QED
  BY <1>1, <1>2, <1>3

\* What an increment adds to the record count, what it takes away.
Added(m, src, C) == {i \in C : i \in Present(src) /\ i \notin Present(m)}

Removed(m, src, C) == {i \in C : i \notin Present(src) /\ i \in Present(m)}

\* The count an increment computes is that of the records it leaves.
LEMMA ResultIsCount ==
    ASSUME NEW m \in Records, NEW src \in Records, NEW C \in SUBSET Ids
    PROVE  /\ Cardinality(Added(m, src, C)) \in Nat
           /\ Cardinality(Removed(m, src, C)) \in Nat
           /\ Count(m) + Cardinality(Added(m, src, C)) - Cardinality(Removed(m, src, C))
                = Count(Merged(m, src, C))
<1> DEFINE P == Present(m)
           A == Added(m, src, C)
           R == Removed(m, src, C)
           N == Present(Merged(m, src, C))
<1>1. /\ IsFiniteSet(Present(src)) /\ IsFiniteSet(P) /\ IsFiniteSet(N)
  BY CountsAreNats, MergedIsRecords
<1>2. A \subseteq Present(src) /\ R \subseteq P /\ A \cap P = {} /\ A \cap R = {}
  BY DEF Added, Removed
<1>3. IsFiniteSet(A) /\ IsFiniteSet(R)
  BY <1>1, <1>2, FS_Subset
<1>4. N = (P \cup A) \ R
  BY DEF Added, Removed, Present, Merged, Records
<1> HIDE DEF P, A, R, N
<1>5. /\ Cardinality(A) \in Nat /\ Cardinality(R) \in Nat
      /\ Cardinality(P) \in Nat /\ Cardinality(N) \in Nat
  BY <1>1, <1>3, FS_CardinalityType
<1>6. IsFiniteSet(P \cup A) /\ Cardinality(P \cup A) = Cardinality(P) + Cardinality(A)
  <2>1. Cardinality(P \cap A) = 0 /\ IsFiniteSet(P \cup A)
    BY <1>1, <1>2, <1>3, FS_EmptySet, FS_Union
  <2>2. Cardinality(P \cup A) = Cardinality(P) + Cardinality(A) - Cardinality(P \cap A)
    BY <1>1, <1>3, FS_Union, Zenon
  <2> QED
    BY <1>5, <2>1, <2>2
<1>7. (P \cup A) \cap R = R
  BY <1>2
<1>8. Cardinality(N) = Cardinality(P \cup A) - Cardinality(R)
  <2>1. Cardinality((P \cup A) \ R) = Cardinality(P \cup A) - Cardinality((P \cup A) \cap R)
    BY <1>6, FS_Difference, Zenon
  <2> QED
    BY <1>4, <1>7, <2>1
<1>9. Count(m) = Cardinality(P) /\ Count(Merged(m, src, C)) = Cardinality(N)
  BY DEF Count, P, N
<1> QED
  BY <1>5, <1>6, <1>8, <1>9 DEF A, R

LEMMA ChangedIsIds ==
    ASSUME Typed
    PROVE  Changed \in SUBSET Ids
BY DEF Changed, Ids, Typed

LEMMA SetState ==
    ASSUME NEW s \in States, NEW k \in Nat, NEW g \in Nat, NEW c \in Nat
    PROVE  [s EXCEPT !.ckpt = k, !.gen = g, !.count = c] \in States
BY DEF States

LEMMA IncrementTyped ==
    ASSUME Typed, Publishing, Apply \/ Upsert \/ Delete
    PROVE  Typed'
<1> USE BoundsAreNats, ActorsAre, EmptyThings
<1> DEFINE r == run["job"]
<1>1. CASE Apply
  <2>1. CASE \/ <<state.gen, state.ckpt>> # <<r.st.gen, r.st.ckpt>>
             \/ state = NoState
             \/ claim = "building"
    <3>1. CASE r.tries > 0
      <4>1. r.tries - 1 \in Int /\ "sync" \in PCs /\ r \in RunRecord
        BY PcsAre, LocalsAre
      <4>2. [r EXCEPT !.pc = "sync", !.tries = @ - 1] \in RunRecord
        BY <4>1, SetTries, Zenon
      <4>3. run' = [run EXCEPT !["job"] = [r EXCEPT !.pc = "sync", !.tries = @ - 1]]
        BY <1>1, <2>1, <3>1 DEF Apply, Typed
      <4>4. run' \in [Actors -> RunRecord]
        BY <4>2, <4>3 DEF Typed
      <4> QED
        BY <1>1, <2>1, <3>1, <4>4 DEF Apply, Typed, work, locks
    <3>2. CASE ~(r.tries > 0)
      BY <1>1, <2>1, <3>2, RaiseTyped DEF Apply, Typed, work
    <3> QED
      BY <3>1, <3>2
  <2>2. CASE ~(\/ <<state.gen, state.ckpt>> # <<r.st.gen, r.st.ckpt>>
               \/ state = NoState
               \/ claim = "building")
    <3> DEFINE c == ResultCount(r.src)
               n == [state EXCEPT !.ckpt = job.seq, !.gen = @ + 1, !.count = c]
    <3>1. run' = [run EXCEPT !["job"] = [r EXCEPT !.pc = "upsert", !.st = state, !.next = n]]
      BY <1>1, <2>2 DEF Apply, Typed
    <3>2. /\ claim' = "building" /\ pubLock' = pubLock \cup {"job"}
          /\ UNCHANGED <<docs, layer, reworded, dim, state, recs, published, work, indexLock>>
      BY <1>1, <2>2 DEF Apply, Enter
    <3>3. c = state.count + Cardinality(Added(recs, r.src, Changed))
                - Cardinality(Removed(recs, r.src, Changed))
      BY DEF ResultCount, Added, Removed
    <3>4. /\ Cardinality(Added(recs, r.src, Changed)) \in Nat
          /\ Cardinality(Removed(recs, r.src, Changed)) \in Nat
      BY ResultIsCount, ChangedIsIds, LocalsAre DEF Typed
    <3>5. state \in States /\ state.count \in Nat /\ state.gen \in Nat /\ job.seq \in Nat
      BY DEF Typed, States
    <3>6. c \in Nat
      <4>1. claim = "ready"
        BY <2>2 DEF Publishing, Whole, PublicationIsWhole, Typed, Claims
      <4>2. state.count = Count(recs)
        BY <4>1 DEF Publishing, Whole, PublicationIsWhole, Count
      <4>3. c = Count(Merged(recs, r.src, Changed))
        BY <3>3, <4>2, ResultIsCount, ChangedIsIds, LocalsAre DEF Typed
      <4>4. Merged(recs, r.src, Changed) \in Records
        BY MergedIsRecords, LocalsAre DEF Typed
      <4> QED
        BY <4>3, <4>4, CountsAreNats
    <3> HIDE DEF c
    <3>7. n \in States
      <4>1. state.gen + 1 \in Nat
        BY <3>5
      <4> QED
        BY <3>5, <3>6, <4>1, SetState, Zenon
    <3>8. [r EXCEPT !.pc = "upsert", !.st = state, !.next = n] \in RunRecord
      BY <3>5, <3>7, SetStNext, PcsAre, LocalsAre, Zenon
    <3> HIDE DEF n
    <3>9. run' \in [Actors -> RunRecord]
      BY <3>1, <3>8 DEF Typed
    <3> QED
      BY <3>2, <3>9 DEF Typed, work, Claims
  <2> QED
    BY <2>1, <2>2
<1>2. CASE Upsert
  <2>1. run' \in [Actors -> RunRecord]
    BY <1>2, SetPc, PcsAre, LocalsAre DEF Upsert, Go, Typed
  <2>2. recs' \in Records
    <3>1. recs' = Merged(recs, run["job"].src, {i \in Changed : i \in Present(run["job"].src)})
      BY <1>2 DEF Upsert, Merged
    <3> QED
      BY <3>1, MergedIsRecords, LocalsAre DEF Typed
  <2> QED
    BY <1>2, <2>1, <2>2 DEF Upsert, Typed, work, locks
<1>3. CASE Delete
  <2>1. [run["job"] EXCEPT !.pc = "publish", !.src = Nothing] \in RunRecord
    BY SetSrc, PcsAre, LocalsAre
  <2>2. run' \in [Actors -> RunRecord]
    BY <1>3, <2>1 DEF Delete, Typed
  <2>3. recs' = Merged(recs, Nothing, {i \in Changed : i \notin Present(run["job"].src)})
    BY <1>3 DEF Delete, Nothing, Merged
  <2>4. recs' \in Records
    BY <2>3, MergedIsRecords DEF Typed
  <2> QED
    BY <1>3, <2>2, <2>4 DEF Delete, Typed, work, locks
<1> QED
  BY <1>1, <1>2, <1>3

LEMMA PublishTyped ==
    ASSUME Typed, NEW a \in Actors, WriteState(a) \/ Open(a)
    PROVE  Typed'
<1> USE BoundsAreNats, ActorsAre, EmptyThings
<1>1. CASE WriteState(a)
  <2>1. CASE run[a].back = "idle" /\ state # run[a].st
    BY <1>1, <2>1, RaiseTyped DEF WriteState, Typed, work
  <2>2. CASE ~(run[a].back = "idle" /\ state # run[a].st)
    <3>1. run' \in [Actors -> RunRecord]
      BY <1>1, <2>2, SetPc, PcsAre, LocalsAre DEF WriteState, Go, Typed
    <3> QED
      BY <1>1, <2>2, <3>1, LocalsAre DEF WriteState, Typed, work, locks
  <2> QED
    BY <2>1, <2>2
<1>2. CASE Open(a)
  <2> DEFINE to == IF run[a].back = "idle" THEN "finish" ELSE run[a].back
             s == IF to = "compare" THEN run[a].next ELSE NoState
  <2>1. to \in PCs /\ s \in States /\ Tries(a) \in Int
    BY PcsAre, LocalsAre DEF Tries, Typed, RunRecord
  <2> HIDE DEF to, s
  <2>2. [Idle EXCEPT !.pc = to, !.tries = Tries(a), !.st = s] \in RunRecord
    BY <2>1, EmptyThings, SetTriesSt, Zenon
  <2>3. run' = [run EXCEPT ![a] = [Idle EXCEPT !.pc = to, !.tries = Tries(a), !.st = s]]
    BY <1>2 DEF Open, to, s
  <2>4. run' \in [Actors -> RunRecord]
    BY <2>2, <2>3 DEF Typed
  <2>5. indexLock' \in SUBSET Actors /\ pubLock' \in SUBSET Actors /\ claim' \in Claims
    BY <1>2 DEF Open, Typed, Claims
  <2> QED
    BY <1>2, <2>4, <2>5 DEF Open, Typed, work
<1> QED
  BY <1>1, <1>2

LEMMA SearchTyped ==
    ASSUME Typed, Load \/ Query \/ Verify \/ Answer
    PROVE  Typed'
<1> USE BoundsAreNats, ActorsAre, EmptyThings
<1> DEFINE r == run["search"]
<1>1. CASE Load
  <2>1. CASE claim = "building"
    BY <1>1, <2>1, RaiseTyped DEF Load, Typed, backend, work
  <2>2. CASE claim # "building"
    <3>1. [r EXCEPT !.pc = "query", !.st = state, !.cl = claim, !.loaded = published] \in RunRecord
      BY SetLoaded, PcsAre, LocalsAre DEF Typed
    <3>2. run' \in [Actors -> RunRecord]
      BY <1>1, <2>2, <3>1 DEF Load, Typed
    <3> QED
      BY <1>1, <2>2, <3>2 DEF Load, Typed, backend, work, locks
  <2> QED
    BY <2>1, <2>2
<1>2. CASE Query
  <2>1. [r EXCEPT !.pc = "verify", !.src = recs] \in RunRecord
    BY SetSrc, PcsAre, LocalsAre DEF Typed
  <2>2. run' \in [Actors -> RunRecord]
    BY <1>2, <2>1 DEF Query, Typed
  <2> QED
    BY <1>2, <2>2 DEF Query, Typed, backend, work, locks
<1>3. CASE Verify
  <2>1. CASE r.st = state /\ r.cl = claim
    <3>1. run' \in [Actors -> RunRecord]
      BY <1>3, <2>1, SetPc, PcsAre, LocalsAre DEF Verify, Go, Typed
    <3> QED
      BY <1>3, <2>1, <3>1 DEF Verify, Typed, backend, work, locks
  <2>2. CASE ~(r.st = state /\ r.cl = claim) /\ r.tries > 0
    <3>1. r.tries - 1 \in Int /\ "load" \in PCs /\ r \in RunRecord
      BY PcsAre, LocalsAre
    <3>2. [r EXCEPT !.pc = "load", !.tries = @ - 1] \in RunRecord
      BY <3>1, SetTries, Zenon
    <3>3. run' = [run EXCEPT !["search"] = [r EXCEPT !.pc = "load", !.tries = @ - 1]]
      BY <1>3, <2>2 DEF Verify, Typed
    <3>4. run' \in [Actors -> RunRecord]
      BY <3>2, <3>3 DEF Typed
    <3> QED
      BY <1>3, <2>2, <3>4 DEF Verify, Typed, backend, work, locks
  <2>3. CASE ~(r.st = state /\ r.cl = claim) /\ ~(r.tries > 0)
    BY <1>3, <2>3, RaiseTyped DEF Verify, Typed, backend, work
  <2> QED
    BY <2>1, <2>2, <2>3
<1>4. CASE Answer
  <2>1. run' \in [Actors -> RunRecord]
    BY <1>4 DEF Answer, Typed
  <2> QED
    BY <1>4, <2>1 DEF Answer, Typed, backend, work, locks
<1> QED
  BY <1>1, <1>2, <1>3, <1>4

LEMMA NextTyped ==
    ASSUME Typed, Publishing, [Next]_vars
    PROVE  Typed'
<1>1. CASE UNCHANGED vars
  BY <1>1 DEF Typed, vars
<1>2. CASE JobStep
  BY <1>2, LayersTyped, CallsTyped, IndexTyped, IncrementTyped, ReplaceTyped, RebuildTyped,
     PublishTyped, ActorsAre DEF JobStep, Derive, Publish
<1>3. CASE UpkeepStep
  BY <1>3, LayersTyped, CallsTyped, IndexTyped, ReplaceTyped, RebuildTyped,
     PublishTyped, ActorsAre DEF UpkeepStep, Derive, Publish
<1>4. CASE SearchStep
  BY <1>4, SearchTyped, IndexTyped, ReplaceTyped, RebuildTyped,
     PublishTyped, ActorsAre DEF SearchStep, Publish
<1> QED
  BY <1>1, <1>2, <1>3, <1>4, CallsTyped DEF Next

----------------------------------------------------------------------------
(* Who is where.                                                           *)

\* One caller moves outside the guard and the collection stays as it is.
Quiet(a) ==
    /\ UNCHANGED <<backend, pubLock>>
    /\ run' = [run EXCEPT ![a] = run'[a]]
    /\ run[a].pc \notin Guarded /\ run'[a].pc \notin Guarded

\* A caller raises where it is.
Drops(a) ==
    /\ UNCHANGED <<docs, layer, reworded, backend, config, job, upkeep>>
    /\ run' = [run EXCEPT ![a] = Idle]
    /\ pubLock' = pubLock \ {a} /\ indexLock' = indexLock \ {a}

\* A caller moves inside the guard, entering or leaving it or neither.
Inside(a) ==
    /\ UNCHANGED <<docs, layer, reworded, work>>
    /\ run' = [run EXCEPT ![a] = run'[a]]
    /\ \/ run[a].pc \in Guarded /\ run'[a].pc \in Guarded /\ UNCHANGED pubLock
       \/ run[a].pc \notin Guarded /\ run'[a].pc \in Guarded
             /\ pubLock = {} /\ pubLock' = {a}
       \/ run[a].pc \in Guarded /\ run'[a].pc \notin Guarded
             /\ pubLock' = pubLock \ {a}

LEMMA RolesInit == Init => Roles
<1> SUFFICES ASSUME Init PROVE Roles
  OBVIOUS
<1>1. \A a \in Actors : run[a] = Idle
  BY DEF Init
<1>2. Idle.pc = "idle" /\ Idle.back = "idle"
  BY DEF Idle
<1>3. pubLock = {}
  BY DEF Init
<1> QED
  BY <1>1, <1>2, <1>3, ActorsAre DEF Roles, Fits, Early, Rebuilds, Increments, Reads, Guarded

Owes(a) == IF a = "job" THEN job.owed ELSE a = "upkeep" => upkeep.owed

\* It is enough that the moving caller still fits, and is still owed for.
LEMMA RolesKept ==
    ASSUME Typed, Roles, NEW a \in Actors, Quiet(a) \/ Drops(a) \/ Inside(a),
           Fits(a, run'[a]),
           run'[a].pc # "idle" => Owes(a)',
           UNCHANGED <<job, upkeep>> \/ run'[a].pc = "idle",
           \A b \in Actors \ {a} : Owes(b) => Owes(b)'
    PROVE  Roles'
<1>1. \A b \in Actors \ {a} : run'[b] = run[b]
  BY DEF Typed, Quiet, Drops, Inside
<1>2. \A b \in Actors : Fits(b, run'[b])
  BY <1>1 DEF Roles
<1>3. \A b \in Actors : run'[b].pc \in Guarded <=> b \in pubLock'
  <2>1. CASE Quiet(a)
    BY <1>1, <2>1 DEF Quiet, Roles
  <2>2. CASE Drops(a)
    BY <1>1, <2>2 DEF Drops, Roles, Typed, Idle, Guarded
  <2>3. CASE Inside(a)
    BY <1>1, <2>3 DEF Inside, Roles
  <2> QED
    BY <2>1, <2>2, <2>3
<1>4. \A b, c \in pubLock' : b = c
  BY DEF Quiet, Drops, Inside, Roles
<1>5. \A b \in Actors : run'[b].pc # "idle" => Owes(b)'
  BY <1>1 DEF Roles, Owes
<1> QED
  BY <1>2, <1>3, <1>4, <1>5, ActorsAre DEF Roles, Owes

LEMMA RaiseDrops ==
    ASSUME NEW a \in Actors, Raise(a), UNCHANGED <<docs, layer, reworded, backend, config, job, upkeep>>
    PROVE  Drops(a)
BY DEF Raise, Drops

LEMMA IdleFits ==
    /\ Idle.pc = "idle" /\ Idle.back = "idle" /\ Idle.ckpt = 0
    /\ \A a \in Actors : Fits(a, Idle)
    /\ Idle.pc \notin Guarded
BY DEF Idle, Fits, Early, Guarded, Rebuilds, Increments, Reads

\* The steps of one caller that are quiet, or in which it raises.
Private(a) ==
    \/ a \in {"job", "upkeep"} /\ (StartDerived(a) \/ Snapshot(a) \/ RefreshLayers(a))
    \/ a = "search" /\ (StartSearch \/ Load \/ Query \/ Verify \/ Answer)
    \/ a \in {"job", "search"} /\ Ensure(a)
    \/ a = "upkeep" /\ Rebuild(a)
    \/ a = "job" /\ (Synchronize \/ Compare)
    \/ ReadState(a) \/ Walk(a)
    \/ Replace(a) /\ run[a].st.gen # state.gen
    \/ Stop(a)

\* What the quiet steps leave in the caller's record.
LEMMA RebuildingIs ==
    ASSUME Typed, NEW a \in Actors, NEW back
    PROVE  LET r == Rebuilding(run[a], back) IN
           /\ r.pc = "state" /\ r.back = back /\ r.ckpt = state.ckpt
           /\ r.src = run[a].src /\ r.next = run[a].next /\ r.st = run[a].st
BY LocalsAre DEF Rebuilding, RunRecord

LEMMA PrivateStep ==
    ASSUME Typed, Roles, NEW a \in Actors, Private(a)
    PROVE  /\ Quiet(a) \/ Drops(a)
           /\ Fits(a, run'[a])
           /\ UNCHANGED <<backend, config, job, upkeep>>
           /\ run'[a].pc # "idle" => Owes(a)
<1> USE ActorsAre
<1> DEFINE Q == /\ UNCHANGED <<backend, pubLock, config, job, upkeep>>
                /\ run' = [run EXCEPT ![a] = run'[a]]
                /\ run[a].pc \notin Guarded /\ run'[a].pc \notin Guarded
                /\ Fits(a, run'[a])
                /\ run'[a].pc # "idle" => Owes(a)
<1>1. ASSUME Drops(a)
      PROVE  /\ Fits(a, run'[a])
             /\ run'[a].pc # "idle" => Owes(a)
             /\ UNCHANGED <<backend, config, job, upkeep>>
  BY <1>1, IdleFits DEF Drops, Typed
<1>2. Fits(a, run[a]) /\ run[a] \in RunRecord /\ (run[a].pc # "idle" => Owes(a))
  BY LocalsAre DEF Roles, Owes
<1>3. ASSUME StartDerived(a), a \in {"job", "upkeep"}
      PROVE  Q
  <2>1. run'[a] = [Idle EXCEPT !.pc = "snapshot", !.tries = StaleRetries]
    BY <1>3 DEF StartDerived, Typed
  <2>2. run'[a].pc = "snapshot" /\ run'[a].back = "idle"
    BY <2>1 DEF Idle
  <2>3. Owes(a)
    BY <1>3 DEF StartDerived, Owes
  <2> QED
    BY <1>3, <2>2, <2>3
       DEF StartDerived, At, Fits, Early, Guarded, Rebuilds, Increments, Reads, work, locks, Typed
<1>4. ASSUME Snapshot(a), a \in {"job", "upkeep"}
      PROVE  Q
  <2>1. run'[a].pc = "refresh" /\ run'[a].back = run[a].back
    BY <1>2, <1>4 DEF Snapshot, Typed, RunRecord
  <2> QED
    BY <1>2, <1>4, <2>1
       DEF Snapshot, At, Fits, Early, Guarded, Rebuilds, Increments, Reads, work, locks, Typed
<1>5. ASSUME RefreshLayers(a), a \in {"job", "upkeep"}
      PROVE  Q \/ Drops(a)
  <2>1. CASE docs # run[a].src[Layers].src /\ ~(run[a].tries > 0)
    BY <1>5, <2>1, RaiseDrops DEF RefreshLayers, work
  <2>2. CASE docs # run[a].src[Layers].src /\ run[a].tries > 0
    <3>1. run'[a].pc = "snapshot" /\ run'[a].back = run[a].back
      BY <1>2, <1>5, <2>2 DEF RefreshLayers, Typed, RunRecord
    <3> QED
      BY <1>2, <1>5, <2>2, <3>1
         DEF RefreshLayers, At, Fits, Early, Guarded, Rebuilds, Increments, Reads, work, locks, Typed
  <2>3. CASE docs = run[a].src[Layers].src
    <3>1. run'[a].pc = (IF a = "job" THEN "ensure" ELSE "rebuild") /\ run'[a].back = "idle"
      BY <1>5, <2>3 DEF RefreshLayers, Call, Typed, Idle
    <3> QED
      BY <1>2, <1>5, <2>3, <3>1
         DEF RefreshLayers, Call, At, Fits, Early, Guarded, Rebuilds, Increments, Reads, work, locks, Typed
  <2> QED
    BY <2>1, <2>2, <2>3
<1>6. ASSUME StartSearch \/ Load \/ Query \/ Verify \/ Answer, a = "search"
      PROVE  Q \/ Drops(a)
  <2>1. Owes(a)
    BY <1>6 DEF Owes
  <2>2. ASSUME NEW p \in {"ensure", "query", "verify", "load", "answer", "idle"},
               UNCHANGED <<backend, work, locks>>,
               run' = [run EXCEPT !["search"] = run'["search"]],
               run[a].pc \notin Guarded,
               run'[a].pc = p, run'[a].back \in {run[a].back, "idle"},
               p \in {"ensure", "idle"} => run'[a].back = "idle"
        PROVE  Q
    BY <1>2, <1>6, <2>1, <2>2 DEF Fits, Early, Guarded, Rebuilds, Increments, Reads, work, locks
  <2>3. CASE StartSearch
    <3>1. run'[a].pc = "ensure" /\ run'[a].back = run[a].back /\ run[a].back = "idle"
      BY <1>2, <1>6, <2>3 DEF StartSearch, Go, At, Typed, RunRecord, Fits, Early
    <3> QED
      BY <1>6, <2>2, <2>3, <3>1 DEF StartSearch, Go, At, Guarded, Typed
  <2>4. CASE Load
    <3>1. CASE claim = "building"
      BY <1>6, <2>4, <3>1, RaiseDrops DEF Load, work
    <3>2. CASE claim # "building"
      <4>1. run'[a].pc = "query" /\ run'[a].back = run[a].back
        BY <1>2, <1>6, <2>4, <3>2 DEF Load, Typed, RunRecord
      <4> QED
        BY <1>6, <2>2, <2>4, <3>2, <4>1 DEF Load, At, Guarded, Typed
    <3> QED
      BY <3>1, <3>2
  <2>5. CASE Query
    <3>1. run'[a].pc = "verify" /\ run'[a].back = run[a].back
      BY <1>2, <1>6, <2>5 DEF Query, Typed, RunRecord
    <3> QED
      BY <1>6, <2>2, <2>5, <3>1 DEF Query, At, Guarded, Typed
  <2>6. CASE Verify
    <3> DEFINE same == run["search"].st = state /\ run["search"].cl = claim
    <3>1. CASE ~same /\ ~(run["search"].tries > 0)
      BY <1>6, <2>6, <3>1, RaiseDrops DEF Verify, work
    <3>2. CASE ~same /\ run["search"].tries > 0
      <4>1. run'[a].pc = "load" /\ run'[a].back = run[a].back
        BY <1>2, <1>6, <2>6, <3>2 DEF Verify, Typed, RunRecord
      <4> QED
        BY <1>6, <2>2, <2>6, <3>2, <4>1 DEF Verify, At, Guarded, Typed
    <3>3. CASE same
      <4>1. run'[a].pc = "answer" /\ run'[a].back = run[a].back
        BY <1>2, <1>6, <2>6, <3>3 DEF Verify, Go, Typed, RunRecord
      <4> QED
        BY <1>6, <2>2, <2>6, <3>3, <4>1 DEF Verify, Go, At, Guarded, Typed
    <3> QED
      BY <3>1, <3>2, <3>3
  <2>7. CASE Answer
    BY <1>6, <2>2, <2>7, IdleFits DEF Answer, At, Guarded, Typed
  <2> QED
    BY <1>6, <2>3, <2>4, <2>5, <2>6, <2>7
<1>7. ASSUME Ensure(a), a \in {"job", "search"}
      PROVE  Q
  <2> DEFINE after == IF a = "job" THEN "sync" ELSE "load"
  <2>1. CASE StateMatches
    <3>1. run'[a].pc = after /\ run'[a].back = run[a].back
      BY <1>2, <1>7, <2>1 DEF Ensure, Typed, RunRecord
    <3> QED
      BY <1>2, <1>7, <2>1, <3>1
         DEF Ensure, At, Fits, Early, Guarded, Rebuilds, Increments, Reads, work, Typed
  <2>2. CASE ~StateMatches
    <3>1. run'[a].pc = "state" /\ run'[a].back = after
      BY <1>7, <2>2, RebuildingIs DEF Ensure, Typed
    <3> QED
      BY <1>2, <1>7, <2>2, <3>1
         DEF Ensure, At, Fits, Early, Guarded, Rebuilds, Increments, Reads, work, Typed
  <2> QED
    BY <2>1, <2>2
<1>8. ASSUME Rebuild(a), a = "upkeep"
      PROVE  Q
  <2>1. run'[a].pc = "state" /\ run'[a].back = "finish"
    BY <1>8, RebuildingIs DEF Rebuild, Typed
  <2> QED
    BY <1>2, <1>8, <2>1
       DEF Rebuild, At, Fits, Early, Guarded, Rebuilds, Increments, Reads, work, Typed
<1>9. ASSUME Synchronize, a = "job"
      PROVE  Q
  <2>1. CASE StateMatches
    <3>1. run'[a].pc = "compare" /\ run'[a].back = run[a].back
      BY <1>2, <1>9, <2>1 DEF Synchronize, Typed, RunRecord
    <3> QED
      BY <1>2, <1>9, <2>1, <3>1
         DEF Synchronize, At, Fits, Early, Guarded, Rebuilds, Increments, Reads, work, Typed
  <2>2. CASE ~StateMatches
    <3>1. run'[a].pc = "state" /\ run'[a].back = "compare"
      BY <1>9, <2>2, RebuildingIs DEF Synchronize, Typed
    <3> QED
      BY <1>2, <1>9, <2>2, <3>1
         DEF Synchronize, At, Fits, Early, Guarded, Rebuilds, Increments, Reads, work, Typed
  <2> QED
    BY <2>1, <2>2
<1>10. ASSUME Compare, a = "job"
       PROVE  Q \/ Drops(a)
  <2>1. run["job"].st.ckpt \in Nat /\ job.seq \in Nat
    BY LocalsAre, BoundsAreNats DEF Typed, States
  <2>2. CASE run["job"].st.ckpt = job.seq
    <3>1. run'[a].pc = "finish" /\ run'[a].back = "idle"
      BY <1>10, <2>2 DEF Compare, Typed, Idle
    <3> QED
      BY <1>2, <1>10, <2>2, <3>1
         DEF Compare, At, Fits, Early, Guarded, Rebuilds, Increments, Reads, work, Typed
  <2>3. CASE run["job"].st.ckpt > job.seq
    BY <1>10, <2>1, <2>3, RaiseDrops DEF Compare, work
  <2>4. CASE run["job"].st.ckpt < job.seq
    <3>1. /\ run' = [run EXCEPT !["job"].pc = "apply", !["job"].src = Tree]
          /\ UNCHANGED <<locks, docs, layer, reworded, backend, work>>
      BY <1>10, <2>1, <2>4 DEF Compare
    <3>2. run'[a].pc = "apply" /\ run'[a].back = run[a].back
      BY <1>2, <1>10, <3>1 DEF Typed, RunRecord
    <3> QED
      BY <1>2, <1>10, <3>1, <3>2
         DEF Compare, At, Fits, Early, Guarded, Rebuilds, Increments, Reads, work, locks, Typed
  <2> QED
    BY <2>1, <2>2, <2>3, <2>4
<1>11. ASSUME ReadState(a)
       PROVE  Q
  <2>1. run'[a].pc = "walk" /\ run'[a].back = run[a].back
    BY <1>2, <1>11 DEF ReadState, Typed, RunRecord
  <2> QED
    BY <1>2, <1>11, <2>1
       DEF ReadState, At, Fits, Early, Guarded, Rebuilds, Increments, Reads, work, locks, Typed
<1>12. ASSUME Walk(a)
       PROVE  Q
  <2>1. run'[a].pc = "replace" /\ run'[a].back = run[a].back
    BY <1>2, <1>12 DEF Walk, Typed, RunRecord
  <2> QED
    BY <1>2, <1>12, <2>1
       DEF Walk, At, Fits, Early, Guarded, Rebuilds, Increments, Reads, work, locks, Typed
<1>13. ASSUME Replace(a), run[a].st.gen # state.gen
       PROVE  Q \/ Drops(a)
  <2>1. CASE ~(run[a].left > 0)
    BY <1>13, <2>1, RaiseDrops DEF Replace, ConflictedRebuild, work
  <2>2. CASE run[a].left > 0
    <3>1. run'[a].pc = "state" /\ run'[a].back = run[a].back
      BY <1>2, <1>13, <2>2 DEF Replace, ConflictedRebuild, Typed, RunRecord
    <3> QED
      BY <1>2, <1>13, <2>2, <3>1
         DEF Replace, ConflictedRebuild, At, Fits, Early, Guarded, Rebuilds, Increments, Reads,
             work, locks, Typed
  <2> QED
    BY <2>1, <2>2
<1>14. ASSUME Stop(a)
       PROVE  Drops(a)
  BY <1>14, RaiseDrops DEF Stop
<1>15. ASSUME Q
       PROVE  Quiet(a)
  BY <1>15 DEF Quiet
<1>16. Q \/ Drops(a)
  <2> HIDE DEF Q
  <2> QED
    BY <1>3, <1>4, <1>5, <1>6, <1>7, <1>8, <1>9, <1>10, <1>11, <1>12, <1>13, <1>14 DEF Private
<1> QED
  <2>1. CASE Q
    BY <1>15, <2>1
  <2>2. CASE Drops(a)
    BY <1>1, <2>2
  <2> QED
    BY <1>16, <2>1, <2>2

----------------------------------------------------------------------------
(* The steps of a publication, and what each leaves of the collection.     *)

LEMMA ReplaceStep ==
    ASSUME Typed, Roles, NEW a \in Actors, Replace(a), run[a].st.gen = state.gen
    PROVE  /\ Inside(a) /\ Fits(a, run'[a])
           /\ run[a].pc = "replace" /\ run'[a].pc = "claim" /\ pubLock = {}
           /\ run[a].back # "idle" /\ run'[a].back = run[a].back
           /\ run'[a].src = run[a].src /\ run'[a].ckpt = run[a].ckpt
           /\ run'[a].next = [model |-> config, ckpt |-> run[a].ckpt, gen |-> state.gen + 1,
                              count |-> Count(run[a].src)]
           /\ dim' = DimOf[config]
           /\ \/ dim = dim' /\ UNCHANGED <<state, claim, recs, published>>
              \/ /\ dim # dim' /\ state' = NoState /\ claim' = "none"
                 /\ recs' = Nothing /\ published' = Nothing
           /\ UNCHANGED indexLock
<1> DEFINE n == [model |-> config, ckpt |-> run[a].ckpt, gen |-> state.gen + 1,
                 count |-> Count(run[a].src)]
<1>1. run' = [run EXCEPT ![a] = [run[a] EXCEPT !.pc = "claim", !.next = n]]
  BY DEF Replace, Typed, Count
<1>2. run[a] \in RunRecord /\ Fits(a, run[a])
  BY LocalsAre DEF Roles
<1> HIDE DEF n
<1>3. /\ run'[a].pc = "claim" /\ run'[a].back = run[a].back /\ run'[a].src = run[a].src
      /\ run'[a].ckpt = run[a].ckpt /\ run'[a].next = n
  BY <1>1, <1>2 DEF Typed, RunRecord
<1>4. run[a].pc = "replace" /\ pubLock = {} /\ pubLock' = {a}
  BY DEF Replace, At, GuardFree, Enter
<1>5. /\ UNCHANGED <<docs, layer, reworded, work, indexLock>>
      /\ dim' = DimOf[config]
      /\ \/ dim = dim' /\ UNCHANGED <<state, claim, recs, published>>
         \/ /\ dim # dim' /\ state' = NoState /\ claim' = "none"
            /\ recs' = Nothing /\ published' = Nothing
  BY DEF Replace
<1>6. run[a].back # "idle"
  BY <1>2, <1>4 DEF Fits, Rebuilds
<1>7. Fits(a, run'[a])
  BY <1>2, <1>3, <1>6 DEF Fits, Early, Rebuilds, Increments, Reads
<1>8. Inside(a)
  BY <1>1, <1>3, <1>4, <1>5 DEF Inside, Guarded, Typed
<1> QED
  BY <1>3, <1>4, <1>5, <1>6, <1>7, <1>8 DEF n

LEMMA RebuildStep ==
    ASSUME Typed, Roles, NEW a \in Actors, Claim(a) \/ DeleteAll(a) \/ UpsertAll(a)
    PROVE  /\ Inside(a) /\ Fits(a, run'[a])
           /\ run[a].back # "idle" /\ run'[a].back = run[a].back
           /\ run'[a].next = run[a].next /\ run'[a].ckpt = run[a].ckpt
           /\ run[a].pc \in {"claim", "clear", "fill"} /\ pubLock = {a}
           /\ UNCHANGED <<dim, state, published, indexLock>>
           /\ \/ /\ run[a].pc = "claim" /\ run'[a].pc = "clear"
                 /\ claim' = "building" /\ UNCHANGED recs /\ run'[a].src = run[a].src
              \/ /\ run[a].pc = "clear" /\ run'[a].pc = "fill"
                 /\ UNCHANGED claim /\ recs' = Nothing /\ run'[a].src = run[a].src
              \/ /\ run[a].pc = "fill" /\ run'[a].pc = "publish"
                 /\ UNCHANGED claim /\ recs' = run[a].src
<1>1. run[a] \in RunRecord /\ Fits(a, run[a])
  BY LocalsAre DEF Roles
<1>2. run[a].pc \in {"claim", "clear", "fill"} /\ UNCHANGED <<docs, layer, reworded, work, locks>>
  BY DEF Claim, DeleteAll, UpsertAll, At
<1>3. a \in pubLock /\ pubLock = {a}
  BY <1>2 DEF Roles, Guarded, Typed
<1>4. run[a].back # "idle"
  BY <1>1, <1>2 DEF Fits, Rebuilds
<1>5. CASE Claim(a)
  <2>1. /\ run' = [run EXCEPT ![a] = run'[a]] /\ run[a].pc = "claim"
        /\ run'[a].pc = "clear" /\ run'[a].back = run[a].back /\ run'[a].next = run[a].next
        /\ run'[a].src = run[a].src /\ run'[a].ckpt = run[a].ckpt
    BY <1>1, <1>5 DEF Claim, Go, At, Typed, RunRecord
  <2>2. Fits(a, run'[a])
    BY <1>1, <1>4, <2>1 DEF Fits, Early, Rebuilds, Increments, Reads
  <2>3. Inside(a)
    BY <1>2, <1>3, <2>1 DEF Inside, Guarded, locks
  <2> QED
    BY <1>3, <1>4, <1>5, <2>1, <2>2, <2>3 DEF Claim, locks
<1>6. CASE DeleteAll(a)
  <2>1. /\ run' = [run EXCEPT ![a] = run'[a]] /\ run[a].pc = "clear"
        /\ run'[a].pc = "fill" /\ run'[a].back = run[a].back /\ run'[a].next = run[a].next
        /\ run'[a].src = run[a].src /\ run'[a].ckpt = run[a].ckpt
    BY <1>1, <1>6 DEF DeleteAll, Go, At, Typed, RunRecord
  <2>2. Fits(a, run'[a])
    BY <1>1, <1>4, <2>1 DEF Fits, Early, Rebuilds, Increments, Reads
  <2>3. Inside(a)
    BY <1>2, <1>3, <2>1 DEF Inside, Guarded, locks
  <2> QED
    BY <1>3, <1>4, <1>6, <2>1, <2>2, <2>3 DEF DeleteAll, locks
<1>7. CASE UpsertAll(a)
  <2>1. /\ run' = [run EXCEPT ![a] = run'[a]] /\ run[a].pc = "fill"
        /\ run'[a].pc = "publish" /\ run'[a].back = run[a].back /\ run'[a].next = run[a].next
        /\ run'[a].ckpt = run[a].ckpt
    BY <1>1, <1>7 DEF UpsertAll, At, Typed, RunRecord
  <2>2. Fits(a, run'[a])
    BY <1>1, <1>4, <2>1 DEF Fits, Early, Rebuilds, Increments, Reads
  <2>3. Inside(a)
    BY <1>2, <1>3, <2>1 DEF Inside, Guarded, locks
  <2> QED
    BY <1>3, <1>4, <1>7, <2>1, <2>2, <2>3 DEF UpsertAll, locks
<1> QED
  BY <1>5, <1>6, <1>7

\* apply meets another generation or checkpoint, or something half published.
Conflicted ==
    LET r == run["job"] IN
    \/ <<state.gen, state.ckpt>> # <<r.st.gen, r.st.ckpt>>
    \/ state = NoState
    \/ claim = "building"

LEMMA ApplyRefused ==
    ASSUME Typed, Roles, Apply, Conflicted
    PROVE  /\ \/ Drops("job")
              \/ /\ Quiet("job") /\ UNCHANGED locks
                 /\ run["job"].pc = "apply" /\ run'["job"].pc = "sync"
                 /\ run'["job"].ckpt = run["job"].ckpt /\ run'["job"].back = run["job"].back
           /\ Fits("job", run'["job"])
           /\ UNCHANGED <<docs, layer, reworded, backend, config, job, upkeep>>
<1>1. run["job"] \in RunRecord /\ Fits("job", run["job"]) /\ "job" \in Actors
  BY LocalsAre, ActorsAre DEF Roles
<1>2. CASE ~(run["job"].tries > 0)
  <2>1. Drops("job")
    BY <1>1, <1>2, RaiseDrops DEF Apply, Conflicted, work, backend
  <2> QED
    BY <1>1, <2>1, IdleFits DEF Drops, Typed
<1>3. CASE run["job"].tries > 0
  <2>1. /\ run' = [run EXCEPT !["job"].pc = "sync", !["job"].tries = @ - 1]
        /\ UNCHANGED <<docs, layer, reworded, backend, work, locks>> /\ run["job"].pc = "apply"
    BY <1>3 DEF Apply, Conflicted, At, backend
  <2>2. /\ run'["job"].pc = "sync" /\ run'["job"].back = run["job"].back
        /\ run'["job"].ckpt = run["job"].ckpt /\ run' = [run EXCEPT !["job"] = run'["job"]]
    BY <1>1, <2>1 DEF Typed, RunRecord
  <2>3. Fits("job", run'["job"])
    BY <1>1, <2>1, <2>2 DEF Fits, Early, Rebuilds, Increments, Reads
  <2>4. Quiet("job")
    BY <2>1, <2>2 DEF Quiet, Guarded, locks
  <2> QED
    BY <2>1, <2>2, <2>3, <2>4 DEF work, locks
<1> QED
  BY <1>2, <1>3

LEMMA ApplyStep ==
    ASSUME Typed, Roles, Publishing, Apply, ~Conflicted
    PROVE  /\ Inside("job") /\ Fits("job", run'["job"])
           /\ run["job"].pc = "apply" /\ run'["job"].pc = "upsert" /\ pubLock = {}
           /\ run["job"].back = "idle" /\ run'["job"].back = "idle"
           /\ run["job"].st.ckpt = state.ckpt
           /\ run'["job"].src = run["job"].src /\ run'["job"].ckpt = run["job"].ckpt
           /\ run'["job"].next.ckpt = job.seq /\ run'["job"].next.gen = state.gen + 1
           /\ run'["job"].next.model = state.model
           /\ run'["job"].next.count = Count(Merged(recs, run["job"].src, Changed))
           /\ state # NoState /\ claim = "ready" /\ claim' = "building"
           /\ UNCHANGED <<dim, state, recs, published, indexLock>>
<1> DEFINE r == run["job"]
           n == [state EXCEPT !.ckpt = job.seq, !.gen = @ + 1, !.count = ResultCount(r.src)]
<1>1. r \in RunRecord /\ Fits("job", r) /\ "job" \in Actors
  BY LocalsAre, ActorsAre DEF Roles
<1>2. /\ run' = [run EXCEPT !["job"].pc = "upsert", !["job"].st = state, !["job"].next = n]
      /\ claim' = "building" /\ pubLock' = pubLock \cup {"job"}
      /\ UNCHANGED <<docs, layer, reworded, dim, state, recs, published, work, indexLock>>
  BY DEF Apply, Conflicted, Enter
<1>3. r.pc = "apply" /\ pubLock = {} /\ state # NoState /\ claim # "building"
      /\ r.st.ckpt = state.ckpt
  BY DEF Apply, Conflicted, At, GuardFree
<1>4. claim = "ready"
  BY <1>3 DEF Publishing, Whole, PublicationIsWhole, Typed, Claims
<1>5. /\ n.ckpt = job.seq /\ n.gen = state.gen + 1 /\ n.model = state.model
      /\ n.count = ResultCount(r.src)
  BY DEF Typed, States
<1>6. ResultCount(r.src) = state.count + Cardinality(Added(recs, r.src, Changed))
                           - Cardinality(Removed(recs, r.src, Changed))
  BY DEF ResultCount, Added, Removed
<1>7. state.count = Count(recs)
  BY <1>4 DEF Publishing, Whole, PublicationIsWhole, Count
<1>8. n.count = Count(Merged(recs, r.src, Changed))
  BY <1>1, <1>5, <1>6, <1>7, ResultIsCount, ChangedIsIds, LocalsAre DEF Typed
<1> HIDE DEF n
<1>9. /\ run'["job"].pc = "upsert" /\ run'["job"].back = r.back /\ run'["job"].src = r.src
      /\ run'["job"].ckpt = r.ckpt /\ run'["job"].next = n
      /\ run' = [run EXCEPT !["job"] = run'["job"]]
  BY <1>1, <1>2 DEF Typed, RunRecord
<1>10. r.back = "idle"
  BY <1>1, <1>3 DEF Fits, Increments
<1>11. Fits("job", run'["job"])
  BY <1>9, <1>10 DEF Fits, Early, Rebuilds, Increments, Reads
<1>12. Inside("job")
  BY <1>2, <1>3, <1>9 DEF Inside, Guarded
<1> QED
  BY <1>2, <1>3, <1>4, <1>5, <1>8, <1>9, <1>10, <1>11, <1>12

\* What is left of an increment after its records were written.
LEMMA MergedAgain ==
    ASSUME NEW m \in Records, NEW src \in Records, NEW C, NEW S \in SUBSET C
    PROVE  Merged(Merged(m, src, S), src, C) = Merged(m, src, C)
BY DEF Merged

LEMMA IncrementStep ==
    ASSUME Typed, Roles, Upsert \/ Delete
    PROVE  /\ Inside("job") /\ Fits("job", run'["job"])
           /\ run["job"].back = "idle" /\ run'["job"].back = "idle"
           /\ run'["job"].next = run["job"].next /\ run'["job"].ckpt = run["job"].ckpt
           /\ run["job"].pc \in {"upsert", "delete"} /\ pubLock = {"job"}
           /\ UNCHANGED <<dim, state, claim, published, indexLock>>
           /\ \/ /\ run["job"].pc = "upsert" /\ run'["job"].pc = "delete"
                 /\ run'["job"].src = run["job"].src
                 /\ recs' = Merged(recs, run["job"].src,
                                   {i \in Changed : i \in Present(run["job"].src)})
              \/ /\ run["job"].pc = "delete" /\ run'["job"].pc = "publish"
                 /\ recs' = Merged(recs, run["job"].src,
                                   {i \in Changed : i \notin Present(run["job"].src)})
<1> DEFINE r == run["job"]
<1>1. r \in RunRecord /\ Fits("job", r) /\ "job" \in Actors /\ r.src \in Records
  BY LocalsAre, ActorsAre DEF Roles
<1>2. r.pc \in {"upsert", "delete"} /\ UNCHANGED <<docs, layer, reworded, work, locks>>
  BY DEF Upsert, Delete, At
<1>3. pubLock = {"job"}
  BY <1>1, <1>2 DEF Roles, Guarded, Typed
<1>4. r.back = "idle"
  BY <1>1, <1>2 DEF Fits, Increments
<1>5. CASE Upsert
  <2>1. /\ run' = [run EXCEPT !["job"] = run'["job"]] /\ r.pc = "upsert"
        /\ run'["job"].pc = "delete" /\ run'["job"].back = r.back
        /\ run'["job"].next = r.next /\ run'["job"].src = r.src /\ run'["job"].ckpt = r.ckpt
    BY <1>1, <1>5 DEF Upsert, Go, At, Typed, RunRecord
  <2>2. Fits("job", run'["job"])
    BY <1>4, <2>1 DEF Fits, Early, Rebuilds, Increments, Reads
  <2>3. Inside("job")
    BY <1>2, <1>3, <2>1 DEF Inside, Guarded, locks
  <2>4. recs' = Merged(recs, r.src, {i \in Changed : i \in Present(r.src)})
    BY <1>5 DEF Upsert, Merged
  <2> QED
    BY <1>3, <1>4, <1>5, <2>1, <2>2, <2>3, <2>4 DEF Upsert, locks
<1>6. CASE Delete
  <2>1. /\ run' = [run EXCEPT !["job"] = run'["job"]] /\ r.pc = "delete"
        /\ run'["job"].pc = "publish" /\ run'["job"].back = r.back
        /\ run'["job"].next = r.next /\ run'["job"].ckpt = r.ckpt
    BY <1>1, <1>6 DEF Delete, At, Typed, RunRecord
  <2>2. Fits("job", run'["job"])
    BY <1>4, <2>1 DEF Fits, Early, Rebuilds, Increments, Reads
  <2>3. Inside("job")
    BY <1>2, <1>3, <2>1 DEF Inside, Guarded, locks
  <2>4. \A i \in Ids : i \notin Present(r.src) => Absent(i) = r.src[i]
    BY <1>1 DEF Present, Records
  <2>5. recs' = Merged(recs, r.src, {i \in Changed : i \notin Present(r.src)})
    BY <1>6, <2>4 DEF Delete, Merged
  <2> QED
    BY <1>3, <1>4, <1>6, <2>1, <2>2, <2>3, <2>5 DEF Delete, locks
<1> QED
  BY <1>5, <1>6

\* The state is not the one apply started from: nothing is written.
Overtaken(a) == run[a].back = "idle" /\ state # run[a].st

LEMMA WriteStep ==
    ASSUME Typed, Roles, NEW a \in Actors, WriteState(a), ~Overtaken(a)
    PROVE  /\ Inside(a) /\ Fits(a, run'[a])
           /\ run[a].pc = "publish" /\ run'[a].pc = "open" /\ pubLock = {a}
           /\ run'[a].back = run[a].back /\ run'[a].next = run[a].next
           /\ run'[a].ckpt = run[a].ckpt
           /\ state' = run[a].next /\ published' = recs
           /\ UNCHANGED <<dim, claim, recs, indexLock>>
<1>1. run[a] \in RunRecord /\ Fits(a, run[a])
  BY LocalsAre DEF Roles
<1>2. /\ run' = [run EXCEPT ![a] = run'[a]] /\ run[a].pc = "publish"
      /\ run'[a].pc = "open" /\ run'[a].back = run[a].back
      /\ run'[a].next = run[a].next /\ run'[a].ckpt = run[a].ckpt
  BY <1>1 DEF WriteState, Overtaken, Go, At, Typed, RunRecord
<1>3. pubLock = {a} /\ UNCHANGED <<docs, layer, reworded, work, locks>>
      /\ state' = run[a].next /\ published' = recs /\ UNCHANGED <<dim, claim, recs>>
  BY <1>2 DEF WriteState, Overtaken, Roles, Guarded, Typed, locks
<1>4. Fits(a, run'[a])
  BY <1>1, <1>2 DEF Fits, Early, Rebuilds, Increments, Reads
<1>5. Inside(a)
  BY <1>2, <1>3 DEF Inside, Guarded, locks
<1> QED
  BY <1>2, <1>3, <1>4, <1>5 DEF locks

LEMMA WriteRefused ==
    ASSUME Typed, NEW a \in Actors, WriteState(a), Overtaken(a)
    PROVE  Drops(a)
BY RaiseDrops DEF WriteState, Overtaken, work, backend

LEMMA OpenStep ==
    ASSUME Typed, Roles, NEW a \in Actors, Open(a)
    PROVE  /\ Inside(a) /\ Fits(a, run'[a])
           /\ run[a].pc = "open" /\ pubLock = {a}
           /\ run'[a].ckpt = 0 /\ run'[a].back = "idle"
           /\ run'[a].pc = (IF run[a].back = "idle" THEN "finish" ELSE run[a].back)
           /\ run'[a].pc \in {"finish", "sync", "load", "compare"}
           /\ run'[a].pc = "compare" => run'[a].st = run[a].next
           /\ claim' = "ready"
           /\ UNCHANGED <<dim, state, recs, published>>
           /\ indexLock' = IF run'[a].pc = "compare" THEN indexLock ELSE indexLock \ {a}
<1> DEFINE to == IF run[a].back = "idle" THEN "finish" ELSE run[a].back
           s == IF to = "compare" THEN run[a].next ELSE NoState
<1>1. run[a] \in RunRecord /\ Fits(a, run[a])
  BY LocalsAre DEF Roles
<1>2. run' = [run EXCEPT ![a] = [Idle EXCEPT !.pc = to, !.tries = Tries(a), !.st = s]]
      /\ run[a].pc = "open" /\ claim' = "ready" /\ pubLock' = pubLock \ {a}
      /\ indexLock' = (IF to = "compare" THEN indexLock ELSE indexLock \ {a})
      /\ UNCHANGED <<docs, layer, reworded, dim, state, recs, published, work>>
  BY DEF Open, At
<1>3. to \in {"finish", "sync", "load", "compare"}
  BY <1>1 DEF RunRecord
<1>4. pubLock = {a}
  BY <1>2 DEF Roles, Guarded, Typed
<1>5. Fits(a, [Idle EXCEPT !.pc = to, !.tries = Tries(a), !.st = s])
  BY <1>1, <1>3 DEF Fits, Idle, Early, Rebuilds, Increments, Reads
<1>6. /\ [Idle EXCEPT !.pc = to, !.tries = Tries(a), !.st = s].pc = to
      /\ [Idle EXCEPT !.pc = to, !.tries = Tries(a), !.st = s].st = s
      /\ [Idle EXCEPT !.pc = to, !.tries = Tries(a), !.st = s].ckpt = 0
      /\ [Idle EXCEPT !.pc = to, !.tries = Tries(a), !.st = s].back = "idle"
  BY DEF Idle
<1>7. s = run[a].next \/ to # "compare"
  OBVIOUS
<1> HIDE DEF to, s
<1>8. run'[a] = [Idle EXCEPT !.pc = to, !.tries = Tries(a), !.st = s]
  BY <1>2 DEF Typed
<1>9. Inside(a)
  BY <1>2, <1>3, <1>4, <1>6, <1>8 DEF Inside, Guarded, work
<1> QED
  BY <1>2, <1>3, <1>4, <1>5, <1>6, <1>7, <1>8, <1>9 DEF to

----------------------------------------------------------------------------
(* Every step is one of these.                                             *)

\* The tree or the configuration changes, no caller moves.
Outside ==
    /\ \/ CommitJob \/ CommitUpkeep \/ Reconfigure
    /\ UNCHANGED <<backend, locks, run>>

LEMMA NextCases ==
    ASSUME [Next]_vars
    PROVE  \/ UNCHANGED vars
           \/ Outside
           \/ \E a \in {"job", "upkeep"} : Finish(a)
           \/ \E a \in Actors :
                 \/ Private(a)
                 \/ Replace(a) /\ run[a].st.gen = state.gen
                 \/ Claim(a) \/ DeleteAll(a) \/ UpsertAll(a)
                 \/ WriteState(a) \/ Open(a)
           \/ Apply \/ Upsert \/ Delete
<1> USE ActorsAre
<1>1. CASE JobStep
  BY <1>1, Zenon DEF JobStep, Derive, Publish, Private
<1>2. CASE UpkeepStep
  BY <1>2 DEF UpkeepStep, Derive, Publish, Private
<1>3. CASE SearchStep
  BY <1>3 DEF SearchStep, Publish, Private
<1>4. ASSUME CommitJob \/ CommitUpkeep \/ Reconfigure
      PROVE  Outside
  BY <1>4 DEF CommitJob, CommitUpkeep, Reconfigure, Outside
<1> QED
  BY <1>1, <1>2, <1>3, <1>4 DEF Next, Private

LEMMA FinishStep ==
    ASSUME Typed, Roles, NEW a \in {"job", "upkeep"}, Finish(a)
    PROVE  /\ Quiet(a) /\ run[a].pc = "finish" /\ run'[a] = Idle
           /\ UNCHANGED <<docs, layer, reworded, config, indexLock>>
           /\ IF a = "job" THEN job' = [job EXCEPT !.owed = FALSE] /\ UNCHANGED upkeep
                           ELSE upkeep' = [upkeep EXCEPT !.owed = FALSE] /\ UNCHANGED job
BY ActorsAre, IdleFits DEF Finish, At, Quiet, Typed, Guarded, locks

LEMMA NextRoles ==
    ASSUME Typed, Roles, Publishing, [Next]_vars
    PROVE  Roles'
<1> USE ActorsAre
<1>1. CASE UNCHANGED vars
  BY <1>1 DEF vars, Roles
<1>2. CASE Outside
  <2>1. CASE CommitJob
    BY <1>2, <2>1 DEF Outside, CommitJob, Roles, locks, Typed
  <2>2. CASE CommitUpkeep
    BY <1>2, <2>2 DEF Outside, CommitUpkeep, Roles, locks
  <2>3. CASE Reconfigure
    BY <1>2, <2>3 DEF Outside, Reconfigure, Roles, locks
  <2> QED
    BY <1>2, <2>1, <2>2, <2>3 DEF Outside
<1>3. ASSUME NEW a \in {"job", "upkeep"}, Finish(a)
      PROVE  Roles'
  BY <1>3, FinishStep, RolesKept, IdleFits DEF Owes
<1>4. ASSUME NEW a \in Actors, Fits(a, run'[a]), Quiet(a) \/ Drops(a) \/ Inside(a),
             UNCHANGED <<job, upkeep>>, run'[a].pc # "idle" => Owes(a)
      PROVE  Roles'
  <2>1. \A b \in Actors : Owes(b)' <=> Owes(b)
    BY <1>4 DEF Owes
  <2> QED
    BY <1>4, <2>1, RolesKept
<1>5. ASSUME NEW a \in Actors, Private(a)
      PROVE  Roles'
  BY <1>4, <1>5, PrivateStep
<1>6. ASSUME NEW a \in Actors, Inside(a), Fits(a, run'[a]), run[a].pc # "idle"
      PROVE  Roles'
  <2>1. UNCHANGED <<job, upkeep>> /\ Owes(a)
    BY <1>6 DEF Inside, work, Roles, Owes
  <2> QED
    BY <1>4, <1>6, <2>1
<1>7. ASSUME NEW a \in Actors, Replace(a), run[a].st.gen = state.gen
      PROVE  Roles'
  BY <1>6, <1>7, ReplaceStep
<1>8. ASSUME NEW a \in Actors, Claim(a) \/ DeleteAll(a) \/ UpsertAll(a)
      PROVE  Roles'
  BY <1>6, <1>8, RebuildStep
<1>9. ASSUME NEW a \in Actors, WriteState(a)
      PROVE  Roles'
  <2>1. CASE Overtaken(a)
    <3>1. Drops(a)
      BY <1>9, <2>1, WriteRefused
    <3> QED
      BY <1>4, <3>1, IdleFits DEF Drops, Typed
  <2> QED
    BY <1>6, <1>9, <2>1, WriteStep
<1>10. ASSUME NEW a \in Actors, Open(a)
       PROVE  Roles'
  BY <1>6, <1>10, OpenStep
<1>11. CASE Apply
  <2>1. CASE Conflicted
    <3>1. run["job"].pc = "apply"
      BY <1>11 DEF Apply, At
    <3>2. Owes("job")
      BY <3>1 DEF Roles, Owes
    <3> QED
      BY <1>4, <1>11, <2>1, <3>2, ApplyRefused
  <2> QED
    BY <1>6, <1>11, <2>1, ApplyStep
<1>12. CASE Upsert \/ Delete
  BY <1>6, <1>12, IncrementStep
<1> QED
  BY <1>1, <1>2, <1>3, <1>5, <1>7, <1>8, <1>9, <1>10, <1>11, <1>12, NextCases

----------------------------------------------------------------------------
(* Publications.                                                           *)

LEMMA PublishingInit == Init => Publishing
<1> SUFFICES ASSUME Init PROVE Publishing
  OBVIOUS
<1>1. Whole
  BY DEF Init, Whole, PublicationIsWhole
<1>2. \A a \in Actors : run[a].pc \notin Guarded
  BY IdleFits DEF Init
<1> QED
  BY <1>1, <1>2 DEF Publishing, Progress, Guarded

\* Outside the guard nothing is known of a publication.
LEMMA NoProgress ==
    ASSUME NEW a \in Actors, run[a].pc \notin Guarded
    PROVE  Progress(a)
BY DEF Progress, Guarded

\* While one caller holds the guard, the others are outside it.
LEMMA OthersOutside ==
    ASSUME Typed, Roles, NEW a \in Actors, Inside(a)
    PROVE  \A b \in Actors \ {a} :
              run'[b] = run[b] /\ run[b].pc \notin Guarded /\ Progress(b)'
<1>1. \A b \in Actors \ {a} : run'[b] = run[b]
  BY DEF Inside, Typed
<1>2. \A b \in Actors \ {a} : run[b].pc \notin Guarded
  BY DEF Inside, Roles
<1> QED
  BY <1>1, <1>2 DEF Progress, Guarded

LEMMA WholeKept ==
    ASSUME Whole, UNCHANGED backend
    PROVE  Whole'
BY DEF Whole, PublicationIsWhole, backend, StateMatches, Present

\* Steps that leave the collection alone.
LEMMA PublishingKept ==
    ASSUME Typed, Roles, Publishing, UNCHANGED backend,
           \/ UNCHANGED <<run, job>>
           \/ run["job"].pc \notin Guarded /\ UNCHANGED run
           \/ \E a \in Actors : Drops(a)
           \/ \E a \in Actors : Quiet(a) /\ UNCHANGED job
           \/ \E a \in Actors : Quiet(a) /\ a = "job" /\ run'[a] = Idle
    PROVE  Publishing'
<1> USE ActorsAre
<1>1. Whole'
  BY WholeKept DEF Publishing
<1>2. ASSUME NEW b \in Actors, run'[b] = run[b], b = "job" => UNCHANGED job \/ run[b].pc \notin Guarded
      PROVE  Progress(b)'
  <2>1. CASE run[b].pc \notin Guarded
    BY <1>2, <2>1 DEF Progress, Guarded
  <2>2. CASE run[b].pc \in Guarded /\ b = "job"
    BY <1>2, <2>2 DEF Publishing, Progress, backend, Changed
  <2>3. CASE run[b].pc \in Guarded /\ b # "job"
    <3>1. run[b].pc \notin {"upsert", "delete"}
      BY <2>3 DEF Roles, Fits, Increments
    <3> QED
      BY <1>2, <2>3, <3>1 DEF Publishing, Progress, backend
  <2> QED
    BY <2>1, <2>2, <2>3
<1>3. ASSUME NEW a \in Actors, Drops(a)
      PROVE  Publishing'
  <2>1. \A b \in Actors \ {a} : run'[b] = run[b] /\ UNCHANGED job
    BY <1>3 DEF Drops, Typed
  <2>2. run'[a].pc \notin Guarded
    BY <1>3, IdleFits DEF Drops, Typed
  <2> QED
    BY <1>1, <1>2, <2>1, <2>2 DEF Publishing, Progress, Guarded
<1>4. ASSUME NEW a \in Actors, Quiet(a), UNCHANGED job \/ a = "job"
      PROVE  Publishing'
  <2>1. \A b \in Actors \ {a} : run'[b] = run[b]
    BY <1>4 DEF Quiet, Typed
  <2>2. run'[a].pc \notin Guarded
    BY <1>4 DEF Quiet
  <2>3. \A b \in Actors \ {a} : Progress(b)'
    BY <1>2, <1>4, <2>1
  <2> QED
    BY <1>1, <2>2, <2>3 DEF Publishing, Progress, Guarded
<1>5. ASSUME UNCHANGED run, UNCHANGED job \/ run["job"].pc \notin Guarded
      PROVE  Publishing'
  BY <1>1, <1>2, <1>5 DEF Publishing
<1> QED
  BY <1>3, <1>4, <1>5

\* The record of the caller whose publication goes on.
LEMMA PublishingMoved ==
    ASSUME Typed, Roles, NEW a \in Actors, Inside(a), Whole', Progress(a)'
    PROVE  Publishing'
BY OthersOutside DEF Publishing

LEMMA ReplacePublishing ==
    ASSUME Typed, Roles, Publishing, NEW a \in Actors, Replace(a), run[a].st.gen = state.gen
    PROVE  Publishing'
<1>1. state.gen \in Nat /\ NoState.gen = 0
  BY DEF Typed, States, NoState
<1>2. /\ run'[a].next.gen = state.gen + 1 /\ run'[a].next.count = Count(run[a].src)
      /\ run'[a].pc = "claim" /\ run'[a].src = run[a].src
  <2>1. run'[a].next = [model |-> config, ckpt |-> run[a].ckpt, gen |-> state.gen + 1,
                        count |-> Count(run[a].src)]
    BY ReplaceStep
  <2>2. run'[a].pc = "claim" /\ run'[a].src = run[a].src
    BY ReplaceStep
  <2> QED
    BY <2>1, <2>2
<1>4. CASE UNCHANGED <<state, claim, recs, published>>
  <2>1. Whole'
    BY <1>4 DEF Publishing, Whole, PublicationIsWhole, Present
  <2>2. Progress(a)'
    BY <1>1, <1>2, <1>4 DEF Progress, Guarded
  <2> QED
    BY <2>1, <2>2, PublishingMoved, ReplaceStep
<1>5. CASE state' = NoState /\ claim' = "none" /\ recs' = Nothing /\ published' = Nothing
  <2>1. Whole'
    BY <1>5 DEF Whole, PublicationIsWhole
  <2>2. Progress(a)'
    BY <1>1, <1>2, <1>5 DEF Progress, Guarded
  <2> QED
    BY <2>1, <2>2, PublishingMoved, ReplaceStep
<1> QED
  BY <1>4, <1>5, ReplaceStep

LEMMA RebuildPublishing ==
    ASSUME Typed, Roles, Publishing, NEW a \in Actors, Claim(a) \/ DeleteAll(a) \/ UpsertAll(a)
    PROVE  Publishing'
<1>1. Progress(a) /\ Whole
  BY DEF Publishing
<1>2. claim' = "building"
  BY <1>1, RebuildStep DEF Progress, Guarded
<1>3. Whole'
  BY <1>2 DEF Whole, PublicationIsWhole
<1>4. Progress(a)'
  <2>1. CASE run[a].pc = "claim"
    BY <1>1, <1>2, <2>1, RebuildStep DEF Progress, Guarded
  <2>2. CASE run[a].pc = "clear"
    BY <1>1, <1>2, <2>2, RebuildStep DEF Progress, Guarded
  <2>3. CASE run[a].pc = "fill"
    BY <1>1, <1>2, <2>3, RebuildStep DEF Progress, Guarded
  <2> QED
    BY <2>1, <2>2, <2>3, RebuildStep
<1> QED
  BY <1>3, <1>4, PublishingMoved, RebuildStep

LEMMA ApplyPublishing ==
    ASSUME Typed, Roles, Publishing, Apply, ~Conflicted
    PROVE  Publishing'
<1> USE ActorsAre
<1>1. Whole'
  BY ApplyStep DEF Whole, PublicationIsWhole
<1>2. state.gen \in Nat
  BY DEF Typed, States
<1>3. UNCHANGED job
  BY ApplyStep DEF Inside, work
<1>4. Progress("job")'
  BY <1>2, <1>3, ApplyStep DEF Progress, Guarded, Changed
<1> QED
  BY <1>1, <1>4, PublishingMoved, ApplyStep

LEMMA IncrementPublishing ==
    ASSUME Typed, Roles, Publishing, Upsert \/ Delete
    PROVE  Publishing'
<1> USE ActorsAre
<1>1. Progress("job") /\ Whole /\ claim' = "building"
  BY IncrementStep DEF Publishing, Progress, Guarded
<1>2. Whole'
  BY <1>1 DEF Whole, PublicationIsWhole
<1>3. UNCHANGED job
  BY IncrementStep DEF Inside, work
<1>4. run["job"].src \in Records /\ recs \in Records
  BY LocalsAre DEF Typed
<1>5. Progress("job")'
  <2>1. CASE run["job"].pc = "upsert"
    <3>1. /\ run'["job"].pc = "delete" /\ run'["job"].src = run["job"].src
          /\ recs' = Merged(recs, run["job"].src, {i \in Changed : i \in Present(run["job"].src)})
      BY <2>1, IncrementStep
    <3>2. Merged(recs', run["job"].src, Changed) = Merged(recs, run["job"].src, Changed)
      BY <1>4, <3>1, MergedAgain
    <3>3. \A i \in Changed \cap Present(run["job"].src) : recs'[i] = run["job"].src[i]
      BY <3>1, ChangedIsIds DEF Merged
    <3>4. run'["job"].next = run["job"].next /\ UNCHANGED state
      BY IncrementStep
    <3> QED
      BY <1>1, <1>3, <2>1, <3>1, <3>2, <3>3, <3>4 DEF Progress, Guarded, Changed
  <2>2. CASE run["job"].pc = "delete"
    <3>1. /\ run'["job"].pc = "publish"
          /\ recs' = Merged(recs, run["job"].src, {i \in Changed : i \notin Present(run["job"].src)})
      BY <2>2, IncrementStep
    <3>2. \A i \in Changed \cap Present(run["job"].src) : recs[i] = run["job"].src[i]
      BY <1>1, <2>2 DEF Progress
    <3>3. recs' = Merged(recs, run["job"].src, Changed)
      BY <3>1, <3>2 DEF Merged
    <3>4. run'["job"].next = run["job"].next /\ UNCHANGED state
      BY IncrementStep
    <3> QED
      BY <1>1, <2>2, <3>1, <3>3, <3>4 DEF Progress, Guarded
  <2> QED
    BY <2>1, <2>2, IncrementStep
<1> QED
  BY <1>2, <1>5, PublishingMoved, IncrementStep

LEMMA WritePublishing ==
    ASSUME Typed, Roles, Publishing, NEW a \in Actors, WriteState(a), ~Overtaken(a)
    PROVE  Publishing'
<1>1. Progress(a) /\ claim' = "building"
  BY WriteStep DEF Publishing, Progress, Guarded
<1>2. Whole'
  BY <1>1 DEF Whole, PublicationIsWhole
<1>3. state.gen \in Nat /\ run[a].next.gen \in Nat /\ run[a].next.gen > state.gen
  BY <1>1, WriteStep, LocalsAre DEF Typed, States, Progress, Guarded
<1>4. Progress(a)'
  <2>1. run[a].next.gen > 0
    BY <1>3
  <2>2. run[a].next.count = Count(recs)
    BY <1>1, WriteStep DEF Progress
  <2> QED
    BY <1>1, <2>1, <2>2, WriteStep DEF Progress, Guarded
<1> QED
  BY <1>2, <1>4, PublishingMoved, WriteStep

LEMMA OpenPublishing ==
    ASSUME Typed, Roles, Publishing, NEW a \in Actors, Open(a)
    PROVE  Publishing'
<1>1. /\ state.gen > 0 /\ recs = published /\ state.count = Count(recs)
  BY OpenStep DEF Publishing, Progress
<1>2. state # NoState
  BY <1>1 DEF NoState
<1>3. Whole'
  BY <1>1, <1>2, OpenStep DEF Whole, PublicationIsWhole, Count
<1>4. Progress(a)'
  BY OpenStep DEF Progress, Guarded
<1> QED
  BY <1>3, <1>4, PublishingMoved, OpenStep

LEMMA NextPublishing ==
    ASSUME Typed, Roles, Publishing, [Next]_vars
    PROVE  Publishing'
<1> USE ActorsAre
<1>1. CASE UNCHANGED vars
  BY <1>1, PublishingKept DEF vars, backend
<1>2. CASE Outside
  <2>1. CASE CommitJob
    <3>1. run["job"].pc \notin Guarded
      BY <2>1 DEF CommitJob, Roles, Guarded
    <3> QED
      BY <1>2, <3>1, PublishingKept DEF Outside
  <2>2. CASE CommitUpkeep \/ Reconfigure
    BY <1>2, <2>2, PublishingKept DEF Outside, CommitUpkeep, Reconfigure
  <2> QED
    BY <1>2, <2>1, <2>2 DEF Outside
<1>3. ASSUME NEW a \in {"job", "upkeep"}, Finish(a)
      PROVE  Publishing'
  <2>1. UNCHANGED backend
    BY <1>3, FinishStep DEF Quiet
  <2> QED
    BY <1>3, <2>1, FinishStep, PublishingKept
<1>4. ASSUME NEW a \in Actors, Private(a)
      PROVE  Publishing'
  BY <1>4, PrivateStep, PublishingKept
<1>5. ASSUME NEW a \in Actors, WriteState(a)
      PROVE  Publishing'
  <2>1. CASE Overtaken(a)
    <3>1. Drops(a)
      BY <1>5, <2>1, WriteRefused
    <3> QED
      BY <3>1, PublishingKept DEF Drops
  <2> QED
    BY <1>5, <2>1, WritePublishing
<1>6. CASE Apply
  <2>1. CASE Conflicted
    BY <1>6, <2>1, ApplyRefused, PublishingKept
  <2> QED
    BY <1>6, <2>1, ApplyPublishing
<1> QED
  BY <1>1, <1>2, <1>3, <1>4, <1>5, <1>6, NextCases, ReplacePublishing, RebuildPublishing,
     OpenPublishing, IncrementPublishing

----------------------------------------------------------------------------
(* Dimensions.                                                             *)

\* What Dimensions says of one caller, given the dimension.
Sized(r, d, c) ==
    /\ r.pc \in Guarded => d = DimOf[r.next.model]
    /\ r.pc \in Guarded /\ r.back # "idle" => d = DimOf[c]
    /\ r.pc \in Reads => d = DimOf[c]

LEMMA DimensionsAre ==
    Dimensions <=> /\ state # NoState => dim = DimOf[state.model]
                   /\ \A a \in Actors : Sized(run[a], dim, config)
BY DEF Dimensions, Sized

\* Steps that change neither the dimension nor the state.
LEMMA SizedKept ==
    ASSUME Typed, Dimensions, UNCHANGED <<dim, state, config>>, NEW a \in Actors,
           run' = [run EXCEPT ![a] = run'[a]], Sized(run'[a], dim, config)
    PROVE  Dimensions'
<1>1. \A b \in Actors \ {a} : run'[b] = run[b]
  BY DEF Typed
<1> QED
  BY <1>1 DEF Dimensions, Sized

\* A caller reads only what ensure_ready checked, or what was read before.
LEMMA PrivateSized ==
    ASSUME Typed, Roles, Dimensions, NEW a \in Actors, Private(a)
    PROVE  Sized(run'[a], dim, config)
<1>1. run'[a].pc \notin Guarded
  BY PrivateStep, IdleFits DEF Quiet, Drops, Typed
<1>2. ASSUME run'[a].pc \in Reads
      PROVE  dim = DimOf[config]
  <2>1. a = "search"
    BY <1>2, PrivateStep DEF Fits
  <2>2. CASE run[a].pc \in Reads
    BY <2>2 DEF Dimensions
  <2>3. CASE run[a].pc \notin Reads
    <3>1. ~Drops(a)
      BY <1>2 DEF Drops, Typed, Idle, Reads
    <3>2. ~(Load \/ Query \/ Verify \/ Answer)
      BY <2>1, <2>3 DEF Load, Query, Verify, Answer, At, Reads
    <3>3. run[a] \in RunRecord
      BY LocalsAre
    <3>4. ~StartSearch /\ ~ReadState(a) /\ ~Walk(a)
      BY <1>2, <2>1, <3>3 DEF StartSearch, Go, ReadState, Walk, Typed, RunRecord, Reads
    <3>5. ~(Replace(a) /\ run[a].st.gen # state.gen)
      <4>1. SUFFICES ASSUME Replace(a), run[a].st.gen # state.gen PROVE FALSE
        OBVIOUS
      <4>2. CASE run[a].left > 0
        BY <1>2, <3>3, <4>1, <4>2 DEF Replace, ConflictedRebuild, Typed, RunRecord, Reads
      <4>3. CASE ~(run[a].left > 0)
        BY <3>1, <4>1, <4>3, RaiseDrops DEF Replace, ConflictedRebuild, work
      <4> QED
        BY <4>2, <4>3
    <3>6. ~Stop(a)
      BY <3>1, RaiseDrops DEF Stop
    <3>7. Ensure(a)
      BY <2>1, <3>2, <3>4, <3>5, <3>6 DEF Private
    <3>8. StateMatches
      <4>1. CASE ~StateMatches
        <5>1. run'[a] = Rebuilding(run[a], "load")
          BY <2>1, <3>7, <4>1 DEF Ensure, Typed
        <5> QED
          BY <1>2, <5>1, RebuildingIs DEF Reads
      <4> QED
        BY <4>1
    <3> QED
      BY <3>8 DEF StateMatches, Dimensions
  <2> QED
    BY <2>2, <2>3
<1> QED
  BY <1>1, <1>2 DEF Sized

LEMMA IdleSized == \A d, c : Sized(Idle, d, c)
BY IdleFits DEF Sized, Reads, Guarded

LEMMA NextDimensions ==
    ASSUME Typed, Roles, Publishing, Dimensions, [Next]_vars
    PROVE  Dimensions'
<1> USE ActorsAre
<1>1. CASE UNCHANGED vars
  BY <1>1 DEF vars, Dimensions
<1>2. CASE Outside
  <2>1. CASE CommitJob \/ CommitUpkeep
    BY <1>2, <2>1 DEF Outside, CommitJob, CommitUpkeep, Dimensions, backend
  <2>2. CASE Reconfigure
    BY <1>2, <2>2 DEF Outside, Reconfigure, At, Dimensions, backend, Guarded, Reads
  <2> QED
    BY <1>2, <2>1, <2>2 DEF Outside
<1>3. ASSUME NEW a \in {"job", "upkeep"}, Finish(a)
      PROVE  Dimensions'
  <2>1. UNCHANGED <<dim, state, config>> /\ run' = [run EXCEPT ![a] = run'[a]] /\ run'[a] = Idle
    BY <1>3, FinishStep DEF Quiet, backend
  <2> QED
    BY <2>1, SizedKept, IdleSized
<1>4. ASSUME NEW a \in Actors, Private(a)
      PROVE  Dimensions'
  <2>1. UNCHANGED <<dim, state, config>>
    BY <1>4, PrivateStep DEF backend
  <2>2. run' = [run EXCEPT ![a] = run'[a]]
    BY <1>4, PrivateStep DEF Quiet, Drops, Typed
  <2> QED
    BY <1>4, <2>1, <2>2, PrivateSized, SizedKept
<1>5. ASSUME NEW a \in Actors, Drops(a)
      PROVE  Dimensions'
  <2>1. /\ UNCHANGED <<dim, state, config>>
        /\ run' = [run EXCEPT ![a] = run'[a]] /\ run'[a] = Idle
    BY <1>5 DEF Drops, Typed, backend
  <2> QED
    BY <2>1, SizedKept, IdleSized
<1>6. ASSUME NEW a \in Actors, Replace(a), run[a].st.gen = state.gen
      PROVE  Dimensions'
  <2>1. \A b \in Actors \ {a} : run'[b] = run[b] /\ run[b].pc \notin Guarded
    BY <1>6, ReplaceStep, OthersOutside
  <2>2. config' = config
    BY <1>6, ReplaceStep DEF Inside, work
  <2>3. run'[a].pc = "claim" /\ run'[a].next.model = config /\ dim' = DimOf[config]
    <3>1. run'[a].next = [model |-> config, ckpt |-> run[a].ckpt, gen |-> state.gen + 1,
                          count |-> Count(run[a].src)]
      BY <1>6, ReplaceStep
    <3> QED
      BY <1>6, <3>1, ReplaceStep
  <2>4. \A b \in Actors : Sized(run'[b], dim', config')
    BY <2>1, <2>2, <2>3 DEF Sized, Reads, Guarded
  <2>5. state' # NoState => dim' = DimOf[state'.model]
    BY <1>6, ReplaceStep DEF Dimensions
  <2> QED
    BY <2>4, <2>5 DEF Dimensions, Sized
<1>7. ASSUME NEW a \in Actors, Claim(a) \/ DeleteAll(a) \/ UpsertAll(a)
      PROVE  Dimensions'
  <2>1. /\ UNCHANGED <<dim, state, config>> /\ run' = [run EXCEPT ![a] = run'[a]]
        /\ run[a].pc \in Guarded /\ run'[a].next = run[a].next /\ run'[a].back = run[a].back
        /\ run'[a].pc \notin Reads
    BY <1>7, RebuildStep DEF Inside, work, Guarded, Reads
  <2>2. Sized(run'[a], dim, config)
    BY <2>1 DEF Dimensions, Sized
  <2> QED
    BY <2>1, <2>2, SizedKept
<1>8. ASSUME NEW a \in Actors, WriteState(a), ~Overtaken(a)
      PROVE  Dimensions'
  <2>1. /\ UNCHANGED <<dim, config>> /\ run' = [run EXCEPT ![a] = run'[a]]
        /\ run[a].pc \in Guarded /\ run'[a].next = run[a].next /\ run'[a].back = run[a].back
        /\ run'[a].pc \notin Reads /\ state' = run[a].next
    BY <1>8, WriteStep DEF Inside, work, Guarded, Reads
  <2>2. Sized(run'[a], dim', config')
    BY <2>1 DEF Dimensions, Sized
  <2>3. \A b \in Actors \ {a} : run'[b] = run[b]
    BY <2>1 DEF Typed
  <2>4. dim' = DimOf[state'.model]
    BY <2>1 DEF Dimensions
  <2> QED
    BY <2>1, <2>2, <2>3, <2>4 DEF Dimensions, Sized
<1>9. ASSUME NEW a \in Actors, Open(a)
      PROVE  Dimensions'
  <2>1. /\ UNCHANGED <<dim, state, config>> /\ run' = [run EXCEPT ![a] = run'[a]]
        /\ run[a].pc \in Guarded /\ run'[a].pc \notin Guarded
        /\ run'[a].pc \in Reads => run[a].back # "idle"
    BY <1>9, OpenStep DEF Inside, work, Guarded, Reads
  <2>2. Sized(run'[a], dim, config)
    BY <2>1 DEF Dimensions, Sized
  <2> QED
    BY <2>1, <2>2, SizedKept
<1>10. CASE Apply
  <2>1. CASE Conflicted
    <3>1. CASE Drops("job")
      BY <1>5, <3>1
    <3>2. CASE Quiet("job")
      <4>1. /\ UNCHANGED <<dim, state, config>> /\ run' = [run EXCEPT !["job"] = run'["job"]]
            /\ run'["job"].pc \notin Guarded /\ run'["job"].pc \notin Reads
        BY <1>10, <2>1, <3>2, ApplyRefused DEF Quiet, backend, Fits
      <4> QED
        BY <4>1, SizedKept DEF Sized
    <3> QED
      BY <1>10, <2>1, <3>1, <3>2, ApplyRefused
  <2>2. CASE ~Conflicted
    <3>1. /\ UNCHANGED <<dim, state, config>> /\ run' = [run EXCEPT !["job"] = run'["job"]]
          /\ run'["job"].pc = "upsert" /\ run'["job"].back = "idle"
          /\ state # NoState /\ run'["job"].next.model = state.model
      BY <1>10, <2>2, ApplyStep DEF Inside, work
    <3>2. Sized(run'["job"], dim, config)
      BY <3>1 DEF Dimensions, Sized, Reads
    <3> QED
      BY <3>1, <3>2, SizedKept
  <2> QED
    BY <2>1, <2>2
<1>11. CASE Upsert \/ Delete
  <2>1. /\ UNCHANGED <<dim, state, config>> /\ run' = [run EXCEPT !["job"] = run'["job"]]
        /\ run["job"].pc \in Guarded /\ run'["job"].next = run["job"].next
        /\ run'["job"].back = run["job"].back /\ run'["job"].pc \notin Reads
    BY <1>11, IncrementStep DEF Inside, work, Guarded, Reads
  <2>2. Sized(run'["job"], dim, config)
    BY <2>1 DEF Dimensions, Sized
  <2> QED
    BY <2>1, <2>2, SizedKept
<1>12. ASSUME NEW a \in Actors, WriteState(a)
       PROVE  Dimensions'
  BY <1>5, <1>8, <1>12, WriteRefused
<1> QED
  BY <1>1, <1>2, <1>3, <1>4, <1>6, <1>7, <1>9, <1>10, <1>11, <1>12, NextCases

----------------------------------------------------------------------------
(* A search and the publication it loaded.                                 *)

Answering == {"query", "verify", "answer"}

LEMMA NothingRead ==
    ASSUME run["search"].pc \notin Answering
    PROVE  Reading
BY DEF Reading, Answering

\* Another caller, or nobody, moves and opens nothing.
LEMMA ReadingKept ==
    ASSUME Typed, Reading, UNCHANGED <<state, published, run["search"]>>,
           \A a \in Actors : run'[a].pc = "open" => run[a].pc = "open",
           claim' = "building" \/ UNCHANGED claim
    PROVE  Reading'
BY DEF Reading, Later

LEMMA SearchReads ==
    ASSUME Typed, Roles, Publishing, Reading, Private("search")
    PROVE  Reading'
<1> DEFINE r == run["search"]
<1> USE ActorsAre
<1>1. r \in RunRecord /\ UNCHANGED backend
  BY LocalsAre, PrivateStep
<1>2. \A a \in Actors \ {"search"} : run'[a] = run[a]
  BY PrivateStep DEF Quiet, Drops, Typed
<1>3. CASE run'["search"].pc \notin Answering
  BY <1>3 DEF Reading, Answering
<1>4. CASE run'["search"].pc \in Answering
  <2>1. ~Drops("search")
    BY <1>4, IdleFits DEF Drops, Typed, Answering, Idle
  <2>2. /\ ~StartSearch /\ ~Answer /\ ~ReadState("search") /\ ~Walk("search")
    BY <1>1, <1>4, IdleFits DEF StartSearch, Answer, Go, ReadState, Walk, Typed, RunRecord, Answering
  <2>3. ~Ensure("search")
    <3>1. SUFFICES ASSUME Ensure("search") PROVE FALSE
      OBVIOUS
    <3>2. CASE StateMatches
      BY <1>1, <1>4, <3>1, <3>2 DEF Ensure, Typed, RunRecord, Answering
    <3>3. CASE ~StateMatches
      <4>1. run'["search"] = Rebuilding(r, "load")
        BY <3>1, <3>3 DEF Ensure, Typed
      <4> QED
        BY <1>4, <4>1, RebuildingIs DEF Answering
    <3> QED
      BY <3>2, <3>3
  <2>4. ~(Replace("search") /\ r.st.gen # state.gen)
    <3>1. SUFFICES ASSUME Replace("search"), r.st.gen # state.gen PROVE FALSE
      OBVIOUS
    <3>2. CASE r.left > 0
      BY <1>1, <1>4, <3>1, <3>2 DEF Replace, ConflictedRebuild, Typed, RunRecord, Answering
    <3>3. CASE ~(r.left > 0)
      BY <2>1, <3>1, <3>3, RaiseDrops DEF Replace, ConflictedRebuild, work
    <3> QED
      BY <3>2, <3>3
  <2>5. ~Stop("search")
    BY <2>1, RaiseDrops DEF Stop
  <2>6. Load \/ Query \/ Verify
    BY <2>2, <2>3, <2>4, <2>5 DEF Private
  <2>7. CASE Load
    <3>1. claim # "building"
      BY <2>1, <2>7, RaiseDrops DEF Load, work
    <3>2. /\ run'["search"].pc = "query" /\ run'["search"].st = state
          /\ run'["search"].cl = claim /\ run'["search"].loaded = published
      BY <1>1, <2>7, <3>1 DEF Load, Typed, RunRecord
    <3>3. \A a \in Actors : run'[a].pc # "open"
      BY <1>2, <3>1, <3>2 DEF Publishing, Progress, Guarded
    <3> QED
      BY <1>1, <3>1, <3>2, <3>3 DEF Reading, backend
  <2>8. CASE Query
    <3>1. /\ run["search"].pc = "query" /\ run'["search"].pc = "verify"
          /\ run'["search"].st = r.st /\ run'["search"].cl = r.cl
          /\ run'["search"].loaded = r.loaded /\ run'["search"].src = recs
      BY <1>1, <2>8 DEF Query, At, Typed, RunRecord
    <3>2. \A a \in Actors : run'[a].pc = "open" => run[a].pc = "open"
      BY <1>2, <3>1
    <3>3. claim # "building" => recs = published
      BY DEF Publishing, Whole, PublicationIsWhole, Typed, Claims
    <3> QED
      BY <1>1, <3>1, <3>2, <3>3 DEF Reading, Later, backend
  <2>9. CASE Verify
    <3>1. run["search"].pc = "verify"
      BY <2>9 DEF Verify, At
    <3>2. CASE r.st = state /\ r.cl = claim
      <4>1. /\ run'["search"].pc = "answer" /\ run'["search"].src = r.src
            /\ run'["search"].loaded = r.loaded
        BY <1>1, <2>9, <3>2 DEF Verify, Go, Typed, RunRecord
      <4>2. ~Later
        BY <3>2 DEF Later, Typed, States
      <4>3. r.src = r.loaded
        BY <3>1, <3>2, <4>2 DEF Reading
      <4> QED
        BY <4>1, <4>3 DEF Reading
    <3>3. CASE ~(r.st = state /\ r.cl = claim) /\ r.tries > 0
      BY <1>1, <1>4, <2>9, <3>3 DEF Verify, Typed, RunRecord, Answering
    <3>4. CASE ~(r.st = state /\ r.cl = claim) /\ ~(r.tries > 0)
      BY <2>1, <2>9, <3>4, RaiseDrops DEF Verify, work
    <3> QED
      BY <3>2, <3>3, <3>4
  <2> QED
    BY <2>6, <2>7, <2>8, <2>9
<1> QED
  BY <1>3, <1>4

\* What somebody else publishes does not mislead a search.
LEMMA InsideReads ==
    ASSUME Typed, Roles, Publishing, Dimensions, Reading, NEW a \in Actors, Inside(a),
           \/ Replace(a) /\ run[a].st.gen = state.gen
           \/ Claim(a) \/ DeleteAll(a) \/ UpsertAll(a)
           \/ a = "job" /\ ((Apply /\ ~Conflicted) \/ Upsert \/ Delete)
           \/ WriteState(a) /\ ~Overtaken(a)
           \/ Open(a)
    PROVE  Reading'
<1> USE ActorsAre
<1>1. \A b \in Actors \ {a} : run'[b] = run[b] /\ run[b].pc \notin Guarded
  BY OthersOutside
<1>2. CASE run'["search"].pc \notin Answering
  BY <1>2 DEF Reading, Answering
<1>3. CASE a = "search"
  <2>1. run'["search"].pc \notin Answering
    BY <1>3, ReplaceStep, RebuildStep, WriteStep, OpenStep DEF Answering
  <2> QED
    BY <1>2, <2>1
<1>4. CASE a # "search" /\ run["search"].pc \in Answering
  <2>1. UNCHANGED run["search"]
    BY <1>1, <1>4
  <2>2. ASSUME run'[a].pc # "open", UNCHANGED <<state, published>>,
               claim' = "building" \/ UNCHANGED claim
        PROVE  Reading'
    BY <1>1, <2>1, <2>2, ReadingKept
  <2>3. CASE Replace(a) /\ run[a].st.gen = state.gen
    <3>1. dim = DimOf[config]
      BY <1>4 DEF Dimensions, Reads, Answering
    <3> QED
      BY <2>2, <2>3, <3>1, ReplaceStep
  <2>4. CASE Claim(a) \/ DeleteAll(a) \/ UpsertAll(a)
    BY <2>2, <2>4, RebuildStep
  <2>5. CASE a = "job" /\ Apply /\ ~Conflicted
    BY <2>2, <2>5, ApplyStep
  <2>6. CASE a = "job" /\ (Upsert \/ Delete)
    BY <2>2, <2>6, IncrementStep
  <2>7. CASE WriteState(a) /\ ~Overtaken(a)
    <3>1. state'.gen > state.gen /\ state'.gen \in Nat /\ state.gen \in Nat
      BY <2>7, WriteStep, LocalsAre DEF Publishing, Progress, Guarded, Typed, States
    <3>2. run["search"].st.gen \in Nat
      BY LocalsAre DEF States
    <3>3. run["search"].pc \in {"query", "verify"} => run["search"].st.gen < state'.gen
      BY <3>1, <3>2 DEF Reading, Later
    <3> QED
      BY <2>1, <3>3 DEF Reading, Later
  <2>8. CASE Open(a)
    <3>1. run[a].pc = "open" /\ UNCHANGED <<state, published>>
      BY <2>8, OpenStep
    <3> QED
      BY <2>1, <3>1 DEF Reading, Later
  <2> QED
    BY <2>3, <2>4, <2>5, <2>6, <2>7, <2>8
<1> QED
  BY <1>1, <1>2, <1>3, <1>4

LEMMA NextReading ==
    ASSUME Typed, Roles, Publishing, Dimensions, Reading, [Next]_vars
    PROVE  Reading'
<1> USE ActorsAre
<1>1. CASE UNCHANGED vars
  BY <1>1, ReadingKept DEF vars
<1>2. CASE Outside
  BY <1>2, ReadingKept DEF Outside, backend
<1>3. ASSUME NEW a \in Actors \ {"search"}, Quiet(a) \/ Drops(a)
      PROVE  Reading'
  <2>1. UNCHANGED <<state, published, claim, run["search"]>>
    BY <1>3 DEF Quiet, Drops, backend, Typed
  <2>2. \A b \in Actors : run'[b].pc = "open" => run[b].pc = "open"
    BY <1>3, IdleFits DEF Quiet, Drops, Typed, Guarded
  <2> QED
    BY <2>1, <2>2, ReadingKept
<1>4. ASSUME Drops("search")
      PROVE  Reading'
  BY <1>4, IdleFits DEF Drops, Typed, Reading
<1>5. ASSUME NEW a \in {"job", "upkeep"}, Finish(a)
      PROVE  Reading'
  BY <1>3, <1>5, FinishStep
<1>6. ASSUME NEW a \in Actors, Private(a)
      PROVE  Reading'
  BY <1>3, <1>6, PrivateStep, SearchReads
<1>7. ASSUME NEW a \in Actors, WriteState(a)
      PROVE  Reading'
  BY <1>3, <1>4, <1>7, WriteRefused, WriteStep, InsideReads
<1>8. CASE Apply
  BY <1>3, <1>8, ApplyRefused, ApplyStep, InsideReads
<1>9. CASE Upsert \/ Delete
  BY <1>9, IncrementStep, InsideReads
<1>10. ASSUME NEW a \in Actors,
              \/ Replace(a) /\ run[a].st.gen = state.gen
              \/ Claim(a) \/ DeleteAll(a) \/ UpsertAll(a)
              \/ Open(a)
       PROVE  Reading'
  BY <1>10, ReplaceStep, RebuildStep, OpenStep, InsideReads
<1> QED
  BY <1>1, <1>2, <1>5, <1>6, <1>7, <1>8, <1>9, <1>10, NextCases

----------------------------------------------------------------------------
(* The invariant, and what follows from it.                                *)

\* What holds of a publication and of a search is kept by every step.
THEOREM IndexInvariant == Spec => []IInv
<1>1. Init => IInv
  <2> SUFFICES ASSUME Init PROVE IInv
    OBVIOUS
  <2>1. \A a \in Actors : run[a] = Idle
    BY DEF Init
  <2>2. state = NoState
    BY DEF Init
  <2>3. Dimensions
    BY <2>1, <2>2, IdleSized, DimensionsAre
  <2>4. Reading
    BY <2>1, IdleFits, ActorsAre DEF Reading
  <2> QED
    BY <2>3, <2>4, InitTyped, RolesInit, PublishingInit DEF IInv
<1>2. IInv /\ [Next]_vars => IInv'
  BY NextTyped, NextRoles, NextPublishing, NextDimensions, NextReading DEF IInv
<1> QED
  BY <1>1, <1>2, PTL DEF Spec

\* The types of the tree, the backend, the callers and the two locks.
THEOREM IndexTypeCorrect == Spec => []TypeOK
<1>1. IInv => TypeOK
  <2> SUFFICES ASSUME IInv PROVE TypeOK
    OBVIOUS
  <2>1. Cardinality(pubLock) <= 1
    <3>1. CASE pubLock = {}
      BY <3>1, FS_EmptySet
    <3>2. CASE pubLock # {}
      <4>1. PICK a \in pubLock : TRUE
        BY <3>2
      <4>2. pubLock = {a}
        BY <4>1 DEF IInv, Roles
      <4> QED
        <5>1. Cardinality({a}) = 1
          BY FS_Singleton
        <5> QED
          BY <4>2, <5>1
    <3> QED
      BY <3>1, <3>2
  <2> QED
    BY <2>1 DEF IInv, Typed, TypeOK, Layering, Claims, RunRecord
<1> QED
  BY <1>1, IndexInvariant, PTL

\* PublishedVectorStore: a ready collection is what was published with its
\* state, whatever was cut off in between.
THEOREM PublicationsAreWhole == Spec => []PublicationIsWhole
<1>1. IInv => PublicationIsWhole
  BY DEF IInv, Publishing, Whole
<1> QED
  BY <1>1, IndexInvariant, PTL

\* PublishedVectorStore.search: no answer mixes two publications.
THEOREM AnswersAreWhole == Spec => []AnswersOnePublication
<1>1. IInv => AnswersOnePublication
  BY DEF IInv, Reading, AnswersOnePublication, At
<1> QED
  BY <1>1, IndexInvariant, PTL


----------------------------------------------------------------------------
(* What the quiet steps do to the index lock, the checkpoints and the      *)
(* sources the callers read.                                               *)

\* A caller enters the index.
Takes(a) ==
    /\ LockFree(a) /\ indexLock' = indexLock \cup {a}
    /\ UNCHANGED <<layer, reworded>>
    /\ run[a].pc \in {"ensure", "rebuild", "sync"}
    /\ \/ run'[a].pc = "state" /\ run'[a].ckpt = state.ckpt
       \/ run'[a].pc = "compare" /\ run'[a].st = state /\ run'[a].ckpt = run[a].ckpt

\* It goes on inside.
Holds(a) ==
    /\ UNCHANGED <<indexLock, layer, reworded>>
    /\ run[a].pc \in Locked /\ run'[a].ckpt = run[a].ckpt
    /\ \/ run'[a].pc \in {"walk", "state"}
       \/ run'[a].pc \in {"replace", "apply"} /\ run'[a].src = Tree

\* It goes on outside.
Roams(a) ==
    /\ UNCHANGED indexLock
    /\ run[a].pc \notin Locked \cup {"finish"}
    /\ run'[a].pc \notin Locked \cup {"finish"}
    /\ run'[a].ckpt \in {run[a].ckpt, 0}
    /\ \/ /\ UNCHANGED <<layer, reworded>>
          /\ a # "search" /\ run[a].pc \in Early => run'[a].pc \in Early
       \/ /\ layer'.src = docs /\ reworded' = (a = "job" /\ Repeated)
          /\ a # "search" /\ run[a].pc = "refresh" /\ run'[a].pc \in {"ensure", "rebuild"}

\* The job finds its checkpoint in the published state.
Settles(a) ==
    /\ a = "job" /\ run[a].pc = "compare" /\ run[a].st.ckpt = job.seq
    /\ run'[a] = [Idle EXCEPT !.pc = "finish"]
    /\ indexLock' = indexLock \ {a} /\ UNCHANGED <<layer, reworded>>

LEMMA PrivateMoves ==
    ASSUME Typed, Roles, NEW a \in Actors, Private(a)
    PROVE  /\ \/ Drops(a)
              \/ Quiet(a) /\ (Takes(a) \/ Holds(a) \/ Roams(a) \/ Settles(a))
           /\ UNCHANGED docs
           /\ a = "job" /\ run["job"].back # "finish" => run'["job"].back # "finish"
<1> USE ActorsAre
<1> DEFINE M == Takes(a) \/ Holds(a) \/ Roams(a) \/ Settles(a)
           B == a = "job" /\ run["job"].back # "finish" => run'["job"].back # "finish"
<1>1. run[a] \in RunRecord
  BY LocalsAre
<1>2. ASSUME Drops(a)
      PROVE  B /\ UNCHANGED docs
  BY <1>2, IdleFits DEF Drops, Typed
<1>3. ASSUME NEW p \in Early \cup {"ensure", "sync", "load", "query", "verify", "answer"},
             UNCHANGED <<layer, reworded, indexLock>>, run'[a].pc = p,
             run[a].pc \in Early \cup {"ensure", "sync", "load", "query", "verify", "answer"},
             run'[a].ckpt \in {run[a].ckpt, 0},
             a # "search" /\ run[a].pc \in Early => p \in Early
      PROVE  Roams(a)
  BY <1>3 DEF Roams, Locked, Rebuilds, Guarded, Early
<1>4. ASSUME NEW b, b \in {"sync", "load", "finish", "compare"}, run'[a] = Rebuilding(run[a], b),
             b = "finish" => a = "upkeep"
      PROVE  run'[a].pc = "state" /\ run'[a].ckpt = state.ckpt /\ B
  BY <1>4, RebuildingIs
<1>5. ASSUME StartDerived(a), a \in {"job", "upkeep"}
      PROVE  M /\ B /\ UNCHANGED docs
  <2>1. run'[a] = [Idle EXCEPT !.pc = "snapshot", !.tries = StaleRetries]
        /\ run[a].pc = "idle" /\ UNCHANGED <<docs, layer, reworded, indexLock>>
    BY <1>5 DEF StartDerived, Typed, At, locks
  <2>2. run'[a].pc = "snapshot" /\ run'[a].ckpt = 0 /\ run'[a].back = "idle"
    BY <2>1 DEF Idle
  <2> QED
    BY <1>3, <2>1, <2>2 DEF Early
<1>6. ASSUME Snapshot(a), a \in {"job", "upkeep"}
      PROVE  M /\ B /\ UNCHANGED docs
  <2>1. run'[a].pc = "refresh" /\ run'[a].ckpt = run[a].ckpt /\ run'[a].back = run[a].back
        /\ run[a].pc = "snapshot" /\ UNCHANGED <<docs, layer, reworded, indexLock>>
    BY <1>1, <1>6 DEF Snapshot, Typed, At, locks, RunRecord
  <2> QED
    BY <1>3, <2>1 DEF Early
<1>7. ASSUME RefreshLayers(a), a \in {"job", "upkeep"}
      PROVE  Drops(a) \/ (M /\ B /\ UNCHANGED docs)
  <2>1. CASE docs # run[a].src[Layers].src /\ ~(run[a].tries > 0)
    BY <1>7, <2>1, RaiseDrops DEF RefreshLayers, work
  <2>2. CASE docs # run[a].src[Layers].src /\ run[a].tries > 0
    <3>1. run'[a].pc = "snapshot" /\ run'[a].ckpt = run[a].ckpt /\ run'[a].back = run[a].back
          /\ run[a].pc = "refresh" /\ UNCHANGED <<docs, layer, reworded, indexLock>>
      BY <1>1, <1>7, <2>2 DEF RefreshLayers, Typed, At, locks, RunRecord
    <3> QED
      BY <1>3, <3>1 DEF Early
  <2>3. CASE docs = run[a].src[Layers].src
    <3>1. run'[a].pc = (IF a = "job" THEN "ensure" ELSE "rebuild") /\ run'[a].ckpt = 0
          /\ run'[a].back = "idle"
      BY <1>7, <2>3 DEF RefreshLayers, Call, Typed, Idle
    <3>2. /\ \E t \in Texts : layer' = IF docs = NoDocs THEN NoLayer ELSE [src |-> docs, text |-> t]
          /\ UNCHANGED <<docs, indexLock>> /\ run[a].pc = "refresh"
      BY <1>7, <2>3 DEF RefreshLayers, At, locks
    <3>3. layer'.src = docs /\ reworded' = (a = "job" /\ Repeated)
      BY <1>7, <2>3, <3>2 DEF NoLayer, RefreshLayers
    <3>4. Roams(a)
      BY <1>7, <3>1, <3>2, <3>3 DEF Roams, Locked, Rebuilds, Guarded
    <3> QED
      BY <3>1, <3>2, <3>4
  <2> QED
    BY <2>1, <2>2, <2>3
<1>8. ASSUME StartSearch \/ Load \/ Query \/ Verify \/ Answer, a = "search"
      PROVE  Drops(a) \/ (M /\ B /\ UNCHANGED docs)
  <2>1. CASE StartSearch
    <3>1. run'[a].pc = "ensure" /\ run'[a].ckpt = run[a].ckpt /\ run[a].pc = "idle"
          /\ UNCHANGED <<docs, layer, reworded, indexLock>>
      BY <1>1, <1>8, <2>1 DEF StartSearch, Go, At, Typed, RunRecord, locks
    <3> QED
      BY <1>3, <1>8, <3>1 DEF Early
  <2>2. CASE Load
    <3>1. CASE claim = "building"
      BY <1>8, <2>2, <3>1, RaiseDrops DEF Load, work
    <3>2. CASE claim # "building"
      <4>1. run'[a].pc = "query" /\ run'[a].ckpt = run[a].ckpt /\ run[a].pc = "load"
            /\ UNCHANGED <<docs, layer, reworded, indexLock>>
        BY <1>1, <1>8, <2>2, <3>2 DEF Load, Typed, RunRecord, At, locks
      <4> QED
        BY <1>3, <1>8, <4>1 DEF Early
    <3> QED
      BY <3>1, <3>2
  <2>3. CASE Query
    <3>1. run'[a].pc = "verify" /\ run'[a].ckpt = run[a].ckpt /\ run[a].pc = "query"
          /\ UNCHANGED <<docs, layer, reworded, indexLock>>
      BY <1>1, <1>8, <2>3 DEF Query, At, Typed, RunRecord, locks
    <3> QED
      BY <1>3, <1>8, <3>1 DEF Early
  <2>4. CASE Verify
    <3> DEFINE ok == run["search"].st = state /\ run["search"].cl = claim
    <3>1. CASE ok
      <4>1. run'[a].pc = "answer" /\ run'[a].ckpt = run[a].ckpt /\ run[a].pc = "verify"
            /\ UNCHANGED <<docs, layer, reworded, indexLock>>
        BY <1>1, <1>8, <2>4, <3>1 DEF Verify, Go, At, Typed, RunRecord, locks
      <4> QED
        BY <1>3, <1>8, <4>1 DEF Early
    <3>2. CASE ~ok /\ run["search"].tries > 0
      <4>1. run'[a].pc = "load" /\ run'[a].ckpt = run[a].ckpt /\ run[a].pc = "verify"
            /\ UNCHANGED <<docs, layer, reworded, indexLock>>
        BY <1>1, <1>8, <2>4, <3>2 DEF Verify, At, Typed, RunRecord, locks
      <4> QED
        BY <1>3, <1>8, <4>1 DEF Early
    <3>3. CASE ~ok /\ ~(run["search"].tries > 0)
      BY <1>8, <2>4, <3>3, RaiseDrops DEF Verify, work
    <3> QED
      BY <3>1, <3>2, <3>3
  <2>5. CASE Answer
    <3>1. run'[a] = Idle /\ run[a].pc = "answer" /\ UNCHANGED <<docs, layer, reworded, indexLock>>
      BY <1>8, <2>5 DEF Answer, At, Typed, locks
    <3> QED
      BY <1>3, <1>8, <3>1, IdleFits DEF Early
  <2> QED
    BY <1>8, <2>1, <2>2, <2>3, <2>4, <2>5
<1>9. ASSUME Ensure(a), a \in {"job", "search"}
      PROVE  M /\ B /\ UNCHANGED docs
  <2> DEFINE after == IF a = "job" THEN "sync" ELSE "load"
  <2>1. CASE StateMatches
    <3>1. run'[a].pc = after /\ run'[a].ckpt = run[a].ckpt /\ run'[a].back = run[a].back
          /\ run[a].pc = "ensure" /\ UNCHANGED <<docs, layer, reworded, indexLock>>
      BY <1>1, <1>9, <2>1 DEF Ensure, At, Typed, RunRecord
    <3> QED
      BY <1>3, <3>1 DEF Early
  <2>2. CASE ~StateMatches
    <3>1. run'[a] = Rebuilding(run[a], after) /\ run[a].pc = "ensure" /\ LockFree(a)
          /\ indexLock' = indexLock \cup {a} /\ UNCHANGED <<docs, layer, reworded>>
      BY <1>9, <2>2 DEF Ensure, At, Typed
    <3> QED
      BY <1>4, <3>1 DEF Takes
  <2> QED
    BY <2>1, <2>2
<1>10. ASSUME Rebuild(a), a = "upkeep"
       PROVE  M /\ B /\ UNCHANGED docs
  <2>1. run'[a] = Rebuilding(run[a], "finish") /\ run[a].pc = "rebuild" /\ LockFree(a)
        /\ indexLock' = indexLock \cup {a} /\ UNCHANGED <<docs, layer, reworded>>
    BY <1>10 DEF Rebuild, At, Typed
  <2> QED
    BY <1>4, <1>10, <2>1 DEF Takes
<1>11. ASSUME Synchronize, a = "job"
       PROVE  M /\ B /\ UNCHANGED docs
  <2>0. run[a].pc = "sync" /\ LockFree(a) /\ indexLock' = indexLock \cup {a}
        /\ UNCHANGED <<docs, layer, reworded>>
    BY <1>11 DEF Synchronize, At
  <2>1. CASE StateMatches
    <3>1. run'[a].pc = "compare" /\ run'[a].st = state /\ run'[a].ckpt = run[a].ckpt
          /\ run'[a].back = run[a].back
      BY <1>1, <1>11, <2>1 DEF Synchronize, Typed, RunRecord
    <3> QED
      BY <2>0, <3>1, <1>11 DEF Takes
  <2>2. CASE ~StateMatches
    <3>1. run'[a] = Rebuilding(run[a], "compare")
      BY <1>11, <2>2 DEF Synchronize, Typed
    <3> QED
      BY <1>4, <2>0, <3>1 DEF Takes
  <2> QED
    BY <2>1, <2>2
<1>12. ASSUME Compare, a = "job"
       PROVE  Drops(a) \/ (M /\ B /\ UNCHANGED docs)
  <2>0. run[a].pc = "compare" /\ UNCHANGED <<docs, layer, reworded, backend, work>>
    BY <1>12 DEF Compare, At
  <2>1. CASE run["job"].st.ckpt = job.seq
    <3>1. run'[a] = [Idle EXCEPT !.pc = "finish"] /\ indexLock' = indexLock \ {a}
      BY <1>12, <2>1 DEF Compare, Typed
    <3>2. run'[a].back = "idle"
      BY <3>1 DEF Idle
    <3> QED
      BY <1>12, <2>0, <2>1, <3>1, <3>2 DEF Settles
  <2>2. CASE run["job"].st.ckpt # job.seq /\ run["job"].st.ckpt > job.seq
    <3>1. Raise("job")
      BY <1>12, <2>2 DEF Compare
    <3> QED
      BY <1>12, <2>0, <3>1, RaiseDrops DEF work
  <2>3. CASE run["job"].st.ckpt # job.seq /\ ~(run["job"].st.ckpt > job.seq)
    <3>1. run' = [run EXCEPT !["job"].pc = "apply", !["job"].src = Tree] /\ UNCHANGED locks
      BY <1>12, <2>3 DEF Compare
    <3>2. run'[a].pc = "apply" /\ run'[a].src = Tree /\ run'[a].ckpt = run[a].ckpt
          /\ run'[a].back = run[a].back
      BY <1>1, <1>12, <3>1 DEF Typed, RunRecord
    <3> QED
      BY <2>0, <3>1, <3>2 DEF Holds, Locked, locks
  <2> QED
    BY <2>1, <2>2, <2>3
<1>13. ASSUME ReadState(a) \/ Walk(a)
       PROVE  M /\ B /\ UNCHANGED docs
  <2>1. run[a].pc \in {"state", "walk"} /\ UNCHANGED <<docs, layer, reworded, indexLock>>
    BY <1>13 DEF ReadState, Walk, At, locks
  <2>2. run'[a].ckpt = run[a].ckpt /\ run'[a].back = run[a].back
    BY <1>1, <1>13 DEF ReadState, Walk, Typed, RunRecord
  <2>3. run'[a].pc = "walk" \/ (run'[a].pc = "replace" /\ run'[a].src = Tree)
    BY <1>1, <1>13 DEF ReadState, Walk, Typed, RunRecord
  <2> QED
    BY <2>1, <2>2, <2>3 DEF Holds, Locked, Rebuilds
<1>14. ASSUME Replace(a), run[a].st.gen # state.gen
       PROVE  Drops(a) \/ (M /\ B /\ UNCHANGED docs)
  <2>0. run[a].pc = "replace" /\ UNCHANGED <<docs, layer, reworded, backend, work>> /\ ConflictedRebuild(a)
    BY <1>14 DEF Replace, At
  <2>1. CASE run[a].left > 0
    <3>1. run'[a].pc = "state" /\ run'[a].ckpt = run[a].ckpt /\ run'[a].back = run[a].back
          /\ UNCHANGED indexLock
      BY <1>1, <2>0, <2>1 DEF ConflictedRebuild, Typed, RunRecord, locks
    <3> QED
      BY <2>0, <3>1 DEF Holds, Locked, Rebuilds
  <2>2. CASE ~(run[a].left > 0)
    BY <2>0, <2>2, RaiseDrops DEF ConflictedRebuild, work
  <2> QED
    BY <2>1, <2>2
<1>15. ASSUME Stop(a)
       PROVE  Drops(a)
  BY <1>15, RaiseDrops DEF Stop
<1>16. Drops(a) \/ (M /\ B /\ UNCHANGED docs)
  BY <1>5, <1>6, <1>7, <1>8, <1>9, <1>10, <1>11, <1>12, <1>13, <1>14, <1>15, Zenon DEF Private
<1> QED
  BY <1>2, <1>16, PrivateStep


----------------------------------------------------------------------------
(* With one index object, one caller at a time is inside it.               *)

\* Who gets in was free to, and who leaves, leaves the lock behind.
LEMMA ExclusiveKept ==
    ASSUME Typed, Exclusive, NEW a \in Actors,
           \A b \in Actors \ {a} : run'[b] = run[b],
           \/ indexLock' = indexLock /\ (run'[a].pc \in Locked => run[a].pc \in Locked)
           \/ indexLock' = indexLock \ {a} /\ run'[a].pc \notin Locked
           \/ indexLock' = indexLock \cup {a} /\ indexLock \ {a} = {}
    PROVE  Exclusive'
BY DEF Exclusive, Typed

LEMMA NextExclusive ==
    ASSUME OneIndex, Typed, Roles, Publishing, Exclusive, [Next]_vars
    PROVE  Exclusive'
<1> USE ActorsAre
<1>1. ASSUME UNCHANGED <<run, indexLock>>
      PROVE  Exclusive'
  BY <1>1 DEF Exclusive
<1>2. ASSUME NEW a \in Actors, Drops(a)
      PROVE  Exclusive'
  BY <1>2, IdleFits, ExclusiveKept DEF Drops, Typed, Locked, Guarded, Rebuilds
<1>3. ASSUME NEW a \in Actors, Quiet(a) \/ Inside(a),
             \/ UNCHANGED indexLock /\ (run'[a].pc \in Locked => run[a].pc \in Locked)
             \/ indexLock' = indexLock \ {a} /\ run'[a].pc \notin Locked
             \/ indexLock' = indexLock \cup {a} /\ LockFree(a)
      PROVE  Exclusive'
  <2>1. \A b \in Actors \ {a} : run'[b] = run[b]
    BY <1>3 DEF Quiet, Inside, Typed
  <2> QED
    BY <1>3, <2>1, ExclusiveKept DEF LockFree
<1>4. ASSUME NEW a \in {"job", "upkeep"}, Finish(a)
      PROVE  Exclusive'
  <2>1. Quiet(a) /\ run'[a] = Idle /\ UNCHANGED indexLock
    BY <1>4, FinishStep
  <2> QED
    BY <1>3, <2>1, IdleFits DEF Locked, Guarded, Rebuilds
<1>5. ASSUME NEW a \in Actors, Private(a)
      PROVE  Exclusive'
  <2>1. CASE Drops(a)
    BY <1>2, <2>1
  <2>2. CASE Quiet(a) /\ Takes(a)
    BY <1>3, <2>2 DEF Takes
  <2>3. CASE Quiet(a) /\ Holds(a)
    BY <1>3, <2>3 DEF Holds
  <2>4. CASE Quiet(a) /\ Roams(a)
    BY <1>3, <2>4 DEF Roams
  <2>5. CASE Quiet(a) /\ Settles(a)
    <3>1. run'[a].pc = "finish"
      BY <2>5 DEF Settles, Idle
    <3> QED
      BY <1>3, <2>5, <3>1 DEF Settles, Locked, Guarded, Rebuilds
  <2> QED
    BY <1>5, <2>1, <2>2, <2>3, <2>4, <2>5, PrivateMoves
<1>6. ASSUME NEW a \in Actors, Replace(a), run[a].st.gen = state.gen
      PROVE  Exclusive'
  <2>1. Inside(a) /\ run[a].pc = "replace" /\ run'[a].pc = "claim" /\ UNCHANGED indexLock
    BY <1>6, ReplaceStep
  <2> QED
    BY <1>3, <2>1 DEF Locked, Rebuilds
<1>7. ASSUME NEW a \in Actors, Claim(a) \/ DeleteAll(a) \/ UpsertAll(a)
      PROVE  Exclusive'
  <2>1. Inside(a) /\ run[a].pc \in {"claim", "clear", "fill"} /\ UNCHANGED indexLock
    BY <1>7, RebuildStep
  <2> QED
    BY <1>3, <2>1 DEF Locked, Rebuilds
<1>8. ASSUME NEW a \in Actors, WriteState(a)
      PROVE  Exclusive'
  <2>1. CASE Overtaken(a)
    BY <1>2, <1>8, <2>1, WriteRefused
  <2>2. CASE ~Overtaken(a)
    <3>1. Inside(a) /\ run[a].pc = "publish" /\ UNCHANGED indexLock
      BY <1>8, <2>2, WriteStep
    <3> QED
      BY <1>3, <3>1 DEF Locked, Guarded
  <2> QED
    BY <2>1, <2>2
<1>9. ASSUME NEW a \in Actors, Open(a)
      PROVE  Exclusive'
  <2>1. /\ Inside(a) /\ run[a].pc = "open"
        /\ run'[a].pc \in {"finish", "sync", "load", "compare"}
        /\ indexLock' = IF run'[a].pc = "compare" THEN indexLock ELSE indexLock \ {a}
    BY <1>9, OpenStep
  <2> QED
    BY <1>3, <2>1 DEF Locked, Guarded, Rebuilds
<1>10. CASE Apply
  <2>1. CASE Conflicted
    <3>1. CASE Drops("job")
      BY <1>2, <3>1
    <3>2. CASE Quiet("job") /\ UNCHANGED locks /\ run'["job"].pc = "sync"
      BY <1>3, <3>2 DEF locks, Locked, Guarded, Rebuilds
    <3> QED
      BY <1>10, <2>1, <3>1, <3>2, ApplyRefused
  <2>2. CASE ~Conflicted
    <3>1. Inside("job") /\ run["job"].pc = "apply" /\ UNCHANGED indexLock
      BY <1>10, <2>2, ApplyStep
    <3> QED
      BY <1>3, <3>1 DEF Locked
  <2> QED
    BY <2>1, <2>2
<1>11. CASE Upsert \/ Delete
  <2>1. Inside("job") /\ run["job"].pc \in {"upsert", "delete"} /\ UNCHANGED indexLock
    BY <1>11, IncrementStep
  <2> QED
    BY <1>3, <2>1 DEF Locked, Guarded
<1>12. CASE Outside
  BY <1>1, <1>12 DEF Outside, locks
<1> QED
  BY <1>1, <1>4, <1>5, <1>6, <1>7, <1>8, <1>9, <1>10, <1>11, <1>12, NextCases DEF vars, locks


----------------------------------------------------------------------------
(* Checkpoints.                                                            *)

LEMMA CheckpointsKept ==
    ASSUME Typed, Checkpoints, NEW a \in Actors,
           \A b \in Actors \ {a} : run'[b] = run[b],
           job'.seq = job.seq,
           state'.ckpt <= job.seq,
           run'[a].ckpt <= job.seq,
           run'[a].pc \in Guarded /\ run'[a].back # "idle" => run'[a].next.ckpt = run'[a].ckpt,
           run'[a].pc \in Guarded /\ run'[a].back = "idle" =>
              a = "job" /\ run'[a].next.ckpt = job.seq,
           run'["job"].pc = "compare" => run'["job"].st.ckpt = state'.ckpt,
           a = "job" /\ run["job"].back # "finish" => run'["job"].back # "finish"
    PROVE  Checkpoints'
BY ActorsAre DEF Checkpoints

\* The one that is in the guard is the only one inside the index.
LEMMA AloneInside ==
    ASSUME Exclusive, NEW a \in Actors, run[a].pc \in Locked, NEW b \in Actors,
           run[b].pc \in Locked
    PROVE  a = b
BY DEF Exclusive

LEMMA NextCheckpoints ==
    ASSUME Typed, Typed', Roles, Publishing, Exclusive, Checkpoints, [Next]_vars
    PROVE  Checkpoints'
<1> USE ActorsAre
<1>0. state.ckpt \in Nat /\ job.seq \in Nat /\ state.ckpt <= job.seq
      /\ \A a \in Actors : run[a].ckpt \in Nat /\ run[a].ckpt <= job.seq
  BY BoundsAreNats, LocalsAre DEF Typed, States, Checkpoints
<1>1. ASSUME UNCHANGED <<run, state, job>>
      PROVE  Checkpoints'
  BY <1>1 DEF Checkpoints
<1>2. ASSUME NEW a \in Actors, Drops(a)
      PROVE  Checkpoints'
  <2>1. /\ run'[a] = Idle /\ \A b \in Actors \ {a} : run'[b] = run[b]
        /\ UNCHANGED <<state, job>>
    BY <1>2 DEF Drops, Typed, backend
  <2> QED
    BY <1>0, <2>1, IdleFits, CheckpointsKept DEF Checkpoints
<1>3. ASSUME NEW a \in Actors, Quiet(a), UNCHANGED job,
             run'[a].ckpt <= job.seq,
             run'["job"].pc = "compare" =>
                run'["job"].st.ckpt = state.ckpt \/ a # "job",
             a = "job" /\ run["job"].back # "finish" => run'["job"].back # "finish"
      PROVE  Checkpoints'
  <2>1. \A b \in Actors \ {a} : run'[b] = run[b]
    BY <1>3 DEF Quiet, Typed
  <2>2. UNCHANGED state /\ run'[a].pc \notin Guarded
    BY <1>3 DEF Quiet, backend
  <2>3. run'["job"].pc = "compare" => run'["job"].st.ckpt = state.ckpt
    BY <1>3, <2>1 DEF Checkpoints
  <2> QED
    BY <1>0, <1>3, <2>1, <2>2, <2>3, CheckpointsKept
<1>4. ASSUME NEW a \in {"job", "upkeep"}, Finish(a)
      PROVE  Checkpoints'
  <2>1. Quiet(a) /\ run'[a] = Idle /\ job'.seq = job.seq
    BY <1>4, FinishStep DEF Typed
  <2>2. UNCHANGED state /\ \A b \in Actors \ {a} : run'[b] = run[b]
    BY <2>1 DEF Quiet, backend, Typed
  <2> QED
    BY <1>0, <2>1, <2>2, IdleFits, CheckpointsKept DEF Checkpoints
<1>5. ASSUME NEW a \in Actors, Private(a)
      PROVE  Checkpoints'
  <2>0. UNCHANGED job
    BY <1>5, PrivateStep
  <2>1. CASE Drops(a)
    BY <1>2, <2>1
  <2>2. CASE Quiet(a) /\ Takes(a)
    <3>1. run'[a].ckpt <= job.seq
      BY <1>0, <2>2 DEF Takes
    <3>2. run'[a].pc = "compare" => run'[a].st.ckpt = state.ckpt
      BY <2>2 DEF Takes
    <3> QED
      BY <1>3, <1>5, <2>0, <2>2, <3>1, <3>2, PrivateMoves
  <2>3. CASE Quiet(a) /\ Holds(a)
    BY <1>0, <1>3, <1>5, <2>0, <2>3, PrivateMoves DEF Holds
  <2>4. CASE Quiet(a) /\ Roams(a)
    <3>1. run'[a].ckpt <= job.seq
      BY <1>0, <2>4 DEF Roams
    <3> QED
      BY <1>3, <1>5, <2>0, <2>4, <3>1, PrivateMoves DEF Roams, Locked
  <2>5. CASE Quiet(a) /\ Settles(a)
    <3>1. run'[a].pc = "finish" /\ run'[a].ckpt = 0
      BY <2>5 DEF Settles, Idle
    <3> QED
      BY <1>0, <1>3, <1>5, <2>0, <2>5, <3>1, PrivateMoves
  <2> QED
    BY <1>5, <2>1, <2>2, <2>3, <2>4, <2>5, PrivateMoves
\* Whoever is in the guard is the job, or the job is not about to compare.
<1>6. ASSUME NEW a \in Actors, Inside(a), run[a].pc \in Locked,
             run'[a].pc # "compare",
             state'.ckpt <= job.seq,
             run'[a].ckpt <= job.seq,
             run'[a].pc \in Guarded /\ run'[a].back # "idle" => run'[a].next.ckpt = run'[a].ckpt,
             run'[a].pc \in Guarded /\ run'[a].back = "idle" =>
                a = "job" /\ run'[a].next.ckpt = job.seq,
             run'[a].back \in {run[a].back, "idle"}
      PROVE  Checkpoints'
  <2>1. \A b \in Actors \ {a} : run'[b] = run[b]
    BY <1>6 DEF Inside, Typed
  <2>2. UNCHANGED job
    BY <1>6 DEF Inside, work
  <2>3. run'["job"].pc # "compare"
    <3>1. CASE a = "job"
      BY <1>6, <3>1
    <3>2. CASE a # "job"
      <4>1. run["job"].pc \notin Locked
        BY <1>6, <3>2, AloneInside
      <4> QED
        BY <2>1, <3>2, <4>1 DEF Locked
    <3> QED
      BY <3>1, <3>2
  <2>4. run["job"].back # "finish"
    BY DEF Checkpoints
  <2> QED
    BY <1>6, <2>1, <2>2, <2>3, <2>4, CheckpointsKept
<1>7. ASSUME NEW a \in Actors, Replace(a), run[a].st.gen = state.gen
      PROVE  Checkpoints'
  <2>1. /\ Inside(a) /\ run[a].pc = "replace" /\ run'[a].pc = "claim"
        /\ run[a].back # "idle" /\ run'[a].back = run[a].back /\ run'[a].ckpt = run[a].ckpt
        /\ run'[a].next.ckpt = run[a].ckpt
        /\ state' = state \/ state' = NoState
    BY <1>7, ReplaceStep
  <2>2. state'.ckpt <= job.seq
    BY <1>0, <2>1 DEF NoState
  <2> QED
    BY <1>0, <1>6, <2>1, <2>2 DEF Locked, Rebuilds
<1>8. ASSUME NEW a \in Actors, Claim(a) \/ DeleteAll(a) \/ UpsertAll(a)
      PROVE  Checkpoints'
  <2>1. /\ Inside(a) /\ run[a].pc \in {"claim", "clear", "fill"} /\ run[a].back # "idle"
        /\ run'[a].back = run[a].back /\ run'[a].next = run[a].next
        /\ run'[a].ckpt = run[a].ckpt /\ UNCHANGED state
        /\ run'[a].pc \in {"clear", "fill", "publish"}
    BY <1>8, RebuildStep
  <2>2. run[a].next.ckpt = run[a].ckpt
    BY <2>1 DEF Checkpoints, Guarded
  <2> QED
    BY <1>0, <1>6, <2>1, <2>2 DEF Locked, Rebuilds
<1>9. ASSUME NEW a \in Actors, WriteState(a)
      PROVE  Checkpoints'
  <2>1. CASE Overtaken(a)
    BY <1>2, <1>9, <2>1, WriteRefused
  <2>2. CASE ~Overtaken(a)
    <3>1. /\ Inside(a) /\ run[a].pc = "publish" /\ run'[a].pc = "open"
          /\ run'[a].back = run[a].back /\ run'[a].next = run[a].next
          /\ run'[a].ckpt = run[a].ckpt /\ state' = run[a].next
      BY <1>9, <2>2, WriteStep
    <3>2. /\ run[a].back # "idle" => run[a].next.ckpt = run[a].ckpt
          /\ run[a].back = "idle" => a = "job" /\ run[a].next.ckpt = job.seq
      BY <3>1 DEF Checkpoints, Guarded
    <3>3. state'.ckpt <= job.seq
      BY <1>0, <3>1, <3>2
    <3> QED
      BY <1>0, <1>6, <3>1, <3>2, <3>3 DEF Locked, Guarded
  <2> QED
    BY <2>1, <2>2
<1>10. ASSUME NEW a \in Actors, Open(a)
      PROVE  Checkpoints'
  <2>1. /\ Inside(a) /\ run[a].pc = "open" /\ run'[a].ckpt = 0 /\ UNCHANGED state
        /\ run'[a].pc \in {"finish", "sync", "load", "compare"}
        /\ run'[a].pc = "compare" => run'[a].st = run[a].next
        /\ run'[a].back = "idle"
    BY <1>10, OpenStep
  <2>2. state = run[a].next
    BY <2>1 DEF Publishing, Progress
  <2>3. \A b \in Actors \ {a} : run'[b] = run[b]
    BY <2>1 DEF Inside, Typed
  <2>4. UNCHANGED job
    BY <2>1 DEF Inside, work
  <2>5. run'["job"].pc = "compare" => run'["job"].st.ckpt = state.ckpt
    BY <2>1, <2>2, <2>3 DEF Checkpoints
  <2> QED
    BY <1>0, <2>1, <2>3, <2>4, <2>5, CheckpointsKept DEF Guarded
<1>11. CASE Apply
  <2>1. CASE Conflicted
    <3>1. CASE Drops("job")
      BY <1>2, <3>1
    <3>2. CASE Quiet("job") /\ run'["job"].pc = "sync" /\ run'["job"].ckpt = run["job"].ckpt
               /\ run'["job"].back = run["job"].back
      BY <1>0, <1>3, <1>11, <2>1, <3>2, ApplyRefused
    <3> QED
      BY <1>11, <2>1, <3>1, <3>2, ApplyRefused
  <2>2. CASE ~Conflicted
    <3>1. /\ Inside("job") /\ run["job"].pc = "apply" /\ run'["job"].pc = "upsert"
          /\ run["job"].back = "idle" /\ run'["job"].back = "idle"
          /\ run'["job"].ckpt = run["job"].ckpt /\ run'["job"].next.ckpt = job.seq
          /\ UNCHANGED state
      BY <1>11, <2>2, ApplyStep
    <3> QED
      BY <1>0, <1>6, <3>1 DEF Locked
  <2> QED
    BY <2>1, <2>2
<1>12. CASE Upsert \/ Delete
  <2>1. /\ Inside("job") /\ run["job"].pc \in {"upsert", "delete"}
        /\ run["job"].back = "idle" /\ run'["job"].back = "idle"
        /\ run'["job"].ckpt = run["job"].ckpt /\ run'["job"].next = run["job"].next
        /\ run'["job"].pc \in {"delete", "publish"} /\ UNCHANGED state
    BY <1>12, IncrementStep
  <2>2. run["job"].next.ckpt = job.seq
    BY <2>1 DEF Checkpoints, Guarded
  <2> QED
    BY <1>0, <1>6, <2>1, <2>2 DEF Locked, Guarded
<1>13. CASE Outside
  <2>1. CASE CommitJob
    <3>1. job'.seq = job.seq + 1 /\ UNCHANGED <<run, state>> /\ run["job"].pc = "idle"
      BY <1>13, <2>1 DEF Outside, CommitJob, backend, Roles
    <3>2. \A a \in Actors : run[a].pc \in Guarded => run[a].back # "idle"
      BY <3>1 DEF Checkpoints, Guarded
    <3> QED
      BY <1>0, <3>1, <3>2 DEF Checkpoints
  <2>2. CASE CommitUpkeep \/ Reconfigure
    BY <1>1, <1>13, <2>2 DEF Outside, CommitUpkeep, Reconfigure, backend
  <2> QED
    BY <1>13, <2>1, <2>2 DEF Outside
<1> QED
  BY <1>1, <1>4, <1>5, <1>7, <1>8, <1>9, <1>10, <1>11, <1>12, <1>13, NextCases DEF vars, backend, work


----------------------------------------------------------------------------
(* The layers and the documents they were written from.                    *)

LEMMA OverviewsKept ==
    ASSUME Typed, Overviews, NEW a \in Actors,
           \A b \in Actors \ {a} : run'[b] = run[b],
           UNCHANGED <<docs, job, upkeep>>,
           \/ layer'.src = docs
           \/ layer' = layer /\ (a # "search" /\ run[a].pc \in Early => run'[a].pc \in Early),
           run["job"].pc \in Early /\ state.ckpt < job.seq /\ run[a].ckpt < job.seq =>
              state'.ckpt < job.seq /\ run'[a].ckpt < job.seq
    PROVE  Overviews'
<1> USE ActorsAre
<1>1. CASE layer'.src = docs
  BY <1>1 DEF Overviews
<1>2. CASE layer' = layer /\ (a # "search" /\ run[a].pc \in Early => run'[a].pc \in Early)
  <2>1. CASE layer.src = docs
    BY <1>2, <2>1 DEF Overviews
  <2>2. CASE upkeep.owed /\ run["upkeep"].pc \in Early
    BY <1>2, <2>2 DEF Overviews
  <2>3. CASE /\ job.owed /\ run["job"].pc \in Early
             /\ state.ckpt < job.seq /\ \A b \in Actors : run[b].ckpt < job.seq
    <3>1. run'["job"].pc \in Early
      BY <1>2, <2>3
    <3>2. state'.ckpt < job.seq /\ \A b \in Actors : run'[b].ckpt < job.seq
      BY <2>3
    <3> QED
      BY <2>3, <3>1, <3>2 DEF Overviews
  <2> QED
    BY <2>1, <2>2, <2>3 DEF Overviews
<1> QED
  BY <1>1, <1>2

LEMMA NextOverviews ==
    ASSUME Typed, Typed', Roles, Publishing, Checkpoints, Overviews, [Next]_vars
    PROVE  Overviews'
<1> USE ActorsAre
<1>0. state.ckpt \in Nat /\ job.seq \in Nat /\ \A a \in Actors : run[a].ckpt \in Nat
  BY BoundsAreNats, LocalsAre DEF Typed, States
<1>1. ASSUME NEW a \in Actors, Drops(a)
      PROVE  Overviews'
  <2>1. /\ run'[a] = Idle /\ \A b \in Actors \ {a} : run'[b] = run[b]
        /\ UNCHANGED <<docs, layer, reworded, state, job, upkeep>>
    BY <1>1 DEF Drops, Typed, backend
  <2>2. run'[a].pc \in Early /\ run'[a].ckpt = 0
    BY <2>1, IdleFits DEF Early
  <2> QED
    BY <1>0, <2>1, <2>2, OverviewsKept
<1>2. ASSUME NEW a \in Actors, Inside(a), run[a].pc \notin Early,
             run'[a].ckpt \in {run[a].ckpt, 0},
             run["job"].pc \in Early /\ state.ckpt < job.seq /\ run[a].ckpt < job.seq =>
                state'.ckpt < job.seq
      PROVE  Overviews'
  <2>1. /\ \A b \in Actors \ {a} : run'[b] = run[b]
        /\ UNCHANGED <<docs, layer, reworded, job, upkeep>>
    BY <1>2 DEF Inside, Typed, work
  <2> QED
    BY <1>0, <1>2, <2>1, OverviewsKept
<1>3. ASSUME NEW a \in Actors, Private(a)
      PROVE  Overviews'
  <2>1. CASE Drops(a)
    BY <1>1, <2>1
  <2>2. CASE Quiet(a) /\ (Takes(a) \/ Holds(a) \/ Roams(a) \/ Settles(a))
    <3>1. UNCHANGED <<docs, job, upkeep, state>>
      BY <1>3, PrivateStep, PrivateMoves DEF backend
    <3>2. \A b \in Actors \ {a} : run'[b] = run[b]
      BY <2>2 DEF Quiet, Typed
    <3>3. run'[a].ckpt \in {run[a].ckpt, state.ckpt, 0}
      BY <2>2 DEF Takes, Holds, Roams, Settles, Idle
    <3>4. \/ layer'.src = docs
          \/ layer' = layer /\ (a # "search" /\ run[a].pc \in Early => run'[a].pc \in Early)
      BY <2>2 DEF Takes, Holds, Roams, Settles, Locked, Guarded, Rebuilds, Early
    <3> QED
      BY <1>0, <3>1, <3>2, <3>3, <3>4, OverviewsKept
  <2> QED
    BY <1>3, <2>1, <2>2, PrivateMoves
<1>4. ASSUME NEW a \in Actors, Replace(a), run[a].st.gen = state.gen
      PROVE  Overviews'
  <2>1. /\ Inside(a) /\ run[a].pc = "replace" /\ run'[a].ckpt = run[a].ckpt
        /\ state' = state \/ state' = NoState
    BY <1>4, ReplaceStep
  <2> QED
    BY <1>0, <1>2, <2>1 DEF Early, NoState
<1>5. ASSUME NEW a \in Actors, Claim(a) \/ DeleteAll(a) \/ UpsertAll(a)
      PROVE  Overviews'
  <2>1. /\ Inside(a) /\ run[a].pc \in {"claim", "clear", "fill"}
        /\ run'[a].ckpt = run[a].ckpt /\ UNCHANGED state
    BY <1>5, RebuildStep
  <2> QED
    BY <1>2, <2>1 DEF Early
<1>6. ASSUME NEW a \in Actors, WriteState(a)
      PROVE  Overviews'
  <2>1. CASE Overtaken(a)
    BY <1>1, <1>6, <2>1, WriteRefused
  <2>2. CASE ~Overtaken(a)
    <3>1. /\ Inside(a) /\ run[a].pc = "publish" /\ run'[a].ckpt = run[a].ckpt
          /\ state' = run[a].next
      BY <1>6, <2>2, WriteStep
    <3>2. /\ run[a].back # "idle" => run[a].next.ckpt = run[a].ckpt
          /\ run[a].back = "idle" => a = "job"
      BY <3>1 DEF Checkpoints, Guarded
    <3>3. run["job"].pc \in Early => run[a].back # "idle"
      BY <3>1, <3>2 DEF Early
    <3> QED
      BY <1>2, <3>1, <3>2, <3>3 DEF Early
  <2> QED
    BY <2>1, <2>2
<1>7. ASSUME NEW a \in Actors, Open(a)
      PROVE  Overviews'
  <2>1. Inside(a) /\ run[a].pc = "open" /\ run'[a].ckpt = 0 /\ UNCHANGED state
    BY <1>7, OpenStep
  <2> QED
    BY <1>2, <2>1 DEF Early
<1>8. CASE Apply
  <2>1. CASE Conflicted
    <3>1. CASE Drops("job")
      BY <1>1, <3>1
    <3>2. CASE /\ Quiet("job") /\ run["job"].pc = "apply"
               /\ run'["job"].ckpt = run["job"].ckpt
               /\ UNCHANGED <<docs, layer, reworded, backend, job, upkeep>>
      <4>1. \A b \in Actors \ {"job"} : run'[b] = run[b]
        BY <3>2 DEF Quiet, Typed
      <4> QED
        BY <3>2, <4>1, OverviewsKept DEF Early, backend
    <3> QED
      BY <1>8, <2>1, <3>1, <3>2, ApplyRefused
  <2>2. CASE ~Conflicted
    <3>1. /\ Inside("job") /\ run["job"].pc = "apply"
          /\ run'["job"].ckpt = run["job"].ckpt /\ UNCHANGED state
      BY <1>8, <2>2, ApplyStep
    <3> QED
      BY <1>2, <3>1 DEF Early
  <2> QED
    BY <2>1, <2>2
<1>9. CASE Upsert \/ Delete
  <2>1. /\ Inside("job") /\ run["job"].pc \in {"upsert", "delete"}
        /\ run'["job"].ckpt = run["job"].ckpt /\ UNCHANGED state
    BY <1>9, IncrementStep
  <2> QED
    BY <1>2, <2>1 DEF Early
<1>10. ASSUME NEW a \in {"job", "upkeep"}, Finish(a)
       PROVE  Overviews'
  <2>1. /\ Quiet(a) /\ run[a].pc = "finish" /\ run'[a] = Idle
        /\ UNCHANGED <<docs, layer, reworded, state>> /\ job'.seq = job.seq
        /\ IF a = "job" THEN UNCHANGED upkeep ELSE UNCHANGED job
    BY <1>10, FinishStep DEF Typed, Quiet, backend
  <2>2. \A b \in Actors \ {a} : run'[b] = run[b]
    BY <2>1 DEF Quiet, Typed
  <2>3. run'[a].ckpt = 0
    BY <2>1, IdleFits
  <2> QED
    BY <1>0, <2>1, <2>2, <2>3 DEF Overviews, Early
<1>11. CASE Outside
  <2>1. CASE CommitJob
    <3>1. /\ job'.seq = job.seq + 1 /\ job'.owed /\ UNCHANGED <<run, state>>
          /\ run["job"].pc = "idle"
      BY <1>11, <2>1 DEF Outside, CommitJob, backend, Roles
    <3>2. state.ckpt < job'.seq /\ \A a \in Actors : run[a].ckpt < job'.seq
      BY <1>0, <3>1 DEF Checkpoints
    <3> QED
      BY <3>1, <3>2 DEF Overviews, Early
  <2>2. CASE CommitUpkeep
    <3>1. upkeep'.owed /\ UNCHANGED run /\ run["upkeep"].pc = "idle"
      BY <1>11, <2>2 DEF Outside, CommitUpkeep, Roles
    <3> QED
      BY <3>1 DEF Overviews, Early
  <2>3. CASE Reconfigure
    BY <1>11, <2>3 DEF Outside, Reconfigure, backend, Overviews
  <2> QED
    BY <1>11, <2>1, <2>2, <2>3 DEF Outside
<1>12. CASE UNCHANGED vars
  BY <1>12 DEF vars, backend, work, Overviews
<1> QED
  BY <1>3, <1>4, <1>5, <1>6, <1>7, <1>8, <1>9, <1>10, <1>11, <1>12, NextCases


----------------------------------------------------------------------------
(* What is published, or about to be, and the tree.                        *)

\* Source i of the tree is what it was, and what was like it still is.
Steady(i) ==
    Alike(reworded', Tree, Tree', i) /\ (i = Layers /\ reworded => reworded')

\* A record set with checkpoint c stays as near to the tree as it was.
Onward(c) ==
    \A i \in Ids : \/ JobDue(job', run'["job"].pc, c, i)
                    \/ /\ Steady(i)
                       /\ ~JobDue(job, run["job"].pc, c, i)

LEMMA Nearer ==
    ASSUME NEW m, NEW c, Onward(c), Near(reworded, m, Tree, job, run["job"].pc, c)
    PROVE  Near(reworded', m, Tree', job', run'["job"].pc, c)
BY DEF Onward, Steady, Near, Alike

\* The tree is the same, or its layers are reworded for nobody.
LEMMA TreeSteady ==
    ASSUME docs' = docs, reworded => reworded',
           layer' = layer \/ (reworded' /\ layer'.src = layer.src)
    PROVE  \A i \in Ids : Steady(i)
BY DEF Steady, Alike, Tree

LEMMA StillOnward ==
    ASSUME docs' = docs, reworded => reworded',
           layer' = layer \/ (reworded' /\ layer'.src = layer.src),
           job' = job, run'["job"].pc = "finish" => run["job"].pc = "finish"
    PROVE  \A c : Onward(c)
BY TreeSteady DEF Onward, JobDue

\* The steps in which a caller carries something to publish.
Carrying == {"replace", "claim", "clear", "fill", "publish", "apply", "upsert", "delete"}

LEMMA CarriesNothing ==
    ASSUME NEW b \in Actors, run'[b].pc \notin Carrying
    PROVE  Carries(b)'
BY DEF Carries, Carrying

LEMMA CarriesKept ==
    ASSUME NEW b \in Actors, run'[b] = run[b], Carries(b), UNCHANGED recs,
           UpkeepDue => UpkeepDue',
           run[b].pc \in {"replace", "claim", "clear", "fill"} =>
              Onward(run[b].ckpt),
           run[b].pc = "publish" =>
              Onward(run[b].next.ckpt),
           run[b].pc \in {"apply", "upsert", "delete"} =>
              Changed' = Changed /\ \A i \in Ids : Steady(i),
           Changed \subseteq Ids
    PROVE  Carries(b)'
<1> DEFINE r == run[b]
<1>1. ASSUME NEW m, NEW c, Follows(b, m, c),
             Onward(c)
      PROVE  (UpkeepDue' /\ b # "upkeep") \/ Near(reworded', m, Tree', job', run'["job"].pc, c)
  BY <1>1, Nearer DEF Follows
<1>2. r.pc \in {"replace", "claim", "clear", "fill"} => Follows(b, r.src, r.ckpt)'
  <2> SUFFICES ASSUME r.pc \in {"replace", "claim", "clear", "fill"}
               PROVE  Follows(b, r.src, r.ckpt)'
    OBVIOUS
  <2>1. Follows(b, r.src, r.ckpt)
    BY DEF Carries
  <2>2. (UpkeepDue' /\ b # "upkeep") \/ Near(reworded', r.src, Tree', job', run'["job"].pc, r.ckpt)
    BY <1>1, <2>1
  <2> QED
    BY <2>2 DEF Follows
<1>3. r.pc = "publish" => Follows(b, recs, r.next.ckpt)'
  <2> SUFFICES ASSUME r.pc = "publish"
               PROVE  Follows(b, recs, r.next.ckpt)'
    OBVIOUS
  <2>1. Follows(b, recs, r.next.ckpt)
    BY DEF Carries
  <2>2. (UpkeepDue' /\ b # "upkeep") \/ Near(reworded', recs, Tree', job', run'["job"].pc, r.next.ckpt)
    BY <1>1, <2>1
  <2> QED
    BY <2>2 DEF Follows
<1>4. ASSUME NEW m, NEW S \in SUBSET Ids, \A i \in Ids : Steady(i),
             UpkeepDue \/ \A i \in S : Alike(reworded, m, Tree, i)
      PROVE  UpkeepDue' \/ \A i \in S : Alike(reworded', m, Tree', i)
  BY <1>4 DEF Alike, Steady
<1>5. r.pc \in {"apply", "upsert", "delete"} =>
         UpkeepDue' \/ \A i \in Changed' : Alike(reworded', r.src, Tree', i)
  BY <1>4 DEF Carries
<1>6. r.pc \in {"upsert", "delete"} =>
         UpkeepDue' \/ \A i \in Ids \ Changed' : Alike(reworded', recs, Tree', i)
  BY <1>4 DEF Carries
<1> QED
  BY <1>2, <1>3, <1>5, <1>6 DEF Carries

LEMMA CoveredKept ==
    ASSUME Covered, UNCHANGED <<state, published>>, UpkeepDue => UpkeepDue',
           Opened' => Opened,
           Opened => Onward(state.ckpt)
    PROVE  Covered'
<1> SUFFICES ASSUME Opened
             PROVE  UpkeepDue' \/ Near(reworded', published, Tree', job', run'["job"].pc, state.ckpt)
  BY DEF Covered
<1> QED
  BY Nearer DEF Covered

\* A caller moves, and neither the tree nor the collection changes.
LEMMA CoverageKept ==
    ASSUME Typed, Coverage, NEW a \in Actors,
           \A b \in Actors \ {a} : run'[b] = run[b],
           UNCHANGED <<docs, job, upkeep, state, claim, recs, published>>,
           reworded => reworded', layer' = layer \/ (reworded' /\ layer'.src = layer.src),
           run'[a].pc \notin {"open", "finish"},
           Carries(a)'
    PROVE  Coverage'
<1> USE ActorsAre
<1>1. UpkeepDue => UpkeepDue'
  BY DEF UpkeepDue
<1>2. run'["job"].pc = "finish" => run["job"].pc = "finish"
  OBVIOUS
<1>3. Opened' => Opened
  BY DEF Opened
<1>4. Covered'
  BY <1>1, <1>2, <1>3, StillOnward, CoveredKept DEF Coverage
<1>5. Changed' = Changed
  BY DEF Changed
<1>6. \A b \in Actors \ {a} : Carries(b)'
  BY <1>1, <1>2, <1>5, StillOnward, TreeSteady, CarriesKept, ChangedIsIds DEF Coverage
<1> QED
  BY <1>4, <1>6 DEF Coverage

\* Whoever is inside the index is the only one that carries something.
LEMMA CoverageInside ==
    ASSUME Exclusive, Typed, NEW a \in Actors, run[a].pc \in Locked,
           \A b \in Actors \ {a} : run'[b] = run[b],
           Carries(a)', Covered'
    PROVE  Coverage'
<1>1. \A b \in Actors \ {a} : run'[b].pc \notin Carrying
  BY AloneInside DEF Locked, Carrying, Guarded, Rebuilds
<1> QED
  BY <1>1, CarriesNothing DEF Coverage


\* A refresh writes the layers from the documents there are.
LEMMA RefreshCoverage ==
    ASSUME Typed, Typed', Roles, Checkpoints, Overviews, Coverage, NEW a \in Actors, a # "search",
           Quiet(a), UNCHANGED <<docs, job, upkeep>>,
           layer'.src = docs, reworded' = (a = "job" /\ Repeated),
           run[a].pc = "refresh", run'[a].pc \in {"ensure", "rebuild"}
    PROVE  Coverage'
<1> USE ActorsAre
<1>1. /\ \A b \in Actors \ {a} : run'[b] = run[b]
      /\ UNCHANGED <<state, claim, recs, published>>
  BY DEF Quiet, Typed, backend
<1>2. \A b \in Actors : run[b].pc \in Early => run'[b].pc \notin Carrying \cup {"open", "finish"}
  BY <1>1 DEF Early, Carrying
<1>3. CASE reworded' /\ layer.src = docs
  BY <1>1, <1>2, <1>3, CoverageKept, CarriesNothing DEF Carrying, Early
<1>4. CASE upkeep.owed /\ run["upkeep"].pc \in Early
  <2>1. UpkeepDue' /\ run'["upkeep"].pc \notin Carrying
    BY <1>2, <1>4 DEF UpkeepDue
  <2>2. \A b \in Actors : Carries(b)'
    BY <2>1, CarriesNothing DEF Carries, Follows
  <2> QED
    BY <2>1, <2>2 DEF Coverage, Covered
<1>5. CASE /\ job.owed /\ run["job"].pc \in Early
           /\ state.ckpt < job.seq /\ \A b \in Actors : run[b].ckpt < job.seq
  <2>1. UpkeepDue => UpkeepDue'
    BY <1>1 DEF UpkeepDue
  <2>2. ASSUME NEW c, c < job.seq
        PROVE  Onward(c)
    <3>1. run'["job"].pc # "finish"
      BY <1>2, <1>5
    <3>2. JobDue(job', run'["job"].pc, c, Layers)
      BY <1>5, <2>2, <3>1 DEF JobDue
    <3>3. \A i \in Ids \ {Layers} : Steady(i)
      BY DEF Steady, Alike, Tree
    <3>4. \A i : JobDue(job, run["job"].pc, c, i) => JobDue(job', run'["job"].pc, c, i)
      BY <3>1 DEF JobDue
    <3> QED
      BY <3>2, <3>3, <3>4 DEF Onward
  <2>3. Covered'
    <3>1. Opened' => Opened
      BY <1>1 DEF Opened
    <3> QED
      BY <1>1, <1>5, <2>1, <2>2, <3>1, CoveredKept DEF Coverage
  <2>4. ASSUME NEW b \in Actors
        PROVE  Carries(b)'
    <3>1. CASE run[b].pc \in Early \/ b = a
      BY <1>2, <3>1, CarriesNothing DEF Carrying
    <3>2. CASE b # a /\ run[b].pc \notin Early
      <4>1. run'[b] = run[b] /\ b # "job"
        BY <1>1, <1>5, <3>2
      <4>2. run[b].pc \notin {"apply", "upsert", "delete"}
        BY <4>1 DEF Roles, Fits, Increments
      <4>3. run[b].pc = "publish" => run[b].next.ckpt = run[b].ckpt
        BY <4>1 DEF Checkpoints, Guarded
      <4> QED
        BY <1>1, <1>5, <2>1, <2>2, <4>1, <4>2, <4>3, CarriesKept, ChangedIsIds DEF Coverage
    <3> QED
      BY <3>1, <3>2
  <2> QED
    BY <2>3, <2>4 DEF Coverage
<1>6. a = "upkeep" => upkeep.owed /\ run["upkeep"].pc \in Early
  BY DEF Roles, Early
<1>7. a = "job" => job.owed /\ run["job"].pc \in Early
  BY DEF Roles, Early
<1>8. a = "job" /\ ~Repeated => state.ckpt < job.seq /\ \A b \in Actors : run[b].ckpt < job.seq
  <2>1. state.ckpt \in Nat /\ job.seq \in Nat /\ \A b \in Actors : run[b].ckpt \in Nat
    BY LocalsAre, BoundsAreNats DEF Typed, States
  <2> QED
    BY <2>1 DEF Repeated, Checkpoints
<1>9. a \in {"job", "upkeep"}
  OBVIOUS
<1> QED
  BY <1>3, <1>4, <1>5, <1>6, <1>7, <1>8, <1>9 DEF Overviews

\* The job whose checkpoint the published state carries owes nothing to it.
LEMMA SettleCoverage ==
    ASSUME Typed, Roles, Exclusive, Checkpoints, Coverage,
           Quiet("job"), UNCHANGED <<docs, layer, reworded, job, upkeep>>, Settles("job")
    PROVE  Coverage'
<1> USE ActorsAre
<1>1. /\ \A b \in Actors \ {"job"} : run'[b] = run[b]
      /\ UNCHANGED <<state, claim, recs, published>>
      /\ run["job"].pc = "compare" /\ run'["job"].pc = "finish"
  BY DEF Quiet, Typed, backend, Settles, Idle
<1>2. state.ckpt = job.seq
  BY <1>1 DEF Settles, Checkpoints
<1>3. Onward(state.ckpt)
  <2>1. ~(state.ckpt < job.seq)
    BY <1>2, BoundsAreNats DEF Typed
  <2>2. \A i : ~JobDue(job, run["job"].pc, state.ckpt, i)
    BY <2>1 DEF JobDue
  <2> QED
    BY <2>2, TreeSteady DEF Onward
<1>4. UpkeepDue => UpkeepDue'
  BY <1>1 DEF UpkeepDue
<1>5. Opened' => Opened
  BY <1>1 DEF Opened
<1>6. Covered'
  BY <1>1, <1>3, <1>4, <1>5, CoveredKept DEF Coverage
<1>7. Carries("job")'
  BY <1>1, CarriesNothing DEF Carrying
<1> QED
  BY <1>1, <1>6, <1>7, CoverageInside DEF Locked

LEMMA PrivateCoverage ==
    ASSUME Typed, Typed', Roles, Exclusive, Checkpoints, Overviews, Coverage,
           NEW a \in Actors, Private(a)
    PROVE  Coverage'
<1> USE ActorsAre
<1>0. UNCHANGED <<docs, backend, job, upkeep>>
  BY PrivateStep, PrivateMoves
<1>1. CASE Drops(a)
  <2>1. /\ run'[a].pc = "idle" /\ \A b \in Actors \ {a} : run'[b] = run[b]
        /\ UNCHANGED <<layer, reworded>>
    BY <1>1, IdleFits DEF Drops, Typed
  <2>2. Carries(a)'
    BY <2>1, CarriesNothing DEF Carrying
  <2> QED
    BY <1>0, <2>1, <2>2, CoverageKept DEF backend
<1>2. ASSUME Quiet(a), UNCHANGED <<layer, reworded>>, run'[a].pc \notin {"open", "finish"}, Carries(a)'
      PROVE  Coverage'
  <2>1. \A b \in Actors \ {a} : run'[b] = run[b]
    BY <1>2 DEF Quiet, Typed
  <2> QED
    BY <1>0, <1>2, <2>1, CoverageKept DEF backend
<1>3. CASE Quiet(a) /\ Takes(a)
  <2>1. run'[a].pc \in {"state", "compare"} /\ UNCHANGED <<layer, reworded>>
    BY <1>3 DEF Takes
  <2> QED
    BY <1>2, <1>3, <2>1, CarriesNothing DEF Carrying
<1>4. CASE Quiet(a) /\ Holds(a)
  <2>1. UNCHANGED <<layer, reworded>> /\ Tree' = Tree
    BY <1>0, <1>4 DEF Holds, Tree
  <2>2. CASE run'[a].pc \in {"walk", "state"}
    BY <1>2, <1>4, <2>1, <2>2, CarriesNothing DEF Carrying
  <2>3. CASE run'[a].pc \in {"replace", "apply"} /\ run'[a].src = Tree
    <3>1. \A i \in Ids : Alike(reworded', run'[a].src, Tree', i)
      BY <2>1, <2>3 DEF Alike
    <3>2. Changed' \subseteq Ids
      BY <1>0, ChangedIsIds DEF Changed
    <3>3. Near(reworded', run'[a].src, Tree', job', run'["job"].pc, run'[a].ckpt)
      BY <3>1 DEF Near
    <3>4. Carries(a)'
      BY <2>3, <3>1, <3>2, <3>3 DEF Carries, Follows
    <3> QED
      BY <1>2, <1>4, <2>1, <2>3, <3>4
  <2> QED
    BY <1>4, <2>2, <2>3 DEF Holds
<1>5. CASE Quiet(a) /\ Roams(a)
  <2>1. run'[a].pc \notin Carrying \cup {"open", "finish"}
    BY <1>5 DEF Roams, Locked, Rebuilds, Guarded, Carrying
  <2>2. CASE UNCHANGED <<layer, reworded>>
    BY <1>2, <1>5, <2>1, <2>2, CarriesNothing
  <2>3. CASE ~UNCHANGED <<layer, reworded>>
    BY <1>0, <1>5, <2>3, RefreshCoverage DEF Roams
  <2> QED
    BY <2>2, <2>3
<1>6. CASE Quiet(a) /\ Settles(a)
  BY <1>0, <1>6, SettleCoverage DEF Settles
<1> QED
  BY <1>1, <1>3, <1>4, <1>5, <1>6, PrivateMoves


LEMMA ReplaceCoverage ==
    ASSUME Typed, Roles, Publishing, Exclusive, Coverage,
           NEW a \in Actors, Replace(a), run[a].st.gen = state.gen
    PROVE  Coverage'
<1> USE ActorsAre
<1>1. /\ Inside(a) /\ run[a].pc = "replace" /\ run'[a].pc = "claim" /\ pubLock = {}
      /\ run'[a].src = run[a].src /\ run'[a].ckpt = run[a].ckpt
      /\ \/ UNCHANGED <<state, claim, recs, published>>
         \/ claim' = "none"
  BY ReplaceStep
<1>2. /\ \A b \in Actors \ {a} : run'[b] = run[b]
      /\ UNCHANGED <<docs, layer, reworded, job, upkeep>>
  BY <1>1 DEF Inside, Typed, work
<1>3. run'["job"].pc = "finish" => run["job"].pc = "finish"
  BY <1>1, <1>2
<1>4. UpkeepDue => UpkeepDue'
  BY <1>1, <1>2 DEF UpkeepDue
<1>5. \A c : Onward(c)
  BY <1>2, <1>3, StillOnward
<1>6. Covered'
  <2>1. \A b \in Actors : run'[b].pc # "open"
    BY <1>1, <1>2 DEF Roles, Guarded
  <2>2. CASE claim' = "none"
    BY <2>1, <2>2 DEF Covered, Opened
  <2>3. CASE UNCHANGED <<state, claim, recs, published>>
    BY <1>4, <1>5, <2>1, <2>3, CoveredKept DEF Opened, Coverage
  <2> QED
    BY <1>1, <2>2, <2>3
<1>7. Carries(a)'
  <2>1. Follows(a, run[a].src, run[a].ckpt)
    BY <1>1 DEF Coverage, Carries
  <2>2. (UpkeepDue' /\ a # "upkeep") \/ Near(reworded', run[a].src, Tree', job', run'["job"].pc, run[a].ckpt)
    BY <1>4, <1>5, <2>1, Nearer DEF Follows
  <2> QED
    BY <1>1, <2>2 DEF Carries, Follows
<1> QED
  BY <1>1, <1>2, <1>6, <1>7, CoverageInside DEF Locked, Rebuilds

LEMMA RebuildCoverage ==
    ASSUME Typed, Roles, Publishing, Exclusive, Checkpoints, Coverage,
           NEW a \in Actors, Claim(a) \/ DeleteAll(a) \/ UpsertAll(a)
    PROVE  Coverage'
<1> USE ActorsAre
<1>1. /\ Inside(a) /\ run[a].back # "idle" /\ run'[a].back = run[a].back
      /\ run'[a].next = run[a].next /\ run'[a].ckpt = run[a].ckpt
      /\ run[a].pc \in {"claim", "clear", "fill"} /\ pubLock = {a}
      /\ UNCHANGED <<state, published>>
      /\ \/ /\ run[a].pc = "claim" /\ run'[a].pc = "clear"
            /\ claim' = "building" /\ UNCHANGED recs /\ run'[a].src = run[a].src
         \/ /\ run[a].pc = "clear" /\ run'[a].pc = "fill"
            /\ UNCHANGED claim /\ recs' = Nothing /\ run'[a].src = run[a].src
         \/ /\ run[a].pc = "fill" /\ run'[a].pc = "publish"
            /\ UNCHANGED claim /\ recs' = run[a].src
  BY RebuildStep
<1>2. /\ \A b \in Actors \ {a} : run'[b] = run[b]
      /\ UNCHANGED <<docs, layer, reworded, job, upkeep>>
  BY <1>1 DEF Inside, Typed, work
<1>3. UpkeepDue => UpkeepDue'
  BY <1>1, <1>2 DEF UpkeepDue
<1>4. \A c : Onward(c)
  BY <1>1, <1>2, StillOnward
<1>5. Covered'
  <2>1. \A b \in Actors : run'[b].pc # "open"
    BY <1>1, <1>2 DEF Roles, Guarded
  <2>2. claim' = "building"
    BY <1>1 DEF Publishing, Progress, Guarded
  <2> QED
    BY <2>1, <2>2 DEF Covered, Opened
<1>6. Carries(a)'
  <2>1. Follows(a, run[a].src, run[a].ckpt)
    BY <1>1 DEF Coverage, Carries
  <2>2. (UpkeepDue' /\ a # "upkeep") \/ Near(reworded', run[a].src, Tree', job', run'["job"].pc, run[a].ckpt)
    BY <1>3, <1>4, <2>1, Nearer DEF Follows
  <2>3. run[a].next.ckpt = run[a].ckpt
    BY <1>1 DEF Checkpoints, Guarded
  <2> QED
    BY <1>1, <2>2, <2>3 DEF Carries, Follows
<1> QED
  BY <1>1, <1>2, <1>5, <1>6, CoverageInside DEF Locked, Rebuilds

LEMMA ApplyCoverage ==
    ASSUME Typed, Roles, Publishing, Exclusive, Coverage, Apply, ~Conflicted
    PROVE  Coverage'
<1> USE ActorsAre
<1>1. /\ Inside("job") /\ run["job"].pc = "apply" /\ run'["job"].pc = "upsert" /\ pubLock = {}
      /\ run'["job"].src = run["job"].src
      /\ claim = "ready" /\ claim' = "building" /\ UNCHANGED <<state, recs, published>>
  BY ApplyStep
<1>2. /\ \A b \in Actors \ {"job"} : run'[b] = run[b]
      /\ UNCHANGED <<docs, layer, reworded, job, upkeep>>
  BY <1>1 DEF Inside, Typed, work
<1>3. UpkeepDue => UpkeepDue'
  BY <1>2 DEF UpkeepDue
<1>4. Tree' = Tree /\ Changed' = Changed
  BY <1>2 DEF Tree, Changed
<1>5. Covered'
  <2>1. \A b \in Actors : run'[b].pc # "open"
    BY <1>1, <1>2 DEF Roles, Guarded
  <2> QED
    BY <1>1, <2>1 DEF Covered, Opened
<1>6. UpkeepDue \/ \A i \in Changed : Alike(reworded, run["job"].src, Tree, i)
  BY <1>1 DEF Coverage, Carries
<1>7. UpkeepDue \/ \A i \in Ids \ Changed : Alike(reworded, recs, Tree, i)
  <2>1. recs = published
    BY <1>1 DEF Publishing, Whole, PublicationIsWhole
  <2>2. UpkeepDue \/ Near(reworded, published, Tree, job, run["job"].pc, state.ckpt)
    BY <1>1 DEF Coverage, Covered, Opened
  <2> QED
    BY <2>1, <2>2 DEF Near, JobDue, Changed
<1>8. Carries("job")'
  BY <1>1, <1>2, <1>3, <1>4, <1>6, <1>7 DEF Carries
<1> QED
  BY <1>1, <1>2, <1>5, <1>8, CoverageInside DEF Locked

LEMMA IncrementCoverage ==
    ASSUME Typed, Roles, Publishing, Exclusive, Coverage, Upsert \/ Delete
    PROVE  Coverage'
<1> USE ActorsAre
<1> DEFINE src == run["job"].src
<1>1. /\ Inside("job") /\ run["job"].pc \in {"upsert", "delete"} /\ pubLock = {"job"}
      /\ UNCHANGED <<state, claim, published>>
      /\ \/ /\ run["job"].pc = "upsert" /\ run'["job"].pc = "delete"
            /\ run'["job"].src = src
            /\ recs' = Merged(recs, src, {i \in Changed : i \in Present(src)})
         \/ /\ run["job"].pc = "delete" /\ run'["job"].pc = "publish"
            /\ recs' = Merged(recs, src, {i \in Changed : i \notin Present(src)})
  BY IncrementStep
<1>2. /\ \A b \in Actors \ {"job"} : run'[b] = run[b]
      /\ UNCHANGED <<docs, layer, reworded, job, upkeep>>
  BY <1>1 DEF Inside, Typed, work
<1>3. UpkeepDue => UpkeepDue'
  BY <1>2 DEF UpkeepDue
<1>4. Tree' = Tree /\ Changed' = Changed /\ Changed \subseteq Ids
  BY <1>2, ChangedIsIds DEF Tree, Changed
<1>5. Covered'
  <2>1. \A b \in Actors : run'[b].pc # "open"
    BY <1>1, <1>2 DEF Roles, Guarded
  <2>2. claim' = "building"
    BY <1>1 DEF Publishing, Progress, Guarded
  <2> QED
    BY <2>1, <2>2 DEF Covered, Opened
<1>6. UpkeepDue \/ \A i \in Changed : Alike(reworded, src, Tree, i)
  BY <1>1 DEF Coverage, Carries
<1>7. UpkeepDue \/ \A i \in Ids \ Changed : Alike(reworded, recs, Tree, i)
  BY <1>1 DEF Coverage, Carries
<1>8. UpkeepDue \/ \A i \in Ids \ Changed : Alike(reworded, recs', Tree, i)
  BY <1>1, <1>7 DEF Alike, Merged
<1>9. CASE run'["job"].pc = "delete"
  <2>1. Carries("job")'
    BY <1>1, <1>2, <1>3, <1>4, <1>6, <1>8, <1>9 DEF Carries
  <2> QED
    BY <1>1, <1>2, <1>5, <2>1, CoverageInside DEF Locked, Guarded
<1>10. CASE run'["job"].pc = "publish"
  <2>1. \A i \in Changed : recs'[i] = src[i]
    <3>1. \A i \in Changed \cap Present(src) : recs[i] = src[i]
      BY <1>1, <1>10 DEF Publishing, Progress
    <3> QED
      BY <1>1, <1>4, <1>10, <3>1 DEF Merged
  <2>2. UpkeepDue \/ \A i \in Ids : Alike(reworded, recs', Tree, i)
    BY <1>4, <1>6, <1>8, <2>1 DEF Alike
  <2>3. UpkeepDue' \/ Near(reworded', recs', Tree', job', run'["job"].pc, run'["job"].next.ckpt)
    BY <1>2, <1>3, <1>4, <2>2 DEF Near
  <2>4. Carries("job")'
    BY <1>10, <2>3 DEF Carries, Follows
  <2> QED
    BY <1>1, <1>2, <1>5, <2>4, CoverageInside DEF Locked, Guarded
<1> QED
  BY <1>1, <1>9, <1>10


\* What was carried is published, and the upkeep's rebuild is no longer due.
LEMMA WriteCoverage ==
    ASSUME Typed, Roles, Publishing, Exclusive, Coverage,
           NEW a \in Actors, WriteState(a), ~Overtaken(a)
    PROVE  Coverage'
<1> USE ActorsAre
<1>1. /\ Inside(a) /\ run[a].pc = "publish" /\ run'[a].pc = "open" /\ pubLock = {a}
      /\ state' = run[a].next /\ published' = recs
  BY WriteStep
<1>2. /\ \A b \in Actors \ {a} : run'[b] = run[b]
      /\ UNCHANGED <<docs, layer, reworded, job, upkeep>>
  BY <1>1 DEF Inside, Typed, work
<1>3. \A c : Onward(c)
  BY <1>1, <1>2, StillOnward
<1>4. UpkeepDue /\ a # "upkeep" => UpkeepDue'
  BY <1>2 DEF UpkeepDue
<1>5. Follows(a, recs, run[a].next.ckpt)
  BY <1>1 DEF Coverage, Carries
<1>6. UpkeepDue' \/ Near(reworded', recs, Tree', job', run'["job"].pc, run[a].next.ckpt)
  BY <1>3, <1>4, <1>5, Nearer DEF Follows
<1>7. Covered'
  BY <1>1, <1>6 DEF Covered
<1>8. Carries(a)'
  BY <1>1, CarriesNothing DEF Carrying
<1> QED
  BY <1>1, <1>2, <1>7, <1>8, CoverageInside DEF Locked, Guarded

\* The job that returns has published its checkpoint.
LEMMA OpenCoverage ==
    ASSUME Typed, Typed', Roles, Publishing, Exclusive, Checkpoints, Coverage,
           NEW a \in Actors, Open(a)
    PROVE  Coverage'
<1> USE ActorsAre
<1>1. /\ Inside(a) /\ run[a].pc = "open"
      /\ run'[a].pc = (IF run[a].back = "idle" THEN "finish" ELSE run[a].back)
      /\ run'[a].pc \in {"finish", "sync", "load", "compare"}
      /\ UNCHANGED <<state, published>>
  BY OpenStep
<1>2. /\ \A b \in Actors \ {a} : run'[b] = run[b]
      /\ UNCHANGED <<docs, layer, reworded, job, upkeep>>
  BY <1>1 DEF Inside, Typed, work
<1>3. UpkeepDue => UpkeepDue'
  BY <1>1, <1>2 DEF UpkeepDue
<1>4. Onward(state.ckpt)
  <2>1. CASE run'["job"].pc = "finish" => run["job"].pc = "finish"
    BY <1>2, <2>1, StillOnward
  <2>2. CASE run'["job"].pc = "finish" /\ run["job"].pc # "finish"
    <3>1. a = "job" /\ run["job"].back = "idle"
      BY <1>1, <1>2, <2>2 DEF Checkpoints
    <3>2. state.ckpt = job.seq
      BY <1>1, <3>1 DEF Publishing, Progress, Checkpoints, Guarded
    <3>3. ~(state.ckpt < job.seq)
      BY <3>2, BoundsAreNats DEF Typed
    <3>4. \A i : ~JobDue(job, run["job"].pc, state.ckpt, i)
      BY <3>3 DEF JobDue
    <3> QED
      BY <1>2, <3>4, TreeSteady DEF Onward
  <2> QED
    BY <2>1, <2>2
<1>5. Covered'
  BY <1>1, <1>3, <1>4, CoveredKept DEF Opened, Coverage
<1>6. Carries(a)'
  BY <1>1, CarriesNothing DEF Carrying
<1> QED
  BY <1>1, <1>2, <1>5, <1>6, CoverageInside DEF Locked, Guarded

LEMMA FinishCoverage ==
    ASSUME Typed, Typed', Roles, Coverage, NEW a \in {"job", "upkeep"}, Finish(a)
    PROVE  Coverage'
<1> USE ActorsAre
<1>1. /\ Quiet(a) /\ run[a].pc = "finish" /\ run'[a] = Idle /\ UNCHANGED <<docs, layer, reworded>>
      /\ IF a = "job" THEN job' = [job EXCEPT !.owed = FALSE] /\ UNCHANGED upkeep
                      ELSE upkeep' = [upkeep EXCEPT !.owed = FALSE] /\ UNCHANGED job
  BY FinishStep
<1>2. /\ \A b \in Actors \ {a} : run'[b] = run[b]
      /\ UNCHANGED <<state, claim, recs, published>>
  BY <1>1 DEF Quiet, Typed, backend
<1>3. UpkeepDue => UpkeepDue'
  BY <1>1, <1>2 DEF UpkeepDue
<1>4. Opened' => Opened
  BY <1>1, <1>2, IdleFits DEF Opened
<1>5. \A c : Onward(c)
  <2>1. CASE a = "upkeep"
    BY <1>1, <1>2, <2>1, StillOnward
  <2>2. CASE a = "job"
    <3>1. \A c, i : ~JobDue(job, run["job"].pc, c, i)
      BY <1>1, <2>2 DEF JobDue
    <3> QED
      BY <1>1, <3>1, TreeSteady DEF Onward
  <2> QED
    BY <2>1, <2>2
<1>6. Covered'
  BY <1>2, <1>3, <1>4, <1>5, CoveredKept DEF Coverage
<1>7. Changed' = Changed
  BY <1>1 DEF Changed, Typed
<1>8. ASSUME NEW b \in Actors
      PROVE  Carries(b)'
  <2>1. CASE b = a
    BY <1>1, <2>1, IdleFits, CarriesNothing DEF Carrying
  <2>2. CASE b # a
    BY <1>1, <1>2, <1>3, <1>5, <1>7, <2>2, TreeSteady, CarriesKept, ChangedIsIds DEF Coverage
  <2> QED
    BY <2>1, <2>2
<1> QED
  BY <1>6, <1>8 DEF Coverage

\* A commit makes what it changed part of what is still due.
LEMMA CommitCoverage ==
    ASSUME Typed, Typed', Roles, Checkpoints, Coverage, Outside
    PROVE  Coverage'
<1> USE ActorsAre
<1>1. UNCHANGED <<backend, locks, run>>
  BY DEF Outside
<1>2. CASE CommitUpkeep
  <2>1. UpkeepDue' /\ run'["upkeep"].pc = "idle"
    BY <1>1, <1>2 DEF CommitUpkeep, Roles, UpkeepDue
  <2>2. \A b \in Actors : Carries(b)'
    BY <2>1 DEF Carries, Follows
  <2> QED
    BY <2>1, <2>2 DEF Coverage, Covered
<1>3. CASE Reconfigure
  <2>1. UNCHANGED <<docs, layer, reworded, job, upkeep>>
    BY <1>3 DEF Reconfigure
  <2>2. UpkeepDue' = UpkeepDue /\ Opened' = Opened
    BY <1>1, <2>1 DEF UpkeepDue, Opened, backend
  <2>3. Covered'
    BY <1>1, <2>1, <2>2, StillOnward, CoveredKept DEF Coverage, backend
  <2>4. \A b \in Actors : Carries(b)'
    BY <1>1, <2>1, <2>2, StillOnward, TreeSteady, CarriesKept, ChangedIsIds
       DEF Coverage, backend, Changed
  <2> QED
    BY <2>3, <2>4 DEF Coverage
<1>4. CASE CommitJob
  <2>1. PICK d \in Docs : \E v \in (0..MaxContent) \ {docs[d]} :
             /\ docs' = [docs EXCEPT ![d] = v]
             /\ job' = [seq |-> job.seq + 1, owed |-> TRUE, changed |-> {d}]
    BY <1>4 DEF CommitJob
  <2>2. run["job"].pc = "idle" /\ ~job.owed /\ UNCHANGED <<layer, reworded, upkeep>>
    BY <1>4 DEF CommitJob, Roles
  <2>3. UpkeepDue' = UpkeepDue /\ Opened' = Opened
    BY <1>1, <2>2 DEF UpkeepDue, Opened, backend
  <2>4. ASSUME NEW c \in Nat, c <= job.seq
        PROVE  Onward(c)
    <3>1. c < job'.seq /\ job'.owed /\ job'.changed = {d} /\ run'["job"].pc # "finish"
      BY <1>1, <2>1, <2>2, <2>4, BoundsAreNats DEF Typed
    <3>2. \A i \in {d, Layers} : JobDue(job', run'["job"].pc, c, i)
      BY <3>1 DEF JobDue
    <3>3. \A i \in Ids \ {d, Layers} : Tree'[i] = Tree[i]
      BY <2>1, <2>2 DEF Tree, Typed
    <3>4. \A i \in Ids \ {d, Layers} : Steady(i)
      BY <3>3 DEF Steady, Alike
    <3>5. \A i : ~JobDue(job, run["job"].pc, c, i)
      BY <2>2 DEF JobDue
    <3> QED
      BY <3>2, <3>4, <3>5 DEF Onward
  <2>5. state.ckpt \in Nat /\ state.ckpt <= job.seq
    BY DEF Checkpoints, Typed, States
  <2>6. Covered'
    BY <1>1, <2>3, <2>4, <2>5, CoveredKept DEF Coverage, backend
  <2>7. ASSUME NEW b \in Actors
        PROVE  Carries(b)'
    <3>1. run[b].ckpt \in Nat /\ run[b].ckpt <= job.seq
      BY LocalsAre DEF Checkpoints
    <3>2. run[b].pc \notin {"apply", "upsert", "delete"}
      BY <2>2 DEF Roles, Fits, Increments
    <3>3. run[b].pc = "publish" => run[b].next.ckpt = run[b].ckpt
      BY <2>2 DEF Checkpoints, Guarded
    <3> QED
      BY <1>1, <2>3, <2>4, <3>1, <3>2, <3>3, CarriesKept, ChangedIsIds DEF Coverage, backend
  <2> QED
    BY <2>6, <2>7 DEF Coverage
<1> QED
  BY <1>2, <1>3, <1>4 DEF Outside

LEMMA NextCoverage ==
    ASSUME Typed, Typed', Roles, Publishing, Exclusive, Checkpoints, Overviews, Coverage,
           [Next]_vars
    PROVE  Coverage'
<1> USE ActorsAre
<1>1. ASSUME NEW a \in Actors, Drops(a)
      PROVE  Coverage'
  <2>1. /\ run'[a].pc = "idle" /\ \A b \in Actors \ {a} : run'[b] = run[b]
        /\ UNCHANGED <<docs, layer, reworded, backend, job, upkeep>>
    BY <1>1, IdleFits DEF Drops, Typed
  <2> QED
    BY <2>1, CarriesNothing, CoverageKept DEF Carrying, backend
<1>2. ASSUME NEW a \in Actors, WriteState(a)
      PROVE  Coverage'
  BY <1>1, <1>2, WriteRefused, WriteCoverage
<1>3. CASE Apply
  <2>1. CASE Conflicted
    <3>1. CASE Drops("job")
      BY <1>1, <3>1
    <3>2. CASE /\ Quiet("job") /\ run'["job"].pc = "sync"
               /\ UNCHANGED <<docs, layer, reworded, backend, job, upkeep>>
      <4>1. \A b \in Actors \ {"job"} : run'[b] = run[b]
        BY <3>2 DEF Quiet, Typed
      <4> QED
        BY <3>2, <4>1, CarriesNothing, CoverageKept DEF Carrying, backend
    <3> QED
      BY <1>3, <2>1, <3>1, <3>2, ApplyRefused
  <2> QED
    BY <1>3, <2>1, ApplyCoverage
<1>4. CASE UNCHANGED vars
  <2>1. UNCHANGED <<docs, layer, reworded, state, claim, recs, published, job, upkeep, run>>
    BY <1>4 DEF vars, backend, work
  <2>2. UpkeepDue' = UpkeepDue /\ Opened' = Opened
    BY <2>1 DEF UpkeepDue, Opened
  <2>3. Covered'
    BY <2>1, <2>2, StillOnward, CoveredKept DEF Coverage
  <2>4. \A b \in Actors : Carries(b)'
    BY <2>1, <2>2, StillOnward, TreeSteady, CarriesKept, ChangedIsIds DEF Coverage, Changed
  <2> QED
    BY <2>3, <2>4 DEF Coverage
<1> QED
  BY <1>2, <1>3, <1>4, PrivateCoverage, ReplaceCoverage, RebuildCoverage, IncrementCoverage,
     OpenCoverage, FinishCoverage, CommitCoverage, NextCases


----------------------------------------------------------------------------
(* A settled index.                                                        *)

\* With one index object nothing that was committed is lost from the index:
\* whoever replaces it after a commit walked the tree after it.
THEOREM CoverageInvariant ==
    ASSUME OneIndex
    PROVE  Spec => []FInv
<1>1. Init => FInv
  <2> SUFFICES ASSUME Init PROVE FInv
    OBVIOUS
  <2>1. /\ \A a \in Actors : run[a] = Idle
        /\ state.ckpt = 0 /\ job.seq = 0 /\ claim = "none" /\ layer.src = docs
        /\ indexLock = {} /\ layer = NoLayer /\ recs = Nothing
    BY DEF Init, NoLayer, NoState
  <2>2. Exclusive
    BY <2>1, IdleFits DEF Exclusive, Locked, Guarded, Rebuilds
  <2>3. Checkpoints
    BY <2>1, IdleFits, ActorsAre DEF Checkpoints
  <2>4. Overviews
    BY <2>1 DEF Overviews
  <2>5. Coverage
    BY <2>1, IdleFits DEF Coverage, Covered, Opened, Carries
  <2> QED
    BY <2>2, <2>3, <2>4, <2>5 DEF FInv
<1>2. IInv /\ IInv' /\ FInv /\ [Next]_vars => FInv'
  <2> SUFFICES ASSUME IInv, IInv', FInv, [Next]_vars PROVE FInv'
    OBVIOUS
  <2>1. Typed /\ Typed' /\ Roles /\ Publishing
    BY DEF IInv
  <2>2. Exclusive /\ Checkpoints /\ Overviews /\ Coverage
    BY DEF FInv
  <2> QED
    BY <2>1, <2>2, NextExclusive, NextCheckpoints, NextOverviews, NextCoverage DEF FInv
<1> QED
  BY <1>1, <1>2, IndexInvariant, PTL DEF Spec

\* The finalizers of jobs and upkeep operations: with no work left, a ready
\* index is the tree, to the letter unless the last to word the layers was a
\* finalization repeated after its increment was published.
THEOREM SettledIsTree ==
    ASSUME OneIndex
    PROVE  Spec => []IndexFollowsTree
<1>1. IInv /\ FInv => IndexFollowsTree
  <2> SUFFICES ASSUME IInv, FInv, ~job.owed, ~upkeep.owed, StateMatches
               PROVE  /\ layer.src = docs /\ recs[Layers].src = docs
                      /\ \A i \in Ids \ {Layers} : recs[i] = docs[i]
                      /\ recs[Layers] = layer \/ reworded
    BY DEF IndexFollowsTree
  <2>1. layer.src = docs
    BY DEF FInv, Overviews
  <2>2. claim = "ready" /\ recs = published
    BY DEF StateMatches, IInv, Publishing, Whole, PublicationIsWhole
  <2>3. Near(reworded, published, Tree, job, run["job"].pc, state.ckpt)
    BY <2>2 DEF FInv, Coverage, Covered, Opened, UpkeepDue
  <2>4. \A i \in Ids : Alike(reworded, recs, Tree, i)
    BY <2>2, <2>3 DEF Near, JobDue
  <2> QED
    BY <2>1, <2>4 DEF Alike, Tree, Ids
<1> QED
  BY <1>1, IndexInvariant, CoverageInvariant, PTL
=============================================================================

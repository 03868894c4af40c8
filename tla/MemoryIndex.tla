---------------------------- MODULE MemoryIndex ----------------------------
(***************************************************************************)
(* What is derived from the memory tree: the semantic layers (L0/L1) of a  *)
(* directory and the published vector index, and the three callers that    *)
(* keep them up to date or read them:                                      *)
(*   "job"    the finalizer of a committed memory job: refresh the layers, *)
(*            then PersistentMemoryVectorIndex.synchronize, then complete; *)
(*   "upkeep" a memory compaction or retirement: commit L2, refresh the    *)
(*            layers, then PersistentMemoryVectorIndex.rebuild;            *)
(*   "search" a recall (or the start of the runtime): ensure_ready, then   *)
(*            PublishedVectorStore.search.                                 *)
(* Every durable write of the backend is a step of its own; any caller may *)
(* stop between two of them (an error, a cancellation, a crash).           *)
(***************************************************************************)
EXTENDS Naturals, FiniteSets

CONSTANTS
    Docs,         \* the L2 documents of one directory
    MaxContent,   \* contents of a document: 1..MaxContent, 0 = no such document
    Texts,        \* wordings the model may give the overview of one snapshot
    Models,       \* embedding models the deployment may be configured with
    DimOf,        \* the vector dimension of each of them
    OneIndex,     \* the callers share one index object (one process) or not
    StaleRetries, \* stale_retries of the vector index and of the refresher
    ReadAttempts, \* attempts of a search to read one publication (8 in the code)
    MaxJobs, MaxUpkeeps, MaxFaults, MaxConfigs, MaxGen

ASSUME IndexAssumption ==
    /\ {MaxContent, StaleRetries, ReadAttempts, MaxJobs, MaxUpkeeps, MaxFaults,
        MaxConfigs, MaxGen} \subseteq Nat
    /\ Texts \subseteq Nat \ {0}
    /\ Texts # {}
    /\ Models # {}
    /\ DimOf \in [Models -> Nat \ {0}]
    /\ IsFiniteSet(Docs) /\ "layers" \notin Docs
    /\ OneIndex \in BOOLEAN

VARIABLES
    docs,       \* the committed L2 documents
    layer,      \* L0/L1 of the directory: the snapshot it was written from and its wording
    dim,        \* schema_info of the backend, 0 before the first publication
    state,      \* the "state" metadata of the collection
    claim,      \* the "claim" metadata: "none", "building" or "ready"
    recs,       \* the records of the collection
    config,     \* the embedding model the process is configured with
    job,        \* the running memory job
    upkeep,     \* the running compaction or retirement
    run,        \* where each caller is, with its local variables
    indexLock,  \* callers holding the asyncio lock of their index object
    pubLock,    \* callers holding the publication lock of the collection
    published,  \* history: the records the current state was published with
    reworded,   \* history: a repeated finalization worded the layers last
    faults, configs

vars == <<docs, layer, dim, state, claim, recs, config, job, upkeep, run,
          indexLock, pubLock, published, reworded, faults, configs>>

backend == <<dim, state, claim, recs, published>>
work == <<config, job, upkeep, faults, configs>>
locks == <<indexLock, pubLock>>

Actors == {"job", "upkeep", "search"}

Layers == "layers"

Ids == Docs \cup {Layers}

NoDocs == [d \in Docs |-> 0]

NoLayer == [src |-> NoDocs, text |-> 0]

NoState == [model |-> "none", ckpt |-> 0, gen |-> 0, count |-> 0]

\* The index sources of the tree: one record per document and for the layers.
Tree == [i \in Ids |-> IF i = Layers THEN layer ELSE docs[i]]

Absent(i) == IF i = Layers THEN NoLayer ELSE 0

Nothing == [i \in Ids |-> Absent(i)]

Present(m) == {i \in DOMAIN m : m[i] # Absent(i)}

Idle == [pc |-> "idle", tries |-> 0, left |-> 0, back |-> "idle", ckpt |-> 0,
         st |-> NoState, cl |-> "none", src |-> Nothing,
         next |-> NoState, loaded |-> Nothing]

Init ==
    /\ docs = NoDocs
    /\ layer = NoLayer
    /\ dim = 0
    /\ state = NoState
    /\ claim = "none"
    /\ recs = Nothing
    /\ published = Nothing
    /\ reworded = FALSE
    /\ config \in Models
    /\ job = [seq |-> 0, owed |-> FALSE, changed |-> {}]
    /\ upkeep = [count |-> 0, owed |-> FALSE]
    /\ run = [a \in Actors |-> Idle]
    /\ indexLock = {}
    /\ pubLock = {}
    /\ faults = 0
    /\ configs = 0

----------------------------------------------------------------------------
(* The callers' own steps.                                                 *)

At(a, p) == run[a].pc = p

Go(a, p) == run' = [run EXCEPT ![a].pc = p]

\* The call returns and the next one starts with fresh local variables.
Call(a, p) == run' = [run EXCEPT ![a] = [Idle EXCEPT !.pc = p]]

\* The caller raises: every lock it holds is released on the way out.
Raise(a) ==
    /\ run' = [run EXCEPT ![a] = Idle]
    /\ indexLock' = indexLock \ {a}
    /\ pubLock' = pubLock \ {a}

\* A job commits its plan: one L2 document gets other content, or goes away.
CommitJob ==
    /\ ~job.owed
    /\ job.seq < MaxJobs
    /\ \E d \in Docs : \E v \in (0..MaxContent) \ {docs[d]} :
          /\ docs' = [docs EXCEPT ![d] = v]
          /\ job' = [seq |-> job.seq + 1, owed |-> TRUE, changed |-> {d}]
    /\ UNCHANGED <<layer, reworded, backend, config, upkeep, run, locks, faults, configs>>

\* A compaction rewrites a document, a retirement removes it, a restore brings
\* it back: the operation stays DERIVED_PENDING until its derivatives are done.
CommitUpkeep ==
    /\ ~upkeep.owed
    /\ upkeep.count < MaxUpkeeps
    /\ \E d \in Docs : \E v \in (0..MaxContent) \ {docs[d]} :
          docs' = [docs EXCEPT ![d] = v]
    /\ upkeep' = [count |-> upkeep.count + 1, owed |-> TRUE]
    /\ UNCHANGED <<layer, reworded, backend, config, job, run, locks, faults, configs>>

\* The finalizer, or the recovery of the operation, starts with the layers.
StartDerived(a) ==
    /\ At(a, "idle")
    /\ IF a = "job" THEN job.owed ELSE upkeep.owed
    /\ run' = [run EXCEPT ![a] = [Idle EXCEPT !.pc = "snapshot",
                                              !.tries = StaleRetries]]
    /\ UNCHANGED <<docs, layer, reworded, backend, work, locks>>

StartSearch ==
    /\ At("search", "idle")
    /\ state.gen < MaxGen
    /\ Go("search", "ensure")
    /\ UNCHANGED <<docs, layer, reworded, backend, work, locks>>

\* store.complete of the job, or the end of the upkeep operation.
Finish(a) ==
    /\ At(a, "finish")
    /\ run' = [run EXCEPT ![a] = Idle]
    /\ IF a = "job"
         THEN /\ job' = [job EXCEPT !.owed = FALSE]
              /\ UNCHANGED upkeep
         ELSE /\ upkeep' = [upkeep EXCEPT !.owed = FALSE]
              /\ UNCHANGED job
    /\ UNCHANGED <<docs, layer, reworded, backend, config, locks, faults, configs>>

----------------------------------------------------------------------------
(* MemorySemanticRefresher.refresh_directory: a snapshot under the tree's  *)
(* lock, the model's overview of it without the lock, and the layers       *)
(* written under the lock if the directory is still the same.              *)

Snapshot(a) ==
    /\ At(a, "snapshot")
    /\ run' = [run EXCEPT ![a].pc = "refresh",
                          ![a].src = [@ EXCEPT ![Layers] = [NoLayer EXCEPT !.src = docs]]]
    /\ UNCHANGED <<docs, layer, reworded, backend, work, locks>>

\* The increment of the job is already published, or in a publication under way.
Repeated == \/ state.ckpt = job.seq
            \/ \E b \in Actors : run[b].ckpt = job.seq

\* The model words the overview anew every time; a finalization that is repeated
\* after its increment was published (Repeated) words it for nobody.
RefreshLayers(a) ==
    /\ At(a, "refresh")
    /\ LET snap == run[a].src[Layers].src IN
       IF docs # snap
         THEN /\ UNCHANGED <<layer, reworded>>
              /\ IF run[a].tries > 0
                   THEN /\ run' = [run EXCEPT ![a].pc = "snapshot", ![a].tries = @ - 1]
                        /\ UNCHANGED locks
                   ELSE Raise(a)
         ELSE /\ \E t \in Texts :
                    layer' = IF snap = NoDocs THEN NoLayer
                                              ELSE [src |-> snap, text |-> t]
              /\ reworded' = (a = "job" /\ Repeated)
              /\ Call(a, IF a = "job" THEN "ensure" ELSE "rebuild")
              /\ UNCHANGED locks
    /\ UNCHANGED <<docs, backend, work>>

----------------------------------------------------------------------------
(* PersistentMemoryVectorIndex.                                            *)

Tries(a) == IF a = "search" THEN ReadAttempts - 1 ELSE StaleRetries

LockFree(a) == (indexLock \ {a}) = {} \/ ~OneIndex

\* store.state() and _state_matches: a state whose claim says "building" is not
\* ready, one of another embedding model does not match.
\* Mutant of StateMatches: a state that is not ready is taken for a good one.
StateMatchesUnready == state # NoState /\ state.model = config

StateMatches == state # NoState /\ claim = "ready" /\ state.model = config

Rebuilding(r, back) ==
    [r EXCEPT !.pc = "state", !.back = back, !.left = StaleRetries,
              !.ckpt = state.ckpt]

\* ensure_ready: a look at the state, and a rebuild under the lock if it does
\* not match.  The rebuild keeps the checkpoint of the state it saw.
Ensure(a) ==
    /\ At(a, "ensure")
    /\ LockFree(a)
    /\ LET after == IF a = "job" THEN "sync" ELSE "load" IN
       IF StateMatches
         THEN /\ run' = [run EXCEPT ![a].pc = after, ![a].tries = Tries(a)]
              /\ UNCHANGED indexLock
         ELSE /\ run' = [run EXCEPT ![a] = Rebuilding(@, after)]
              /\ indexLock' = indexLock \cup {a}
    /\ UNCHANGED <<docs, layer, reworded, backend, work, pubLock>>

\* rebuild(): always a new publication, with the checkpoint it finds.
Rebuild(a) ==
    /\ At(a, "rebuild")
    /\ LockFree(a)
    /\ run' = [run EXCEPT ![a] = Rebuilding(@, "finish")]
    /\ indexLock' = indexLock \cup {a}
    /\ UNCHANGED <<docs, layer, reworded, backend, work, pubLock>>

\* synchronize, at the head of its loop.
Synchronize ==
    /\ At("job", "sync")
    /\ LockFree("job")
    /\ indexLock' = indexLock \cup {"job"}
    /\ run' = [run EXCEPT !["job"] =
                  IF StateMatches THEN [@ EXCEPT !.pc = "compare", !.st = state]
                                  ELSE Rebuilding(@, "compare")]
    /\ UNCHANGED <<docs, layer, reworded, backend, work, pubLock>>

\* The checkpoint decides: nothing to do, an error, or the changed documents
\* and the refreshed layers are read from the tree.
Compare ==
    /\ At("job", "compare")
    /\ CASE run["job"].st.ckpt = job.seq ->
              /\ run' = [run EXCEPT !["job"] = [Idle EXCEPT !.pc = "finish"]]
              /\ indexLock' = indexLock \ {"job"}
              /\ UNCHANGED pubLock
         [] run["job"].st.ckpt > job.seq -> Raise("job")
         [] OTHER ->
              /\ run' = [run EXCEPT !["job"].pc = "apply", !["job"].src = Tree]
              /\ UNCHANGED locks
    /\ UNCHANGED <<docs, layer, reworded, backend, work>>

\* _rebuild_locked: the generation it expects is read before the tree.
ReadState(a) ==
    /\ At(a, "state")
    /\ run' = [run EXCEPT ![a].pc = "walk", ![a].st = state]
    /\ UNCHANGED <<docs, layer, reworded, backend, work, locks>>

Walk(a) ==
    /\ At(a, "walk")
    /\ run' = [run EXCEPT ![a].pc = "replace", ![a].src = Tree]
    /\ UNCHANGED <<docs, layer, reworded, backend, work, locks>>

----------------------------------------------------------------------------
(* PublishedVectorStore: the two mutations under the publication guard.    *)

GuardFree == pubLock = {}

Enter(a) == pubLock' = pubLock \cup {a}

\* A conflict inside replace_all: read the state again, or give up.
ConflictedRebuild(a) ==
    IF run[a].left > 0
      THEN /\ run' = [run EXCEPT ![a].pc = "state", ![a].left = @ - 1]
           /\ UNCHANGED locks
      ELSE Raise(a)

\* replace_all up to the schema: the generation must be the expected one; a
\* new dimension empties the collection, its metadata included.
Replace(a) ==
    /\ At(a, "replace")
    /\ GuardFree
    /\ IF run[a].st.gen # state.gen
         THEN /\ ConflictedRebuild(a)
              /\ UNCHANGED backend
         ELSE /\ Enter(a)
              /\ run' = [run EXCEPT ![a].pc = "claim",
                                    ![a].next = [model |-> config, ckpt |-> run[a].ckpt,
                                                 gen |-> state.gen + 1,
                                                 count |-> Cardinality(Present(run[a].src))]]
              /\ dim' = DimOf[config]
              /\ IF dim = DimOf[config]
                   THEN UNCHANGED <<state, claim, recs, published>>
                   ELSE /\ state' = NoState
                        /\ claim' = "none"
                        /\ recs' = Nothing
                        /\ published' = Nothing
              /\ UNCHANGED indexLock
    /\ UNCHANGED <<docs, layer, reworded, work>>

Claim(a) ==
    /\ At(a, "claim")
    /\ claim' = "building"
    /\ Go(a, "clear")
    /\ UNCHANGED <<docs, layer, reworded, dim, state, recs, published, work, locks>>

DeleteAll(a) ==
    /\ At(a, "clear")
    /\ recs' = Nothing
    /\ Go(a, "fill")
    /\ UNCHANGED <<docs, layer, reworded, dim, state, claim, published, work, locks>>

UpsertAll(a) ==
    /\ At(a, "fill")
    /\ recs' = run[a].src
    /\ run' = [run EXCEPT ![a].pc = "publish", ![a].src = Nothing]
    /\ UNCHANGED <<docs, layer, reworded, dim, state, claim, published, work, locks>>

\* Mutant of Changed: the refreshed layers are not part of the increment.
ChangedDocumentsOnly == job.changed

\* apply up to the claim: generation and checkpoint must be the expected ones,
\* and nothing may be half published.  The record count is computed from the
\* records that exist.
Changed == job.changed \cup {Layers}

ResultCount(src) ==
    state.count + Cardinality({i \in Changed : i \in Present(src) /\ i \notin Present(recs)})
                - Cardinality({i \in Changed : i \notin Present(src) /\ i \in Present(recs)})

Apply ==
    /\ At("job", "apply")
    /\ GuardFree
    /\ LET r == run["job"] IN
       IF \/ <<state.gen, state.ckpt>> # <<r.st.gen, r.st.ckpt>>
          \/ state = NoState
          \/ claim = "building"
         THEN /\ UNCHANGED claim
              /\ IF r.tries > 0
                   THEN /\ run' = [run EXCEPT !["job"].pc = "sync", !["job"].tries = @ - 1]
                        /\ UNCHANGED locks
                   ELSE Raise("job")
         ELSE /\ Enter("job")
              /\ claim' = "building"
              /\ run' = [run EXCEPT !["job"].pc = "upsert",
                                    !["job"].st = state,
                                    !["job"].next = [state EXCEPT !.ckpt = job.seq,
                                                                  !.gen = @ + 1,
                                                                  !.count = ResultCount(r.src)]]
              /\ UNCHANGED indexLock
    /\ UNCHANGED <<docs, layer, reworded, dim, state, recs, published, work>>

Upsert ==
    /\ At("job", "upsert")
    /\ recs' = [i \in Ids |-> IF i \in Changed /\ i \in Present(run["job"].src)
                              THEN run["job"].src[i] ELSE recs[i]]
    /\ Go("job", "delete")
    /\ UNCHANGED <<docs, layer, reworded, dim, state, claim, published, work, locks>>

Delete ==
    /\ At("job", "delete")
    /\ recs' = [i \in Ids |-> IF i \in Changed /\ i \notin Present(run["job"].src)
                              THEN Absent(i) ELSE recs[i]]
    /\ run' = [run EXCEPT !["job"].pc = "publish", !["job"].src = Nothing]
    /\ UNCHANGED <<docs, layer, reworded, dim, state, claim, published, work, locks>>

\* _write_state of the new generation (of apply only if the state is still the
\* one it started from); the claim still says "building".
\* Mutant of WriteState: the claim is opened before the state is written.
WriteStateLate(a) ==
    /\ At(a, "publish")
    /\ claim' = "ready"
    /\ Go(a, "open")
    /\ UNCHANGED <<docs, layer, reworded, dim, state, recs, published, work, locks>>

WriteState(a) ==
    /\ At(a, "publish")
    /\ IF run[a].back = "idle" /\ state # run[a].st
         THEN /\ Raise(a)
              /\ UNCHANGED <<state, published>>
         ELSE /\ state' = run[a].next
              /\ published' = recs
              /\ Go(a, "open")
              /\ UNCHANGED locks
    /\ UNCHANGED <<docs, layer, reworded, dim, claim, recs, work>>

\* The claim is opened, the guard is left and the index returns to its caller:
\* the rebuild inside synchronize keeps the index lock and goes on with the
\* state it published, every other return releases it.
Open(a) ==
    /\ At(a, "open")
    /\ claim' = "ready"
    /\ pubLock' = pubLock \ {a}
    /\ LET to == IF run[a].back = "idle" THEN "finish" ELSE run[a].back IN
       /\ run' = [run EXCEPT ![a] = [Idle EXCEPT !.pc = to,
                                                 !.tries = Tries(a),
                                                 !.st = IF to = "compare" THEN run[a].next
                                                                          ELSE NoState]]
       /\ indexLock' = IF to = "compare" THEN indexLock ELSE indexLock \ {a}
    /\ UNCHANGED <<docs, layer, reworded, dim, state, recs, published, work>>

----------------------------------------------------------------------------
(* PublishedVectorStore.search: the publication is read before and after   *)
(* the query, and the answer counts only if it did not change.             *)

Load ==
    /\ At("search", "load")
    /\ IF claim = "building"
         THEN Raise("search")
         ELSE /\ run' = [run EXCEPT !["search"].pc = "query", !["search"].st = state,
                                    !["search"].cl = claim,
                                    !["search"].loaded = published]
              /\ UNCHANGED locks
    /\ UNCHANGED <<docs, layer, reworded, backend, work>>

Query ==
    /\ At("search", "query")
    /\ run' = [run EXCEPT !["search"].pc = "verify", !["search"].src = recs]
    /\ UNCHANGED <<docs, layer, reworded, backend, work, locks>>

\* Mutant of Verify: the claim is not part of what must not have changed.
VerifyStateOnly ==
    /\ At("search", "verify")
    /\ IF run["search"].st = state
         THEN /\ Go("search", "answer")
              /\ UNCHANGED locks
         ELSE Raise("search")
    /\ UNCHANGED <<docs, layer, reworded, backend, work>>

Verify ==
    /\ At("search", "verify")
    /\ CASE run["search"].st = state /\ run["search"].cl = claim ->
              /\ Go("search", "answer")
              /\ UNCHANGED locks
         [] run["search"].tries > 0 ->
              /\ run' = [run EXCEPT !["search"].pc = "load", !["search"].tries = @ - 1]
              /\ UNCHANGED locks
         [] OTHER -> Raise("search")
    /\ UNCHANGED <<docs, layer, reworded, backend, work>>

\* The hits go back to the caller, after _matches compared each with the tree:
\* a stale one is an error.
Answer ==
    /\ At("search", "answer")
    /\ run' = [run EXCEPT !["search"] = Idle]
    /\ UNCHANGED <<docs, layer, reworded, backend, work, locks>>

----------------------------------------------------------------------------
(* Faults and the specification.                                           *)

\* A caller stops where it is: the backend or the model raised, the call was
\* cancelled, the job's lease was lost, or the process died.
Stop(a) ==
    /\ ~At(a, "idle")
    /\ faults < MaxFaults
    /\ faults' = faults + 1
    /\ Raise(a)
    /\ UNCHANGED <<docs, layer, reworded, backend, config, job, upkeep, configs>>

\* The service is restarted with another embedding model.
Reconfigure ==
    /\ configs < MaxConfigs
    /\ \A a \in Actors : At(a, "idle")
    /\ config' \in Models \ {config}
    /\ configs' = configs + 1
    /\ UNCHANGED <<docs, layer, reworded, backend, job, upkeep, run, locks, faults>>

\* The steps of a publication and of the walk before it, by any caller.
Publish(a) ==
    \/ ReadState(a)
    \/ Walk(a)
    \/ Replace(a)
    \/ Claim(a)
    \/ DeleteAll(a)
    \/ UpsertAll(a)
    \/ WriteState(a)
    \/ Open(a)

Derive(a) ==
    \/ StartDerived(a)
    \/ Snapshot(a)
    \/ RefreshLayers(a)
    \/ Finish(a)

JobStep ==
    \/ Derive("job")
    \/ Ensure("job")
    \/ Synchronize
    \/ Compare
    \/ Apply
    \/ Upsert
    \/ Delete
    \/ Publish("job")

UpkeepStep ==
    \/ Derive("upkeep")
    \/ Rebuild("upkeep")
    \/ Publish("upkeep")

SearchStep ==
    \/ Ensure("search")
    \/ Load
    \/ Query
    \/ Verify
    \/ Answer
    \/ Publish("search")

Next ==
    \/ CommitJob
    \/ CommitUpkeep
    \/ StartSearch
    \/ JobStep
    \/ UpkeepStep
    \/ SearchStep
    \/ \E a \in Actors : Stop(a)
    \/ Reconfigure

Spec == Init /\ [][Next]_vars

\* The worker retries a job it owes and the lifecycle worker an operation that
\* is DERIVED_PENDING; a call that was started goes on.  Searches, commits,
\* faults and restarts are never owed.
Fairness == WF_vars(JobStep) /\ WF_vars(UpkeepStep) /\ WF_vars(SearchStep)

FairSpec == Spec /\ Fairness

----------------------------------------------------------------------------
(* Properties.                                                             *)

PCs == {"idle", "snapshot", "refresh", "ensure", "rebuild", "sync", "compare",
        "state", "walk", "replace", "claim", "clear", "fill", "apply", "upsert",
        "delete", "publish", "open", "finish", "load", "query", "verify", "answer"}

TypeOK ==
    /\ docs \in [Docs -> 0..MaxContent]
    /\ layer.src \in [Docs -> 0..MaxContent]
    /\ layer.text \in Texts \cup {0}
    /\ reworded \in BOOLEAN
    /\ claim \in {"none", "building", "ready"}
    /\ config \in Models
    /\ job.seq \in 0..MaxJobs
    /\ \A a \in Actors : run[a].pc \in PCs
    /\ indexLock \subseteq Actors
    /\ Cardinality(pubLock) <= 1

\* A collection that says it is ready is exactly what was published with its
\* state, record for record and with the count the state announces, and no
\* crash between the writes of a publication leaves metadata that
\* _validate_publication refuses.
PublicationIsWhole ==
    /\ claim = "ready" => /\ state # NoState
                          /\ recs = published
                          /\ state.count = Cardinality(Present(recs))
    /\ claim = "none" => state = NoState

\* A search answers from one publication: what it returns is the whole record
\* set of the state it loaded, whatever was published or cut off meanwhile.
AnswersOnePublication == At("search", "answer") => run["search"].src = run["search"].loaded

\* When neither a job nor an upkeep operation is pending and the index is ready, its records are
\* the tree's documents and an overview of exactly these documents, and the layers of the tree are
\* one too: no rebuild publishes a tree it walked before a commit that was already indexed, and no
\* two refreshes that overlap with each other's commits leave an overview of older documents.  The
\* overview in the index is worded as the one in the tree unless the last to word it was a
\* finalization repeated after its increment was published (reworded): synchronize finds its
\* checkpoint there and returns, and the index keeps the earlier wording.
IndexFollowsTree ==
    ~job.owed /\ ~upkeep.owed /\ StateMatches =>
        /\ layer.src = docs
        /\ recs[Layers].src = docs
        /\ \A i \in Ids \ {Layers} : recs[i] = docs[i]
        /\ recs[Layers] = layer \/ reworded

\* A committed job and a pending operation are always finished: a publication
\* that was cut off is rebuilt and never blocks the increments after it.
OwedIsFinished ==
    /\ job.owed ~> ~job.owed
    /\ upkeep.owed ~> ~upkeep.owed

============================================================================

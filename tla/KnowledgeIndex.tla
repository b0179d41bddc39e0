--------------------------- MODULE KnowledgeIndex ---------------------------
(***************************************************************************)
(* How one knowledge document is stored, indexed and withdrawn:            *)
(* src/apps/server/src/repositories/knowledge-index.repository.ts, driven  *)
(* by services/tenant-knowledge.service.ts and                             *)
(* workflows/vectorize.workflow.ts.  Module KnowledgeDeletion adds the     *)
(* deletion of the document.                                               *)
(*                                                                         *)
(* An action is one D1 batch, or the effect of one call of a provider (R2, *)
(* Vectorize).  A process may die between any two of its steps, and the    *)
(* answer of a provider may be lost, with or without the effect.           *)
(*                                                                         *)
(* Abstractions.  A lease of five minutes is live until it lapses, at any  *)
(* time.  A manifest batch holds one chunk.  The budget admission of every *)
(* step, the dispatch counters, titles, tiers, categories and the QA       *)
(* articles are left out; a D1 call does not fail.                         *)
(***************************************************************************)
EXTENDS Integers, FiniteSets

CONSTANTS
  MaxVersion,   \* bound on the versions staged
  MaxChunks,    \* bound on the chunks of a source
  Indexers,     \* concurrent workflow instances
  Deleters,     \* concurrent deletion steps
  Scenarios     \* what the editors and the environment do in one behaviour

Versions == 1 .. MaxVersion
ChunkIds == 0 .. MaxChunks - 1
Kinds == {"none", "counted", "unknown"}

ASSUME KnowledgeAssumption ==
  /\ MaxVersion \in Nat \ {0} /\ MaxChunks \in Nat \ {0}
  /\ Scenarios \subseteq
       [legacy : Kinds, chunks : 1 .. MaxChunks, indexers : SUBSET Indexers, deleters : SUBSET Deleters,
        updates : Nat, unpublishes : Nat, deletes : Nat,
        crashes : Nat, losses : Nat, delays : Nat]

VARIABLES
  doc,       \* the row of knowledge_docs: [status, path]
  version,   \* knowledge_index_versions and knowledge_index_jobs
  chunk,     \* knowledge_index_chunks
  lapsed,    \* provider leases that have run out: versions and chunks
  r2,        \* the sources stored; 0 is one from before the manifests
  vectors,   \* the vectors stored
  effects,   \* history: how often each chunk was sent to the index
  target,    \* knowledge_index_cleanup_jobs: versions up to target; 0 for none
  del,       \* knowledge_delete_jobs (module KnowledgeDeletion)
  stager,    \* where the staging of each version is
  indexer,   \* where each workflow instance is
  cleaner,   \* the cleanup under way
  withdrawal,\* an unpublication under way
  left       \* what is left of the scenario

indexVars == <<doc, version, chunk, lapsed, r2, vectors, effects, target, del,
               stager, indexer, cleaner, withdrawal, left>>

VersionStates == {"none", "source_pending", "preparing", "pending", "indexed",
                  "failed", "withdrawn"}
JobStates == {"none", "source_pending", "preparing", "pending", "complete",
              "uncertain", "failed_cleanup", "failed"}
ChunkStates == {"none", "pending", "claimed", "indexed", "uncertain",
                "cleanup_claimed", "cleaned"}

NoVersion == [state |-> "none", job |-> "none", next |-> 0, count |-> 0]
NoDelete == [state |-> "none", max |-> 0, legacyPath |-> FALSE, legacyCount |-> 0,
             source |-> -1, sourcesDone |-> FALSE, cut |-> <<0, -1>>, vectorsDone |-> FALSE]
Idle == [pc |-> "idle", v |-> 0, c |-> 0]

Staged == {v \in Versions : version[v].state # "none"}
LatestVersion == IF Staged = {} THEN 0 ELSE CHOOSE v \in Staged : \A u \in Staged : u <= v

\* isCurrent: the latest version whose manifest is durable.
Manifested == {v \in Versions : version[v].state \in {"pending", "indexed"}}
IsCurrent(v) == v \in Manifested /\ \A u \in Manifested : u <= v

\* A delete job or a tombstone: nothing new may begin.  The tombstone lives
\* only inside the batch that removes the job.
Deleting == del.state \notin {"none", "done"}

KnowledgeInit ==
  /\ left \in Scenarios
  /\ doc = [status |-> IF left.legacy = "none" THEN "absent" ELSE "published", path |-> 0]
  /\ version = [v \in Versions |-> NoVersion]
  /\ chunk = [v \in Versions |-> [c \in ChunkIds |-> "none"]]
  /\ lapsed = {} /\ effects = [v \in Versions |-> [c \in ChunkIds |-> 0]]
  /\ r2 = IF left.legacy = "none" THEN {} ELSE {0}
  /\ vectors = IF left.legacy = "none" THEN {} ELSE {<<0, 0>>}
  /\ target = 0 /\ del = NoDelete
  /\ stager = [v \in Versions |-> "idle"]
  /\ indexer = [w \in Indexers |-> Idle]
  /\ cleaner = [pc |-> "idle", ids |-> {}] /\ withdrawal = "idle"

Use(what) == left[what] > 0 /\ left' = [left EXCEPT ![what] = @ - 1]
Free == UNCHANGED left

-----------------------------------------------------------------------------
(* Staging a source: stageSource().                                        *)

\* begin: one batch with the source statements.  They create the row of a new
\* document with its first version; an update needs the row.
BeginSource(v) ==
  /\ v = LatestVersion + 1
  /\ IF v = 1 /\ left.legacy = "none"
     THEN doc.status = "absent" /\ del.state = "none" /\ Free
     ELSE doc.status # "absent" /\ ~Deleting /\ Use("updates")
  /\ doc' = [doc EXCEPT !.status = "pending"]
  /\ version' = [version EXCEPT ![v] = [state |-> "source_pending", job |-> "source_pending",
                                        next |-> 0, count |-> 0]]
  /\ stager' = [stager EXCEPT ![v] = "begun"]
  /\ UNCHANGED <<chunk, lapsed, r2, vectors, effects, target, del, indexer, cleaner, withdrawal>>

StageTo(v, pc) == stager' = [stager EXCEPT ![v] = pc]

AuthorizeSource(v) ==
  /\ stager[v] = "begun"
  /\ IF /\ version[v].state = "source_pending" /\ version[v].job = "source_pending"
        /\ <<v, -1>> \notin lapsed /\ ~Deleting
     THEN StageTo(v, "putting") ELSE StageTo(v, "failing")
  /\ UNCHANGED <<doc, version, chunk, lapsed, r2, vectors, effects, target, del, indexer,
                 cleaner, withdrawal, left>>

PutSource(v) ==
  /\ stager[v] = "putting"
  /\ \/ r2' = r2 \cup {v} /\ StageTo(v, "put") /\ Free
     \/ r2' \in {r2, r2 \cup {v}} /\ StageTo(v, "failing") /\ Use("losses")
  /\ UNCHANGED <<doc, version, chunk, lapsed, vectors, effects, target, del, indexer, cleaner,
                 withdrawal>>

\* sourceCaptured: all of the batch or nothing.
CaptureSource(v) ==
  /\ stager[v] = "put"
  /\ IF /\ version[v].state = "source_pending" /\ version[v].job = "source_pending"
        /\ ~Deleting /\ doc.status # "absent"
     THEN /\ version' = [version EXCEPT ![v].state = "preparing", ![v].job = "preparing"]
          /\ doc' = [status |-> "pending", path |-> v]
          /\ StageTo(v, "done")
     ELSE StageTo(v, "failing") /\ UNCHANGED <<doc, version>>
  /\ UNCHANGED <<chunk, lapsed, r2, vectors, effects, target, del, indexer, cleaner, withdrawal, left>>

Unpark == IF del.state = "producer_unresolved" THEN [del EXCEPT !.state = "active"] ELSE del

\* sourceFailed.
FailedSource(v) ==
  LET fails == \/ version[v].state \in {"source_pending", "preparing"}
               \/ version[v].state = "withdrawn" /\ Deleting
      state == IF fails THEN "failed" ELSE version[v].state
  IN /\ version' = [version EXCEPT ![v].state = state,
                      ![v].job = IF fails /\ @ \in {"none", "source_pending", "preparing"}
                                 THEN "failed_cleanup" ELSE @]
     /\ del' = IF state = "failed" THEN Unpark ELSE del

FailSource(v) ==
  /\ stager[v] = "failing"
  /\ FailedSource(v) /\ StageTo(v, "done")
  /\ UNCHANGED <<doc, chunk, lapsed, r2, vectors, effects, target, indexer, cleaner, withdrawal, left>>

-----------------------------------------------------------------------------
(* A workflow instance: preparation, indexing, cleanup of failed sources.  *)

IndexTo(w, state) == indexer' = [indexer EXCEPT ![w] = state]
At(w, pc) == indexer[w].pc = pc

\* preparation: the cursor is read, then the range of the source.
ReadPreparation(w, v) ==
  /\ At(w, "idle")
  /\ version[v].state = "preparing" /\ version[v].job = "preparing" /\ ~Deleting
  /\ IndexTo(w, [pc |-> "preparing", v |-> v, c |-> version[v].next])
  /\ UNCHANGED <<doc, version, chunk, lapsed, r2, vectors, effects, target, del, stager,
                 cleaner, withdrawal, left>>

\* Mutant of LastBatch: the end of the source is missed by one.
LastBatchLate(c) == c = left.chunks

LastBatch(c) == c + 1 = left.chunks

\* publishPreparationBatch is fenced by the cursor; a range that is missing or
\* a batch that is refused fails the source.
PublishBatch(w) ==
  LET v == indexer[w].v
      c == indexer[w].c
      ready == LastBatch(c)
      state == IF ready THEN "pending" ELSE "preparing"
  IN /\ At(w, "preparing")
     /\ IF /\ v \in r2 /\ ~Deleting
           /\ version[v].state = "preparing" /\ version[v].job = "preparing"
           /\ version[v].next = c
        THEN /\ version' = [version EXCEPT ![v] =
                  [state |-> state, job |-> state, next |-> IF ready THEN 0 ELSE c + 1, count |-> c + 1]]
             /\ chunk' = [chunk EXCEPT ![v][c] = "pending"]
             /\ IndexTo(w, IF ready THEN [indexer[w] EXCEPT !.pc = "ready"] ELSE Idle)
             /\ UNCHANGED del
        ELSE FailedSource(v) /\ UNCHANGED chunk /\ IndexTo(w, Idle)
     /\ UNCHANGED <<doc, lapsed, r2, vectors, effects, target, stager, cleaner, withdrawal, left>>

\* Reading or decoding the range throws, though the source is there.
FailRead(w) ==
  /\ At(w, "preparing")
  /\ FailedSource(indexer[w].v) /\ IndexTo(w, Idle) /\ Use("losses")
  /\ UNCHANGED <<doc, chunk, lapsed, r2, vectors, effects, target, stager, cleaner, withdrawal>>

\* When the manifest is whole, the row is written once more, unfenced.
MarkReady(w) ==
  /\ At(w, "ready")
  /\ doc' = IF doc.status = "absent" THEN doc ELSE [doc EXCEPT !.status = "pending"]
  /\ IndexTo(w, Idle)
  /\ UNCHANGED <<version, chunk, lapsed, r2, vectors, effects, target, del, stager, cleaner,
                 withdrawal, left>>

\* cleanupFailedSourceBatch.
CleanFailedSource(v) ==
  /\ version[v].job = "failed_cleanup"
  /\ chunk' = [chunk EXCEPT ![v] = [c \in ChunkIds |-> IF @[c] = "pending" THEN "none" ELSE @[c]]]
  /\ version' = [version EXCEPT ![v].job = "failed"]
  /\ UNCHANGED <<doc, lapsed, r2, vectors, effects, target, del, stager, indexer, cleaner,
                 withdrawal, left>>

\* What the workflow and indexManifestChunk check before they claim.
CheckChunk(w, v) ==
  /\ At(w, "idle")
  /\ version[v].job = "pending" /\ version[v].next < version[v].count
  /\ doc.status # "absent" /\ version[v].state = "pending" /\ IsCurrent(v) /\ doc.path = v
  /\ IndexTo(w, [pc |-> "checked", v |-> v, c |-> version[v].next])
  /\ UNCHANGED <<doc, version, chunk, lapsed, r2, vectors, effects, target, del, stager,
                 cleaner, withdrawal, left>>

\* Mutant of ClaimChunk: the state of the chunk is not in the WHERE clause.
ClaimAnyChunk(w) ==
  LET v == indexer[w].v
      c == indexer[w].c
  IN /\ At(w, "checked")
     /\ IF ~Deleting
        THEN /\ chunk' = [chunk EXCEPT ![v][c] = "claimed"]
             /\ IndexTo(w, [indexer[w] EXCEPT !.pc = "claimed"])
        ELSE UNCHANGED chunk /\ IndexTo(w, Idle)
     /\ UNCHANGED <<doc, version, lapsed, r2, vectors, effects, target, del, stager,
                    cleaner, withdrawal, left>>

\* claim, then the embedding is computed.
ClaimChunk(w) ==
  LET v == indexer[w].v
      c == indexer[w].c
  IN /\ At(w, "checked")
     /\ IF chunk[v][c] = "pending" /\ ~Deleting
        THEN /\ chunk' = [chunk EXCEPT ![v][c] = "claimed"]
             /\ IndexTo(w, [indexer[w] EXCEPT !.pc = "claimed"])
        ELSE UNCHANGED chunk /\ IndexTo(w, Idle)
     /\ UNCHANGED <<doc, version, lapsed, r2, vectors, effects, target, del, stager,
                    cleaner, withdrawal, left>>

AuthorizeChunk(w) ==
  LET v == indexer[w].v
      c == indexer[w].c
      owned == chunk[v][c] = "claimed" /\ <<v, c>> \notin lapsed /\ ~Deleting
  IN /\ At(w, "claimed")
     /\ IndexTo(w, [indexer[w] EXCEPT !.pc = IF owned THEN "upserting" ELSE "unsure"])
     /\ UNCHANGED <<doc, version, chunk, lapsed, r2, vectors, effects, target, del, stager,
                    cleaner, withdrawal, left>>

Upsert(w) ==
  LET v == indexer[w].v
      c == indexer[w].c
      stored == vectors' = vectors \cup {<<v, c>>}
  IN /\ At(w, "upserting")
     /\ effects' = [effects EXCEPT ![v][c] = @ + 1]
     /\ \/ stored /\ IndexTo(w, [indexer[w] EXCEPT !.pc = "upserted"]) /\ Free
        \/ /\ stored \/ UNCHANGED vectors
           /\ IndexTo(w, [indexer[w] EXCEPT !.pc = "unsure"]) /\ Use("losses")
     /\ UNCHANGED <<doc, version, chunk, lapsed, r2, target, del, stager, cleaner, withdrawal>>

\* indexed.
ConfirmChunk(w) ==
  LET v == indexer[w].v
      c == indexer[w].c
      owned == chunk[v][c] = "claimed" /\ ~Deleting
      state == IF owned THEN "indexed" ELSE chunk[v][c]
  IN /\ At(w, "upserted")
     /\ chunk' = [chunk EXCEPT ![v][c] = state]
     /\ version' = IF state = "indexed" /\ version[v].next = c
                   THEN [version EXCEPT ![v].next = c + 1, ![v].job = "pending"] ELSE version
     /\ IndexTo(w, IF ~owned THEN [indexer[w] EXCEPT !.pc = "unsure"]
                   ELSE IF c + 1 < version[v].count THEN Idle
                   ELSE [indexer[w] EXCEPT !.pc = "finishing"])
     /\ UNCHANGED <<doc, lapsed, r2, vectors, effects, target, del, stager, cleaner, withdrawal, left>>

\* uncertain: never a free retry.
Unsure(w) ==
  LET v == indexer[w].v
      c == indexer[w].c
  IN /\ At(w, "unsure")
     /\ chunk' = [chunk EXCEPT ![v][c] = IF @ = "claimed" THEN "uncertain" ELSE @]
     /\ version' = IF version[v].state = "none" THEN version
                   ELSE [version EXCEPT ![v].state = "failed", ![v].job = "uncertain"]
     /\ del' = IF version[v].state = "none" THEN del ELSE Unpark
     /\ IndexTo(w, Idle)
     /\ UNCHANGED <<doc, lapsed, r2, vectors, effects, target, stager, cleaner, withdrawal, left>>

\* completeIfFinished: what it answers is whether the job was completed.
Completes(v) == version[v].job = "pending" /\ version[v].next = version[v].count

CompleteVersion(v) ==
  /\ version' = IF Completes(v)
                THEN [version EXCEPT ![v].job = "complete",
                                     ![v].state = IF @ = "pending" THEN "indexed" ELSE @]
                ELSE version
  /\ target' = IF v > 1 /\ v - 1 > target THEN v - 1 ELSE target

\* The instance that indexed the last chunk completes the version and goes on
\* to publish the document; one that finds nothing to index only completes.
FinishVersion(w) ==
  LET v == indexer[w].v
  IN /\ At(w, "finishing")
     /\ IF version[v].state = "none" THEN UNCHANGED <<version, target>> ELSE CompleteVersion(v)
     /\ IndexTo(w, IF version[v].state # "none" /\ Completes(v)
                   THEN [indexer[w] EXCEPT !.pc = "publishing"] ELSE Idle)
     /\ UNCHANGED <<doc, chunk, lapsed, r2, vectors, effects, del, stager, cleaner, withdrawal, left>>

CompleteOnly(v) ==
  /\ version[v].state # "none"
  /\ version[v].job # "pending" \/ version[v].next >= version[v].count
  /\ CompleteVersion(v)
  /\ UNCHANGED <<doc, chunk, lapsed, r2, vectors, effects, del, stager, indexer, cleaner,
                 withdrawal, left>>

PublishDocument(w) ==
  /\ At(w, "publishing")
  /\ doc' = IF doc.status = "absent" THEN doc ELSE [doc EXCEPT !.status = "published"]
  /\ IndexTo(w, Idle)
  /\ UNCHANGED <<version, chunk, lapsed, r2, vectors, effects, target, del, stager, cleaner,
                 withdrawal, left>>

-----------------------------------------------------------------------------
(* Withdrawal and the cleanup of old vectors.                              *)

Unpublish ==
  /\ withdrawal = "idle" /\ doc.status # "absent" /\ Use("unpublishes")
  /\ doc' = [doc EXCEPT !.status = "pending"]
  /\ withdrawal' = "withdrawing"
  /\ UNCHANGED <<version, chunk, lapsed, r2, vectors, effects, target, del, stager, indexer, cleaner>>

\* withdrawAll: the latest version only.
WithdrawAll ==
  /\ withdrawal = "withdrawing"
  /\ withdrawal' = "idle"
  /\ IF Staged = {} THEN UNCHANGED <<version, target>>
     ELSE /\ version' = [version EXCEPT ![LatestVersion].state =
                           IF @ = "failed" THEN @ ELSE "withdrawn"]
          /\ target' = IF LatestVersion > target THEN LatestVersion ELSE target
  /\ UNCHANGED <<doc, chunk, lapsed, r2, vectors, effects, del, stager, indexer, cleaner, left>>

ChunksIn(states) ==
  {p \in Versions \X ChunkIds : chunk[p[1]][p[2]] \in states}

MarkChunks(ids, state) ==
  chunk' = [v \in Versions |-> [c \in ChunkIds |-> IF <<v, c>> \in ids THEN state ELSE chunk[v][c]]]

\* Mutant of Cleanable: the target is ignored.
CleanableAll == ChunksIn({"indexed"})

Cleanable == {p \in ChunksIn({"indexed"}) : p[1] <= target}

\* claimDocumentCleanup.
ClaimCleanup ==
  /\ cleaner.pc = "idle" /\ target > 0 /\ ~Deleting /\ Cleanable # {}
  /\ MarkChunks(Cleanable, "cleanup_claimed")
  /\ cleaner' = [pc |-> "deleting", ids |-> Cleanable]
  /\ UNCHANGED <<doc, version, lapsed, r2, vectors, effects, target, del, stager, indexer,
                 withdrawal, left>>

CleanVectors ==
  /\ cleaner.pc = "deleting"
  /\ \/ vectors' = vectors \ cleaner.ids /\ cleaner' = [cleaner EXCEPT !.pc = "cleaned"] /\ Free
     \/ /\ vectors' \in {vectors, vectors \ cleaner.ids}
        /\ cleaner' = [cleaner EXCEPT !.pc = "release"] /\ Use("losses")
  /\ UNCHANGED <<doc, version, chunk, lapsed, r2, effects, target, del, stager, indexer, withdrawal>>

\* completeDocumentCleanup and releaseDocumentCleanup.
EndCleanup ==
  /\ cleaner.pc \in {"cleaned", "release"}
  /\ MarkChunks(cleaner.ids \cap ChunksIn({"cleanup_claimed"}),
                IF cleaner.pc = "cleaned" THEN "cleaned" ELSE "indexed")
  /\ cleaner' = [pc |-> "idle", ids |-> {}]
  /\ UNCHANGED <<doc, version, lapsed, r2, vectors, effects, target, del, stager, indexer,
                 withdrawal, left>>

-----------------------------------------------------------------------------

\* A provider lease runs out.
Lapse ==
  /\ \/ \E v \in Versions : version[v].job = "source_pending" /\ lapsed' = lapsed \cup {<<v, -1>>}
     \/ \E p \in ChunksIn({"claimed"}) : lapsed' = lapsed \cup {p}
  /\ UNCHANGED <<doc, version, chunk, r2, vectors, effects, target, del, stager, indexer,
                 cleaner, withdrawal, left>>

\* A process dies; what it had asked of a provider has happened or never will.
CrashIndex ==
  /\ Use("crashes")
  /\ \/ \E v \in Versions :
          /\ stager[v] \notin {"idle", "done"} /\ stager' = [stager EXCEPT ![v] = "done"]
          /\ r2' \in IF stager[v] = "putting" THEN {r2, r2 \cup {v}} ELSE {r2}
          /\ UNCHANGED <<indexer, cleaner>>
     \/ \E w \in left.indexers :
          /\ ~At(w, "idle") /\ IndexTo(w, Idle)
          /\ UNCHANGED <<r2, stager, cleaner>>
     \/ /\ cleaner.pc # "idle" /\ cleaner' = [pc |-> "idle", ids |-> {}]
        /\ UNCHANGED <<r2, stager, indexer>>
  /\ UNCHANGED <<doc, version, chunk, lapsed, vectors, effects, target, del, withdrawal>>

StageStep(v) ==
  AuthorizeSource(v) \/ PutSource(v) \/ CaptureSource(v) \/ FailSource(v)

IndexStep(w) ==
  \/ PublishBatch(w) \/ FailRead(w) \/ MarkReady(w)
  \/ ClaimChunk(w) \/ AuthorizeChunk(w) \/ Upsert(w) \/ ConfirmChunk(w)
  \/ Unsure(w) \/ FinishVersion(w) \/ PublishDocument(w)

IndexNext ==
  \/ \E v \in Versions : BeginSource(v) \/ StageStep(v) \/ CleanFailedSource(v) \/ CompleteOnly(v)
  \/ \E w \in left.indexers, v \in Versions : ReadPreparation(w, v) \/ CheckChunk(w, v)
  \/ \E w \in left.indexers : IndexStep(w)
  \/ Unpublish \/ WithdrawAll
  \/ ClaimCleanup \/ CleanVectors \/ EndCleanup
  \/ Lapse \/ CrashIndex

=============================================================================

------------------------- MODULE KnowledgeDeletion -------------------------
(***************************************************************************)
(* The deletion of a knowledge document:                                   *)
(* src/apps/server/src/repositories/knowledge-delete.repository.ts, driven *)
(* by runKnowledgeDeleteStep of services/tenant-knowledge.service.ts, once *)
(* by the workflow a DELETE dispatches and then by the scheduled runner of *)
(* auth/knowledge-delete-composition.ts.  It runs against the indexing of  *)
(* the same document (module KnowledgeIndex).                              *)
(*                                                                         *)
(* Abstractions.  A vector batch holds one vector.  The budget admission   *)
(* of each step is left out.  The six passes of claimNext are steps of     *)
(* their own.  What materialize reads and then writes is one action, for   *)
(* once the job exists only deleters write what it reads, and they write   *)
(* it idempotently; the exception is what it reads of the producers.       *)
(***************************************************************************)
EXTENDS KnowledgeIndex

VARIABLES
  work,      \* knowledge_delete_work
  deleter    \* where each deletion step is

knowledgeVars == <<indexVars, work, deleter>>

\* Keys, in the order of claimNext: sources, vectors, finalization.
SourceItem(v) == <<1, v, -1>>
VectorItem(v, c) == <<2, v, c>>
Finalize == <<3, 0, -1>>
Items == {SourceItem(v) : v \in 0 .. MaxVersion}
         \cup {VectorItem(v, c) : v \in Versions, c \in ChunkIds}
         \cup {VectorItem(0, 0), Finalize}

Before(i, j) ==
  \/ i[1] < j[1]
  \/ i[1] = j[1] /\ (i[2] < j[2] \/ (i[2] = j[2] /\ i[3] <= j[3]))
LeastOf(S) == CHOOSE i \in S : \A j \in S : Before(i, j)

\* The attempt token of the code tells one claim from another: here the step
\* that claimed last, for a step makes one claim at a time.
NoWork == [state |-> "none", by |-> {}, lapsed |-> FALSE]
NoStep == [pc |-> "idle", item |-> Finalize]

DeletionInit ==
  /\ KnowledgeInit
  /\ work = [i \in Items |-> NoWork]
  /\ deleter = [d \in Deleters |-> NoStep]

DeleterAt(d, pc) == deleter[d].pc = pc
DeleterTo(d, state) == deleter' = [deleter EXCEPT ![d] = state]
IndexOnly == UNCHANGED <<work, deleter>>
OnlyDeletion == UNCHANGED <<doc, version, chunk, lapsed, r2, vectors, effects, target, stager,
                            indexer, cleaner, withdrawal, left>>

-----------------------------------------------------------------------------

\* How many vectors a document without manifests leaves: its chunk count, and -1,
\* unknown, if it was never counted.  One that is not published is taken to have
\* none.
LegacyCount ==
  IF Staged # {} THEN 0
  ELSE IF left.legacy = "counted" THEN 1
  ELSE IF left.legacy = "unknown" /\ doc.status = "published" THEN -1
  ELSE 0

\* revoke: one batch.  A document whose row is gone only has its token read.
Revoke ==
  /\ doc.status # "absent" /\ del.state = "none" /\ Use("deletes")
  /\ del' = [NoDelete EXCEPT
       !.state = "active", !.max = LatestVersion,
       !.legacyPath = doc.path = 0,
       !.legacyCount = LegacyCount]
  /\ version' = [v \in Versions |->
       IF v = LatestVersion /\ version[v].state # "failed"
       THEN [version[v] EXCEPT !.state = "withdrawn"] ELSE version[v]]
  /\ doc' = [status |-> "absent", path |-> 0]
  /\ UNCHANGED <<chunk, lapsed, r2, vectors, effects, target, stager, indexer, cleaner,
                 withdrawal, work, deleter>>

\* The scheduled runner takes up only jobs in these states.
Scheduled == del.state \in {"active", "finalizing"}

\* A DELETE that is repeated dispatches one more step.
Runs == \/ Scheduled /\ Free
        \/ ~Scheduled /\ Deleting /\ Use("deletes")

-----------------------------------------------------------------------------
(* claimNext.                                                              *)

Overdue(i) == work[i].state = "claimed" /\ work[i].lapsed
Claimable == {i \in Items : work[i].state \in {"pending", "uncertain"} \/ Overdue(i)}

\* Mutant of Recovered: work whose lease ran out stays claimed.
RecoveredNever == work

Recovered ==
  [i \in Items |-> IF Overdue(i) THEN [state |-> "uncertain", by |-> {}, lapsed |-> FALSE] ELSE work[i]]

ClaimWork(d) ==
  LET open == {i \in Items : Recovered[i].state \in {"pending", "uncertain"}}
      i == LeastOf(open)
  IN /\ DeleterAt(d, "idle") /\ Runs /\ open # {}
     /\ work' = [Recovered EXCEPT ![i] = [state |-> "claimed", by |-> {d}, lapsed |-> FALSE]]
     /\ DeleterTo(d, [pc |-> "claimed", item |-> i])
     /\ UNCHANGED <<doc, version, chunk, lapsed, r2, vectors, effects, target, del, stager,
                    indexer, cleaner, withdrawal>>

Pend(i) == work' = [work EXCEPT ![i] = IF @.state = "none" THEN [@ EXCEPT !.state = "pending"] ELSE @]

\* Producers that own a source or a chunk of the deleted versions.
SourceProducers == {v \in 1 .. del.max : version[v].job = "source_pending"}
ChunkProducers == {p \in ChunksIn({"claimed"}) : p[1] <= del.max}
\* Mutant of ProducersSettled: a producer whose lease ran out is not waited for.
ProducersLapsed ==
  IF ~del.sourcesDone THEN \A v \in SourceProducers : <<v, -1>> \in lapsed
  ELSE del.vectorsDone \/ ChunkProducers \subseteq lapsed

ProducersSettled ==
  IF ~del.sourcesDone THEN SourceProducers = {}
  ELSE del.vectorsDone \/ ChunkProducers = {}

\* A live producer is waited for; one whose lease ran out parks the job.
MeetProducer(d) ==
  /\ DeleterAt(d, "idle") /\ Runs /\ Claimable = {}
  /\ ~ProducersSettled
  /\ \E p \in IF ~del.sourcesDone THEN {<<v, -1>> : v \in SourceProducers} ELSE ChunkProducers :
       DeleterTo(d, IF p \in lapsed THEN [NoStep EXCEPT !.pc = "parking"] ELSE NoStep)
  /\ UNCHANGED <<doc, version, chunk, lapsed, r2, vectors, effects, target, del, stager,
                 indexer, cleaner, withdrawal, work>>

Park(d) ==
  /\ DeleterAt(d, "parking") /\ DeleterTo(d, NoStep)
  /\ del' = IF del.state = "active" THEN [del EXCEPT !.state = "producer_unresolved"] ELSE del
  /\ OnlyDeletion /\ UNCHANGED work

After(p, q) == p[1] > q[1] \/ (p[1] = q[1] /\ p[2] > q[2])
FirstOf(S) == CHOOSE p \in S : \A q \in S : ~After(p, q)

\* materialize: the manifest is laid out one item at a time.
LaySources ==
  LET rest == {v \in Staged : v > del.source /\ v <= del.max}
      next == CHOOSE v \in rest : \A u \in rest : v <= u
  IN IF del.source = -1
     THEN /\ del' = [Unpark EXCEPT !.source = 0]
          /\ IF del.legacyPath THEN Pend(SourceItem(0)) ELSE UNCHANGED work
     ELSE IF rest # {}
     THEN del' = [Unpark EXCEPT !.source = next] /\ Pend(SourceItem(next))
     ELSE del' = [Unpark EXCEPT !.sourcesDone = TRUE] /\ UNCHANGED work

LayVectors ==
  LET rows == {p \in ChunksIn(ChunkStates \ {"none"}) : p[1] <= del.max /\ After(p, del.cut)}
      next == FirstOf(rows)
  IN IF rows # {}
     THEN del' = [Unpark EXCEPT !.cut = next] /\ Pend(VectorItem(next[1], next[2]))
     ELSE CASE del.legacyCount = -1 ->
                 del' = [Unpark EXCEPT !.state = "legacy_manifest_required"] /\ UNCHANGED work
            [] del.legacyCount = 1 ->
                 del' = [Unpark EXCEPT !.legacyCount = 0] /\ Pend(VectorItem(0, 0))
            [] OTHER ->
                 del' = [Unpark EXCEPT !.vectorsDone = TRUE, !.state = "finalizing"] /\ UNCHANGED work

Materialize(d) ==
  /\ DeleterAt(d, "idle") /\ Runs /\ Claimable = {}
  /\ del.state # "legacy_manifest_required" /\ ProducersSettled
  /\ IF ~del.sourcesDone THEN LaySources
     ELSE IF ~del.vectorsDone THEN LayVectors
     ELSE Pend(Finalize) /\ UNCHANGED del
  /\ UNCHANGED <<doc, version, chunk, lapsed, r2, vectors, effects, target, stager, indexer,
                 cleaner, withdrawal, deleter>>

-----------------------------------------------------------------------------
(* One unit of work.                                                       *)

Owns(d) == LET w == work[deleter[d].item]
           IN w.state = "claimed" /\ w.by = {d}

AuthorizeEffect(d) ==
  /\ DeleterAt(d, "claimed") /\ deleter[d].item # Finalize
  /\ DeleterTo(d, [deleter[d] EXCEPT !.pc = IF Owns(d) /\ ~work[deleter[d].item].lapsed
                                            THEN "effect" ELSE "unsure"])
  /\ OnlyDeletion /\ UNCHANGED <<del, work>>

\* The provider deletes the source or the vector; deleting twice is harmless.
Erase(i) ==
  IF i[1] = 1 THEN r2' = r2 \ {i[2]} /\ UNCHANGED vectors
  ELSE vectors' = vectors \ {<<i[2], i[3]>>} /\ UNCHANGED r2

Effect(d) ==
  /\ DeleterAt(d, "effect")
  /\ \/ Erase(deleter[d].item) /\ DeleterTo(d, [deleter[d] EXCEPT !.pc = "confirm"]) /\ Free
     \/ /\ Erase(deleter[d].item) \/ UNCHANGED <<r2, vectors>>
        /\ DeleterTo(d, [deleter[d] EXCEPT !.pc = "unsure"]) /\ Use("losses")
  /\ UNCHANGED <<doc, version, chunk, lapsed, effects, target, del, stager, indexer, cleaner,
                 withdrawal, work>>

SetWork(d, state) ==
  work' = IF Owns(d) THEN [work EXCEPT ![deleter[d].item].state = state,
                                       ![deleter[d].item].by = {}, ![deleter[d].item].lapsed = FALSE] ELSE work

\* completeWork, or uncertain.
EndWork(d) ==
  /\ deleter[d].pc \in {"confirm", "unsure"}
  /\ SetWork(d, IF DeleterAt(d, "confirm") THEN "complete" ELSE "uncertain")
  /\ DeleterTo(d, NoStep)
  /\ OnlyDeletion /\ UNCHANGED del

\* finalizeOne: rows go in this order, a bounded number in each call; the last
\* batch removes the job if no other work is left.
Jobs == {v \in 1 .. del.max : version[v].job # "none"}
Complete == {i \in Items : work[i].state = "complete"}
Others == {i \in Items \ {Finalize} : work[i].state # "none"}

Continue(d) == SetWork(d, "pending")

RemoveRows(d) ==
  CASE ChunksIn(ChunkStates \ {"none"}) # {} ->
         /\ MarkChunks(Versions \X ChunkIds, "none") /\ Continue(d)
         /\ UNCHANGED <<version, target, del>>
    [] ChunksIn(ChunkStates \ {"none"}) = {} /\ Jobs # {} ->
         /\ \E v \in Jobs : version' = [version EXCEPT ![v].job = "none"]
         /\ Continue(d) /\ UNCHANGED <<chunk, target, del>>
    [] OTHER ->
         CASE Staged # {} ->
                /\ \E v \in Staged : version' = [version EXCEPT ![v] = NoVersion]
                /\ Continue(d) /\ UNCHANGED <<chunk, target, del>>
           [] Staged = {} /\ target > 0 ->
                target' = 0 /\ Continue(d) /\ UNCHANGED <<version, chunk, del>>
           [] OTHER ->
                /\ UNCHANGED <<version, chunk, target>>
                /\ IF Complete # {}
                   THEN /\ work' = [work EXCEPT ![LeastOf(Complete)] = NoWork,
                                            ![Finalize] = [state |-> "pending", by |-> {}, lapsed |-> FALSE]]
                        /\ UNCHANGED del
                   ELSE IF Others = {}
                   THEN /\ work' = [work EXCEPT ![Finalize] = NoWork]
                        /\ del' = [NoDelete EXCEPT !.state = "done"]
                   ELSE SetWork(d, "uncertain") /\ UNCHANGED del

FinalizeOne(d) ==
  /\ DeleterAt(d, "claimed") /\ deleter[d].item = Finalize
  /\ DeleterTo(d, NoStep)
  /\ IF Owns(d) /\ ~work[Finalize].lapsed
     THEN RemoveRows(d)
     ELSE SetWork(d, "uncertain") /\ UNCHANGED <<version, chunk, target, del>>
  /\ UNCHANGED <<doc, lapsed, r2, vectors, effects, stager, indexer, cleaner, withdrawal, left>>

-----------------------------------------------------------------------------

\* The lease of a dead step's work runs out; a live step may be too slow too.
Held(i) == \E d \in work[i].by : deleter[d].pc # "idle" /\ deleter[d].item = i

LapseWork(i) ==
  /\ work[i].state = "claimed" /\ ~work[i].lapsed
  /\ IF Held(i) THEN Use("delays") ELSE Free
  /\ work' = [work EXCEPT ![i].lapsed = TRUE]
  /\ UNCHANGED <<doc, version, chunk, lapsed, r2, vectors, effects, target, del, stager,
                 indexer, cleaner, withdrawal, deleter>>

CrashDeleter(d) ==
  /\ ~DeleterAt(d, "idle") /\ DeleterTo(d, NoStep) /\ Use("crashes")
  /\ \/ UNCHANGED <<r2, vectors>>
     \/ DeleterAt(d, "effect") /\ Erase(deleter[d].item)
  /\ UNCHANGED <<doc, version, chunk, lapsed, effects, target, del, stager, indexer, cleaner,
                 withdrawal, work>>

DeleterStep(d) ==
  \/ ClaimWork(d) \/ MeetProducer(d) \/ Park(d) \/ Materialize(d)
  \/ AuthorizeEffect(d) \/ Effect(d) \/ EndWork(d) \/ FinalizeOne(d)

KnowledgeNext ==
  \/ IndexNext /\ IndexOnly
  \/ Revoke
  \/ \E d \in left.deleters : DeleterStep(d) \/ CrashDeleter(d)
  \/ \E i \in Items : LapseWork(i)

KnowledgeSpec == DeletionInit /\ [][KnowledgeNext]_knowledgeVars

\* The scheduled runner keeps running and leases run out.
KnowledgeFairness ==
  /\ \A d \in Deleters : WF_knowledgeVars(d \in left.deleters /\ DeleterStep(d))
  /\ WF_knowledgeVars(Lapse /\ IndexOnly)
  /\ \A i \in Items : WF_knowledgeVars(~Held(i) /\ LapseWork(i))

FairKnowledgeSpec == KnowledgeSpec /\ KnowledgeFairness

-----------------------------------------------------------------------------
(* Properties.                                                             *)

KnowledgeTypeOK ==
  /\ doc \in [status : {"absent", "pending", "published"}, path : 0 .. MaxVersion]
  /\ version \in [Versions -> [state : VersionStates, job : JobStates,
                               next : 0 .. MaxChunks, count : 0 .. MaxChunks]]
  /\ chunk \in [Versions -> [ChunkIds -> ChunkStates]]
  /\ r2 \subseteq 0 .. MaxVersion
  /\ vectors \subseteq (Versions \X ChunkIds) \cup {<<0, 0>>}
  /\ target \in 0 .. MaxVersion
  /\ work \in [Items -> [state : {"none", "pending", "claimed", "uncertain", "complete"},
                         by : SUBSET Deleters, lapsed : BOOLEAN]]

\* A finished deletion has left no source, no vector and no manifest, whatever
\* was being stored, indexed or cleaned when it began and whoever died on the
\* way ("until every external and derived artefact has a known deletion
\* outcome", migrations/0061_knowledge_delete_admission.sql).
DeletedLeavesNothing ==
  del.state = "done" =>
    /\ r2 = {} /\ vectors = {} /\ Staged = {}
    /\ \A v \in Versions, c \in ChunkIds : chunk[v][c] = "none"

\* However many workflow instances run, a chunk is sent to the index once ("A
\* lost create response can produce a duplicate workflow, but never a second
\* provider claim", vectorize.workflow.ts).
NeverSecondEffect == \A v \in Versions, c \in ChunkIds : effects[v][c] <= 1

\* A version is indexed only when each of its chunks was indexed, and while it
\* is above the cleanup target their vectors are there.
IndexedIsWhole ==
  \A v \in Versions :
    version[v].state = "indexed" /\ ~Deleting =>
      /\ version[v].count = left.chunks
      /\ \A c \in 0 .. left.chunks - 1 :
           /\ chunk[v][c] \in {"indexed", "cleanup_claimed", "cleaned"}
           /\ v > target => <<v, c>> \in vectors

\* A published document shows the last source that was captured for it
\* ("prevents a withdrawn or superseded source from becoming publicly
\* visible", tenant-knowledge.service.ts).
PublishedIsCurrent ==
  doc.status = "published" /\ left.legacy = "none" =>
    doc.path > 0 /\ version[doc.path].state = "indexed" /\ IsCurrent(doc.path)

\* A deletion ends, unless it is parked for a producer that went away or for a
\* manifest it does not know; deletion steps that die only delay it.
DeletionEnds ==
  Deleting ~> del.state \in {"done", "producer_unresolved", "legacy_manifest_required"}

=============================================================================

--------------------------- MODULE KnowledgeProofs ---------------------------
(***************************************************************************)
(* Theorems of modules KnowledgeIndex and KnowledgeDeletion.               *)
(***************************************************************************)
EXTENDS KnowledgeDeletion, TLAPS, FiniteSetTheorems

VersionRow == [state : VersionStates, job : JobStates, next : 0 .. MaxChunks, count : 0 .. MaxChunks]
WorkRow == [state : {"none", "pending", "claimed", "uncertain", "complete"},
            by : SUBSET Deleters, lapsed : BOOLEAN]
Scenario ==
  [legacy : Kinds, chunks : 1 .. MaxChunks, indexers : SUBSET Indexers,
   deleters : SUBSET Deleters, updates : Nat, unpublishes : Nat, deletes : Nat,
   crashes : Nat, losses : Nat, delays : Nat]

DocOK == doc \in [status : {"absent", "pending", "published"}, path : 0 .. MaxVersion]
RowsOK == version \in [Versions -> VersionRow]
ChunksOK == chunk \in [Versions -> [ChunkIds -> ChunkStates]]
StoresOK == r2 \subseteq 0 .. MaxVersion /\ vectors \subseteq (Versions \X ChunkIds) \cup {<<0, 0>>}
TargetOK == target \in 0 .. MaxVersion
WorkOK == work \in [Items -> WorkRow]
LeftOK == left \in Scenario
EffectsOK == effects \in [Versions -> [ChunkIds -> Nat]]

IndexerPcs == {"idle", "preparing", "checked", "claimed", "upserting", "upserted", "unsure",
               "finishing", "publishing", "ready"}

\* What a workflow instance remembers names a version and a chunk.
IndexerRow == [pc : IndexerPcs, v : 0 .. MaxVersion, c : ChunkIds]
IndexerOK ==
  /\ indexer \in [Indexers -> IndexerRow]
  /\ \A w \in Indexers : indexer[w].pc # "idle" => indexer[w].v \in Versions

\* The cursor of a source whose chunks are not all known is inside the source.
Preparing(v) == version[v].job \in {"source_pending", "preparing"}
CursorInside == \A v \in Versions : Preparing(v) => version[v].next < left.chunks

TypeInv == /\ DocOK /\ RowsOK /\ ChunksOK /\ StoresOK /\ TargetOK /\ WorkOK
           /\ LeftOK /\ EffectsOK /\ IndexerOK /\ CursorInside

\* Everything TypeInv speaks of but version, chunk and the stores.
Aside == <<doc, target, left, effects, indexer, work>>

-----------------------------------------------------------------------------
(* Operators.                                                              *)

\* A set of numbers up to n has a greatest one.
LEMMA GreatestExists ==
  ASSUME NEW n \in Nat, NEW S, S \subseteq 1 .. n, S # {}
  PROVE  \E m \in S : \A u \in S : u <= m
<1> DEFINE T == {t .. n : t \in S}
           R == StrictSubsetOrdering(Nat)
<1>1. T \subseteq FiniteSubsetsOf(Nat) /\ T # {}
  <2>1. \A t \in S : t .. n \subseteq Nat /\ IsFiniteSet(t .. n)
    <3> TAKE t \in S
    <3>1. t \in Int /\ n \in Int
      OBVIOUS
    <3>2. IsFiniteSet(t .. n)
      BY <3>1, FS_Interval
    <3> QED BY <3>2
  <2> QED BY <2>1 DEF FiniteSubsetsOf
<1>2. PICK I \in T : \A J \in T : <<J, I>> \notin R
  <2>1. IsWellFoundedOn(R, FiniteSubsetsOf(Nat))
    BY FS_StrictSubsetOrderingWellFounded
  <2> HIDE DEF T, R
  <2> QED BY <1>1, <2>1, WFMin
<1>3. PICK t \in S : I = t .. n
  OBVIOUS
<1>4. \A u \in S : u <= t
  <2> SUFFICES ASSUME NEW u \in S, ~(u <= t) PROVE FALSE
    OBVIOUS
  <2>1. t \in 1 .. n /\ u \in 1 .. n /\ t < u
    OBVIOUS
  <2>2. u .. n \in T /\ u .. n \subseteq t .. n /\ u .. n # t .. n
    BY <2>1
  <2>3. <<u .. n, t .. n>> \in R
    BY <2>1, <2>2 DEF StrictSubsetOrdering
  <2> QED BY <1>2, <1>3, <2>2, <2>3
<1> QED BY <1>4

LEMMA Bounds == MaxVersion \in Nat \ {0} /\ MaxChunks \in Nat \ {0}
BY KnowledgeAssumption

LEMMA LatestVersionType ==
  /\ LatestVersion \in 0 .. MaxVersion
  /\ Staged # {} => LatestVersion \in Staged
<1>1. CASE Staged = {}
  BY <1>1, Bounds DEF LatestVersion
<1>2. CASE Staged # {}
  <2>1. \E m \in Staged : \A u \in Staged : u <= m
    BY <1>2, GreatestExists, Bounds DEF Staged, Versions
  <2>2. LatestVersion \in Staged
    BY <1>2, <2>1 DEF LatestVersion
  <2> QED BY <2>2, Bounds DEF Staged, Versions
<1> QED BY <1>1, <1>2

LEMMA UseKeeps ==
  ASSUME LeftOK,
         NEW what \in {"updates", "unpublishes", "deletes", "crashes", "losses", "delays"},
         Use(what)
  PROVE  LeftOK' /\ left'.chunks = left.chunks
BY DEF Use, LeftOK, Scenario

\* One row of version is written.
LEMMA SetRow ==
  ASSUME RowsOK, NEW v \in Versions, NEW row \in VersionRow, version' = [version EXCEPT ![v] = row]
  PROVE  RowsOK' /\ version'[v] = row /\ \A u \in Versions \ {v} : version'[u] = version[u]
BY DEF RowsOK

\* The cursors stay inside if those of sources in preparation stay or are so.
LEMMA CursorKept ==
  ASSUME CursorInside, left'.chunks = left.chunks,
         \A v \in Versions : Preparing(v)' =>
           \/ Preparing(v) /\ version'[v].next = version[v].next
           \/ version'[v].next < left.chunks
  PROVE  CursorInside'
BY DEF CursorInside

LEMMA SetChunks ==
  ASSUME ChunksOK, NEW ids, NEW state \in ChunkStates, MarkChunks(ids, state)
  PROVE  /\ ChunksOK'
         /\ \A v \in Versions, c \in ChunkIds :
              chunk'[v][c] = IF <<v, c>> \in ids THEN state ELSE chunk[v][c]
BY DEF ChunksOK, MarkChunks

LEMMA SetIndexer ==
  ASSUME IndexerOK, NEW w \in Indexers, NEW row \in IndexerRow,
         row.pc # "idle" => row.v \in Versions, IndexTo(w, row)
  PROVE  IndexerOK' /\ indexer'[w] = row /\ \A u \in Indexers \ {w} : indexer'[u] = indexer[u]
BY DEF IndexerOK, IndexTo

LEMMA IdleRow == Idle \in IndexerRow /\ Idle.pc = "idle"
BY Bounds DEF Idle, IndexerRow, IndexerPcs, ChunkIds

\* An instance that goes on with its chunk, or stops.
LEMMA MoveIndexer ==
  ASSUME IndexerOK, NEW w \in Indexers, indexer[w].pc # "idle", NEW pc \in IndexerPcs,
         IndexTo(w, [indexer[w] EXCEPT !.pc = pc]) \/ IndexTo(w, Idle)
  PROVE  /\ IndexerOK' /\ indexer'[w].pc \in {pc, "idle"}
         /\ indexer'[w].pc # "idle" => indexer'[w].v = indexer[w].v /\ indexer'[w].c = indexer[w].c
         /\ \A u \in Indexers \ {w} : indexer'[u] = indexer[u]
<1> DEFINE row == [indexer[w] EXCEPT !.pc = pc]
<1>1. /\ row \in IndexerRow /\ row.pc = pc /\ row.v = indexer[w].v /\ row.c = indexer[w].c
      /\ row.v \in Versions
  BY DEF IndexerOK, IndexerRow
<1> HIDE DEF row
<1>2. CASE IndexTo(w, row)
  BY <1>1, <1>2, SetIndexer
<1>3. CASE IndexTo(w, Idle)
  BY <1>3, SetIndexer, IdleRow
<1> QED BY <1>2, <1>3 DEF row

\* An instance with its batch goes on, or stops; left only loses a failure.
LEMMA BatchMoves ==
  ASSUME IndexerOK, LeftOK, NEW w \in Indexers, PublishBatch(w) \/ FailRead(w)
  PROVE  /\ IndexerOK' /\ indexer'[w].pc \in {"ready", "idle"}
         /\ indexer'[w].pc # "idle" => indexer'[w].v = indexer[w].v
         /\ \A u \in Indexers \ {w} : indexer'[u] = indexer[u]
         /\ indexer[w].v \in Versions /\ indexer[w].c \in ChunkIds /\ indexer[w].pc = "preparing"
         /\ LeftOK' /\ left'.chunks = left.chunks
<1>1. indexer[w].pc = "preparing" /\ indexer[w].v \in Versions /\ indexer[w].c \in ChunkIds
  BY DEF PublishBatch, FailRead, At, IndexerOK, IndexerRow
<1>2. IndexTo(w, [indexer[w] EXCEPT !.pc = "ready"]) \/ IndexTo(w, Idle)
  BY DEF PublishBatch, FailRead
<1>3. LeftOK' /\ left'.chunks = left.chunks
  BY UseKeeps DEF PublishBatch, FailRead, LeftOK
<1> QED BY <1>1, <1>2, <1>3, MoveIndexer DEF IndexerPcs

\* A source that fails.
LEMMA FailedSourceKeeps ==
  ASSUME RowsOK, NEW v \in Versions, FailedSource(v)
  PROVE  /\ RowsOK'
         /\ \A u \in Versions : Preparing(u)' => Preparing(u)
         /\ \A u \in Versions : version'[u].next = version[u].next
         /\ \A u \in Versions : version'[u].state = "none" <=> version[u].state = "none"
<1> DEFINE fails == \/ version[v].state \in {"source_pending", "preparing"}
                    \/ version[v].state = "withdrawn" /\ Deleting
           state == IF fails THEN "failed" ELSE version[v].state
           job == IF fails /\ version[v].job \in {"none", "source_pending", "preparing"}
                  THEN "failed_cleanup" ELSE version[v].job
           row == [version[v] EXCEPT !.state = state, !.job = job]
<1>1. version[v] \in VersionRow
  BY DEF RowsOK
<1>2. /\ state \in VersionStates /\ (state = "none" <=> version[v].state = "none")
      /\ job \in JobStates /\ job \in {"failed_cleanup", version[v].job}
  BY <1>1 DEF VersionRow, VersionStates, JobStates
<1>3. version' = [version EXCEPT ![v].state = state, ![v].job = job]
  BY DEF FailedSource
<1> HIDE DEF state, job
<1>4. row \in VersionRow /\ version' = [version EXCEPT ![v] = row]
  BY <1>1, <1>2, <1>3 DEF VersionRow, RowsOK
<1>5. row.state = state /\ row.job = job /\ row.next = version[v].next
  BY <1>1 DEF VersionRow
<1> HIDE DEF row
<1> QED BY <1>2, <1>4, <1>5, SetRow DEF Preparing

\* A version that completes.
LEMMA CompleteVersionKeeps ==
  ASSUME RowsOK, TargetOK, NEW v \in Versions, CompleteVersion(v), version[v].state # "none"
  PROVE  /\ RowsOK' /\ TargetOK'
         /\ \A u \in Versions : Preparing(u)' => Preparing(u)
         /\ \A u \in Versions : version'[u].next = version[u].next
         /\ \A u \in Versions : version'[u].state = "none" <=> version[u].state = "none"
<1>1. version[v] \in VersionRow
  BY DEF RowsOK
<1>2. TargetOK'
  BY Bounds DEF CompleteVersion, TargetOK, Versions
<1>3. CASE Completes(v)
  <2> DEFINE state == IF version[v].state = "pending" THEN "indexed" ELSE version[v].state
             row == [version[v] EXCEPT !.job = "complete", !.state = state]
  <2>1. version' = [version EXCEPT ![v].job = "complete", ![v].state = state]
    BY <1>3 DEF CompleteVersion
  <2>2. state \in VersionStates /\ state # "none"
    BY <1>1 DEF VersionRow, VersionStates
  <2> HIDE DEF state
  <2>3. row \in VersionRow /\ version' = [version EXCEPT ![v] = row]
    BY <1>1, <2>1, <2>2 DEF VersionRow, RowsOK, JobStates
  <2>4. row.state = state /\ row.job = "complete" /\ row.next = version[v].next
    BY <1>1 DEF VersionRow
  <2> HIDE DEF row
  <2> QED BY <1>2, <2>2, <2>3, <2>4, SetRow DEF Preparing
<1>4. CASE ~Completes(v)
  BY <1>2, <1>4 DEF CompleteVersion, RowsOK, Preparing
<1> QED BY <1>3, <1>4

LEMMA InitTyped == DeletionInit => TypeInv
<1> SUFFICES ASSUME DeletionInit PROVE TypeInv
  OBVIOUS
<1> USE KnowledgeAssumption DEF DeletionInit, KnowledgeInit
<1>1. LeftOK
  BY DEF LeftOK, Scenario
<1>2. DocOK /\ TargetOK
  BY DEF DocOK, TargetOK
<1>3. NoVersion \in VersionRow /\ NoVersion.job = "none"
  BY DEF VersionRow, NoVersion, VersionStates, JobStates
<1>8. RowsOK /\ CursorInside
  BY <1>3 DEF RowsOK, CursorInside, Preparing
<1>4. ChunksOK /\ EffectsOK
  BY DEF ChunksOK, EffectsOK, ChunkStates
<1>5. StoresOK
  BY DEF StoresOK
<1>6. WorkOK
  BY DEF WorkOK, WorkRow, NoWork
<1>7. IndexerOK
  BY DEF IndexerOK, IndexerRow, Idle, ChunkIds, IndexerPcs
<1> QED BY <1>1, <1>2, <1>4, <1>5, <1>6, <1>7, <1>8 DEF TypeInv

-----------------------------------------------------------------------------
(* Each action keeps the types.                                            *)

\* What an action leaves alone stays typed.
LEMMA AsideKept ==
  ASSUME DocOK, TargetOK, LeftOK, EffectsOK, IndexerOK, WorkOK, UNCHANGED Aside
  PROVE  DocOK' /\ TargetOK' /\ LeftOK' /\ EffectsOK' /\ IndexerOK' /\ WorkOK'
BY DEF Aside, DocOK, TargetOK, LeftOK, EffectsOK, IndexerOK, WorkOK

LEMMA RowsKept ==
  ASSUME RowsOK, CursorInside, UNCHANGED version, left'.chunks = left.chunks
  PROVE  RowsOK' /\ CursorInside'
BY DEF RowsOK, CursorInside, Preparing

LEMMA StagingTyped ==
  ASSUME TypeInv, NEW v \in Versions, IndexOnly, BeginSource(v) \/ StageStep(v)
  PROVE  TypeInv'
<1> USE DEF TypeInv
<1>1. CASE BeginSource(v)
  <2> DEFINE row == [state |-> "source_pending", job |-> "source_pending", next |-> 0, count |-> 0]
  <2>1. LeftOK' /\ left'.chunks = left.chunks
    BY <1>1, UseKeeps DEF BeginSource, Free, LeftOK
  <2>2. row \in VersionRow /\ row.next = 0
    BY Bounds DEF VersionRow, VersionStates, JobStates
  <2>3. version' = [version EXCEPT ![v] = row]
    BY <1>1 DEF BeginSource
  <2>4. DocOK'
    BY <1>1 DEF BeginSource, DocOK
  <2>5. UNCHANGED <<chunk, r2, vectors, target, effects, indexer, work>>
    BY <1>1 DEF BeginSource, IndexOnly
  <2>6. left.chunks > 0
    BY Bounds DEF LeftOK, Scenario
  <2> HIDE DEF row
  <2>7. RowsOK' /\ CursorInside'
    BY <2>1, <2>2, <2>3, <2>6, SetRow, CursorKept DEF Preparing
  <2> QED BY <2>1, <2>4, <2>5, <2>7 DEF ChunksOK, StoresOK, TargetOK, EffectsOK, IndexerOK, WorkOK
<1>2. CASE AuthorizeSource(v)
  <2>1. UNCHANGED <<version, chunk, r2, vectors, Aside>>
    BY <1>2 DEF AuthorizeSource, IndexOnly, Aside
  <2> QED BY <2>1, AsideKept, RowsKept DEF ChunksOK, StoresOK, Aside
<1>3. CASE PutSource(v)
  <2>1. LeftOK' /\ left'.chunks = left.chunks
    BY <1>3, UseKeeps DEF PutSource, Free, LeftOK
  <2>4. r2' \subseteq r2 \cup {v} /\ UNCHANGED vectors
    BY <1>3 DEF PutSource
  <2>2. StoresOK'
    BY <2>4, Bounds DEF StoresOK, Versions
  <2>3. UNCHANGED <<version, doc, chunk, target, effects, indexer, work>>
    BY <1>3 DEF PutSource, IndexOnly
  <2> QED BY <2>1, <2>2, <2>3, RowsKept DEF DocOK, ChunksOK, TargetOK, EffectsOK, IndexerOK, WorkOK
<1>4. CASE CaptureSource(v)
  <2>1. UNCHANGED <<chunk, r2, vectors, target, left, effects, indexer, work>>
    BY <1>4 DEF CaptureSource, IndexOnly
  <2>2. CASE UNCHANGED <<version, doc>>
    BY <2>1, <2>2, RowsKept, AsideKept DEF ChunksOK, StoresOK, Aside
  <2>3. CASE /\ version[v].job = "source_pending"
             /\ version' = [version EXCEPT ![v].state = "preparing", ![v].job = "preparing"]
             /\ doc' = [status |-> "pending", path |-> v]
    <3> DEFINE row == [version[v] EXCEPT !.state = "preparing", !.job = "preparing"]
    <3>1. row \in VersionRow /\ row.next = version[v].next
      BY DEF RowsOK, VersionRow, VersionStates, JobStates
    <3>2. version' = [version EXCEPT ![v] = row]
      BY <2>3 DEF RowsOK
    <3> HIDE DEF row
    <3>5. RowsOK' /\ version'[v] = row /\ \A u \in Versions \ {v} : version'[u] = version[u]
      BY <3>1, <3>2, SetRow
    <3>3. RowsOK' /\ CursorInside'
      BY <2>1, <2>3, <3>1, <3>5, CursorKept DEF Preparing
    <3>4. DocOK'
      BY <2>3, Bounds DEF DocOK, Versions
    <3> QED BY <2>1, <3>3, <3>4 DEF ChunksOK, StoresOK, TargetOK, LeftOK, EffectsOK, IndexerOK, WorkOK
  <2> QED BY <1>4, <2>2, <2>3 DEF CaptureSource
<1>5. CASE FailSource(v)
  <2>1. FailedSource(v) /\ UNCHANGED <<chunk, r2, vectors, Aside>>
    BY <1>5 DEF FailSource, IndexOnly, Aside
  <2>2. RowsOK' /\ CursorInside'
    BY <2>1, FailedSourceKeeps, CursorKept DEF Aside
  <2> QED BY <2>1, <2>2, AsideKept DEF ChunksOK, StoresOK
<1> QED BY <1>1, <1>2, <1>3, <1>4, <1>5 DEF StageStep

LEMMA OthersTyped ==
  ASSUME TypeInv, NEW v \in Versions, IndexOnly, CleanFailedSource(v) \/ CompleteOnly(v)
  PROVE  TypeInv'
<1> USE DEF TypeInv
<1>1. CASE CleanFailedSource(v)
  <2> DEFINE row == [version[v] EXCEPT !.job = "failed"]
  <2>1. UNCHANGED <<r2, vectors, Aside>>
    BY <1>1 DEF CleanFailedSource, IndexOnly, Aside
  <2>2. row \in VersionRow /\ row.job = "failed" /\ version' = [version EXCEPT ![v] = row]
    BY <1>1 DEF CleanFailedSource, RowsOK, VersionRow, JobStates
  <2> HIDE DEF row
  <2>3. RowsOK' /\ CursorInside'
    BY <2>1, <2>2, SetRow, CursorKept DEF Preparing, Aside
  <2>4. ChunksOK'
    BY <1>1 DEF CleanFailedSource, ChunksOK, ChunkStates
  <2> QED BY <2>1, <2>3, <2>4, AsideKept DEF StoresOK
<1>2. CASE CompleteOnly(v)
  <2>1. UNCHANGED <<chunk, r2, vectors, doc, left, effects, indexer, work>>
    BY <1>2 DEF CompleteOnly, IndexOnly
  <2>2. RowsOK' /\ TargetOK' /\ CursorInside'
    BY <1>2, <2>1, CompleteVersionKeeps, CursorKept DEF CompleteOnly
  <2> QED BY <2>1, <2>2 DEF DocOK, ChunksOK, StoresOK, LeftOK, EffectsOK, IndexerOK, WorkOK
<1> QED BY <1>1, <1>2

LEMMA StartTyped ==
  ASSUME TypeInv, NEW w \in Indexers, NEW v \in Versions, IndexOnly,
         ReadPreparation(w, v) \/ CheckChunk(w, v)
  PROVE  TypeInv'
<1> USE DEF TypeInv
<1>1. version[v] \in VersionRow /\ left.chunks \in 1 .. MaxChunks
  BY DEF RowsOK, LeftOK, Scenario
<1>2. UNCHANGED <<doc, version, chunk, r2, vectors, target, left, effects, work>>
  BY DEF ReadPreparation, CheckChunk, IndexOnly
<1>3. version[v].next \in ChunkIds
  <2>1. CASE ReadPreparation(w, v)
    BY <1>1, <2>1, Bounds DEF ReadPreparation, CursorInside, Preparing, VersionRow, ChunkIds
  <2>2. CASE CheckChunk(w, v)
    BY <1>1, <2>2, Bounds DEF CheckChunk, VersionRow, ChunkIds
  <2> QED BY <2>1, <2>2
<1>4. PICK pc \in {"preparing", "checked"} : IndexTo(w, [pc |-> pc, v |-> v, c |-> version[v].next])
  BY DEF ReadPreparation, CheckChunk
<1>5. IndexerOK'
  <2> DEFINE row == [pc |-> pc, v |-> v, c |-> version[v].next]
  <2>1. row \in IndexerRow /\ row.v = v
    BY <1>3, Bounds DEF IndexerRow, IndexerPcs, Versions
  <2> HIDE DEF row
  <2> QED BY <1>4, <2>1, SetIndexer DEF row
<1> QED BY <1>2, <1>5, RowsKept DEF DocOK, ChunksOK, StoresOK, TargetOK, LeftOK, EffectsOK, WorkOK

\* A batch of chunks is published, or the source fails.
LEMMA PublishTyped ==
  ASSUME TypeInv, NEW w \in Indexers, IndexOnly, PublishBatch(w) \/ FailRead(w)
  PROVE  TypeInv'
<1> USE DEF TypeInv
<1> DEFINE v == indexer[w].v
           c == indexer[w].c
<1>1. v \in Versions /\ c \in ChunkIds /\ left.chunks \in 1 .. MaxChunks
  BY BatchMoves DEF LeftOK, Scenario
<1>2. UNCHANGED <<doc, r2, vectors, target, effects, work>> /\ LeftOK' /\ left'.chunks = left.chunks
  BY BatchMoves DEF PublishBatch, FailRead, IndexOnly
<1>3. IndexerOK'
  BY BatchMoves
<1>4. CASE FailedSource(v) /\ UNCHANGED chunk
  <2>1. RowsOK' /\ CursorInside'
    BY <1>1, <1>2, <1>4, FailedSourceKeeps, CursorKept
  <2> QED BY <1>2, <1>3, <1>4, <2>1 DEF DocOK, ChunksOK, StoresOK, TargetOK, EffectsOK, WorkOK
<1>5. CASE /\ version[v].state = "preparing" /\ version[v].job = "preparing" /\ version[v].next = c
           /\ chunk' = [chunk EXCEPT ![v][c] = "pending"]
           /\ \E state \in {"pending", "preparing"} : version' = [version EXCEPT ![v] =
                [state |-> state, job |-> state, next |-> IF LastBatch(c) THEN 0 ELSE c + 1,
                 count |-> c + 1]]
           /\ ~LastBatch(c) => c + 1 # left.chunks
  <2>1. c < left.chunks
    BY <1>1, <1>5 DEF CursorInside, Preparing
  <2> DEFINE next == IF LastBatch(c) THEN 0 ELSE c + 1
  <2>2. next \in 0 .. MaxChunks /\ next < left.chunks /\ c + 1 \in 0 .. MaxChunks
    BY <1>1, <1>5, <2>1, Bounds DEF ChunkIds
  <2> HIDE DEF next
  <2>3. PICK state \in {"pending", "preparing"} : version' = [version EXCEPT ![v] =
          [state |-> state, job |-> state, next |-> next, count |-> c + 1]]
    BY <1>5 DEF next
  <2> DEFINE row == [state |-> state, job |-> state, next |-> next, count |-> c + 1]
  <2>4. row \in VersionRow /\ row.next = next
    BY <2>2 DEF VersionRow, VersionStates, JobStates
  <2> HIDE DEF row
  <2>5. RowsOK' /\ version'[v] = row /\ \A u \in Versions \ {v} : version'[u] = version[u]
    BY <1>1, <2>3, <2>4, SetRow DEF row
  <2> HIDE DEF v, c
  <2>6. CursorInside'
    BY <1>2, <2>2, <2>4, <2>5, CursorKept DEF Preparing
  <2>7. ChunksOK'
    BY <1>1, <1>5 DEF ChunksOK, ChunkStates
  <2> QED BY <1>2, <1>3, <2>5, <2>6, <2>7 DEF DocOK, StoresOK, TargetOK, EffectsOK, WorkOK
<1> QED BY <1>4, <1>5 DEF PublishBatch, FailRead, LastBatch

\* The steps of an instance with its chunk in hand.
LEMMA ChunkTyped ==
  ASSUME TypeInv, NEW w \in Indexers, IndexOnly,
         ClaimChunk(w) \/ AuthorizeChunk(w) \/ Upsert(w) \/ ConfirmChunk(w)
  PROVE  TypeInv'
<1> USE DEF TypeInv
<1> DEFINE v == indexer[w].v
           c == indexer[w].c
<1>1. v \in Versions /\ c \in ChunkIds /\ indexer[w].pc # "idle"
  BY DEF ClaimChunk, AuthorizeChunk, Upsert, ConfirmChunk, At, IndexerOK, IndexerRow
<1>2. CASE ClaimChunk(w)
  <2>1. UNCHANGED <<doc, version, r2, vectors, target, left, effects, work>>
    BY <1>2 DEF ClaimChunk, IndexOnly
  <2>2. IndexerOK'
    BY <1>1, <1>2, MoveIndexer DEF ClaimChunk, IndexerPcs
  <2>3. ChunksOK'
    BY <1>1, <1>2 DEF ClaimChunk, ChunksOK, ChunkStates
  <2> QED BY <2>1, <2>2, <2>3, RowsKept DEF DocOK, StoresOK, TargetOK, LeftOK, EffectsOK, WorkOK
<1>3. CASE AuthorizeChunk(w)
  <2>1. UNCHANGED <<doc, version, chunk, r2, vectors, target, left, effects, work>>
    BY <1>3 DEF AuthorizeChunk, IndexOnly
  <2>2. IndexerOK'
    BY <1>1, <1>3, MoveIndexer DEF AuthorizeChunk, IndexerPcs
  <2> QED BY <2>1, <2>2, RowsKept DEF DocOK, ChunksOK, StoresOK, TargetOK, LeftOK, EffectsOK, WorkOK
<1>4. CASE Upsert(w)
  <2>1. UNCHANGED <<doc, version, chunk, target, work>> /\ vectors' \subseteq vectors \cup {<<v, c>>}
        /\ UNCHANGED r2
    BY <1>4 DEF Upsert, IndexOnly
  <2>2. LeftOK' /\ left'.chunks = left.chunks
    BY <1>4, UseKeeps DEF Upsert, Free, LeftOK
  <2>3. IndexerOK'
    BY <1>1, <1>4, MoveIndexer DEF Upsert, IndexerPcs
  <2>4. EffectsOK'
    BY <1>1, <1>4 DEF Upsert, EffectsOK
  <2>5. StoresOK'
    BY <1>1, <2>1 DEF StoresOK
  <2> QED BY <2>1, <2>2, <2>3, <2>4, <2>5, RowsKept DEF DocOK, ChunksOK, TargetOK, WorkOK
<1>5. CASE ConfirmChunk(w)
  <2>1. UNCHANGED <<doc, r2, vectors, target, left, effects, work>>
    BY <1>5 DEF ConfirmChunk, IndexOnly
  <2>2. IndexerOK'
    BY <1>1, <1>5, MoveIndexer DEF ConfirmChunk, IndexerPcs
  <2>3. ChunksOK'
    BY <1>1, <1>5 DEF ConfirmChunk, ChunksOK, ChunkStates
  <2>4. CASE version' = version
    BY <2>1, <2>2, <2>3, <2>4, RowsKept DEF DocOK, StoresOK, TargetOK, LeftOK, EffectsOK, WorkOK
  <2>5. CASE version' = [version EXCEPT ![v].next = c + 1, ![v].job = "pending"]
    <3> DEFINE row == [version[v] EXCEPT !.next = c + 1, !.job = "pending"]
    <3>3. version[v] \in VersionRow /\ c + 1 \in 0 .. MaxChunks
      BY <1>1, Bounds DEF RowsOK, ChunkIds
    <3>1. row \in VersionRow /\ row.job = "pending" /\ version' = [version EXCEPT ![v] = row]
      <4> HIDE DEF v, c
      <4>1. row \in VersionRow /\ row.job = "pending"
        BY <3>3 DEF VersionRow, JobStates
      <4>2. version' = [version EXCEPT ![v] = row]
        BY <1>1, <2>5, <3>3 DEF RowsOK
      <4> QED BY <4>1, <4>2
    <3> HIDE DEF row, v, c
    <3>2. RowsOK' /\ CursorInside'
      BY <1>1, <2>1, <3>1, SetRow, CursorKept DEF Preparing
    <3> QED BY <2>1, <2>2, <2>3, <3>2 DEF DocOK, StoresOK, TargetOK, LeftOK, EffectsOK, WorkOK
  <2> QED BY <1>5, <2>4, <2>5 DEF ConfirmChunk
<1> QED BY <1>2, <1>3, <1>4, <1>5

\* The last steps of an instance.
LEMMA EndTyped ==
  ASSUME TypeInv, NEW w \in Indexers, IndexOnly,
         Unsure(w) \/ FinishVersion(w) \/ PublishDocument(w) \/ MarkReady(w)
  PROVE  TypeInv'
<1> USE DEF TypeInv
<1> DEFINE v == indexer[w].v
           c == indexer[w].c
<1>1. v \in Versions /\ c \in ChunkIds /\ indexer[w].pc # "idle"
  BY DEF Unsure, FinishVersion, PublishDocument, MarkReady, At, IndexerOK, IndexerRow
<1>2. CASE Unsure(w)
  <2>1. UNCHANGED <<doc, r2, vectors, target, left, effects, work>>
    BY <1>2 DEF Unsure, IndexOnly
  <2>2. IndexerOK'
    BY <1>2, SetIndexer, IdleRow DEF Unsure
  <2>3. ChunksOK'
    BY <1>1, <1>2 DEF Unsure, ChunksOK, ChunkStates
  <2>4. CASE version' = version
    BY <2>1, <2>2, <2>3, <2>4, RowsKept DEF DocOK, StoresOK, TargetOK, LeftOK, EffectsOK, WorkOK
  <2>5. CASE version' = [version EXCEPT ![v].state = "failed", ![v].job = "uncertain"]
    <3> DEFINE row == [version[v] EXCEPT !.state = "failed", !.job = "uncertain"]
    <3>1. row \in VersionRow /\ row.job = "uncertain" /\ version' = [version EXCEPT ![v] = row]
      BY <1>1, <2>5 DEF RowsOK, VersionRow, VersionStates, JobStates
    <3> HIDE DEF row, v, c
    <3>2. RowsOK' /\ CursorInside'
      BY <1>1, <2>1, <3>1, SetRow, CursorKept DEF Preparing
    <3> QED BY <2>1, <2>2, <2>3, <3>2 DEF DocOK, StoresOK, TargetOK, LeftOK, EffectsOK, WorkOK
  <2> QED BY <1>2, <2>4, <2>5 DEF Unsure
<1>3. CASE FinishVersion(w)
  <2>1. UNCHANGED <<chunk, r2, vectors, doc, left, effects, work>>
    BY <1>3 DEF FinishVersion, IndexOnly
  <2>2. IndexerOK'
    BY <1>1, <1>3, MoveIndexer DEF FinishVersion, IndexerPcs
  <2>3. CASE UNCHANGED <<version, target>>
    BY <2>1, <2>2, <2>3, RowsKept DEF DocOK, ChunksOK, StoresOK, LeftOK, TargetOK, EffectsOK, WorkOK
  <2>4. CASE version[v].state # "none" /\ CompleteVersion(v)
    <3>1. RowsOK' /\ TargetOK' /\ CursorInside'
      BY <1>1, <2>1, <2>4, CompleteVersionKeeps, CursorKept
    <3> QED BY <2>1, <2>2, <3>1 DEF DocOK, ChunksOK, StoresOK, LeftOK, EffectsOK, WorkOK
  <2> QED BY <1>3, <2>3, <2>4 DEF FinishVersion
<1>4. CASE PublishDocument(w) \/ MarkReady(w)
  <2>1. UNCHANGED <<version, chunk, r2, vectors, target, left, effects, work>>
    BY <1>4 DEF PublishDocument, MarkReady, IndexOnly
  <2>2. IndexerOK'
    BY <1>4, SetIndexer, IdleRow DEF PublishDocument, MarkReady
  <2>3. DocOK'
    BY <1>4 DEF PublishDocument, MarkReady, DocOK
  <2> QED BY <2>1, <2>2, <2>3, RowsKept DEF ChunksOK, StoresOK, TargetOK, LeftOK, EffectsOK, WorkOK
<1> QED BY <1>2, <1>3, <1>4

\* Withdrawal and cleanup.
LEMMA WithdrawTyped ==
  ASSUME TypeInv, IndexOnly, Unpublish \/ WithdrawAll
  PROVE  TypeInv'
<1> USE DEF TypeInv
<1>1. CASE Unpublish
  <2>1. LeftOK' /\ left'.chunks = left.chunks
    BY <1>1, UseKeeps DEF Unpublish
  <2>2. DocOK' /\ UNCHANGED <<version, chunk, r2, vectors, target, effects, indexer, work>>
    BY <1>1 DEF Unpublish, IndexOnly, DocOK
  <2> QED BY <2>1, <2>2, RowsKept DEF ChunksOK, StoresOK, TargetOK, EffectsOK, IndexerOK, WorkOK
<1>2. CASE WithdrawAll
  <2>1. UNCHANGED <<chunk, r2, vectors, doc, left, effects, indexer, work>>
    BY <1>2 DEF WithdrawAll, IndexOnly
  <2>2. TargetOK'
    BY <1>2, LatestVersionType DEF WithdrawAll, TargetOK
  <2>3. CASE UNCHANGED version
    BY <2>1, <2>2, <2>3, RowsKept DEF DocOK, ChunksOK, StoresOK, LeftOK, EffectsOK, IndexerOK, WorkOK
  <2>4. CASE Staged # {} /\ version' = [version EXCEPT ![LatestVersion].state =
                              IF version[LatestVersion].state = "failed" THEN "failed" ELSE "withdrawn"]
    <3> DEFINE row == [version[LatestVersion] EXCEPT !.state =
                         IF version[LatestVersion].state = "failed" THEN "failed" ELSE "withdrawn"]
    <3>1. LatestVersion \in Versions
      BY <2>4, LatestVersionType DEF Staged
    <3> HIDE DEF LatestVersion
    <3>2. /\ row \in VersionRow /\ row.job = version[LatestVersion].job
          /\ row.next = version[LatestVersion].next /\ version' = [version EXCEPT ![LatestVersion] = row]
      BY <2>4, <3>1 DEF RowsOK, VersionRow, VersionStates
    <3> HIDE DEF row
    <3>3. RowsOK' /\ CursorInside'
      BY <2>1, <3>1, <3>2, SetRow, CursorKept DEF Preparing
    <3> QED BY <2>1, <2>2, <3>3 DEF DocOK, ChunksOK, StoresOK, LeftOK, EffectsOK, IndexerOK, WorkOK
  <2> QED BY <1>2, <2>3, <2>4 DEF WithdrawAll
<1> QED BY <1>1, <1>2

LEMMA CleanupTyped ==
  ASSUME TypeInv, IndexOnly, ClaimCleanup \/ CleanVectors \/ EndCleanup
  PROVE  TypeInv'
<1> USE DEF TypeInv
<1>1. CASE ClaimCleanup
  <2>1. UNCHANGED <<version, r2, vectors, Aside>>
    BY <1>1 DEF ClaimCleanup, IndexOnly, Aside
  <2>2. ChunksOK'
    BY <1>1, SetChunks DEF ClaimCleanup, ChunkStates
  <2> QED BY <2>1, <2>2, AsideKept, RowsKept DEF StoresOK, Aside
<1>2. CASE CleanVectors
  <2>1. LeftOK' /\ left'.chunks = left.chunks
    BY <1>2, UseKeeps DEF CleanVectors, Free, LeftOK
  <2>2. UNCHANGED <<doc, version, chunk, r2, target, effects, indexer, work>> /\ vectors' \subseteq vectors
    BY <1>2 DEF CleanVectors, IndexOnly
  <2> QED BY <2>1, <2>2, RowsKept DEF DocOK, ChunksOK, StoresOK, TargetOK, EffectsOK, IndexerOK, WorkOK
<1>3. CASE EndCleanup
  <2>1. UNCHANGED <<version, r2, vectors, Aside>>
    BY <1>3 DEF EndCleanup, IndexOnly, Aside
  <2>2. ChunksOK'
    BY <1>3, SetChunks DEF EndCleanup, ChunkStates
  <2> QED BY <2>1, <2>2, AsideKept, RowsKept DEF StoresOK, Aside
<1> QED BY <1>1, <1>2, <1>3

LEMMA StopsTyped ==
  ASSUME TypeInv, IndexOnly, Lapse \/ CrashIndex
  PROVE  TypeInv'
<1> USE DEF TypeInv
<1>1. CASE Lapse
  <2>1. UNCHANGED <<version, chunk, r2, vectors, Aside>>
    BY <1>1 DEF Lapse, IndexOnly, Aside
  <2> QED BY <2>1, AsideKept, RowsKept DEF ChunksOK, StoresOK, Aside
<1>2. CASE CrashIndex
  <2>1. LeftOK' /\ left'.chunks = left.chunks
    BY <1>2, UseKeeps DEF CrashIndex
  <2>2. UNCHANGED <<doc, version, chunk, vectors, target, effects, work>>
    BY <1>2 DEF CrashIndex, IndexOnly
  <2>5. \E v \in Versions : r2' \subseteq r2 \cup {v}
    <3>1. 1 \in Versions
      BY Bounds DEF Versions
    <3> QED BY <1>2, <3>1 DEF CrashIndex
  <2>3. StoresOK'
    BY <2>2, <2>5, Bounds DEF StoresOK, Versions
  <2>4. IndexerOK'
    <3>1. CASE UNCHANGED indexer
      BY <3>1 DEF IndexerOK
    <3>2. CASE \E w \in left.indexers : IndexTo(w, Idle)
      <4>1. PICK w \in Indexers : IndexTo(w, Idle)
        BY <3>2 DEF LeftOK, Scenario
      <4> QED BY <4>1, SetIndexer, IdleRow
    <3> QED BY <1>2, <3>1, <3>2 DEF CrashIndex
  <2> QED BY <2>1, <2>2, <2>3, <2>4, RowsKept DEF DocOK, ChunksOK, StoresOK, TargetOK, EffectsOK, WorkOK
<1> QED BY <1>1, <1>2

LEMMA IndexTyped == TypeInv /\ IndexNext /\ IndexOnly => TypeInv'
<1> SUFFICES ASSUME TypeInv, IndexNext, IndexOnly PROVE TypeInv'
  OBVIOUS
<1>1. left.indexers \subseteq Indexers
  BY DEF TypeInv, LeftOK, Scenario
<1> QED BY <1>1, StagingTyped, OthersTyped, StartTyped, PublishTyped, ChunkTyped, EndTyped, WithdrawTyped,
           CleanupTyped, StopsTyped DEF IndexNext, IndexStep

-----------------------------------------------------------------------------
(* The same for the deletion.                                              *)

LEMMA RevokeTyped ==
  ASSUME TypeInv, Revoke
  PROVE  TypeInv'
<1> USE DEF TypeInv
<1>1. LeftOK' /\ left'.chunks = left.chunks
  BY UseKeeps DEF Revoke
<1>2. UNCHANGED <<chunk, r2, vectors, target, effects, indexer, work>> /\ DocOK'
  BY Bounds DEF Revoke, LegacyCount, DocOK
<1>3. \A v \in Versions : version[v] \in VersionRow
  BY DEF RowsOK
<1>4. \A v \in Versions : [version[v] EXCEPT !.state = "withdrawn"] \in VersionRow
  BY <1>3 DEF VersionRow, VersionStates
<1>5. version' = [v \in Versions |->
         IF v = LatestVersion /\ version[v].state # "failed"
         THEN [version[v] EXCEPT !.state = "withdrawn"] ELSE version[v]]
  BY DEF Revoke
<1> HIDE DEF LatestVersion
<1>6. RowsOK'
  BY <1>3, <1>4, <1>5 DEF RowsOK
<1>7. \A v \in Versions : version'[v].job = version[v].job /\ version'[v].next = version[v].next
  BY <1>3, <1>5 DEF VersionRow
<1>8. CursorInside'
  BY <1>1, <1>7, CursorKept DEF Preparing
<1> QED BY <1>1, <1>2, <1>6, <1>8 DEF ChunksOK, StoresOK, TargetOK, EffectsOK, IndexerOK, WorkOK

\* Work that is pended, set by its claim, or lapses.
LEMMA SetWorkTyped ==
  ASSUME WorkOK, NEW d \in Deleters, NEW i, NEW state \in {"pending", "uncertain", "complete"},
         Pend(i) \/ SetWork(d, state)
  PROVE  WorkOK'
<1>1. CASE Pend(i)
  BY <1>1 DEF Pend, WorkOK, WorkRow
<1>2. CASE SetWork(d, state)
  <2> DEFINE j == deleter[d].item
             row == [work[j] EXCEPT !.state = state, !.by = {}, !.lapsed = FALSE]
  <2>1. CASE UNCHANGED work
    BY <2>1 DEF WorkOK
  <2>2. CASE j \in Items /\ work' = [work EXCEPT ![j].state = state, ![j].by = {}, ![j].lapsed = FALSE]
    <3>1. row \in WorkRow
      BY <2>2 DEF WorkOK, WorkRow
    <3>2. work' = [work EXCEPT ![j] = row]
      BY <2>2 DEF WorkOK
    <3> HIDE DEF row, j
    <3> QED BY <3>1, <3>2 DEF WorkOK
  <2>3. CASE j \notin Items
    BY <1>2, <2>3 DEF SetWork, WorkOK
  <2> QED BY <1>2, <2>1, <2>2, <2>3 DEF SetWork
<1> QED BY <1>1, <1>2

LEMMA MaterializeTyped ==
  ASSUME TypeInv, NEW d \in Deleters, Materialize(d)
  PROVE  TypeInv'
<1> USE DEF TypeInv
<1>1. LeftOK' /\ left'.chunks = left.chunks
  BY UseKeeps DEF Materialize, Runs, Free, LeftOK
<1>2. UNCHANGED <<doc, version, chunk, r2, vectors, target, effects, indexer>>
  BY DEF Materialize
<1>3. UNCHANGED work \/ \E i : Pend(i)
  BY DEF Materialize, LaySources, LayVectors
<1>4. WorkOK'
  BY <1>3, SetWorkTyped DEF WorkOK
<1> QED BY <1>1, <1>2, <1>4, RowsKept DEF DocOK, ChunksOK, StoresOK, TargetOK, EffectsOK, IndexerOK

\* A step takes up work, finds a producer, or parks the job.
LEMMA TakeTyped ==
  ASSUME TypeInv, NEW d \in Deleters, ClaimWork(d) \/ MeetProducer(d) \/ Park(d)
  PROVE  TypeInv'
<1> USE DEF TypeInv
<1>1. LeftOK' /\ left'.chunks = left.chunks
  BY UseKeeps DEF ClaimWork, MeetProducer, Park, Runs, Free, OnlyDeletion, LeftOK
<1>2. UNCHANGED <<doc, version, chunk, r2, vectors, target, effects, indexer>>
  BY DEF ClaimWork, MeetProducer, Park, OnlyDeletion
<1>3. WorkOK'
  <2>1. CASE ClaimWork(d)
    <3>1. Recovered \in [Items -> WorkRow]
      BY DEF Recovered, WorkOK, WorkRow
    <3>2. [state |-> "claimed", by |-> {d}, lapsed |-> FALSE] \in WorkRow
      BY DEF WorkRow
    <3> HIDE DEF Recovered
    <3>3. \E i : work' = [Recovered EXCEPT ![i] = [state |-> "claimed", by |-> {d}, lapsed |-> FALSE]]
      BY <2>1 DEF ClaimWork
    <3> QED BY <3>1, <3>2, <3>3 DEF WorkOK
  <2>2. CASE MeetProducer(d) \/ Park(d)
    BY <2>2 DEF MeetProducer, Park, WorkOK
  <2> QED BY <2>1, <2>2
<1> QED BY <1>1, <1>2, <1>3, RowsKept DEF DocOK, ChunksOK, StoresOK, TargetOK, EffectsOK, IndexerOK

\* A step with work in hand.
LEMMA EffectTyped ==
  ASSUME TypeInv, NEW d \in Deleters, AuthorizeEffect(d) \/ Effect(d) \/ EndWork(d)
  PROVE  TypeInv'
<1> USE DEF TypeInv
<1>1. LeftOK' /\ left'.chunks = left.chunks
  BY UseKeeps DEF AuthorizeEffect, Effect, EndWork, Free, OnlyDeletion, LeftOK
<1>2. UNCHANGED <<doc, version, chunk, target, effects, indexer>>
  BY DEF AuthorizeEffect, Effect, EndWork, OnlyDeletion
<1>3. r2' \subseteq r2 /\ vectors' \subseteq vectors
  BY DEF AuthorizeEffect, Effect, EndWork, OnlyDeletion, Erase
<1>4. WorkOK'
  <2>1. CASE AuthorizeEffect(d) \/ Effect(d)
    BY <2>1 DEF AuthorizeEffect, Effect, WorkOK
  <2>2. CASE EndWork(d)
    BY <2>2, SetWorkTyped DEF EndWork
  <2> QED BY <2>1, <2>2
<1> QED BY <1>1, <1>2, <1>3, <1>4, RowsKept DEF DocOK, ChunksOK, StoresOK, TargetOK, EffectsOK, IndexerOK

\* Rows go: a job, a version, or chunks.
LEMMA FinalizeTyped ==
  ASSUME TypeInv, NEW d \in Deleters, FinalizeOne(d)
  PROVE  TypeInv'
<1> USE DEF TypeInv
<1>1. UNCHANGED <<doc, r2, vectors, left, effects, indexer>>
  BY DEF FinalizeOne
<1>2. CASE RemoveRows(d)
  <2>1. RowsOK' /\ CursorInside'
    <3>1. CASE UNCHANGED version
      BY <1>1, <3>1, RowsKept
    <3>2. ASSUME NEW v \in Versions, version' = [version EXCEPT ![v].job = "none"]
          PROVE  RowsOK' /\ CursorInside'
      <4> DEFINE row == [version[v] EXCEPT !.job = "none"]
      <4>1. row \in VersionRow /\ row.job = "none" /\ version' = [version EXCEPT ![v] = row]
        BY <3>2 DEF RowsOK, VersionRow, JobStates
      <4> HIDE DEF row
      <4> QED BY <1>1, <4>1, SetRow, CursorKept DEF Preparing
    <3>3. ASSUME NEW v \in Versions, version' = [version EXCEPT ![v] = NoVersion]
          PROVE  RowsOK' /\ CursorInside'
      <4>1. NoVersion \in VersionRow /\ NoVersion.job = "none"
        BY Bounds DEF VersionRow, NoVersion, VersionStates, JobStates
      <4> QED BY <1>1, <3>3, <4>1, SetRow, CursorKept DEF Preparing
    <3>4. ASSUME NEW v \in Jobs, v \notin Versions, version' = [version EXCEPT ![v].job = "none"]
          PROVE  RowsOK' /\ CursorInside'
      BY <1>1, <3>4, CursorKept DEF RowsOK, Preparing
    <3> QED BY <1>2, <3>1, <3>2, <3>3, <3>4 DEF RemoveRows, Staged
  <2>2. ChunksOK'
    <3>1. CASE UNCHANGED chunk
      BY <3>1 DEF ChunksOK
    <3>2. CASE MarkChunks(Versions \X ChunkIds, "none")
      BY <3>2, SetChunks DEF ChunkStates
    <3> QED BY <1>2, <3>1, <3>2 DEF RemoveRows
  <2>3. TargetOK'
    BY <1>2, Bounds DEF RemoveRows, TargetOK
  <2>4. WorkOK'
    <3>1. CASE \E state \in {"pending", "uncertain"} : SetWork(d, state)
      BY <3>1, SetWorkTyped
    <3>2. NoWork \in WorkRow /\ [state |-> "pending", by |-> {}, lapsed |-> FALSE] \in WorkRow
      BY DEF NoWork, WorkRow
    <3>3. ASSUME NEW i, work' = [work EXCEPT ![i] = NoWork,
                                  ![Finalize] = [state |-> "pending", by |-> {}, lapsed |-> FALSE]]
          PROVE  WorkOK'
      <4> DEFINE row == [state |-> "pending", by |-> {}, lapsed |-> FALSE]
      <4>1. row \in WorkRow /\ work' = [[work EXCEPT ![i] = NoWork] EXCEPT ![Finalize] = row]
        BY <3>2, <3>3
      <4> HIDE DEF row
      <4> QED BY <3>2, <4>1 DEF WorkOK
    <3>4. CASE work' = [work EXCEPT ![Finalize] = NoWork]
      BY <3>2, <3>4 DEF WorkOK
    <3> QED BY <1>2, <3>1, <3>3, <3>4 DEF RemoveRows, Continue
  <2> QED BY <1>1, <2>1, <2>2, <2>3, <2>4 DEF DocOK, StoresOK, LeftOK, EffectsOK, IndexerOK
<1>3. CASE SetWork(d, "uncertain") /\ UNCHANGED <<version, chunk, target>>
  <2>1. WorkOK'
    BY <1>3, SetWorkTyped
  <2> QED BY <1>1, <1>3, <2>1, RowsKept DEF DocOK, ChunksOK, StoresOK, TargetOK, LeftOK, EffectsOK, IndexerOK
<1> QED BY <1>2, <1>3 DEF FinalizeOne

\* Leases of work run out and steps die.
LEMMA DeleterStopsTyped ==
  ASSUME TypeInv, (\E i \in Items : LapseWork(i)) \/ (\E d \in Deleters : CrashDeleter(d))
  PROVE  TypeInv'
<1> USE DEF TypeInv
<1>1. LeftOK' /\ left'.chunks = left.chunks
  BY UseKeeps DEF LapseWork, CrashDeleter, Free, LeftOK
<1>2. UNCHANGED <<doc, version, chunk, target, effects, indexer>>
  BY DEF LapseWork, CrashDeleter
<1>3. r2' \subseteq r2 /\ vectors' \subseteq vectors
  BY DEF LapseWork, CrashDeleter, Erase
<1>4. WorkOK'
  BY DEF LapseWork, CrashDeleter, WorkOK, WorkRow
<1> QED BY <1>1, <1>2, <1>3, <1>4, RowsKept DEF DocOK, ChunksOK, StoresOK, TargetOK, EffectsOK, IndexerOK

LEMMA NextTyped == TypeInv /\ [KnowledgeNext]_knowledgeVars => TypeInv'
<1> SUFFICES ASSUME TypeInv, [KnowledgeNext]_knowledgeVars PROVE TypeInv'
  OBVIOUS
<1>1. CASE KnowledgeNext
  <2>1. left.deleters \subseteq Deleters
    BY DEF TypeInv, LeftOK, Scenario
  <2> QED BY <1>1, <2>1, IndexTyped, RevokeTyped, MaterializeTyped, TakeTyped, EffectTyped, FinalizeTyped,
             DeleterStopsTyped DEF KnowledgeNext, DeleterStep
<1>2. CASE UNCHANGED knowledgeVars
  BY <1>2 DEF knowledgeVars, indexVars, TypeInv, DocOK, RowsOK, ChunksOK, StoresOK, TargetOK, WorkOK, LeftOK,
              EffectsOK, IndexerOK, CursorInside, Preparing
<1> QED BY <1>1, <1>2

LEMMA TypeInvariance == KnowledgeSpec => []TypeInv
BY InitTyped, NextTyped, PTL DEF KnowledgeSpec

\* Every reachable state is well-typed: cursors, counts and targets stay within
\* the manifest whatever processes run, die or are late.
THEOREM KnowledgeTyped == KnowledgeSpec => []KnowledgeTypeOK
<1>1. TypeInv => KnowledgeTypeOK
  BY DEF TypeInv, KnowledgeTypeOK, DocOK, RowsOK, VersionRow, ChunksOK, StoresOK, TargetOK, WorkOK, WorkRow
<1> QED BY <1>1, TypeInvariance, PTL

-----------------------------------------------------------------------------
(* A chunk is sent to the index once.                                      *)

\* The instance w has claimed the chunk and not yet sent it.
Holds(w, v, c) ==
  indexer[w].pc \in {"claimed", "upserting"} /\ indexer[w].v = v /\ indexer[w].c = c
Fresh(v, c) == effects[v][c] = 0 /\ \A w \in Indexers : ~Holds(w, v, c)

\* The manifest has not come to the chunk yet.
Blank(v) == version[v].state = "none" /\ del.state = "none"
Unmade(v, c) == Blank(v) \/ (Preparing(v) /\ version[v].next <= c)

\* A chunk is claimed only while it is pending, it becomes pending only when the
\* manifest comes to it, and either way nobody has sent it or is about to.
Once ==
  \A v \in Versions, c \in ChunkIds :
    /\ effects[v][c] <= 1
    /\ chunk[v][c] = "pending" \/ Unmade(v, c) => Fresh(v, c)
    /\ Unmade(v, c) => chunk[v][c] = "none"
    /\ \A w \in Indexers : Holds(w, v, c) =>
         effects[v][c] = 0 /\ \A u \in Indexers : Holds(u, v, c) => u = w

\* A deletion takes the row of the document first and never leaves the state
\* "none" again; deletion steps run only for a deletion.
DelFields == {"state", "max", "legacyPath", "legacyCount", "source", "sourcesDone", "cut", "vectorsDone"}
DelShape == del = [f \in DelFields |-> del[f]]
Quiet ==
  /\ DelShape
  /\ del.state # "none" => doc.status = "absent"
  /\ del.state = "none" => \A d \in Deleters : deleter[d].pc = "idle"

OnceInv == TypeInv /\ Quiet /\ Once

\* What a step that neither makes, claims nor sends a chunk leaves alone.
StillRows ==
  \A v \in Versions :
    /\ Blank(v)' => Blank(v)
    /\ Preparing(v)' => Preparing(v) /\ version'[v].next = version[v].next
StillChunks ==
  \A v \in Versions, c \in ChunkIds :
    /\ chunk'[v][c] = "pending" => chunk[v][c] = "pending"
    /\ chunk[v][c] = "none" => chunk'[v][c] = "none"
StillHands == \A w \in Indexers, v \in Versions, c \in ChunkIds : Holds(w, v, c)' => Holds(w, v, c)

LEMMA OnceKept ==
  ASSUME Once, StillChunks, StillHands, UNCHANGED effects,
         \A v \in Versions, c \in ChunkIds : Unmade(v, c)' => Unmade(v, c)
  PROVE  Once'
<1> SUFFICES ASSUME NEW v \in Versions, NEW c \in ChunkIds
             PROVE  /\ effects'[v][c] <= 1
                    /\ chunk'[v][c] = "pending" \/ Unmade(v, c)' => Fresh(v, c)'
                    /\ Unmade(v, c)' => chunk'[v][c] = "none"
                    /\ \A w \in Indexers : Holds(w, v, c)' =>
                         effects'[v][c] = 0 /\ \A u \in Indexers : Holds(u, v, c)' => u = w
  BY DEF Once
<1>1. \A w \in Indexers : Holds(w, v, c)' => Holds(w, v, c)
  BY DEF StillHands
<1>2. Fresh(v, c) => Fresh(v, c)'
  BY <1>1 DEF Fresh
<1> HIDE DEF Holds, Unmade
<1> QED BY <1>1, <1>2 DEF Once, StillChunks

LEMMA UnmadeKept ==
  ASSUME StillRows
  PROVE  \A v \in Versions, c \in ChunkIds : Unmade(v, c)' => Unmade(v, c)
BY DEF StillRows, Unmade

LEMMA StillKeepsOnce ==
  ASSUME Once, StillRows, StillChunks, StillHands, UNCHANGED effects
  PROVE  Once'
BY OnceKept, UnmadeKept

LEMMA SameHands == ASSUME UNCHANGED indexer PROVE StillHands
BY DEF StillHands, Holds

LEMMA SameChunks == ASSUME UNCHANGED chunk PROVE StillChunks
BY DEF StillChunks

LEMMA SameRows ==
  ASSUME UNCHANGED version, del'.state = "none" => del.state = "none"
  PROVE  StillRows
BY DEF StillRows, Blank, Preparing

LEMMA UnparkKeeps ==
  ASSUME Quiet
  PROVE  /\ Unpark = [f \in DelFields |-> Unpark[f]]
         /\ Unpark.state = "none" <=> del.state = "none"
BY DEF Quiet, DelShape, DelFields, Unpark

LEMMA InitOnce == DeletionInit => OnceInv
<1> SUFFICES ASSUME DeletionInit PROVE OnceInv
  OBVIOUS
<1>1. Quiet
  BY DEF DeletionInit, KnowledgeInit, NoStep, NoDelete, Quiet, DelShape, DelFields
<1>2. \A w \in Indexers : indexer[w].pc = "idle"
  BY DEF DeletionInit, KnowledgeInit, Idle
<1>3. \A v \in Versions, c \in ChunkIds : effects[v][c] = 0 /\ chunk[v][c] = "none"
  BY DEF DeletionInit, KnowledgeInit
<1>4. Once
  BY <1>2, <1>3 DEF Once, Fresh, Holds
<1> QED BY <1>1, <1>4, InitTyped DEF OnceInv

LEMMA LatestIsGreatest == \A v \in Staged : v <= LatestVersion
<1> SUFFICES ASSUME Staged # {} PROVE \A v \in Staged : v <= LatestVersion
  OBVIOUS
<1>1. \E m \in Staged : \A u \in Staged : u <= m
  BY GreatestExists, Bounds DEF Staged, Versions
<1> QED BY <1>1 DEF LatestVersion

\* The job of the deletion is not touched, or only taken off the hook.
LEMMA QuietKept ==
  ASSUME Quiet, del' \in {del, Unpark}, UNCHANGED deleter,
         doc.status = "absent" /\ del.state # "none" => doc'.status = "absent"
  PROVE  Quiet' /\ (del'.state = "none" <=> del.state = "none")
BY UnparkKeeps DEF Quiet, DelShape

LEMMA StagingOnce ==
  ASSUME OnceInv, NEW v \in Versions, IndexOnly, BeginSource(v) \/ StageStep(v)
  PROVE  Quiet' /\ Once'
<1> USE DEF OnceInv
<1>1. CASE BeginSource(v)
  <2>1. UNCHANGED <<chunk, effects, indexer, del, deleter>>
    BY <1>1 DEF BeginSource, IndexOnly
  <2>2. del.state = "none"
    BY <1>1 DEF BeginSource, Deleting, Quiet
  <2>3. version[v].state = "none"
    <3>1. v = LatestVersion + 1
      BY <1>1 DEF BeginSource
    <3> SUFFICES ASSUME v \in Staged PROVE FALSE
      BY DEF Staged
    <3> HIDE DEF LatestVersion
    <3>2. LatestVersion \in Int
      BY LatestVersionType
    <3> QED BY <3>1, <3>2, LatestIsGreatest
  <2>4. Quiet'
    BY <2>1, <2>2, QuietKept
  <2>5. \A u \in Versions \ {v} : version'[u] = version[u]
    BY <1>1 DEF BeginSource, TypeInv, RowsOK
  <2>6. \A u \in Versions, c \in ChunkIds : Unmade(u, c)' => Unmade(u, c)
    BY <2>1, <2>2, <2>3, <2>5 DEF Unmade, Blank, Preparing
  <2> QED BY <2>1, <2>4, <2>6, OnceKept, SameHands, SameChunks
<1>2. CASE AuthorizeSource(v) \/ PutSource(v)
  <2>1. UNCHANGED <<version, chunk, effects, indexer, del, doc, deleter>>
    BY <1>2 DEF AuthorizeSource, PutSource, IndexOnly
  <2> QED BY <2>1, QuietKept, StillKeepsOnce, SameHands, SameChunks, SameRows
<1>3. CASE CaptureSource(v)
  <2>1. UNCHANGED <<chunk, effects, indexer, del, deleter>>
    BY <1>3 DEF CaptureSource, IndexOnly
  <2>2. Quiet'
    BY <1>3, <2>1, QuietKept DEF CaptureSource
  <2>3. StillRows
    <3>1. CASE UNCHANGED version
      BY <2>1, <3>1, SameRows
    <3>2. CASE /\ version[v].job = "source_pending"
               /\ version' = [version EXCEPT ![v].state = "preparing", ![v].job = "preparing"]
      <4>1. /\ \A u \in Versions \ {v} : version'[u] = version[u]
            /\ version'[v].state = "preparing" /\ version'[v].next = version[v].next
        BY <3>2 DEF TypeInv, RowsOK, VersionRow
      <4> QED BY <2>1, <3>2, <4>1 DEF StillRows, Blank, Preparing
    <3> QED BY <1>3, <3>1, <3>2 DEF CaptureSource
  <2> QED BY <2>1, <2>2, <2>3, StillKeepsOnce, SameHands, SameChunks
<1>4. CASE FailSource(v)
  <2>1. FailedSource(v) /\ UNCHANGED <<chunk, effects, indexer, doc, deleter>>
    BY <1>4 DEF FailSource, IndexOnly
  <2>2. Quiet' /\ (del'.state = "none" <=> del.state = "none")
    BY <2>1, QuietKept DEF FailedSource
  <2>3. StillRows
    BY <2>1, <2>2, FailedSourceKeeps DEF StillRows, Blank, TypeInv
  <2> QED BY <2>1, <2>2, <2>3, StillKeepsOnce, SameHands, SameChunks
<1> QED BY <1>1, <1>2, <1>3, <1>4 DEF StageStep

LEMMA OthersOnce ==
  ASSUME OnceInv, NEW v \in Versions, IndexOnly, CleanFailedSource(v) \/ CompleteOnly(v)
  PROVE  Quiet' /\ Once'
<1> USE DEF OnceInv
<1>1. UNCHANGED <<effects, indexer, doc, del, deleter>>
  BY DEF CleanFailedSource, CompleteOnly, IndexOnly
<1>2. Quiet'
  BY <1>1, QuietKept
<1>3. CASE CleanFailedSource(v)
  <2>1. \A u \in Versions : /\ version'[u].state = version[u].state
                            /\ version'[u].next = version[u].next
                            /\ version'[u].job \in {version[u].job, "failed"}
    BY <1>3 DEF CleanFailedSource, TypeInv, RowsOK, VersionRow
  <2>2. StillRows
    BY <1>1, <2>1 DEF StillRows, Blank, Preparing
  <2>3. StillChunks
    BY <1>3 DEF CleanFailedSource, StillChunks, TypeInv, ChunksOK
  <2> QED BY <1>1, <1>2, <2>2, <2>3, StillKeepsOnce, SameHands
<1>4. CASE CompleteOnly(v)
  <2>1. StillRows /\ UNCHANGED chunk
    BY <1>1, <1>4, CompleteVersionKeeps DEF CompleteOnly, StillRows, Blank, TypeInv
  <2> QED BY <1>1, <1>2, <2>1, StillKeepsOnce, SameHands, SameChunks
<1> QED BY <1>3, <1>4

LEMMA StartOnce ==
  ASSUME OnceInv, NEW w \in Indexers, NEW v \in Versions, IndexOnly,
         ReadPreparation(w, v) \/ CheckChunk(w, v)
  PROVE  Quiet' /\ Once'
<1> USE DEF OnceInv
<1>1. UNCHANGED <<version, chunk, effects, doc, del, deleter>>
  BY DEF ReadPreparation, CheckChunk, IndexOnly
<1>2. indexer'[w].pc \in {"preparing", "checked"} /\ \A u \in Indexers \ {w} : indexer'[u] = indexer[u]
  BY DEF ReadPreparation, CheckChunk, IndexTo, TypeInv, IndexerOK
<1>3. StillHands
  BY <1>2 DEF StillHands, Holds
<1> QED BY <1>1, <1>3, QuietKept, StillKeepsOnce, SameChunks, SameRows

\* The manifest comes to a chunk.
LEMMA PublishOnce ==
  ASSUME OnceInv, NEW w \in Indexers, IndexOnly, PublishBatch(w) \/ FailRead(w)
  PROVE  Quiet' /\ Once'
<1> USE DEF OnceInv
<1>1. PICK v \in Versions, c \in ChunkIds : indexer[w].v = v /\ indexer[w].c = c
  BY BatchMoves DEF TypeInv
<1>2. UNCHANGED <<doc, effects, deleter>>
  BY DEF PublishBatch, FailRead, IndexOnly
<1>3. StillHands
  <2>1. indexer'[w].pc \in {"ready", "idle"} /\ \A u \in Indexers \ {w} : indexer'[u] = indexer[u]
    BY BatchMoves DEF TypeInv
  <2> QED BY <2>1 DEF StillHands, Holds
<1>4. Quiet' /\ (del'.state = "none" <=> del.state = "none")
  <2>1. del' \in {del, Unpark}
    BY DEF PublishBatch, FailRead, FailedSource
  <2> QED BY <1>2, <2>1, QuietKept
<1>5. CASE FailedSource(v) /\ UNCHANGED chunk
  <2>1. StillRows
    BY <1>4, <1>5, FailedSourceKeeps DEF StillRows, Blank, TypeInv
  <2> QED BY <1>2, <1>3, <1>4, <1>5, <2>1, StillKeepsOnce, SameChunks
<1>6. CASE /\ Preparing(v) /\ version[v].next = c
           /\ chunk' = [chunk EXCEPT ![v][c] = "pending"]
           /\ \E state \in {"pending", "preparing"} : version' = [version EXCEPT ![v] =
                [state |-> state, job |-> state, next |-> IF LastBatch(c) THEN 0 ELSE c + 1,
                 count |-> c + 1]]
           /\ LastBatch(c) => \E state \in {"pending"} : version' = [version EXCEPT ![v] =
                [state |-> state, job |-> state, next |-> 0, count |-> c + 1]]
  <2>1. \A u \in Versions \ {v} : version'[u] = version[u]
    BY <1>6 DEF TypeInv, RowsOK
  <2>2. version'[v].state # "none" /\ (Preparing(v)' => version'[v].next = c + 1)
    BY <1>1, <1>6 DEF Preparing, TypeInv, RowsOK
  <2>3. /\ \A u \in Versions, k \in ChunkIds : <<u, k>> # <<v, c>> => chunk'[u][k] = chunk[u][k]
        /\ chunk'[v][c] = "pending"
    BY <1>1, <1>6 DEF TypeInv, ChunksOK
  <2>4. \A u \in Versions, k \in ChunkIds : Unmade(u, k)' => Unmade(u, k) /\ <<u, k>> # <<v, c>>
    <3> SUFFICES ASSUME NEW u \in Versions, NEW k \in ChunkIds, Unmade(u, k)'
                 PROVE  Unmade(u, k) /\ <<u, k>> # <<v, c>>
      OBVIOUS
    <3>1. CASE u # v
      BY <1>4, <2>1, <3>1 DEF Unmade, Blank, Preparing
    <3>2. CASE u = v
      <4>1. c \in Int /\ k \in Int
        BY <1>1 DEF ChunkIds
      <4>2. c + 1 <= k
        BY <2>2, <3>2 DEF Unmade, Blank
      <4> QED BY <1>6, <3>2, <4>1, <4>2 DEF Unmade
    <3> QED BY <3>1, <3>2
  <2>5. Unmade(v, c)
    BY <1>1, <1>6 DEF Unmade, ChunkIds
  <2>6. \A u \in Versions, k \in ChunkIds : Fresh(u, k) => Fresh(u, k)'
    BY <1>2, <1>3 DEF Fresh, StillHands
  <2> HIDE DEF Unmade, Fresh
  <2>7. SUFFICES ASSUME NEW u \in Versions, NEW k \in ChunkIds
        PROVE  /\ effects'[u][k] <= 1
               /\ chunk'[u][k] = "pending" \/ Unmade(u, k)' => Fresh(u, k)'
               /\ Unmade(u, k)' => chunk'[u][k] = "none"
               /\ \A x \in Indexers : Holds(x, u, k)' =>
                    effects'[u][k] = 0 /\ \A y \in Indexers : Holds(y, u, k)' => y = x
    BY <1>4 DEF Once
  <2>8. \A x \in Indexers : Holds(x, u, k)' => Holds(x, u, k)
    BY <1>3 DEF StillHands
  <2> HIDE DEF Holds
  <2>9. (chunk'[u][k] = "pending" => Fresh(u, k)) /\ (Unmade(u, k)' => chunk'[u][k] = "none")
    BY <1>1, <2>3, <2>4, <2>5 DEF Once
  <2> QED BY <1>2, <2>4, <2>6, <2>8, <2>9 DEF Once
<1> QED BY <1>1, <1>5, <1>6 DEF PublishBatch, FailRead, Preparing

\* A chunk is claimed, sent and confirmed.
LEMMA ClaimOnce ==
  ASSUME OnceInv, NEW w \in Indexers, IndexOnly, ClaimChunk(w)
  PROVE  Quiet' /\ Once'
<1> USE DEF OnceInv
<1>1. PICK v \in Versions, c \in ChunkIds : indexer[w].v = v /\ indexer[w].c = c
  BY DEF ClaimChunk, At, TypeInv, IndexerOK, IndexerRow
<1>2. UNCHANGED <<version, doc, del, effects, deleter>>
  BY DEF ClaimChunk, IndexOnly
<1>3. Quiet'
  BY <1>2, QuietKept
<1>4. CASE IndexTo(w, Idle) /\ UNCHANGED chunk
  <2>1. indexer'[w].pc = "idle" /\ \A u \in Indexers \ {w} : indexer'[u] = indexer[u]
    BY <1>4 DEF IndexTo, Idle, TypeInv, IndexerOK
  <2>2. StillHands
    BY <2>1 DEF StillHands, Holds
  <2> QED BY <1>2, <1>3, <1>4, <2>2, StillKeepsOnce, SameChunks, SameRows
<1>5. CASE /\ chunk[v][c] = "pending" /\ chunk' = [chunk EXCEPT ![v][c] = "claimed"]
           /\ IndexTo(w, [indexer[w] EXCEPT !.pc = "claimed"])
  <2>1. /\ \A u \in Indexers \ {w} : indexer'[u] = indexer[u]
        /\ indexer'[w].v = v /\ indexer'[w].c = c
    BY <1>1, <1>5 DEF IndexTo, TypeInv, IndexerOK, IndexerRow
  <2>2. \A x \in Indexers, u \in Versions, k \in ChunkIds :
          Holds(x, u, k)' => Holds(x, u, k) \/ <<x, u, k>> = <<w, v, c>>
    BY <2>1 DEF Holds
  <2>3. /\ \A u \in Versions, k \in ChunkIds : <<u, k>> # <<v, c>> => chunk'[u][k] = chunk[u][k]
        /\ chunk'[v][c] = "claimed"
    BY <1>5 DEF TypeInv, ChunksOK
  <2>4. Fresh(v, c) /\ ~Unmade(v, c)
    BY <1>5 DEF Once
  <2>5. \A u \in Versions, k \in ChunkIds : Unmade(u, k)' => Unmade(u, k)
    BY <1>2 DEF Unmade, Blank, Preparing
  <2> SUFFICES ASSUME NEW u \in Versions, NEW k \in ChunkIds
      PROVE  /\ effects'[u][k] <= 1
             /\ chunk'[u][k] = "pending" \/ Unmade(u, k)' => Fresh(u, k)'
             /\ Unmade(u, k)' => chunk'[u][k] = "none"
             /\ \A x \in Indexers : Holds(x, u, k)' =>
                  effects'[u][k] = 0 /\ \A y \in Indexers : Holds(y, u, k)' => y = x
    BY <1>3 DEF Once
  <2> HIDE DEF Holds, Unmade
  <2>6. CASE <<u, k>> = <<v, c>>
    BY <1>2, <2>2, <2>3, <2>4, <2>5, <2>6 DEF Fresh
  <2>7. CASE <<u, k>> # <<v, c>>
    <3>1. \A x \in Indexers : Holds(x, u, k)' => Holds(x, u, k)
      BY <2>2, <2>7
    <3>2. Fresh(u, k) => Fresh(u, k)'
      BY <1>2, <3>1 DEF Fresh
    <3> QED BY <1>2, <2>3, <2>5, <2>7, <3>1, <3>2 DEF Once
  <2> QED BY <2>6, <2>7
<1> QED BY <1>4, <1>5, <1>1 DEF ClaimChunk

LEMMA SendOnce ==
  ASSUME OnceInv, NEW w \in Indexers, IndexOnly, Upsert(w)
  PROVE  Quiet' /\ Once'
<1> USE DEF OnceInv
<1>1. PICK v \in Versions, c \in ChunkIds : indexer[w].v = v /\ indexer[w].c = c
  BY DEF Upsert, At, TypeInv, IndexerOK, IndexerRow
<1>2. UNCHANGED <<version, doc, del, chunk, deleter>>
  BY DEF Upsert, IndexOnly
<1>3. Quiet'
  BY <1>2, QuietKept
<1>4. Holds(w, v, c)
  BY <1>1 DEF Holds, Upsert, At
<1>5. \A x \in Indexers, u \in Versions, k \in ChunkIds : Holds(x, u, k)' => Holds(x, u, k) /\ x # w
  <2>1. indexer'[w].pc \in {"upserted", "unsure"} /\ \A u \in Indexers \ {w} : indexer'[u] = indexer[u]
    BY DEF Upsert, At, IndexTo, TypeInv, IndexerOK, IndexerRow
  <2> QED BY <2>1 DEF Holds
<1>6. /\ \A u \in Versions, k \in ChunkIds : <<u, k>> # <<v, c>> => effects'[u][k] = effects[u][k]
      /\ effects'[v][c] = effects[v][c] + 1
  BY <1>1 DEF Upsert, TypeInv, EffectsOK
<1>7. /\ effects[v][c] = 0 /\ chunk[v][c] # "pending" /\ ~Unmade(v, c)
      /\ \A u \in Indexers : Holds(u, v, c) => u = w
  BY <1>4 DEF Once, Fresh
<1>8. \A u \in Versions, k \in ChunkIds : Unmade(u, k)' => Unmade(u, k)
  BY <1>2 DEF Unmade, Blank, Preparing
<1> SUFFICES ASSUME NEW u \in Versions, NEW k \in ChunkIds
    PROVE  /\ effects'[u][k] <= 1
           /\ chunk'[u][k] = "pending" \/ Unmade(u, k)' => Fresh(u, k)'
           /\ Unmade(u, k)' => chunk'[u][k] = "none"
           /\ \A x \in Indexers : Holds(x, u, k)' =>
                effects'[u][k] = 0 /\ \A y \in Indexers : Holds(y, u, k)' => y = x
  BY <1>3 DEF Once
<1>9. CASE <<u, k>> = <<v, c>>
  BY <1>2, <1>5, <1>6, <1>7, <1>8, <1>9
<1>10. CASE <<u, k>> # <<v, c>>
  <2>1. Fresh(u, k) => Fresh(u, k)'
    BY <1>5, <1>6, <1>10 DEF Fresh
  <2> HIDE DEF Holds, Unmade
  <2> QED BY <1>2, <1>5, <1>6, <1>8, <1>10, <2>1 DEF Once
<1> QED BY <1>9, <1>10

LEMMA MovesOnce ==
  ASSUME OnceInv, NEW w \in Indexers, IndexOnly,
         AuthorizeChunk(w) \/ ConfirmChunk(w) \/ Unsure(w)
  PROVE  Quiet' /\ Once'
<1> USE DEF OnceInv
<1>1. PICK v \in Versions, c \in ChunkIds : indexer[w].v = v /\ indexer[w].c = c
  BY DEF AuthorizeChunk, ConfirmChunk, Unsure, At, TypeInv, IndexerOK, IndexerRow
<1>2. UNCHANGED <<doc, effects, deleter>>
  BY DEF AuthorizeChunk, ConfirmChunk, Unsure, IndexOnly
<1>3. Quiet' /\ (del'.state = "none" <=> del.state = "none")
  <2>1. del' \in {del, Unpark}
    BY DEF AuthorizeChunk, ConfirmChunk, Unsure
  <2> QED BY <1>2, <2>1, QuietKept
<1>4. indexer[w].pc # "idle"
  BY DEF AuthorizeChunk, ConfirmChunk, Unsure, At
<1>5. CASE AuthorizeChunk(w)
  <2>1. \E pc \in {"upserting", "unsure"} : IndexTo(w, [indexer[w] EXCEPT !.pc = pc])
    BY <1>5 DEF AuthorizeChunk
  <2>2. /\ indexer'[w].v = v /\ indexer'[w].c = c
        /\ \A u \in Indexers \ {w} : indexer'[u] = indexer[u]
    BY <1>1, <2>1 DEF IndexTo, TypeInv, IndexerOK, IndexerRow
  <2>3. StillHands
    BY <1>1, <1>5, <2>2 DEF StillHands, Holds, AuthorizeChunk, At
  <2> QED BY <1>2, <1>3, <1>5, <2>3, StillKeepsOnce, SameChunks, SameRows DEF AuthorizeChunk
<1>6. CASE ConfirmChunk(w) \/ Unsure(w)
  <2>1. indexer'[w].pc \in {"unsure", "idle", "finishing"} /\ \A u \in Indexers \ {w} : indexer'[u] = indexer[u]
    BY <1>6 DEF ConfirmChunk, Unsure, IndexTo, Idle, TypeInv, IndexerOK, IndexerRow
  <2>2. StillHands
    BY <2>1 DEF StillHands, Holds
  <2>3. \E state : /\ chunk' = [chunk EXCEPT ![v][c] = state]
                   /\ state # chunk[v][c] => state \notin {"none", "pending"} /\ chunk[v][c] # "none"
    BY <1>1, <1>6 DEF ConfirmChunk, Unsure
  <2>4. StillChunks
    BY <2>3 DEF StillChunks, TypeInv, ChunksOK
  <2>5. \A u \in Versions : /\ version'[u].state = "none" => version[u].state = "none"
                            /\ \/ version'[u] = version[u]
                               \/ ~Preparing(u)'
    <3>1. CASE ConfirmChunk(w)
      <4>1. UNCHANGED version \/ version' = [version EXCEPT ![v].next = c + 1, ![v].job = "pending"]
        BY <1>1, <3>1 DEF ConfirmChunk
      <4> QED BY <4>1 DEF Preparing, TypeInv, RowsOK, VersionRow
    <3>2. CASE Unsure(w)
      <4>1. UNCHANGED version \/ version' = [version EXCEPT ![v].state = "failed", ![v].job = "uncertain"]
        BY <1>1, <3>2 DEF Unsure
      <4> QED BY <4>1 DEF Preparing, TypeInv, RowsOK, VersionRow
    <3> QED BY <1>6, <3>1, <3>2
  <2>6. StillRows
    BY <1>3, <2>5 DEF StillRows, Blank, Preparing
  <2> QED BY <1>2, <1>3, <2>2, <2>4, <2>6, StillKeepsOnce
<1> QED BY <1>5, <1>6

LEMMA EndOnce ==
  ASSUME OnceInv, NEW w \in Indexers, IndexOnly, FinishVersion(w) \/ PublishDocument(w) \/ MarkReady(w)
  PROVE  Quiet' /\ Once'
<1> USE DEF OnceInv
<1>1. PICK v \in Versions : indexer[w].v = v
  BY DEF FinishVersion, PublishDocument, MarkReady, At, TypeInv, IndexerOK, IndexerRow
<1>2. UNCHANGED <<chunk, effects, del, deleter>>
  BY DEF FinishVersion, PublishDocument, MarkReady, IndexOnly
<1>3. Quiet'
  BY <1>2, QuietKept DEF FinishVersion, PublishDocument, MarkReady
<1>4. StillHands
  <2>1. indexer'[w].pc \in {"publishing", "idle"} /\ \A u \in Indexers \ {w} : indexer'[u] = indexer[u]
    BY DEF FinishVersion, PublishDocument, MarkReady, IndexTo, Idle, TypeInv, IndexerOK, IndexerRow
  <2> QED BY <2>1 DEF StillHands, Holds
<1>5. StillRows
  <2>1. CASE UNCHANGED version
    BY <1>2, <2>1, SameRows
  <2>2. CASE version[v].state # "none" /\ CompleteVersion(v)
    BY <1>2, <2>2, CompleteVersionKeeps DEF StillRows, Blank, TypeInv
  <2> QED BY <1>1, <2>1, <2>2 DEF FinishVersion, PublishDocument, MarkReady
<1> QED BY <1>2, <1>3, <1>4, <1>5, StillKeepsOnce, SameChunks

LEMMA WithdrawOnce ==
  ASSUME OnceInv, IndexOnly, Unpublish \/ WithdrawAll
  PROVE  Quiet' /\ Once'
<1> USE DEF OnceInv
<1>1. UNCHANGED <<chunk, effects, indexer, del, deleter>>
  BY DEF Unpublish, WithdrawAll, IndexOnly
<1>2. Quiet'
  BY <1>1, QuietKept DEF Unpublish, WithdrawAll
<1>3. StillRows
  <2>1. CASE UNCHANGED version
    BY <1>1, <2>1, SameRows
  <2>2. CASE WithdrawAll /\ Staged # {}
    <3>1. LatestVersion \in Versions /\ version[LatestVersion].state # "none"
      BY <2>2, LatestVersionType DEF Staged
    <3>2. version' = [version EXCEPT ![LatestVersion].state = IF @ = "failed" THEN @ ELSE "withdrawn"]
      BY <2>2 DEF WithdrawAll
    <3> HIDE DEF LatestVersion
    <3>3. \A v \in Versions : /\ version'[v].job = version[v].job /\ version'[v].next = version[v].next
                              /\ version'[v].state = "none" => version[v].state = "none"
      BY <3>1, <3>2 DEF TypeInv, RowsOK, VersionRow
    <3> QED BY <1>1, <3>3 DEF StillRows, Blank, Preparing
  <2> QED BY <2>1, <2>2 DEF Unpublish, WithdrawAll
<1> QED BY <1>1, <1>2, <1>3, StillKeepsOnce, SameHands, SameChunks

LEMMA CleanupOnce ==
  ASSUME OnceInv, IndexOnly, ClaimCleanup \/ CleanVectors \/ EndCleanup
  PROVE  Quiet' /\ Once'
<1> USE DEF OnceInv
<1>1. UNCHANGED <<version, doc, effects, indexer, del, deleter>>
  BY DEF ClaimCleanup, CleanVectors, EndCleanup, IndexOnly
<1>2. StillChunks
  <2>1. CASE UNCHANGED chunk
    BY <2>1, SameChunks
  <2>2. CASE MarkChunks(Cleanable, "cleanup_claimed")
    BY <2>2 DEF StillChunks, MarkChunks, Cleanable, ChunksIn
  <2>3. ASSUME NEW state \in {"cleaned", "indexed"}, NEW ids \in {cleaner.ids},
               MarkChunks(ids \cap ChunksIn({"cleanup_claimed"}), state)
        PROVE  StillChunks
    BY <2>3 DEF StillChunks, MarkChunks, ChunksIn
  <2> QED BY <2>1, <2>2, <2>3 DEF ClaimCleanup, CleanVectors, EndCleanup
<1> QED BY <1>1, <1>2, QuietKept, StillKeepsOnce, SameHands, SameRows

LEMMA StopsOnce ==
  ASSUME OnceInv, IndexOnly, Lapse \/ CrashIndex
  PROVE  Quiet' /\ Once'
<1> USE DEF OnceInv
<1>1. UNCHANGED <<version, chunk, doc, effects, del, deleter>>
  BY DEF Lapse, CrashIndex, IndexOnly
<1>2. StillHands
  <2>1. UNCHANGED indexer \/ \E w : IndexTo(w, Idle)
    BY DEF Lapse, CrashIndex
  <2>2. \A u \in Indexers : indexer'[u] = indexer[u] \/ indexer'[u].pc = "idle"
    BY <2>1 DEF IndexTo, Idle, TypeInv, IndexerOK
  <2> QED BY <2>2 DEF StillHands, Holds
<1> QED BY <1>1, <1>2, QuietKept, StillKeepsOnce, SameChunks, SameRows

LEMMA IndexOnce == OnceInv /\ IndexNext /\ IndexOnly => Quiet' /\ Once'
<1> SUFFICES ASSUME OnceInv, IndexNext, IndexOnly PROVE Quiet' /\ Once'
  OBVIOUS
<1>1. left.indexers \subseteq Indexers
  BY DEF OnceInv, TypeInv, LeftOK, Scenario
<1> QED BY <1>1, StagingOnce, OthersOnce, StartOnce, PublishOnce, ClaimOnce, SendOnce, MovesOnce, EndOnce,
           WithdrawOnce, CleanupOnce, StopsOnce DEF IndexNext, IndexStep

LEMMA RevokeOnce ==
  ASSUME OnceInv, Revoke
  PROVE  Quiet' /\ Once'
<1> USE DEF OnceInv
<1>1. UNCHANGED <<chunk, effects, indexer>> /\ doc'.status = "absent"
  BY DEF Revoke
<1>2. del'.state = "active" /\ DelShape'
  BY DEF Revoke, NoDelete, DelShape, DelFields
<1>3. Quiet'
  BY <1>1, <1>2 DEF Quiet
<1>4. version' = [v \in Versions |->
         IF v = LatestVersion /\ version[v].state # "failed"
         THEN [version[v] EXCEPT !.state = "withdrawn"] ELSE version[v]]
  BY DEF Revoke
<1> HIDE DEF LatestVersion
<1>5. \A v \in Versions : version'[v].job = version[v].job /\ version'[v].next = version[v].next
  BY <1>4 DEF TypeInv, RowsOK, VersionRow
<1>6. StillRows
  BY <1>2, <1>5 DEF StillRows, Blank, Preparing
<1> QED BY <1>1, <1>3, <1>6, StillKeepsOnce, SameHands, SameChunks

\* A deletion step has a deletion to serve.
LEMMA DeleterServes ==
  ASSUME Quiet, NEW d \in Deleters, DeleterStep(d) \/ CrashDeleter(d)
  PROVE  del.state # "none"
<1> SUFFICES ASSUME del.state = "none" PROVE FALSE
  OBVIOUS
<1>1. deleter[d].pc = "idle" /\ ~Runs
  BY DEF Quiet, Runs, Scheduled, Deleting
<1> QED BY <1>1 DEF DeleterStep, CrashDeleter, ClaimWork, MeetProducer, Park, Materialize, AuthorizeEffect,
                    Effect, EndWork, FinalizeOne, DeleterAt

\* What a deletion step does to its job.
LEMMA JobServed ==
  ASSUME Quiet, NEW d \in Deleters, DeleterStep(d) \/ CrashDeleter(d)
  PROVE  DelShape' /\ del'.state # "none"
<1>1. del.state # "none" /\ DelShape
  BY DeleterServes DEF Quiet
<1>2. CASE UNCHANGED del
  BY <1>1, <1>2 DEF DelShape
<1>3. CASE Park(d)
  BY <1>1, <1>3 DEF Park, DelShape, DelFields
<1>4. CASE FinalizeOne(d) /\ del' = [NoDelete EXCEPT !.state = "done"]
  BY <1>4 DEF NoDelete, DelShape, DelFields
<1>5. CASE Materialize(d)
  <2> DEFINE u == Unpark
  <2>1. u = [f \in DelFields |-> u[f]] /\ u.state # "none"
    BY <1>1, UnparkKeeps
  <2>2. \/ UNCHANGED del
        \/ \E x : \/ del' = [u EXCEPT !.source = x]
                  \/ del' = [u EXCEPT !.sourcesDone = x]
                  \/ del' = [u EXCEPT !.cut = x]
                  \/ del' = [u EXCEPT !.legacyCount = x]
        \/ del' = [u EXCEPT !.state = "legacy_manifest_required"]
        \/ del' = [u EXCEPT !.vectorsDone = TRUE, !.state = "finalizing"]
    BY <1>5 DEF Materialize, LaySources, LayVectors
  <2> HIDE DEF u
  <2> QED BY <1>2, <2>1, <2>2 DEF DelShape, DelFields
<1> QED BY <1>2, <1>3, <1>4, <1>5
        DEF DeleterStep, CrashDeleter, ClaimWork, MeetProducer, AuthorizeEffect, Effect, EndWork, FinalizeOne,
            RemoveRows, Continue

\* Deletion steps only take chunks and rows away.
LEMMA DeletionOnce ==
  ASSUME OnceInv, NEW d \in Deleters, DeleterStep(d) \/ CrashDeleter(d)
  PROVE  Quiet' /\ Once'
<1> USE DEF OnceInv
<1>1. UNCHANGED <<doc, effects, indexer>>
  BY DEF DeleterStep, CrashDeleter, ClaimWork, MeetProducer, Park, Materialize, AuthorizeEffect, Effect,
         EndWork, FinalizeOne, OnlyDeletion
<1>2. del.state # "none" /\ del'.state # "none" /\ DelShape'
  BY DeleterServes, JobServed
<1>3. Quiet'
  BY <1>1, <1>2 DEF Quiet
<1>4. UNCHANGED <<version, chunk>> \/ RemoveRows(d)
  BY DEF DeleterStep, CrashDeleter, ClaimWork, MeetProducer, Park, Materialize, AuthorizeEffect, Effect,
         EndWork, FinalizeOne, OnlyDeletion
<1>5. StillChunks
  <2>1. UNCHANGED chunk \/ MarkChunks(Versions \X ChunkIds, "none")
    BY <1>4 DEF RemoveRows
  <2> QED BY <2>1, SameChunks DEF MarkChunks, StillChunks
<1>6. StillRows
  <2>1. \/ UNCHANGED version
        \/ \E v : version' = [version EXCEPT ![v].job = "none"] \/ version' = [version EXCEPT ![v] = NoVersion]
    BY <1>4 DEF RemoveRows
  <2>2. \A v \in Versions : version'[v] = version[v] \/ version'[v].job = "none"
    BY <2>1 DEF NoVersion, TypeInv, RowsOK, VersionRow
  <2> QED BY <1>2, <2>2 DEF StillRows, Blank, Preparing
<1> QED BY <1>1, <1>3, <1>5, <1>6, StillKeepsOnce, SameHands

LEMMA NextOnce == OnceInv /\ [KnowledgeNext]_knowledgeVars => OnceInv'
<1> SUFFICES ASSUME OnceInv, [KnowledgeNext]_knowledgeVars PROVE Quiet' /\ Once'
  BY NextTyped DEF OnceInv
<1>1. CASE KnowledgeNext
  <2>1. left.deleters \subseteq Deleters
    BY DEF OnceInv, TypeInv, LeftOK, Scenario
  <2>2. ASSUME NEW i \in Items, LapseWork(i) PROVE Quiet' /\ Once'
    <3>1. UNCHANGED <<version, chunk, doc, effects, indexer, del, deleter>>
      BY <2>2 DEF LapseWork
    <3> QED BY <3>1, QuietKept, StillKeepsOnce, SameChunks, SameRows, SameHands DEF OnceInv
  <2> QED BY <1>1, <2>1, <2>2, IndexOnce, RevokeOnce, DeletionOnce DEF KnowledgeNext
<1>2. CASE UNCHANGED knowledgeVars
  <2>1. UNCHANGED <<version, chunk, doc, effects, indexer, del, deleter>>
    BY <1>2 DEF knowledgeVars, indexVars
  <2> QED BY <2>1, QuietKept, StillKeepsOnce, SameChunks, SameRows, SameHands DEF OnceInv
<1> QED BY <1>1, <1>2

\* However many workflow instances run, die or are late, and whatever is
\* deleted meanwhile, no chunk is sent to the index twice.
THEOREM OnceOnly == KnowledgeSpec => []NeverSecondEffect
<1>1. OnceInv => NeverSecondEffect
  BY DEF OnceInv, Once, NeverSecondEffect
<1> QED BY <1>1, InitOnce, NextOnce, PTL DEF KnowledgeSpec
-----------------------------------------------------------------------------
(* A version that is indexed is whole.                                     *)

\* The chunk was confirmed, and perhaps cleaned since.
Confirmed(v, c) == chunk[v][c] \in {"indexed", "cleanup_claimed", "cleaned"}

\* The whole manifest of the version has been published to its job.
Served(v) == version[v].job \in {"pending", "complete", "uncertain"}
ServingPcs == {"checked", "claimed", "upserting", "upserted", "unsure"}

\* Rows: only a version that exists has a job; the cursor of a job is behind the
\* chunks that were confirmed, and the count is that of the source.
Manifest(v) ==
  /\ version[v].state = "none" => version[v].job = "none"
  /\ version[v].state = "indexed" =>
       version[v].count = left.chunks /\ \A c \in ChunkIds : c < left.chunks => Confirmed(v, c)
  /\ Served(v) =>
       version[v].count = left.chunks /\ \A c \in ChunkIds : c < version[v].next => Confirmed(v, c)

\* An instance with a chunk in hand works for a job that is served.
Serves(w) == indexer[w].pc \in ServingPcs => Served(indexer[w].v)

\* Above the cleanup target a chunk that was sent, or confirmed, has its vector.
Stored(v, c) == v > target => <<v, c>> \in vectors
Sent(w) == indexer[w].pc = "upserted" => Stored(indexer[w].v, indexer[w].c)
Vectored ==
  /\ \A w \in Indexers : Sent(w)
  /\ \A v \in Versions, c \in ChunkIds : Confirmed(v, c) => Stored(v, c)
  /\ cleaner = [pc |-> cleaner.pc, ids |-> cleaner.ids]
  /\ \A p \in cleaner.ids : p \in Versions \X ChunkIds /\ p[1] <= target

Whole ==
  /\ \A v \in Versions : Manifest(v)
  /\ \A w \in Indexers : Serves(w)
  /\ Vectored

\* A deletion that has begun takes the rows away and ends when none is left.
WholeInv ==
  /\ OnceInv
  /\ del.state = "done" => Staged = {}
  /\ del.state = "none" => Whole

-----------------------------------------------------------------------------

\* What a step that confirms nothing and serves no new job leaves alone.
SettledRow(v) ==
  /\ version'[v].state = "none" => version'[v].job = "none"
  /\ version'[v].state = "indexed" => version[v].state = "indexed" /\ version'[v].count = version[v].count
  /\ Served(v)' => /\ Served(v) /\ version'[v].next = version[v].next
                   /\ version'[v].count = version[v].count
SettledServing ==
  \A w \in Indexers : indexer'[w].pc \in ServingPcs =>
    indexer[w].pc \in ServingPcs /\ indexer'[w].v = indexer[w].v
SettledSent ==
  \A w \in Indexers : indexer'[w].pc = "upserted" =>
    indexer[w].pc = "upserted" /\ indexer'[w].v = indexer[w].v /\ indexer'[w].c = indexer[w].c
SettledChunks == \A v \in Versions, c \in ChunkIds : Confirmed(v, c) <=> Confirmed(v, c)'

LEMMA RowSettled ==
  ASSUME NEW v \in Versions, Manifest(v), SettledRow(v), left'.chunks = left.chunks,
         \A c \in ChunkIds : Confirmed(v, c) => Confirmed(v, c)'
  PROVE  Manifest(v)'
<1> HIDE DEF Confirmed, Served
<1> QED BY DEF Manifest, SettledRow

LEMMA SameRow ==
  ASSUME NEW v \in Versions, Manifest(v), version'[v] = version[v]
  PROVE  SettledRow(v)
BY DEF Manifest, SettledRow, Served

LEMMA HandsSettled ==
  ASSUME TypeInv, \A w \in Indexers : Serves(w), SettledServing,
         \A v \in Versions : Served(v) => Served(v)'
  PROVE  \A w \in Indexers : Serves(w)'
<1> SUFFICES ASSUME NEW w \in Indexers, indexer'[w].pc \in ServingPcs PROVE Served(indexer[w].v)'
  BY DEF Serves
<1>1. indexer[w].pc \in ServingPcs /\ indexer'[w].v = indexer[w].v
  BY DEF SettledServing
<1>2. PICK v \in Versions : indexer[w].v = v
  BY <1>1 DEF TypeInv, IndexerOK, ServingPcs
<1>3. Served(v)'
  BY <1>1, <1>2 DEF Serves
<1> QED BY <1>1, <1>2, <1>3 DEF Served

NoCleanup == [pc |-> "idle", ids |-> {}]

\* Vectors above the target stay; the target does not fall.
StoresSettled ==
  /\ target' >= target
  /\ \A v \in Versions, c \in ChunkIds : v > target /\ <<v, c>> \in vectors => <<v, c>> \in vectors'

LEMMA StoredSettled ==
  ASSUME TargetOK, TargetOK', StoresSettled, NEW v \in Versions, NEW c \in ChunkIds, Stored(v, c)
  PROVE  Stored(v, c)'
BY Bounds DEF TargetOK, StoresSettled, Stored, Versions

LEMMA VectorsSettled ==
  ASSUME TypeInv, TypeInv', Vectored, SettledSent, SettledChunks, StoresSettled,
         cleaner' = cleaner \/ cleaner' = NoCleanup \/ \E pc : cleaner' = [cleaner EXCEPT !.pc = pc]
  PROVE  Vectored'
<1> USE DEF TypeInv
<1>1. ASSUME NEW w \in Indexers PROVE Sent(w)'
  <2> SUFFICES ASSUME indexer'[w].pc = "upserted" PROVE Stored(indexer[w].v, indexer[w].c)'
    BY DEF Sent
  <2>1. /\ indexer[w].pc = "upserted"
        /\ indexer'[w].v = indexer[w].v /\ indexer'[w].c = indexer[w].c
    BY DEF SettledSent
  <2>2. PICK v \in Versions, c \in ChunkIds : indexer[w].v = v /\ indexer[w].c = c
    BY <2>1 DEF IndexerOK, IndexerRow
  <2>3. Stored(v, c)'
    BY <2>1, <2>2, StoredSettled DEF Vectored, Sent
  <2> QED BY <2>1, <2>2, <2>3 DEF Stored
<1>2. ASSUME NEW v \in Versions, NEW c \in ChunkIds, Confirmed(v, c)' PROVE Stored(v, c)'
  <2>1. Confirmed(v, c)
    BY <1>2 DEF SettledChunks
  <2> QED BY <2>1, StoredSettled DEF Vectored
<1>3. /\ cleaner' = [pc |-> cleaner'.pc, ids |-> cleaner'.ids]
      /\ cleaner'.ids \subseteq cleaner.ids
  BY DEF Vectored, NoCleanup
<1>4. \A p \in cleaner'.ids : p \in Versions \X ChunkIds /\ p[1] <= target'
  BY <1>3, Bounds DEF Vectored, TargetOK, StoresSettled, Versions
<1> QED BY <1>1, <1>2, <1>3, <1>4 DEF Vectored

\* A step that settles everything keeps Whole.
LEMMA WholeKept ==
  ASSUME TypeInv, TypeInv', Whole, SettledServing, SettledSent, SettledChunks, StoresSettled,
         \A v \in Versions : SettledRow(v) /\ (Served(v) => Served(v)'),
         cleaner' = cleaner \/ cleaner' = NoCleanup \/ \E pc : cleaner' = [cleaner EXCEPT !.pc = pc],
         left'.chunks = left.chunks
  PROVE  Whole'
<1>1. \A v \in Versions : Manifest(v)'
  BY RowSettled DEF Whole, SettledChunks
<1> QED BY <1>1, HandsSettled, VectorsSettled DEF Whole

LEMMA SameServes == ASSUME UNCHANGED indexer PROVE SettledServing /\ SettledSent
BY DEF SettledServing, SettledSent

LEMMA SameConfirmed == ASSUME UNCHANGED chunk PROVE SettledChunks
BY DEF SettledChunks, Confirmed

LEMMA SameStores == ASSUME TargetOK, UNCHANGED <<vectors, target>> PROVE StoresSettled
BY Bounds DEF StoresSettled, TargetOK

\* An instance goes idle, or to a step without a chunk in hand.
LEMMA HandsDown ==
  ASSUME IndexerOK, NEW w \in Indexers, indexer'[w].pc \notin ServingPcs,
         \A u \in Indexers \ {w} : indexer'[u] = indexer[u]
  PROVE  SettledServing /\ SettledSent
BY DEF SettledServing, SettledSent, ServingPcs

LEMMA FailedSourceSettles ==
  ASSUME RowsOK, \A u \in Versions : Manifest(u), NEW v \in Versions, FailedSource(v)
  PROVE  \A u \in Versions : SettledRow(u) /\ (Served(u) => Served(u)')
<1> DEFINE fails == \/ version[v].state \in {"source_pending", "preparing"}
                    \/ version[v].state = "withdrawn" /\ Deleting
           state == IF fails THEN "failed" ELSE version[v].state
           job == IF fails /\ version[v].job \in {"none", "source_pending", "preparing"}
                  THEN "failed_cleanup" ELSE version[v].job
<1>1. version[v] \in VersionRow
  BY DEF RowsOK
<1>2. version' = [version EXCEPT ![v].state = state, ![v].job = job]
  BY DEF FailedSource
<1>3. fails => version[v].state # "none"
  OBVIOUS
<1>4. /\ state = "none" => version[v].state = "none" /\ job = version[v].job
      /\ state = "indexed" => version[v].state = "indexed"
      /\ job \in {"pending", "complete", "uncertain"} <=> version[v].job \in {"pending", "complete", "uncertain"}
  BY <1>3
<1> HIDE DEF state, job, fails
<1>5. /\ version'[v].state = state /\ version'[v].job = job
      /\ version'[v].next = version[v].next /\ version'[v].count = version[v].count
      /\ \A u \in Versions \ {v} : version'[u] = version[u]
  BY <1>1, <1>2 DEF VersionRow, RowsOK
<1>6. SettledRow(v) /\ (Served(v) => Served(v)')
  BY <1>4, <1>5 DEF SettledRow, Served, Manifest
<1>7. \A u \in Versions \ {v} : SettledRow(u) /\ (Served(u) => Served(u)')
  BY <1>5, SameRow DEF Served
<1> QED BY <1>6, <1>7

\* The job of a version completes when its cursor has come to the count.
LEMMA CompleteWhole ==
  ASSUME TypeInv, TypeInv', Whole, NEW v \in Versions, CompleteVersion(v), version[v].state # "none",
         SettledServing, SettledSent, UNCHANGED <<chunk, vectors, cleaner, left>>
  PROVE  Whole'
<1> USE DEF TypeInv
<1>1. version[v] \in VersionRow
  BY DEF RowsOK
<1>2. StoresSettled
  BY Bounds DEF CompleteVersion, StoresSettled, TargetOK, Versions
<1>3. Vectored'
  BY <1>2, VectorsSettled, SameConfirmed DEF Whole
<1>4. \A u \in Versions \ {v} : version'[u] = version[u]
  BY DEF CompleteVersion, RowsOK
<1>5. Manifest(v)' /\ (Served(v) => Served(v)')
  <2>1. CASE Completes(v)
    <3> DEFINE state == IF version[v].state = "pending" THEN "indexed" ELSE version[v].state
    <3>1. version' = [version EXCEPT ![v].job = "complete", ![v].state = state]
      BY <2>1 DEF CompleteVersion
    <3>2. state # "none"
      OBVIOUS
    <3> HIDE DEF state
    <3>3. /\ version'[v].state = state /\ version'[v].job = "complete"
          /\ version'[v].next = version[v].next /\ version'[v].count = version[v].count
      BY <1>1, <3>1 DEF VersionRow, RowsOK
    <3>4. Served(v) /\ version[v].next = version[v].count
      BY <2>1 DEF Completes, Served
    <3>5. version[v].count = left.chunks /\ \A c \in ChunkIds : c < left.chunks => Confirmed(v, c)
      BY <3>4 DEF Whole, Manifest
    <3> QED BY <3>2, <3>3, <3>4, <3>5 DEF Manifest, Confirmed, Served
  <2>2. CASE ~Completes(v)
    BY <2>2 DEF CompleteVersion, Whole, Manifest, Served, Confirmed
  <2> QED BY <2>1, <2>2
<1>6. \A u \in Versions : Manifest(u)' /\ (Served(u) => Served(u)')
  <2>1. \A u \in Versions \ {v} : Manifest(u)' /\ (Served(u) => Served(u)')
    BY <1>4 DEF Whole, Manifest, Served, Confirmed
  <2> QED BY <1>5, <2>1
<1>7. \A w \in Indexers : Serves(w)'
  BY <1>6, HandsSettled DEF Whole
<1> QED BY <1>3, <1>6, <1>7 DEF Whole

-----------------------------------------------------------------------------

LEMMA StagingWhole ==
  ASSUME OnceInv, TypeInv', Whole, del.state = "none", NEW v \in Versions, IndexOnly,
         BeginSource(v) \/ StageStep(v)
  PROVE  Whole'
<1> USE DEF OnceInv, TypeInv
<1>1. UNCHANGED <<chunk, indexer, vectors, target, cleaner>> /\ left'.chunks = left.chunks
  BY UseKeeps DEF BeginSource, StageStep, AuthorizeSource, PutSource, CaptureSource, FailSource, Free
<1>2. \A u \in Versions : SettledRow(u) /\ (Served(u) => Served(u)')
  <2>1. CASE BeginSource(v)
    <3>1. version[v].state = "none"
      <4>1. v = LatestVersion + 1
        BY <2>1 DEF BeginSource
      <4> SUFFICES ASSUME v \in Staged PROVE FALSE
        BY DEF Staged
      <4> HIDE DEF LatestVersion
      <4>2. LatestVersion \in Int
        BY LatestVersionType
      <4> QED BY <4>1, <4>2, LatestIsGreatest
    <3>2. ~Served(v)
      BY <3>1 DEF Whole, Manifest, Served
    <3>3. /\ \A u \in Versions \ {v} : version'[u] = version[u]
          /\ version'[v].state = "source_pending" /\ version'[v].job = "source_pending"
      BY <2>1 DEF BeginSource, RowsOK
    <3>4. SettledRow(v)
      BY <3>3 DEF SettledRow, Served
    <3>5. \A u \in Versions \ {v} : SettledRow(u) /\ (Served(u) => Served(u)')
      BY <3>3, SameRow DEF Whole, Served
    <3> QED BY <3>2, <3>4, <3>5
  <2>2. CASE UNCHANGED version
    BY <2>2, SameRow DEF Whole, Served
  <2>3. CASE /\ version[v].job = "source_pending"
             /\ version' = [version EXCEPT ![v].state = "preparing", ![v].job = "preparing"]
    <3>1. /\ \A u \in Versions \ {v} : version'[u] = version[u]
          /\ version'[v].state = "preparing" /\ version'[v].job = "preparing"
      BY <2>3 DEF RowsOK, VersionRow
    <3>2. SettledRow(v) /\ ~Served(v)
      BY <2>3, <3>1 DEF SettledRow, Served
    <3>3. \A u \in Versions \ {v} : SettledRow(u) /\ (Served(u) => Served(u)')
      BY <3>1, SameRow DEF Whole, Served
    <3> QED BY <3>2, <3>3
  <2>4. CASE FailedSource(v)
    BY <2>4, FailedSourceSettles DEF Whole
  <2> QED BY <2>1, <2>2, <2>3, <2>4 DEF StageStep, AuthorizeSource, PutSource, CaptureSource, FailSource
<1>3. SettledServing /\ SettledSent /\ SettledChunks /\ StoresSettled
  BY <1>1, SameServes, SameConfirmed, SameStores
<1> QED BY <1>1, <1>2, <1>3, WholeKept

LEMMA OthersWhole ==
  ASSUME OnceInv, TypeInv', Whole, del.state = "none", NEW v \in Versions, IndexOnly,
         CleanFailedSource(v) \/ CompleteOnly(v)
  PROVE  Whole'
<1> USE DEF OnceInv, TypeInv
<1>1. UNCHANGED <<indexer, vectors, cleaner, left>>
  BY DEF CleanFailedSource, CompleteOnly
<1>2. SettledServing /\ SettledSent
  BY <1>1, SameServes
<1>3. CASE CleanFailedSource(v)
  <2>1. /\ \A u \in Versions \ {v} : version'[u] = version[u]
        /\ version'[v].state = version[v].state /\ version'[v].job = "failed"
        /\ version'[v].count = version[v].count
    BY <1>3 DEF CleanFailedSource, RowsOK, VersionRow
  <2>2. version[v].job = "failed_cleanup"
    BY <1>3 DEF CleanFailedSource
  <2>3. SettledRow(v) /\ ~Served(v)
    BY <2>1, <2>2 DEF SettledRow, Served, Whole, Manifest
  <2>4. \A u \in Versions \ {v} : SettledRow(u) /\ (Served(u) => Served(u)')
    BY <2>1, SameRow DEF Whole, Served
  <2>5. SettledChunks
    BY <1>3 DEF CleanFailedSource, SettledChunks, Confirmed, ChunksOK
  <2>6. StoresSettled
    BY <1>3, SameStores DEF CleanFailedSource
  <2> QED BY <1>1, <1>2, <2>3, <2>4, <2>5, <2>6, WholeKept
<1>4. CASE CompleteOnly(v)
  BY <1>1, <1>2, <1>4, CompleteWhole DEF CompleteOnly
<1> QED BY <1>3, <1>4

LEMMA StartWhole ==
  ASSUME OnceInv, TypeInv', Whole, del.state = "none", NEW w \in Indexers, NEW v \in Versions, IndexOnly,
         ReadPreparation(w, v) \/ CheckChunk(w, v)
  PROVE  Whole'
<1> USE DEF OnceInv, TypeInv
<1>1. UNCHANGED <<version, chunk, vectors, target, cleaner, left>>
  BY DEF ReadPreparation, CheckChunk
<1>2. /\ indexer'[w].pc \in {"preparing", "checked"} /\ indexer'[w].v = v
      /\ \A u \in Indexers \ {w} : indexer'[u] = indexer[u]
  BY DEF ReadPreparation, CheckChunk, IndexTo, IndexerOK
<1>3. SettledSent
  BY <1>2 DEF SettledSent
<1>4. Vectored'
  BY <1>1, <1>3, VectorsSettled, SameConfirmed, SameStores DEF Whole
<1>5. \A u \in Versions : Manifest(u)'
  BY <1>1 DEF Whole, Manifest, Served, Confirmed
<1>6. \A u \in Indexers \ {w} : Serves(u)'
  BY <1>1, <1>2 DEF Whole, Serves, Served
<1>7. Serves(w)'
  <2>1. CASE ReadPreparation(w, v)
    BY <2>1 DEF ReadPreparation, IndexTo, IndexerOK, Serves, ServingPcs
  <2>2. CASE CheckChunk(w, v)
    BY <1>1, <1>2, <2>2 DEF CheckChunk, Serves, Served
  <2> QED BY <2>1, <2>2
<1> QED BY <1>4, <1>5, <1>6, <1>7 DEF Whole

\* The manifest grows by a chunk that nobody confirmed before.
LEMMA PublishWhole ==
  ASSUME OnceInv, TypeInv', Whole, del.state = "none", NEW w \in Indexers, IndexOnly,
         PublishBatch(w) \/ FailRead(w)
  PROVE  Whole'
<1> USE DEF OnceInv, TypeInv
<1>1. PICK v \in Versions, c \in ChunkIds : indexer[w].v = v /\ indexer[w].c = c
  BY BatchMoves
<1>2. UNCHANGED <<vectors, target, cleaner>> /\ left'.chunks = left.chunks
  BY BatchMoves DEF PublishBatch, FailRead
<1>3. SettledServing /\ SettledSent
  <2>1. indexer'[w].pc \in {"ready", "idle"} /\ \A u \in Indexers \ {w} : indexer'[u] = indexer[u]
    BY BatchMoves
  <2> QED BY <2>1, HandsDown DEF ServingPcs
<1>4. StoresSettled
  BY <1>2, SameStores
<1>5. CASE FailedSource(v) /\ UNCHANGED chunk
  BY <1>2, <1>3, <1>4, <1>5, FailedSourceSettles, SameConfirmed, WholeKept DEF Whole
<1>6. CASE /\ version[v].job = "preparing" /\ version[v].next = c
           /\ chunk' = [chunk EXCEPT ![v][c] = "pending"]
           /\ \/ version' = [version EXCEPT ![v] =
                   [state |-> "preparing", job |-> "preparing", next |-> c + 1, count |-> c + 1]]
              \/ /\ LastBatch(c)
                 /\ version' = [version EXCEPT ![v] =
                      [state |-> "pending", job |-> "pending", next |-> 0, count |-> c + 1]]
  <2>1. \A u \in Versions \ {v} : version'[u] = version[u]
    BY <1>6 DEF RowsOK
  <2>2. SettledChunks
    <3>1. chunk[v][c] = "none"
      <4>1. Unmade(v, c)
        BY <1>1, <1>6 DEF Unmade, Preparing, ChunkIds
      <4> QED BY <4>1 DEF Once
    <3> QED BY <1>6, <3>1 DEF SettledChunks, Confirmed, ChunksOK
  <2>3. Manifest(v)'
    <3>1. CASE version' = [version EXCEPT ![v] =
                   [state |-> "preparing", job |-> "preparing", next |-> c + 1, count |-> c + 1]]
      BY <3>1 DEF Manifest, Served, RowsOK
    <3>2. CASE /\ LastBatch(c)
               /\ version' = [version EXCEPT ![v] =
                    [state |-> "pending", job |-> "pending", next |-> 0, count |-> c + 1]]
      <4>1. /\ version'[v].state = "pending" /\ version'[v].next = 0
            /\ version'[v].count = left.chunks
        BY <3>2 DEF RowsOK, LastBatch
      <4> QED BY <1>2, <4>1, Bounds DEF Manifest, ChunkIds
    <3> QED BY <1>6, <3>1, <3>2
  <2>4. \A u \in Versions : Manifest(u)'
    <3>1. \A u \in Versions \ {v} : SettledRow(u)
      BY <2>1, SameRow DEF Whole
    <3>2. \A u \in Versions \ {v} : Manifest(u)'
      BY <1>2, <2>2, <3>1, RowSettled DEF Whole, SettledChunks
    <3> QED BY <2>3, <3>2
  <2>5. \A u \in Versions : Served(u) => Served(u)'
    BY <1>6, <2>1 DEF Served
  <2> QED BY <1>2, <1>3, <1>4, <2>2, <2>4, <2>5, HandsSettled, VectorsSettled DEF Whole
<1> QED BY <1>1, <1>5, <1>6 DEF PublishBatch, FailRead

LEMMA ClaimWhole ==
  ASSUME OnceInv, TypeInv', Whole, del.state = "none", NEW w \in Indexers, IndexOnly,
         ClaimChunk(w) \/ AuthorizeChunk(w)
  PROVE  Whole'
<1> USE DEF OnceInv, TypeInv
<1>1. PICK v \in Versions, c \in ChunkIds : indexer[w].v = v /\ indexer[w].c = c
  BY DEF ClaimChunk, AuthorizeChunk, At, IndexerOK, IndexerRow
<1>2. UNCHANGED <<version, vectors, target, cleaner, left>>
  BY DEF ClaimChunk, AuthorizeChunk
<1>3. SettledChunks
  <2>1. CASE UNCHANGED chunk
    BY <2>1, SameConfirmed
  <2>2. CASE chunk[v][c] = "pending" /\ chunk' = [chunk EXCEPT ![v][c] = "claimed"]
    BY <2>2 DEF SettledChunks, Confirmed, ChunksOK
  <2> QED BY <1>1, <2>1, <2>2 DEF ClaimChunk, AuthorizeChunk
<1>4. SettledServing /\ SettledSent
  <2>1. indexer[w].pc \in ServingPcs
    BY DEF ClaimChunk, AuthorizeChunk, At, ServingPcs
  <2>2. \/ IndexTo(w, Idle)
        \/ \E pc \in {"claimed", "upserting", "unsure"} : IndexTo(w, [indexer[w] EXCEPT !.pc = pc])
    BY DEF ClaimChunk, AuthorizeChunk
  <2>3. /\ indexer'[w].pc # "upserted" /\ (indexer'[w].pc = "idle" \/ indexer'[w].v = v)
        /\ \A u \in Indexers \ {w} : indexer'[u] = indexer[u]
    BY <1>1, <2>2 DEF IndexTo, Idle, IndexerOK, IndexerRow
  <2> QED BY <1>1, <2>1, <2>3 DEF SettledServing, SettledSent, ServingPcs
<1>5. \A u \in Versions : SettledRow(u) /\ (Served(u) => Served(u)')
  BY <1>2, SameRow DEF Whole, Served
<1> QED BY <1>2, <1>3, <1>4, <1>5, SameStores, WholeKept

\* The vector is stored, or the answer is lost.
LEMMA SendWhole ==
  ASSUME OnceInv, TypeInv', Whole, del.state = "none", NEW w \in Indexers, IndexOnly, Upsert(w)
  PROVE  Whole'
<1> USE DEF OnceInv, TypeInv
<1>1. PICK v \in Versions, c \in ChunkIds : indexer[w].v = v /\ indexer[w].c = c
  BY DEF Upsert, At, IndexerOK, IndexerRow
<1>2. UNCHANGED <<version, chunk, target, cleaner>> /\ left'.chunks = left.chunks
  BY UseKeeps DEF Upsert, Free
<1>3. /\ indexer[w].pc \in ServingPcs /\ indexer'[w].v = v /\ indexer'[w].c = c
      /\ \A u \in Indexers \ {w} : indexer'[u] = indexer[u]
  BY <1>1 DEF Upsert, At, ServingPcs, IndexTo, IndexerOK, IndexerRow
<1>4. SettledServing
  BY <1>1, <1>3 DEF SettledServing
<1>5. StoresSettled
  BY <1>2, Bounds DEF Upsert, StoresSettled, TargetOK
<1>6. Vectored'
  <2>1. \A u \in Versions, k \in ChunkIds : Confirmed(u, k)' => Stored(u, k)'
    BY <1>2, <1>5, StoredSettled DEF Whole, Vectored, Confirmed
  <2>2. ASSUME NEW u \in Indexers \ {w}, indexer'[u].pc = "upserted" PROVE Sent(u)'
    <3>1. PICK x \in Versions, k \in ChunkIds : indexer[u].v = x /\ indexer[u].c = k
      BY <1>3, <2>2 DEF IndexerOK, IndexerRow
    <3>2. Stored(x, k)'
      BY <1>3, <1>5, <2>2, <3>1, StoredSettled DEF Whole, Vectored, Sent
    <3> QED BY <1>3, <3>1, <3>2 DEF Sent, Stored
  <2>3. ASSUME indexer'[w].pc = "upserted" PROVE Sent(w)'
    <3>1. vectors' = vectors \cup {<<v, c>>}
      BY <1>1, <2>3 DEF Upsert, IndexTo, IndexerOK, IndexerRow
    <3> QED BY <1>3, <3>1 DEF Sent, Stored
  <2> QED BY <1>2, <2>1, <2>2, <2>3 DEF Vectored, Sent, Whole
<1>7. \A u \in Versions : Manifest(u)' /\ (Served(u) => Served(u)')
  BY <1>2 DEF Whole, Manifest, Served, Confirmed
<1> QED BY <1>4, <1>6, <1>7, HandsSettled DEF Whole

\* A chunk is confirmed behind its vector, and the cursor follows it.
LEMMA ConfirmWhole ==
  ASSUME OnceInv, TypeInv', Whole, del.state = "none", NEW w \in Indexers, IndexOnly, ConfirmChunk(w)
  PROVE  Whole'
<1> USE DEF OnceInv, TypeInv
<1>1. PICK v \in Versions, c \in ChunkIds : indexer[w].v = v /\ indexer[w].c = c
  BY DEF ConfirmChunk, At, IndexerOK, IndexerRow
<1>2. UNCHANGED <<vectors, target, cleaner, left>> /\ indexer[w].pc = "upserted"
  BY DEF ConfirmChunk, At
<1>3. Served(v) /\ Stored(v, c)
  BY <1>1, <1>2 DEF Whole, Serves, ServingPcs, Vectored, Sent
<1>4. SettledServing /\ SettledSent
  <2>1. /\ indexer'[w].pc \in {"unsure", "idle", "finishing"}
        /\ indexer'[w].pc = "unsure" => indexer'[w].v = v
        /\ \A u \in Indexers \ {w} : indexer'[u] = indexer[u]
    BY <1>1 DEF ConfirmChunk, IndexTo, Idle, IndexerOK, IndexerRow
  <2> QED BY <1>1, <1>2, <2>1 DEF SettledServing, SettledSent, ServingPcs
<1>5. PICK state \in {"indexed", chunk[v][c]} :
        /\ chunk' = [chunk EXCEPT ![v][c] = state]
        /\ version' = IF state = "indexed" /\ version[v].next = c
                      THEN [version EXCEPT ![v].next = c + 1, ![v].job = "pending"] ELSE version
  BY <1>1 DEF ConfirmChunk
<1>6. /\ \A u \in Versions, k \in ChunkIds : <<u, k>> # <<v, c>> => chunk'[u][k] = chunk[u][k]
      /\ chunk'[v][c] = state
  BY <1>5 DEF ChunksOK
<1>7. \A u \in Versions, k \in ChunkIds : Confirmed(u, k) => Confirmed(u, k)'
  BY <1>5, <1>6 DEF Confirmed
<1>8. Vectored'
  <2>1. \A u \in Versions, k \in ChunkIds : Confirmed(u, k)' => Stored(u, k)
    BY <1>3, <1>5, <1>6 DEF Whole, Vectored, Confirmed
  <2>2. \A u \in Indexers : Sent(u)'
    BY <1>2, <1>4 DEF Whole, Vectored, Sent, Stored, SettledSent
  <2> QED BY <1>2, <2>1, <2>2 DEF Whole, Vectored, Stored
<1>9. Manifest(v)' /\ Served(v)'
  <2>1. CASE UNCHANGED version
    BY <1>2, <1>3, <1>7, <2>1 DEF Whole, Manifest, Served
  <2>2. CASE /\ state = "indexed" /\ version[v].next = c
             /\ version' = [version EXCEPT ![v].next = c + 1, ![v].job = "pending"]
    <3>1. /\ version'[v].state = version[v].state /\ version'[v].count = version[v].count
          /\ version'[v].next = c + 1 /\ version'[v].job = "pending"
      BY <2>2 DEF RowsOK, VersionRow
    <3>2. Confirmed(v, c)'
      BY <1>6, <2>2 DEF Confirmed
    <3>3. \A k \in ChunkIds : k < c + 1 => k < version[v].next \/ k = c
      BY <2>2 DEF ChunkIds
    <3> HIDE DEF Confirmed
    <3>4. Manifest(v) /\ version[v].state # "none"
      BY <1>3 DEF Whole, Manifest, Served
    <3>5. \A k \in ChunkIds : k < version'[v].next => Confirmed(v, k)'
      BY <1>3, <1>7, <3>1, <3>2, <3>3, <3>4 DEF Manifest
    <3> QED BY <1>2, <1>3, <1>7, <3>1, <3>4, <3>5 DEF Manifest, Served
  <2> QED BY <1>5, <2>1, <2>2
<1>10. \A u \in Versions : Manifest(u)' /\ (Served(u) => Served(u)')
  <2>1. \A u \in Versions \ {v} : version'[u] = version[u]
    BY <1>5 DEF RowsOK
  <2>2. \A u \in Versions \ {v} : Manifest(u)' /\ (Served(u) => Served(u)')
    BY <1>2, <1>7, <2>1, RowSettled, SameRow DEF Whole, Served
  <2> QED BY <1>9, <2>2
<1> QED BY <1>4, <1>8, <1>10, HandsSettled DEF Whole

LEMMA UnsureWhole ==
  ASSUME OnceInv, TypeInv', Whole, del.state = "none", NEW w \in Indexers, IndexOnly, Unsure(w)
  PROVE  Whole'
<1> USE DEF OnceInv, TypeInv
<1>1. PICK v \in Versions, c \in ChunkIds : indexer[w].v = v /\ indexer[w].c = c
  BY DEF Unsure, At, IndexerOK, IndexerRow
<1>2. UNCHANGED <<vectors, target, cleaner, left>> /\ IndexTo(w, Idle)
  BY DEF Unsure
<1>3. SettledServing /\ SettledSent
  BY <1>2, HandsDown DEF IndexTo, Idle, IndexerOK, ServingPcs
<1>4. SettledChunks
  <2>1. chunk' = [chunk EXCEPT ![v][c] = IF @ = "claimed" THEN "uncertain" ELSE @]
    BY <1>1 DEF Unsure
  <2> QED BY <2>1 DEF SettledChunks, Confirmed, ChunksOK
<1>5. Served(v)
  BY <1>1 DEF Unsure, At, Whole, Serves, ServingPcs
<1>6. \A u \in Versions : SettledRow(u) /\ (Served(u) => Served(u)')
  <2>1. version' = [version EXCEPT ![v].state = "failed", ![v].job = "uncertain"]
    BY <1>1, <1>5 DEF Unsure, Whole, Manifest, Served
  <2>2. /\ \A u \in Versions \ {v} : version'[u] = version[u]
        /\ version'[v].state = "failed" /\ version'[v].job = "uncertain"
        /\ version'[v].next = version[v].next /\ version'[v].count = version[v].count
    BY <2>1 DEF RowsOK, VersionRow
  <2>3. SettledRow(v) /\ Served(v)'
    BY <1>5, <2>2 DEF SettledRow, Served
  <2>4. \A u \in Versions \ {v} : SettledRow(u) /\ (Served(u) => Served(u)')
    BY <2>2, SameRow DEF Whole, Served
  <2> QED BY <2>3, <2>4
<1> QED BY <1>2, <1>3, <1>4, <1>6, SameStores, WholeKept

LEMMA EndWhole ==
  ASSUME OnceInv, TypeInv', Whole, del.state = "none", NEW w \in Indexers, IndexOnly,
         FinishVersion(w) \/ PublishDocument(w) \/ MarkReady(w)
  PROVE  Whole'
<1> USE DEF OnceInv, TypeInv
<1>1. PICK v \in Versions : indexer[w].v = v
  BY DEF FinishVersion, PublishDocument, MarkReady, At, IndexerOK, IndexerRow
<1>2. UNCHANGED <<chunk, vectors, cleaner, left>>
  BY DEF FinishVersion, PublishDocument, MarkReady
<1>3. SettledServing /\ SettledSent
  <2>1. indexer'[w].pc \in {"publishing", "idle"} /\ \A u \in Indexers \ {w} : indexer'[u] = indexer[u]
    BY DEF FinishVersion, PublishDocument, MarkReady, IndexTo, Idle, IndexerOK, IndexerRow
  <2> QED BY <2>1, HandsDown DEF ServingPcs
<1>4. CASE UNCHANGED <<version, target>>
  <2>1. \A u \in Versions : SettledRow(u) /\ (Served(u) => Served(u)')
    BY <1>4, SameRow DEF Whole, Served
  <2> QED BY <1>2, <1>3, <1>4, <2>1, SameConfirmed, SameStores, WholeKept
<1>5. CASE version[v].state # "none" /\ CompleteVersion(v)
  BY <1>2, <1>3, <1>5, CompleteWhole
<1> QED BY <1>1, <1>4, <1>5 DEF FinishVersion, PublishDocument, MarkReady

LEMMA WithdrawWhole ==
  ASSUME OnceInv, TypeInv', Whole, del.state = "none", IndexOnly, Unpublish \/ WithdrawAll
  PROVE  Whole'
<1> USE DEF OnceInv, TypeInv
<1>1. UNCHANGED <<chunk, indexer, vectors, cleaner>> /\ left'.chunks = left.chunks
  BY UseKeeps DEF Unpublish, WithdrawAll
<1>2. CASE UNCHANGED <<version, target>>
  <2>1. \A u \in Versions : SettledRow(u) /\ (Served(u) => Served(u)')
    BY <1>2, SameRow DEF Whole, Served
  <2> QED BY <1>1, <1>2, <2>1, SameServes, SameConfirmed, SameStores, WholeKept
<1>3. CASE WithdrawAll /\ Staged # {}
  <2>1. LatestVersion \in Versions /\ version[LatestVersion].state # "none"
    BY <1>3, LatestVersionType DEF Staged
  <2>2. /\ version' = [version EXCEPT ![LatestVersion].state = IF @ = "failed" THEN @ ELSE "withdrawn"]
        /\ target' = IF LatestVersion > target THEN LatestVersion ELSE target
    BY <1>3 DEF WithdrawAll
  <2> HIDE DEF LatestVersion
  <2>3. \A v \in Versions : /\ version'[v].job = version[v].job /\ version'[v].next = version[v].next
                            /\ version'[v].count = version[v].count
                            /\ version'[v].state = version[v].state
                               \/ (v = LatestVersion /\ version'[v].state \in {"failed", "withdrawn"})
    BY <2>1, <2>2 DEF RowsOK, VersionRow
  <2>4. \A u \in Versions : SettledRow(u) /\ (Served(u) => Served(u)')
    BY <2>3 DEF Whole, Manifest, SettledRow, Served
  <2>5. StoresSettled
    BY <1>1, <2>1, <2>2, Bounds DEF StoresSettled, TargetOK, Versions
  <2> QED BY <1>1, <2>4, <2>5, SameServes, SameConfirmed, WholeKept
<1> QED BY <1>2, <1>3 DEF Unpublish, WithdrawAll

\* The cleanup takes vectors up to the target only.
LEMMA CleanupWhole ==
  ASSUME OnceInv, TypeInv', Whole, del.state = "none", IndexOnly,
         ClaimCleanup \/ CleanVectors \/ EndCleanup
  PROVE  Whole'
<1> USE DEF OnceInv, TypeInv
<1>1. UNCHANGED <<version, indexer, target>> /\ left'.chunks = left.chunks
  BY UseKeeps DEF ClaimCleanup, CleanVectors, EndCleanup, Free
<1>2. SettledServing /\ SettledSent
  BY <1>1, SameServes
<1>3. \A u \in Versions : SettledRow(u) /\ (Served(u) => Served(u)')
  BY <1>1, SameRow DEF Whole, Served
<1>4. CASE ClaimCleanup
  <2>1. /\ MarkChunks(Cleanable, "cleanup_claimed") /\ UNCHANGED vectors
        /\ cleaner' = [pc |-> "deleting", ids |-> Cleanable]
    BY <1>4 DEF ClaimCleanup
  <2>2. SettledChunks
    BY <2>1 DEF SettledChunks, Confirmed, MarkChunks, Cleanable, ChunksIn
  <2>3. \A u \in Versions : Manifest(u)'
    BY <1>1, <1>3, <2>2, RowSettled DEF Whole, SettledChunks
  <2>4. Vectored'
    <3>1. /\ cleaner' = [pc |-> cleaner'.pc, ids |-> cleaner'.ids]
          /\ \A p \in cleaner'.ids : p \in Versions \X ChunkIds /\ p[1] <= target'
      BY <1>1, <2>1 DEF Cleanable, ChunksIn
    <3>2. \A u \in Indexers : Sent(u)'
      BY <1>1, <2>1 DEF Whole, Vectored, Sent, Stored
    <3>3. \A u \in Versions, k \in ChunkIds : Confirmed(u, k)' => Stored(u, k)'
      BY <1>1, <2>1, <2>2 DEF Whole, Vectored, SettledChunks, Stored
    <3> QED BY <3>1, <3>2, <3>3 DEF Vectored
  <2> QED BY <1>2, <1>3, <2>3, <2>4, HandsSettled DEF Whole
<1>5. CASE CleanVectors
  <2>1. /\ vectors' \in {vectors, vectors \ cleaner.ids} /\ UNCHANGED chunk
        /\ \E pc : cleaner' = [cleaner EXCEPT !.pc = pc]
    BY <1>5 DEF CleanVectors
  <2>2. StoresSettled
    BY <1>1, <2>1, Bounds DEF Whole, Vectored, StoresSettled, TargetOK, Versions
  <2> QED BY <1>1, <1>2, <1>3, <2>1, <2>2, SameConfirmed, WholeKept
<1>6. CASE EndCleanup
  <2>1. PICK state \in {"cleaned", "indexed"} :
          MarkChunks(cleaner.ids \cap ChunksIn({"cleanup_claimed"}), state)
    BY <1>6 DEF EndCleanup
  <2>2. SettledChunks
    BY <2>1 DEF SettledChunks, Confirmed, MarkChunks, ChunksIn
  <2>3. cleaner' = NoCleanup /\ UNCHANGED vectors
    BY <1>6 DEF EndCleanup, NoCleanup
  <2> QED BY <1>1, <1>2, <1>3, <2>2, <2>3, SameStores, WholeKept
<1> QED BY <1>4, <1>5, <1>6

LEMMA StopsWhole ==
  ASSUME OnceInv, TypeInv', Whole, del.state = "none", IndexOnly, Lapse \/ CrashIndex
  PROVE  Whole'
<1> USE DEF OnceInv, TypeInv
<1>1. UNCHANGED <<version, chunk, vectors, target>> /\ left'.chunks = left.chunks
  BY UseKeeps DEF Lapse, CrashIndex
<1>2. cleaner' = cleaner \/ cleaner' = NoCleanup
  BY DEF Lapse, CrashIndex, NoCleanup
<1>3. SettledServing /\ SettledSent
  <2>1. UNCHANGED indexer \/ \E w : IndexTo(w, Idle)
    BY DEF Lapse, CrashIndex
  <2>2. \A u \in Indexers : indexer'[u] = indexer[u] \/ indexer'[u].pc = "idle"
    BY <2>1 DEF IndexTo, Idle, IndexerOK
  <2> QED BY <2>2 DEF SettledServing, SettledSent, ServingPcs
<1>4. \A u \in Versions : SettledRow(u) /\ (Served(u) => Served(u)')
  BY <1>1, SameRow DEF Whole, Served
<1> QED BY <1>1, <1>2, <1>3, <1>4, SameConfirmed, SameStores, WholeKept

LEMMA IndexWhole ==
  ASSUME OnceInv, TypeInv', Whole, del.state = "none", IndexNext, IndexOnly
  PROVE  Whole'
<1>1. left.indexers \subseteq Indexers
  BY DEF OnceInv, TypeInv, LeftOK, Scenario
<1> QED BY <1>1, StagingWhole, OthersWhole, StartWhole, PublishWhole, ClaimWhole, SendWhole, ConfirmWhole,
           UnsureWhole, EndWhole, WithdrawWhole, CleanupWhole, StopsWhole DEF IndexNext, IndexStep

-----------------------------------------------------------------------------

\* Indexing leaves the job of the deletion alone, or takes it off the hook.
LEMMA IndexingServes == ASSUME IndexNext PROVE del' \in {del, Unpark}
BY DEF IndexNext, StageStep, IndexStep, BeginSource, AuthorizeSource, PutSource, CaptureSource, FailSource,
       FailedSource, CleanFailedSource, CompleteOnly, ReadPreparation, CheckChunk, PublishBatch, FailRead, MarkReady, ClaimChunk,
       AuthorizeChunk, Upsert, ConfirmChunk, Unsure, FinishVersion, PublishDocument, Unpublish, WithdrawAll,
       ClaimCleanup, CleanVectors, EndCleanup, Lapse, CrashIndex

\* Once a deletion has begun no version comes into being.
LEMMA NothingNew ==
  ASSUME OnceInv, del.state # "none", IndexNext, IndexOnly
  PROVE  /\ Staged' \subseteq Staged
         /\ del'.state = "done" => del.state = "done"
<1> USE DEF OnceInv, TypeInv
<1> DEFINE Kept == \A v \in Versions : version[v].state = "none" => version'[v].state = "none"
<1>1. doc.status = "absent"
  BY DEF Quiet
<1>2. del' \in {del, Unpark}
  BY IndexingServes
<1>3. del'.state = "done" => del.state = "done"
  <2>1. Unpark.state \in {"active", del.state}
    BY DEF Unpark, Quiet, DelShape, DelFields
  <2> QED BY <1>2, <2>1
<1>4. left.indexers \subseteq Indexers
  BY DEF LeftOK, Scenario
<1>5. ASSUME NEW v \in Versions, BeginSource(v) \/ StageStep(v) \/ CleanFailedSource(v) \/ CompleteOnly(v)
      PROVE  Kept
  <2>1. CASE BeginSource(v)
    BY <1>1, <2>1 DEF BeginSource
  <2>2. CASE FailedSource(v)
    BY <2>2, FailedSourceKeeps
  <2>3. CASE CompleteOnly(v)
    BY <2>3, CompleteVersionKeeps DEF CompleteOnly
  <2>4. CASE UNCHANGED version
    BY <2>4
  <2>5. CASE /\ version[v].state # "none"
             /\ version' = [version EXCEPT ![v].state = "preparing", ![v].job = "preparing"]
    BY <2>5 DEF RowsOK
  <2>6. CASE CleanFailedSource(v)
    BY <2>6 DEF CleanFailedSource, RowsOK, VersionRow
  <2> QED BY <1>5, <2>1, <2>2, <2>3, <2>4, <2>5, <2>6
          DEF StageStep, AuthorizeSource, PutSource, CaptureSource, FailSource
<1>6. ASSUME NEW w \in Indexers, IndexStep(w) PROVE Kept
  <2> DEFINE v == indexer[w].v
             c == indexer[w].c
  <2>1. v \in Versions
    BY <1>6 DEF IndexStep, PublishBatch, FailRead, MarkReady, ClaimChunk, AuthorizeChunk, Upsert, ConfirmChunk, Unsure,
                FinishVersion, PublishDocument, At, IndexerOK
  <2>2. \/ UNCHANGED version
        \/ FailedSource(v)
        \/ version[v].state # "none"
        \/ version' = [version EXCEPT ![v].next = c + 1, ![v].job = "pending"]
    BY <1>6 DEF IndexStep, PublishBatch, FailRead, MarkReady, ClaimChunk, AuthorizeChunk, Upsert, ConfirmChunk, Unsure,
                FinishVersion, PublishDocument
  <2>3. \A u \in Versions \ {v} : FailedSource(v) \/ version'[u] = version[u]
    BY <1>6, <2>1 DEF IndexStep, PublishBatch, FailRead, MarkReady, ClaimChunk, AuthorizeChunk, Upsert, ConfirmChunk, Unsure,
                FinishVersion, PublishDocument, CompleteVersion, RowsOK
  <2> HIDE DEF v, c
  <2>4. FailedSource(v) => Kept
    BY <2>1, FailedSourceKeeps
  <2> QED BY <2>1, <2>2, <2>3, <2>4 DEF RowsOK, VersionRow
<1>7. CASE WithdrawAll /\ Staged # {}
  <2>1. LatestVersion \in Versions /\ version[LatestVersion].state # "none"
    BY <1>7, LatestVersionType DEF Staged
  <2>2. version' = [version EXCEPT ![LatestVersion].state = IF @ = "failed" THEN @ ELSE "withdrawn"]
    BY <1>7 DEF WithdrawAll
  <2> HIDE DEF LatestVersion
  <2>3. Kept
    BY <2>1, <2>2 DEF RowsOK, VersionRow
  <2> QED BY <1>3, <2>3 DEF Staged
<1>8. CASE UNCHANGED version
  BY <1>3, <1>8 DEF Staged
<1>9. Kept
  BY <1>4, <1>5, <1>6, <1>7, <1>8
     DEF IndexNext, ReadPreparation, CheckChunk, Unpublish, WithdrawAll, ClaimCleanup, CleanVectors,
         EndCleanup, Lapse, CrashIndex, Staged
<1> QED BY <1>3, <1>9 DEF Staged

\* A deletion step makes no version, and ends the deletion with none left.
LEMMA EndsEmpty ==
  ASSUME OnceInv, NEW d \in Deleters, DeleterStep(d) \/ CrashDeleter(d)
  PROVE  /\ Staged' \subseteq Staged
         /\ del'.state = "done" => del.state = "done" \/ Staged' = {}
<1> USE DEF OnceInv, TypeInv
<1>1. UNCHANGED version \/ RemoveRows(d)
  BY DEF DeleterStep, CrashDeleter, ClaimWork, MeetProducer, Park, Materialize, AuthorizeEffect, Effect,
         EndWork, FinalizeOne, OnlyDeletion
<1>2. Staged' \subseteq Staged
  <2>1. CASE UNCHANGED version
    BY <2>1 DEF Staged
  <2>2. ASSUME NEW v, version' = [version EXCEPT ![v].job = "none"] \/ version' = [version EXCEPT ![v] = NoVersion]
        PROVE  Staged' \subseteq Staged
    BY <2>2 DEF Staged, NoVersion, RowsOK, VersionRow
  <2> QED BY <1>1, <2>1, <2>2 DEF RemoveRows
<1>3. CASE RemoveRows(d)
  <2>1. UNCHANGED del \/ Staged = {}
    BY <1>3 DEF RemoveRows
  <2> QED BY <1>2, <2>1
<1>4. CASE UNCHANGED del
  BY <1>2, <1>4
<1>5. CASE Park(d)
  BY <1>2, <1>5 DEF Park, Quiet, DelShape, DelFields
<1>6. CASE Materialize(d)
  <2> DEFINE u == Unpark
  <2>1. u = [f \in DelFields |-> u[f]] /\ u.state \in {"active", del.state}
    BY UnparkKeeps DEF Unpark, Quiet, DelShape, DelFields
  <2>2. \/ UNCHANGED del
        \/ \E x : \/ del' = [u EXCEPT !.source = x]
                  \/ del' = [u EXCEPT !.sourcesDone = x]
                  \/ del' = [u EXCEPT !.cut = x]
                  \/ del' = [u EXCEPT !.legacyCount = x]
        \/ del' = [u EXCEPT !.state = "legacy_manifest_required"]
        \/ del' = [u EXCEPT !.vectorsDone = TRUE, !.state = "finalizing"]
    BY <1>6 DEF Materialize, LaySources, LayVectors
  <2> HIDE DEF u
  <2>3. del'.state = "done" => del.state = "done"
    BY <2>1, <2>2 DEF DelFields
  <2> QED BY <1>2, <2>3
<1> QED BY <1>2, <1>3, <1>4, <1>5, <1>6
        DEF DeleterStep, CrashDeleter, ClaimWork, MeetProducer, AuthorizeEffect, Effect, EndWork, FinalizeOne

LEMMA InitWhole == DeletionInit => WholeInv
<1> SUFFICES ASSUME DeletionInit PROVE WholeInv
  OBVIOUS
<1>1. del.state = "none"
  BY DEF DeletionInit, KnowledgeInit, NoDelete
<1>2. /\ \A v \in Versions : version[v].state = "none" /\ version[v].job = "none"
      /\ \A v \in Versions, c \in ChunkIds : chunk[v][c] = "none"
      /\ \A w \in Indexers : indexer[w].pc = "idle"
      /\ cleaner = [pc |-> "idle", ids |-> {}]
  BY DEF DeletionInit, KnowledgeInit, NoVersion, Idle
<1>3. Whole
  BY <1>2 DEF Whole, Manifest, Served, Serves, ServingPcs, Vectored, Sent, Confirmed
<1> QED BY <1>1, <1>3, InitOnce DEF WholeInv

LEMMA NextWhole == WholeInv /\ [KnowledgeNext]_knowledgeVars => WholeInv'
<1> SUFFICES ASSUME WholeInv, [KnowledgeNext]_knowledgeVars
             PROVE  (del'.state = "done" => Staged' = {}) /\ (del'.state = "none" => Whole')
  BY NextOnce DEF WholeInv
<1> USE DEF WholeInv
<1>1. TypeInv' /\ OnceInv
  BY NextOnce DEF OnceInv
<1>2. CASE IndexNext /\ IndexOnly
  <2>1. CASE del.state = "none"
    <3>1. del'.state = "none"
      BY <1>1, <1>2, <2>1, IndexingServes, UnparkKeeps DEF OnceInv
    <3> QED BY <1>1, <1>2, <2>1, <3>1, IndexWhole
  <2>2. CASE del.state # "none"
    <3>1. del'.state # "none"
      BY <1>1, <1>2, <2>2, IndexingServes, UnparkKeeps DEF OnceInv
    <3> QED BY <1>1, <1>2, <2>2, <3>1, NothingNew
  <2> QED BY <2>1, <2>2
<1>3. CASE Revoke
  <2>1. del'.state = "active"
    BY <1>3 DEF Revoke, NoDelete
  <2> QED BY <2>1
<1>4. ASSUME NEW d \in Deleters, DeleterStep(d) \/ CrashDeleter(d)
      PROVE  (del'.state = "done" => Staged' = {}) /\ (del'.state = "none" => Whole')
  BY <1>1, <1>4, EndsEmpty, JobServed DEF OnceInv
<1>5. CASE UNCHANGED indexVars \/ \E i \in Items : LapseWork(i)
  <2>1. /\ UNCHANGED <<version, chunk, indexer, vectors, target, cleaner, del>>
        /\ left'.chunks = left.chunks
    BY <1>1, <1>5, UseKeeps DEF LapseWork, indexVars, Free, OnceInv, TypeInv
  <2>2. Staged' = Staged
    BY <2>1 DEF Staged
  <2>3. Whole => Whole'
    <3>1. Whole => \A u \in Versions : SettledRow(u) /\ (Served(u) => Served(u)')
      BY <2>1, SameRow DEF Whole, Served
    <3> QED BY <1>1, <2>1, <3>1, SameServes, SameConfirmed, SameStores, WholeKept DEF OnceInv, TypeInv
  <2> QED BY <2>1, <2>2, <2>3
<1>6. left.deleters \subseteq Deleters
  BY <1>1 DEF OnceInv, TypeInv, LeftOK, Scenario
<1> QED BY <1>2, <1>3, <1>4, <1>5, <1>6 DEF KnowledgeNext, knowledgeVars

\* However workflow instances interleave, die or are late, and whatever is
\* updated, withdrawn or cleaned meanwhile, a version that is indexed has every
\* chunk of its source confirmed, and their vectors while it is above the target
\* of the cleanup.
THEOREM IndexedWhole == KnowledgeSpec => []IndexedIsWhole
<1>1. WholeInv => IndexedIsWhole
  <2> SUFFICES ASSUME WholeInv, NEW v \in Versions, version[v].state = "indexed", ~Deleting
               PROVE  /\ version[v].count = left.chunks
                      /\ \A c \in 0 .. left.chunks - 1 :
                           /\ chunk[v][c] \in {"indexed", "cleanup_claimed", "cleaned"}
                           /\ v > target => <<v, c>> \in vectors
    BY DEF IndexedIsWhole
  <2>1. Whole
    BY DEF WholeInv, Deleting, Staged
  <2>2. left.chunks \in 1 .. MaxChunks
    BY DEF WholeInv, OnceInv, TypeInv, LeftOK, Scenario
  <2>3. \A c \in 0 .. left.chunks - 1 : c \in ChunkIds /\ c < left.chunks
    BY <2>2, Bounds DEF ChunkIds
  <2>4. version[v].count = left.chunks /\ \A c \in ChunkIds : c < left.chunks => Confirmed(v, c)
    BY <2>1 DEF Whole, Manifest
  <2>5. \A c \in ChunkIds : Confirmed(v, c) => Stored(v, c)
    BY <2>1 DEF Whole, Vectored
  <2> QED BY <2>3, <2>4, <2>5 DEF Confirmed, Stored
<1> QED BY <1>1, InitWhole, NextWhole, PTL DEF KnowledgeSpec

-----------------------------------------------------------------------------
(* A finished deletion has left nothing.                                   *)

\* Once the manifest of the sources, or that of the vectors, has been begun, none
\* is stored any more.
SourcesClosed == del.state = "done" \/ del.sourcesDone \/ del.source # -1
VectorsClosed == del.state = "done" \/ del.vectorsDone \/ del.cut # <<0, -1>>

Placed ==
  /\ stager \in [Versions -> {"idle", "begun", "putting", "put", "failing", "done"}]
  /\ deleter \in [Deleters -> [pc : {"idle", "parking", "claimed", "effect", "confirm", "unsure"},
                              item : Items]]

\* The deletion goes through its phases in order, and knows every version.
Phased ==
  /\ del.state = "none" => del = NoDelete
  /\ del.state \notin {"none", "done"} => \A v \in Staged : v <= del.max
  /\ del.max \in 0 .. MaxVersion /\ del.source \in Int /\ del.cut \in (0 .. MaxVersion) \X Int
  /\ del.vectorsDone \/ del.cut # <<0, -1>> => del.sourcesDone
  /\ del.legacyCount \in -1 .. 1 /\ (del.vectorsDone => del.legacyCount = 0)

\* Only a version with a row has a job or chunks.
Rowed ==
  \A v \in Versions : version[v].state = "none" =>
    version[v].job = "none" /\ \A c \in ChunkIds : chunk[v][c] = "none"

\* The source of a version.  While it is being stored, nobody works on the version,
\* and what is stored belongs to a version with a row until it is in the manifest.
Listed(v) == del.state = "done" \/ del.sourcesDone \/ v <= del.source
Sourced(v) ==
  /\ stager[v] # "done" => /\ version[v].job \in {"none", "source_pending"}
                           /\ \A w \in Indexers : indexer[w].pc # "idle" => indexer[w].v # v
  /\ stager[v] = "putting" => version[v].job = "source_pending" /\ ~SourcesClosed
  /\ del.state = "none" /\ version[v].state = "none" => stager[v] = "idle"
  /\ v \in r2 => Listed(v) \/ version[v].state # "none"

\* A chunk.  What an instance has claimed is its own until the instance is done,
\* and what is stored is of a chunk with a row until it is in the manifest.
InHand(w, v, c) ==
  /\ indexer[w].pc \in {"claimed", "upserting", "upserted", "unsure"}
  /\ indexer[w].v = v /\ indexer[w].c = c
Touched(v, c) == chunk[v][c] \notin {"none", "pending"}
Recorded(v, c) == del.state = "done" \/ del.vectorsDone \/ ~After(<<v, c>>, del.cut)
Handled(w) ==
  IF VectorsClosed THEN indexer[w].pc \notin {"claimed", "upserting"}
  ELSE \A v \in Versions, c \in ChunkIds : InHand(w, v, c) =>
         /\ Touched(v, c)
         /\ indexer[w].pc \in {"claimed", "upserting"} => chunk[v][c] = "claimed"
         /\ \A u \in Indexers : InHand(u, v, c) => u = w
Embedded ==
  /\ \A w \in Indexers : Handled(w)
  /\ \A v \in Versions, c \in ChunkIds : <<v, c>> \in vectors => Recorded(v, c) \/ Touched(v, c)

\* Work.  It is on what nobody stores any more, and what is in the manifest is
\* still to be erased, or is gone.
Busy == {"claimed", "effect", "confirm", "unsure"}
Open(i) == work[i].state \in {"pending", "claimed", "uncertain"}
Gone(i) == IF i[1] = 1 THEN i[2] \notin r2 ELSE <<i[2], i[3]>> \notin vectors
Closed(i) ==
  /\ i[1] = 1 => SourcesClosed
  /\ i[1] = 2 => i[2] = 0 \/ VectorsClosed
  /\ i[1] = 3 => del.vectorsDone \/ del.state = "done"
Working ==
  /\ \A i \in Items : work[i].state # "none" => Closed(i) /\ Deleting
  /\ \A i \in Items : work[i].state = "complete" => i # Finalize /\ Gone(i)
  /\ \A d \in Deleters : deleter[d].pc \in Busy =>
       /\ Closed(deleter[d].item)
       /\ deleter[d].pc \in {"effect", "confirm"} => deleter[d].item # Finalize
       /\ deleter[d].pc = "confirm" => Gone(deleter[d].item)
  /\ \A v \in Versions : Listed(v) => Open(SourceItem(v)) \/ Gone(SourceItem(v))
  /\ \A v \in Versions, c \in ChunkIds :
       Recorded(v, c) => Open(VectorItem(v, c)) \/ Gone(VectorItem(v, c))

DeletionParts ==
  /\ Phased /\ Rowed /\ Embedded /\ Working
  /\ \A v \in Versions : Sourced(v)
DeletionInv == WholeInv /\ Placed /\ DeletionParts

\* What a document from before the manifests has, if it is not updated and, when its
\* vectors were never counted, not unpublished.
Legacy ==
  /\ left.legacy # "none" => left.updates = 0 /\ Staged = {} /\ doc.path = 0
  /\ left.legacy = "unknown" => left.unpublishes = 0 /\ (del.state = "none" => doc.status = "published")
  /\ 0 \in r2 => /\ left.legacy # "none" /\ del.state # "done"
                 /\ del.state = "none" \/ IF SourcesClosed THEN Open(SourceItem(0)) ELSE del.legacyPath
  /\ <<0, 0>> \in vectors =>
       /\ left.legacy # "none" /\ del.state # "done"
       /\ del.state = "none" \/ del.legacyCount # 0 \/ Open(VectorItem(0, 0))
LegacyInv == DeletionInv /\ Legacy

\* Such a document is only ever deleted as it was found.
NeverEdited ==
  \A s \in Scenarios :
    s.legacy = "none" \/ (s.updates = 0 /\ (s.legacy = "unknown" => s.unpublishes = 0))

-----------------------------------------------------------------------------

\* The phase of the deletion is the same.
SamePhase ==
  /\ del'.state = "none" <=> del.state = "none"
  /\ del'.state = "done" <=> del.state = "done"
  /\ del.state = "none" => del' = del
  /\ del'.source = del.source /\ del'.sourcesDone = del.sourcesDone /\ del'.max = del.max
  /\ del'.cut = del.cut /\ del'.vectorsDone = del.vectorsDone
  /\ del'.legacyPath = del.legacyPath /\ del'.legacyCount = del.legacyCount

\* A job that is woken up stays in its phase.
LEMMA UnparkSamePhase ==
  ASSUME Quiet, del' \in {del, Unpark}
  PROVE  SamePhase
BY DEF SamePhase, Unpark, Quiet, DelShape, DelFields

\* What the properties of the phase say is then the same.
LEMMA PhaseKept ==
  ASSUME SamePhase
  PROVE  /\ SourcesClosed' = SourcesClosed /\ VectorsClosed' = VectorsClosed
         /\ Deleting' = Deleting
         /\ \A v \in Versions : Listed(v)' = Listed(v)
         /\ \A v \in Versions, c \in ChunkIds : Recorded(v, c)' = Recorded(v, c)
         /\ \A i \in Items : Closed(i)' = Closed(i)
<1>1. SourcesClosed' = SourcesClosed /\ VectorsClosed' = VectorsClosed
  BY DEF SamePhase, SourcesClosed, VectorsClosed
<1>2. Deleting' = Deleting
  BY DEF SamePhase, Deleting
<1>3. \A v \in Versions : Listed(v)' = Listed(v)
  BY DEF SamePhase, Listed
<1>4. \A v \in Versions, c \in ChunkIds : Recorded(v, c)' = Recorded(v, c)
  BY DEF SamePhase, Recorded, After
<1>5. \A i \in Items : Closed(i)' = Closed(i)
  BY <1>1 DEF SamePhase, Closed
<1> QED BY <1>1, <1>2, <1>3, <1>4, <1>5

\* Sources are listed, and vectors recorded, only once they are closed.
LEMMA ListedClosed == \A v \in Versions : Listed(v) => SourcesClosed
BY Bounds DEF Listed, SourcesClosed, Versions

LEMMA RecordedClosed ==
  \A v \in Versions, c \in ChunkIds : Recorded(v, c) => VectorsClosed
<1> SUFFICES ASSUME NEW v \in Versions, NEW c \in ChunkIds, del.cut = <<0, -1>>
             PROVE  After(<<v, c>>, del.cut)
  BY DEF Recorded, VectorsClosed
<1> QED BY Bounds DEF After, Versions

\* The keys of the work.
LEMMA ItemKeys ==
  /\ \A v \in 0 .. MaxVersion : SourceItem(v) \in Items /\ SourceItem(v) # Finalize
  /\ \A v \in Versions, c \in ChunkIds : VectorItem(v, c) \in Items /\ VectorItem(v, c) # Finalize
  /\ VectorItem(0, 0) \in Items /\ VectorItem(0, 0) # Finalize
  /\ Finalize \in Items
BY DEF Items, SourceItem, VectorItem, Finalize

\* Only the finalization has a key of the third kind.
LEMMA NotFinalize == \A i \in Items : i # Finalize => i[1] # 3
BY DEF Items, SourceItem, VectorItem, Finalize

\* What a version's rows may do, and the step not be a deletion's.
StillStaged ==
  /\ \A v \in Versions :
       version'[v].state = "none" <=> version[v].state = "none"
  /\ \A v \in Versions : version'[v].state = "none" => version'[v].job = "none"
  /\ \A v \in Versions, c \in ChunkIds :
       chunk'[v][c] # "none" => chunk[v][c] # "none" \/ version[v].state # "none"

\* A version that has no row has no job and no chunks, still.
LEMMA RowedKept ==
  ASSUME Rowed, StillStaged
  PROVE  Rowed'
BY DEF Rowed, StillStaged

\* In the same phase, with nothing new staged, the phases stay in order.
LEMMA PhasedKept ==
  ASSUME Phased, SamePhase, Staged' \subseteq Staged
  PROVE  Phased'
BY DEF Phased, SamePhase

LEMMA SameStaged == ASSUME StillStaged PROVE Staged' = Staged
BY DEF StillStaged, Staged

\* What a step that begins nothing with a version does to it.
StillSource(v) ==
  /\ stager'[v] # "done" =>
       /\ stager[v] # "done" /\ version'[v].job = version[v].job
       /\ \A w \in Indexers : indexer'[w].pc # "idle" /\ indexer'[w].v = v =>
            indexer[w].pc # "idle" /\ indexer[w].v = v
  /\ stager'[v] = "putting" => stager[v] = "putting"
  /\ version'[v].state = "none" => version[v].state = "none" /\ (stager[v] = "idle" => stager'[v] = "idle")
  /\ v \in r2' => v \in r2 \/ stager[v] = "putting"

\* What holds of a source holds while it is still what it was.
LEMMA SourcedKept ==
  ASSUME NEW v \in Versions, Sourced(v), StillSource(v), SamePhase, Rowed
  PROVE  Sourced(v)'
<1> USE PhaseKept
<1>1. stager'[v] # "done" =>
        /\ version'[v].job \in {"none", "source_pending"}
        /\ \A w \in Indexers : indexer'[w].pc # "idle" => indexer'[w].v # v
  BY DEF Sourced, StillSource
<1>2. stager'[v] = "putting" => version'[v].job = "source_pending" /\ ~SourcesClosed'
  BY DEF Sourced, StillSource
<1>3. del'.state = "none" /\ version'[v].state = "none" => stager'[v] = "idle"
  BY DEF Sourced, StillSource, SamePhase
<1>4. v \in r2' => Listed(v)' \/ version'[v].state # "none"
  <2>1. stager[v] = "putting" => version[v].state # "none"
    BY DEF Sourced, Rowed
  <2> QED BY <2>1 DEF Sourced, StillSource
<1> QED BY <1>1, <1>2, <1>3, <1>4 DEF Sourced

\* What a step that claims and stores no chunk leaves alone.
StillTouched ==
  \A v \in Versions, c \in ChunkIds :
    /\ Touched(v, c) => Touched(v, c)'
    /\ chunk[v][c] = "claimed" =>
         \/ chunk'[v][c] = "claimed"
         \/ \A w \in Indexers : InHand(w, v, c)' => indexer'[w].pc \notin {"claimed", "upserting"}
StillInHand ==
  \A w \in Indexers :
    /\ \A v \in Versions, c \in ChunkIds : InHand(w, v, c)' => InHand(w, v, c)
    /\ indexer'[w].pc \in {"claimed", "upserting"} => indexer[w].pc \in {"claimed", "upserting"}
StillStored ==
  \A v \in Versions, c \in ChunkIds :
    <<v, c>> \in vectors' => <<v, c>> \in vectors \/ (Touched(v, c)' /\ ~VectorsClosed)

\* What holds of the chunks holds while instances, rows and vectors stay in step.
LEMMA EmbeddedKept ==
  ASSUME Embedded, SamePhase, StillTouched, StillInHand, StillStored
  PROVE  Embedded'
<1> USE PhaseKept
<1>1. ASSUME NEW w \in Indexers PROVE Handled(w)'
  <2>1. CASE VectorsClosed
    BY <2>1 DEF Handled, Embedded, StillInHand
  <2>2. CASE ~VectorsClosed
    <3> SUFFICES ASSUME NEW v \in Versions, NEW c \in ChunkIds, InHand(w, v, c)'
                 PROVE  /\ Touched(v, c)'
                        /\ indexer'[w].pc \in {"claimed", "upserting"} => chunk'[v][c] = "claimed"
                        /\ \A u \in Indexers : InHand(u, v, c)' => u = w
      BY <2>2 DEF Handled
    <3>1. /\ InHand(w, v, c) /\ \A u \in Indexers : InHand(u, v, c)' => InHand(u, v, c)
          /\ indexer'[w].pc \in {"claimed", "upserting"} => indexer[w].pc \in {"claimed", "upserting"}
      BY DEF StillInHand
    <3> HIDE DEF Touched
    <3>2. /\ Touched(v, c)
          /\ indexer[w].pc \in {"claimed", "upserting"} => chunk[v][c] = "claimed"
          /\ \A u \in Indexers : InHand(u, v, c) => u = w
      BY <2>2, <3>1 DEF Embedded, Handled
    <3> HIDE DEF InHand
    <3> QED BY <3>1, <3>2 DEF StillTouched
  <2> QED BY <2>1, <2>2
<1>2. ASSUME NEW v \in Versions, NEW c \in ChunkIds, <<v, c>> \in vectors'
      PROVE  Recorded(v, c)' \/ Touched(v, c)'
  BY <1>2 DEF Embedded, StillStored, StillTouched
<1> QED BY <1>1, <1>2 DEF Embedded

\* What was closed and is gone is not stored again.
StillGone == \A i \in Items : i[1] # 3 /\ Closed(i) /\ Gone(i) => Gone(i)'

\* A step of the deletion, which stays in its phase.
LEMMA WorkKept ==
  ASSUME Working, SamePhase, StillGone,
         \A i \in Items : work'[i].state # "none" => work[i].state # "none" \/ (Closed(i) /\ Deleting),
         \A i \in Items : work'[i].state = "complete" =>
           work[i].state = "complete" \/ (i # Finalize /\ Gone(i)'),
         \A i \in Items : Open(i) => Open(i)' \/ Gone(i)',
         \A d \in Deleters : deleter'[d].pc \in Busy =>
           \E i \in Items :
             /\ deleter'[d].item = i /\ Closed(i)
             /\ deleter'[d].pc \in {"effect", "confirm"} => i # Finalize
             /\ deleter'[d].pc = "confirm" => Gone(i)'
  PROVE  Working'
<1> USE PhaseKept
<1>1. \A i \in Items : work'[i].state # "none" => Closed(i)' /\ Deleting'
  <2> HIDE DEF Closed
  <2> QED BY DEF Working
<1>2. ASSUME NEW i \in Items, work'[i].state = "complete" PROVE i # Finalize /\ Gone(i)'
  <2>1. CASE work[i].state = "complete"
    <3>1. i # Finalize /\ Gone(i) /\ Closed(i)
      BY <2>1 DEF Working
    <3> HIDE DEF Gone, Closed
    <3> QED BY <3>1, NotFinalize DEF StillGone
  <2> QED BY <1>2, <2>1
<1>3. ASSUME NEW d \in Deleters, deleter'[d].pc \in Busy
      PROVE  /\ Closed(deleter[d].item)'
             /\ deleter'[d].pc \in {"effect", "confirm"} => deleter'[d].item # Finalize
             /\ deleter'[d].pc = "confirm" => Gone(deleter[d].item)'
  <2>1. PICK i \in Items : /\ deleter'[d].item = i /\ Closed(i)
                           /\ deleter'[d].pc \in {"effect", "confirm"} => i # Finalize
                           /\ deleter'[d].pc = "confirm" => Gone(i)'
    BY <1>3
  <2>2. Closed(i) /\ deleter'[d].item = i
    BY <2>1
  <2>3. Closed(i)'
    BY <2>2 DEF SamePhase, Closed
  <2>4. Closed(deleter[d].item)'
    BY <2>2, <2>3 DEF Closed
  <2>5. deleter'[d].pc = "confirm" => Gone(deleter[d].item)'
    BY <2>1 DEF Gone
  <2> QED BY <2>1, <2>4, <2>5
<1>4. ASSUME NEW v \in Versions, Listed(v)' PROVE Open(SourceItem(v))' \/ Gone(SourceItem(v))'
  <2>1. SourceItem(v) \in Items /\ SourceItem(v)[1] = 1
    BY ItemKeys DEF SourceItem, Versions
  <2>2. Listed(v) /\ Closed(SourceItem(v))
    BY <1>4, ListedClosed DEF Closed, SourceItem
  <2>3. Open(SourceItem(v)) \/ Gone(SourceItem(v))
    BY <2>2 DEF Working
  <2> HIDE DEF Open, Gone, Closed
  <2> QED BY <2>1, <2>2, <2>3 DEF StillGone
<1>5. ASSUME NEW v \in Versions, NEW c \in ChunkIds, Recorded(v, c)'
      PROVE  Open(VectorItem(v, c))' \/ Gone(VectorItem(v, c))'
  <2>1. VectorItem(v, c) \in Items /\ VectorItem(v, c)[1] = 2
    BY ItemKeys DEF VectorItem
  <2>2. Recorded(v, c) /\ Closed(VectorItem(v, c))
    BY <1>5, RecordedClosed DEF Closed, VectorItem
  <2>3. Open(VectorItem(v, c)) \/ Gone(VectorItem(v, c))
    BY <2>2 DEF Working
  <2> HIDE DEF Open, Gone, Closed
  <2> QED BY <2>1, <2>2, <2>3 DEF StillGone
<1> HIDE DEF Open, Gone, Closed, Listed, Recorded
<1> QED BY <1>1, <1>2, <1>3, <1>4, <1>5 DEF Working

\* A step goes on with its work.
LEMMA StillBusy ==
  ASSUME Placed, Working, StillGone, NEW d \in Deleters, deleter[d].pc \in Busy,
         deleter'[d].item = deleter[d].item,
         deleter'[d].pc \in {"effect", "confirm"} => deleter[d].pc \in {"effect", "confirm"},
         deleter'[d].pc = "confirm" => deleter[d].pc = "confirm"
  PROVE  \E i \in Items :
           /\ deleter'[d].item = i /\ Closed(i)
           /\ deleter'[d].pc \in {"effect", "confirm"} => i # Finalize
           /\ deleter'[d].pc = "confirm" => Gone(i)'
<1>1. PICK i \in Items : deleter[d].item = i
  BY DEF Placed
<1>2. /\ Closed(i)
      /\ deleter[d].pc \in {"effect", "confirm"} => i # Finalize
      /\ deleter[d].pc = "confirm" => Gone(i)
  BY <1>1 DEF Working
<1> HIDE DEF Gone, Closed
<1> QED BY <1>1, <1>2, NotFinalize DEF StillGone

\* A step that leaves work and deleters alone and stores nothing keeps the work in order.
LEMMA WorkingKept ==
  ASSUME Placed, Working, SamePhase, StillGone, UNCHANGED <<work, deleter>>
  PROVE  Working'
<1>1. \A d \in Deleters : deleter'[d].pc \in Busy =>
        \E i \in Items :
          /\ deleter'[d].item = i /\ Closed(i)
          /\ deleter'[d].pc \in {"effect", "confirm"} => i # Finalize
          /\ deleter'[d].pc = "confirm" => Gone(i)'
  BY StillBusy
<1>2. \A i \in Items : Open(i) => Open(i)'
  BY DEF Open
<1> HIDE DEF Open, Gone, Closed
<1> QED BY <1>1, <1>2, WorkKept

\* What nobody may store any more stays gone.
LEMMA StoresGone ==
  ASSUME DeletionParts, IndexerOK,
         \A v \in r2' : v \in r2 \/ (v \in Versions /\ stager[v] = "putting"),
         \A p \in vectors' : \/ p \in vectors
                             \/ \E w \in Indexers : indexer[w].pc = "upserting" /\ p = <<indexer[w].v, indexer[w].c>>
  PROVE  StillGone
<1> SUFFICES ASSUME NEW i \in Items, i[1] # 3, Closed(i), Gone(i) PROVE Gone(i)'
  BY DEF StillGone
<1>1. CASE i[1] = 1
  <2>1. SourcesClosed /\ i[2] \notin r2
    BY <1>1 DEF Closed, Gone
  <2>2. \A v \in Versions : stager[v] # "putting"
    BY <2>1 DEF DeletionParts, Sourced
  <2> QED BY <1>1, <2>1, <2>2 DEF Gone
<1>2. CASE i[1] = 2
  <2> DEFINE p == <<i[2], i[3]>>
  <2>1. p \notin vectors
    BY <1>2 DEF Gone
  <2>2. SUFFICES p \notin vectors'
    BY <1>2 DEF Gone
  <2>3. ASSUME NEW w \in Indexers, indexer[w].pc = "upserting", p = <<indexer[w].v, indexer[w].c>> PROVE FALSE
    <3>1. i[2] \in Versions
      BY <2>3 DEF IndexerOK
    <3>2. VectorsClosed
      BY <1>2, <3>1, Bounds DEF Closed, Versions
    <3> QED BY <2>3, <3>2 DEF DeletionParts, Embedded, Handled
  <2> QED BY <2>1, <2>3
<1> QED BY <1>1, <1>2 DEF Items, SourceItem, VectorItem, Finalize

\* A step of the indexing: the parts that are left to show.
LEMMA PartsKept ==
  ASSUME Placed, DeletionParts, SamePhase, StillStaged, \A v \in Versions : StillSource(v),
         StillTouched, StillInHand, StillStored, StillGone, UNCHANGED <<work, deleter>>
  PROVE  DeletionParts'
<1>1. Phased' /\ Rowed'
  BY PhasedKept, RowedKept, SameStaged DEF DeletionParts
<1>2. Embedded' /\ Working'
  BY EmbeddedKept, WorkingKept DEF DeletionParts
<1>3. \A v \in Versions : Sourced(v)'
  BY SourcedKept DEF DeletionParts
<1> QED BY <1>1, <1>2, <1>3 DEF DeletionParts

\* What a step leaves alone is what it was.
LEMMA SameTouched == ASSUME UNCHANGED chunk PROVE StillTouched
BY DEF StillTouched, Touched

LEMMA SameInHand == ASSUME UNCHANGED indexer PROVE StillInHand
BY DEF StillInHand, InHand

LEMMA FewerStored == ASSUME vectors' \subseteq vectors PROVE StillStored
BY DEF StillStored

LEMMA SameRowsStaged == ASSUME Rowed, UNCHANGED version, UNCHANGED chunk PROVE StillStaged
BY DEF StillStaged, Rowed

LEMMA FewerGone ==
  ASSUME r2' \subseteq r2, vectors' \subseteq vectors
  PROVE  StillGone
BY DEF StillGone, Gone

LEMMA SameSources ==
  ASSUME UNCHANGED <<stager, indexer, r2>>,
         \A v \in Versions : /\ version'[v].state = "none" => version[v].state = "none"
                             /\ stager[v] # "done" => version'[v].job = version[v].job
  PROVE  \A v \in Versions : StillSource(v)
BY DEF StillSource

\* A version an instance works on is staged.
LEMMA Tended ==
  ASSUME IndexerOK, \A v \in Versions : Sourced(v), NEW w \in Indexers, indexer[w].pc # "idle"
  PROVE  indexer[w].v \in Versions /\ stager[indexer[w].v] = "done"
<1>1. indexer[w].v \in Versions
  BY DEF IndexerOK
<1>2. PICK v \in Versions : indexer[w].v = v
  BY <1>1
<1>3. stager[v] = "done"
  BY <1>2 DEF Sourced
<1> QED BY <1>2, <1>3

\* A step of an instance.
LEMMA InstanceSources ==
  ASSUME IndexerOK, \A v \in Versions : Sourced(v), NEW w \in Indexers, indexer[w].pc # "idle",
         UNCHANGED <<stager, r2>>,
         \A v \in Versions \ {indexer[w].v} : version'[v] = version[v],
         \A v \in Versions : version'[v].state = "none" => version[v].state = "none",
         \A u \in Indexers \ {w} : indexer'[u] = indexer[u],
         indexer'[w].pc # "idle" => indexer'[w].v = indexer[w].v
  PROVE  \A v \in Versions : StillSource(v)
<1> SUFFICES ASSUME NEW v \in Versions PROVE StillSource(v)
  OBVIOUS
<1>1. stager[indexer[w].v] = "done"
  BY Tended
<1>2. stager[v] # "done" => version'[v] = version[v]
  BY <1>1
<1>3. ASSUME NEW u \in Indexers, indexer'[u].pc # "idle", indexer'[u].v = v
      PROVE  indexer[u].pc # "idle" /\ indexer[u].v = v
  BY <1>3
<1> QED BY <1>2, <1>3 DEF StillSource

\* An instance goes on with its chunk, or lets it go.
LEMMA MovesInHand ==
  ASSUME IndexerOK, NEW w \in Indexers,
         \A u \in Indexers \ {w} : indexer'[u] = indexer[u],
         indexer'[w].pc \in {"claimed", "upserting", "upserted", "unsure"} =>
           /\ indexer[w].pc \in {"claimed", "upserting", "upserted", "unsure"}
           /\ indexer'[w].v = indexer[w].v /\ indexer'[w].c = indexer[w].c,
         indexer'[w].pc \in {"claimed", "upserting"} => indexer[w].pc \in {"claimed", "upserting"}
  PROVE  StillInHand
<1>1. ASSUME NEW u \in Indexers, NEW v \in Versions, NEW c \in ChunkIds, InHand(u, v, c)'
      PROVE  InHand(u, v, c)
  BY <1>1 DEF InHand
<1>2. \A u \in Indexers : indexer'[u].pc \in {"claimed", "upserting"} => indexer[u].pc \in {"claimed", "upserting"}
  OBVIOUS
<1> QED BY <1>1, <1>2 DEF StillInHand

\* Before a deletion begins nothing is closed.
LEMMA NotBegun ==
  ASSUME Phased, del.state = "none"
  PROVE  ~SourcesClosed /\ ~VectorsClosed
BY DEF Phased, NoDelete, SourcesClosed, VectorsClosed

\* While no deletion is under way, what has a row is not closed.
LEMMA RowsOpen ==
  ASSUME DeletionInv, ~Deleting
  PROVE  /\ \A v \in Versions : version[v].state # "none" => ~SourcesClosed /\ ~VectorsClosed
         /\ \A v \in Versions, c \in ChunkIds : chunk[v][c] # "none" => ~SourcesClosed /\ ~VectorsClosed
<1>1. CASE del.state = "none"
  BY <1>1, NotBegun DEF DeletionInv, DeletionParts
<1>2. CASE del.state = "done"
  <2>1. \A v \in Versions : version[v].state = "none"
    BY <1>2 DEF DeletionInv, WholeInv, Staged
  <2> QED BY <2>1 DEF DeletionInv, DeletionParts, Rowed
<1> QED BY <1>1, <1>2 DEF Deleting

\* The steps of staging a source.
LEMMA BeginSourceKeeps ==
  ASSUME DeletionInv, NEW v \in Versions, IndexOnly, BeginSource(v)
  PROVE  DeletionParts'
<1> USE DEF DeletionInv, WholeInv, OnceInv, TypeInv
<1>1. /\ UNCHANGED <<chunk, vectors, r2, del, indexer, work, deleter>>
      /\ version' = [version EXCEPT ![v] = [state |-> "source_pending", job |-> "source_pending",
                                            next |-> 0, count |-> 0]]
      /\ stager' = [stager EXCEPT ![v] = "begun"]
  BY DEF BeginSource, IndexOnly
<1>2. del.state = "none"
  BY DEF BeginSource, Deleting, Quiet
<1>3. version[v].state = "none"
  <2>1. v = LatestVersion + 1
    BY DEF BeginSource
  <2> SUFFICES ASSUME v \in Staged PROVE FALSE
    BY DEF Staged
  <2> HIDE DEF LatestVersion
  <2>2. LatestVersion \in Int
    BY LatestVersionType
  <2> QED BY <2>1, <2>2, LatestIsGreatest
<1>4. /\ version'[v].state = "source_pending" /\ version'[v].job = "source_pending"
      /\ \A u \in Versions \ {v} : version'[u] = version[u]
  BY <1>1 DEF RowsOK
<1>5. SamePhase
  BY <1>1 DEF SamePhase
<1>6. Phased'
  BY <1>1, <1>2 DEF DeletionParts, Phased
<1>7. Rowed'
  BY <1>1, <1>4 DEF DeletionParts, Rowed
<1>8. Embedded'
  BY <1>1, <1>5, EmbeddedKept, SameTouched, SameInHand, FewerStored DEF DeletionParts
<1>9. Working'
  BY <1>1, <1>5, WorkingKept, FewerGone DEF DeletionParts
<1>10. ASSUME NEW u \in Versions PROVE Sourced(u)'
  <2>1. CASE u = v
    <3>1. stager[v] = "idle"
      BY <1>2, <1>3 DEF DeletionParts, Sourced
    <3>2. \A w \in Indexers : indexer[w].pc # "idle" => indexer[w].v # v
      BY <3>1 DEF DeletionParts, Sourced
    <3>3. stager'[v] = "begun"
      BY <1>1 DEF Placed
    <3> QED BY <1>1, <1>4, <2>1, <3>2, <3>3 DEF Sourced
  <2>2. CASE u # v
    <3>1. StillSource(u)
      BY <1>1, <1>4, <2>2 DEF StillSource
    <3> QED BY <1>5, <3>1, SourcedKept DEF DeletionParts
  <2> QED BY <2>1, <2>2
<1> QED BY <1>6, <1>7, <1>8, <1>9, <1>10 DEF DeletionParts

LEMMA AuthorizeSourceKeeps ==
  ASSUME DeletionInv, NEW v \in Versions, IndexOnly, AuthorizeSource(v)
  PROVE  DeletionParts'
<1> USE DEF DeletionInv, WholeInv, OnceInv, TypeInv
<1>1. UNCHANGED <<version, chunk, vectors, r2, del, indexer, work, deleter>>
  BY DEF AuthorizeSource, IndexOnly
<1>2. SamePhase
  BY <1>1 DEF SamePhase
<1>3. StillStaged
  BY <1>1, SameRowsStaged DEF DeletionParts
<1>4. Phased' /\ Rowed'
  BY <1>2, <1>3, PhasedKept, RowedKept, SameStaged DEF DeletionParts
<1>5. Embedded'
  BY <1>1, <1>2, EmbeddedKept, SameTouched, SameInHand, FewerStored DEF DeletionParts
<1>6. Working'
  BY <1>1, <1>2, WorkingKept, FewerGone DEF DeletionParts
<1>7. \E pc \in {"putting", "failing"} :
        /\ stager' = [stager EXCEPT ![v] = pc]
        /\ pc = "putting" =>
             version[v].job = "source_pending" /\ version[v].state = "source_pending" /\ ~Deleting
  BY DEF AuthorizeSource, StageTo
<1> USE DEF Placed
<1>8. ASSUME NEW u \in Versions PROVE Sourced(u)'
  <2>1. CASE u = v
    <3>1. stager[v] = "begun" /\ stager'[v] # "idle" /\ (version[v].state = "none" => del.state # "none")
      BY <1>7 DEF AuthorizeSource, DeletionParts, Sourced
    <3>2. stager'[v] = "putting" => version[v].job = "source_pending" /\ ~SourcesClosed
      BY <1>7, RowsOpen
    <3> QED BY <1>1, <1>2, <2>1, <3>1, <3>2, PhaseKept DEF DeletionParts, Sourced
  <2>2. CASE u # v
    <3>1. StillSource(u)
      BY <1>1, <1>7, <2>2 DEF StillSource
    <3> QED BY <1>2, <3>1, SourcedKept DEF DeletionParts
  <2> QED BY <2>1, <2>2
<1> QED BY <1>4, <1>5, <1>6, <1>8 DEF DeletionParts

LEMMA PutSourceKeeps ==
  ASSUME DeletionInv, NEW v \in Versions, IndexOnly, PutSource(v)
  PROVE  DeletionParts'
<1> USE DEF DeletionInv, WholeInv, OnceInv, TypeInv
<1>1. UNCHANGED <<version, chunk, vectors, del, indexer, work, deleter>>
  BY DEF PutSource, IndexOnly
<1>2. SamePhase
  BY <1>1 DEF SamePhase
<1>3. /\ stager[v] = "putting" /\ r2' \subseteq r2 \cup {v}
      /\ \E pc \in {"put", "failing"} : stager' = [stager EXCEPT ![v] = pc]
  BY DEF PutSource, StageTo
<1>4. \A u \in Versions : StillSource(u)
  BY <1>1, <1>3 DEF StillSource, Placed
<1>5. StillGone
  BY <1>1, <1>3, StoresGone
<1> QED BY <1>1, <1>2, <1>4, <1>5, PartsKept, SameRowsStaged, SameTouched, SameInHand, FewerStored DEF DeletionParts

LEMMA CaptureSourceKeeps ==
  ASSUME DeletionInv, NEW v \in Versions, IndexOnly, CaptureSource(v)
  PROVE  DeletionParts'
<1> USE DEF DeletionInv, WholeInv, OnceInv, TypeInv
<1>1. UNCHANGED <<chunk, vectors, r2, del, indexer, work, deleter>>
  BY DEF CaptureSource, IndexOnly
<1>2. SamePhase
  BY <1>1 DEF SamePhase
<1>3. /\ \A u \in Versions \ {v} : version'[u] = version[u] /\ stager'[u] = stager[u]
      /\ version'[v].state = "none" <=> version[v].state = "none"
      /\ \/ version'[v] = version[v] /\ stager[v] = "put" /\ stager'[v] = "failing"
         \/ version[v].state # "none" /\ stager'[v] = "done"
  BY DEF CaptureSource, StageTo, RowsOK, VersionRow, Placed
<1>4. \A u \in Versions : StillSource(u)
  BY <1>1, <1>3 DEF StillSource
<1>5. StillStaged
  BY <1>1, <1>3 DEF StillStaged, DeletionParts, Rowed
<1> QED BY <1>1, <1>2, <1>4, <1>5, PartsKept, FewerGone, SameTouched, SameInHand, FewerStored DEF DeletionParts

\* A source that fails keeps its row, and nobody else's is touched.
LEMMA FailedSourceStays ==
  ASSUME RowsOK, Rowed, Quiet, NEW v \in Versions, FailedSource(v)
  PROVE  /\ \A u \in Versions \ {v} : version'[u] = version[u]
         /\ \A u \in Versions : version'[u].state = "none" <=> version[u].state = "none"
         /\ \A u \in Versions : version'[u].state = "none" => version'[u].job = "none"
         /\ SamePhase
<1> DEFINE fails == \/ version[v].state \in {"source_pending", "preparing"}
                    \/ version[v].state = "withdrawn" /\ Deleting
           state == IF fails THEN "failed" ELSE version[v].state
           job == IF fails /\ version[v].job \in {"none", "source_pending", "preparing"}
                  THEN "failed_cleanup" ELSE version[v].job
<1>1. version' = [version EXCEPT ![v].state = state, ![v].job = job]
  BY DEF FailedSource
<1>2. del' \in {del, Unpark}
  BY DEF FailedSource
<1>3. state = "none" <=> version[v].state = "none"
  OBVIOUS
<1>4. state = "none" => job = "none"
  BY DEF Rowed
<1> HIDE DEF state, job
<1>5. version'[v].state = state /\ version'[v].job = job /\ \A u \in Versions \ {v} : version'[u] = version[u]
  BY <1>1 DEF RowsOK, VersionRow
<1> QED BY <1>2, <1>3, <1>4, <1>5, UnparkSamePhase DEF Rowed

LEMMA FailSourceKeeps ==
  ASSUME DeletionInv, NEW v \in Versions, IndexOnly, FailSource(v)
  PROVE  DeletionParts'
<1> USE DEF DeletionInv, WholeInv, OnceInv, TypeInv
<1>1. UNCHANGED <<chunk, vectors, r2, indexer, work, deleter>> /\ FailedSource(v)
      /\ stager' = [stager EXCEPT ![v] = "done"]
  BY DEF FailSource, IndexOnly, StageTo
<1>2. /\ \A u \in Versions \ {v} : version'[u] = version[u]
      /\ \A u \in Versions : version'[u].state = "none" <=> version[u].state = "none"
      /\ \A u \in Versions : version'[u].state = "none" => version'[u].job = "none"
      /\ SamePhase
  BY <1>1, FailedSourceStays DEF DeletionParts
<1>3. stager[v] = "failing" /\ stager'[v] = "done" /\ \A u \in Versions \ {v} : stager'[u] = stager[u]
  BY <1>1 DEF Placed, FailSource
<1>4. \A u \in Versions : StillSource(u)
  BY <1>1, <1>2, <1>3 DEF StillSource
<1>5. StillStaged
  BY <1>1, <1>2 DEF StillStaged
<1> QED BY <1>1, <1>2, <1>4, <1>5, PartsKept, FewerGone, SameTouched, SameInHand, FewerStored DEF DeletionParts

LEMMA CleanFailedSourceKeeps ==
  ASSUME DeletionInv, NEW v \in Versions, IndexOnly, CleanFailedSource(v)
  PROVE  DeletionParts'
<1> USE DEF DeletionInv, WholeInv, OnceInv, TypeInv
<1>1. UNCHANGED <<vectors, r2, del, indexer, stager, work, deleter>>
  BY DEF CleanFailedSource, IndexOnly
<1>2. SamePhase
  BY <1>1 DEF SamePhase
<1>3. /\ \A u \in Versions \ {v} : version'[u] = version[u]
      /\ version'[v].state = version[v].state /\ version[v].job = "failed_cleanup"
  BY DEF CleanFailedSource, RowsOK, VersionRow
<1>4. \A u \in Versions, c \in ChunkIds :
        chunk'[u][c] = chunk[u][c] \/ (chunk[u][c] = "pending" /\ chunk'[u][c] = "none")
  BY DEF CleanFailedSource, ChunksOK
<1>5. \A u \in Versions : StillSource(u)
  BY <1>1, <1>3 DEF StillSource, DeletionParts, Sourced
<1>6. StillStaged
  BY <1>3, <1>4 DEF StillStaged, DeletionParts, Rowed
<1>7. StillTouched
  BY <1>4 DEF StillTouched, Touched
<1> QED BY <1>1, <1>2, <1>5, <1>6, <1>7, PartsKept, FewerGone, SameInHand, FewerStored DEF DeletionParts

\* Completing touches a row whose job is pending.
LEMMA CompleteStays ==
  ASSUME RowsOK, NEW v \in Versions, CompleteVersion(v), version[v].state # "none"
  PROVE  /\ \A u \in Versions \ {v} : version'[u] = version[u]
         /\ version'[v].state # "none"
         /\ version'[v] = version[v] \/ version[v].job = "pending"
BY DEF CompleteVersion, Completes, RowsOK, VersionRow

LEMMA CompleteOnlyKeeps ==
  ASSUME DeletionInv, NEW v \in Versions, IndexOnly, CompleteOnly(v)
  PROVE  DeletionParts'
<1> USE DEF DeletionInv, WholeInv, OnceInv, TypeInv
<1>1. UNCHANGED <<chunk, vectors, r2, del, indexer, stager, work, deleter>>
  BY DEF CompleteOnly, IndexOnly
<1>2. SamePhase
  BY <1>1 DEF SamePhase
<1>3. /\ \A u \in Versions \ {v} : version'[u] = version[u]
      /\ version'[v].state # "none" /\ version[v].state # "none"
      /\ version'[v] = version[v] \/ version[v].job = "pending"
  BY CompleteStays DEF CompleteOnly
<1>4. \A u \in Versions : StillSource(u)
  BY <1>1, <1>3 DEF StillSource, DeletionParts, Sourced
<1>5. StillStaged
  BY <1>1, <1>3 DEF StillStaged, DeletionParts, Rowed
<1> QED BY <1>1, <1>2, <1>4, <1>5, PartsKept, FewerGone, SameTouched, SameInHand, FewerStored DEF DeletionParts

\* A workflow instance starts, or reads the preparation.
LEMMA StartKeeps ==
  ASSUME DeletionInv, NEW w \in Indexers, NEW v \in Versions, IndexOnly,
         ReadPreparation(w, v) \/ CheckChunk(w, v)
  PROVE  DeletionParts'
<1> USE DEF DeletionInv, WholeInv, OnceInv, TypeInv
<1>1. UNCHANGED <<version, chunk, vectors, r2, del, stager, work, deleter>>
  BY DEF ReadPreparation, CheckChunk, IndexOnly
<1>2. SamePhase
  BY <1>1 DEF SamePhase
<1>3. /\ indexer'[w].pc \in {"preparing", "checked"} /\ indexer'[w].v = v
      /\ \A u \in Indexers \ {w} : indexer'[u] = indexer[u]
  BY DEF ReadPreparation, CheckChunk, IndexTo, IndexerOK
<1>4. stager[v] = "done"
  BY DEF ReadPreparation, CheckChunk, DeletionParts, Sourced
<1>5. \A u \in Versions : StillSource(u)
  BY <1>1, <1>3, <1>4 DEF StillSource
<1>6. StillInHand
  BY <1>3, MovesInHand
<1> QED BY <1>1, <1>2, <1>5, <1>6, PartsKept, SameRowsStaged, FewerGone, SameTouched, FewerStored DEF DeletionParts

\* The steps of a workflow instance with its manifest and its chunks.
LEMMA PublishBatchKeeps ==
  ASSUME DeletionInv, NEW w \in Indexers, IndexOnly, PublishBatch(w) \/ FailRead(w)
  PROVE  DeletionParts'
<1> USE DEF DeletionInv, WholeInv, OnceInv, TypeInv
<1>1. PICK v \in Versions, c \in ChunkIds : indexer[w].v = v /\ indexer[w].c = c
  BY BatchMoves
<1>2. UNCHANGED <<vectors, r2, stager, work, deleter>> /\ indexer[w].pc = "preparing"
  BY BatchMoves DEF PublishBatch, FailRead, IndexOnly
<1>3. /\ indexer'[w].pc \in {"ready", "idle"} /\ \A u \in Indexers \ {w} : indexer'[u] = indexer[u]
      /\ indexer'[w].pc # "idle" => indexer'[w].v = indexer[w].v
  BY BatchMoves
<1>4. StillInHand
  BY <1>3, MovesInHand
<1>5. /\ SamePhase
      /\ \A u \in Versions \ {v} : version'[u] = version[u]
      /\ \A u \in Versions : version'[u].state = "none" <=> version[u].state = "none"
      /\ \A u \in Versions : version'[u].state = "none" => version'[u].job = "none"
      /\ \/ UNCHANGED chunk
         \/ chunk' = [chunk EXCEPT ![v][c] = "pending"] /\ chunk[v][c] = "none" /\ version[v].state # "none"
  <2>1. CASE FailedSource(v) /\ UNCHANGED chunk
    BY <2>1, FailedSourceStays DEF DeletionParts
  <2>2. CASE /\ version[v].state = "preparing" /\ version[v].job = "preparing" /\ version[v].next = c
             /\ chunk' = [chunk EXCEPT ![v][c] = "pending"] /\ UNCHANGED del
             /\ \E n : \E state \in {"pending", "preparing"} :
                  version' = [version EXCEPT ![v] = [state |-> state, job |-> state, next |-> n, count |-> c + 1]]
    <3>1. Unmade(v, c)
      BY <1>1, <2>2 DEF Unmade, Preparing, ChunkIds
    <3>2. chunk[v][c] = "none"
      BY <1>1, <3>1 DEF Once
    <3>3. version'[v].state # "none" /\ \A u \in Versions \ {v} : version'[u] = version[u]
      BY <2>2 DEF RowsOK
    <3> QED BY <2>2, <3>2, <3>3 DEF SamePhase, DeletionParts, Rowed
  <2>3. \/ FailedSource(v) /\ UNCHANGED chunk
        \/ /\ version[v].state = "preparing" /\ version[v].job = "preparing" /\ version[v].next = c
           /\ chunk' = [chunk EXCEPT ![v][c] = "pending"] /\ UNCHANGED del
           /\ \E n : \E state \in {"pending", "preparing"} :
                version' = [version EXCEPT ![v] = [state |-> state, job |-> state, next |-> n, count |-> c + 1]]
    BY <1>1 DEF PublishBatch, FailRead
  <2> QED BY <2>1, <2>2, <2>3
<1>6. \A u \in Versions : StillSource(u)
  BY <1>1, <1>2, <1>3, <1>5, InstanceSources DEF DeletionParts
<1>7. \A u \in Versions, k \in ChunkIds :
        chunk'[u][k] = chunk[u][k] \/ (chunk[u][k] = "none" /\ version[u].state # "none")
  BY <1>1, <1>5 DEF ChunksOK
<1>8. StillStaged
  BY <1>5, <1>7 DEF StillStaged
<1>9. StillTouched
  BY <1>7 DEF StillTouched, Touched
<1> QED BY <1>2, <1>4, <1>5, <1>6, <1>8, <1>9, PartsKept, FewerGone, FewerStored DEF DeletionParts

LEMMA ClaimChunkKeeps ==
  ASSUME DeletionInv, NEW w \in Indexers, IndexOnly, ClaimChunk(w)
  PROVE  DeletionParts'
<1> USE DEF DeletionInv, WholeInv, OnceInv, TypeInv
<1>1. PICK v \in Versions, c \in ChunkIds : indexer[w].v = v /\ indexer[w].c = c
  BY DEF ClaimChunk, At, IndexerOK, IndexerRow
<1>2. UNCHANGED <<version, vectors, r2, del, stager, work, deleter>> /\ indexer[w].pc = "checked"
  BY DEF ClaimChunk, IndexOnly, At
<1>3. SamePhase
  BY <1>2 DEF SamePhase
<1>4. CASE UNCHANGED chunk /\ IndexTo(w, Idle)
  <2>1. indexer'[w].pc = "idle" /\ \A u \in Indexers \ {w} : indexer'[u] = indexer[u]
    BY <1>4 DEF IndexTo, Idle, IndexerOK
  <2>2. StillInHand
    BY <2>1, MovesInHand
  <2>3. \A u \in Versions : StillSource(u)
    BY <1>2, <2>1, InstanceSources DEF DeletionParts
  <2> QED BY <1>2, <1>3, <1>4, <2>2, <2>3, PartsKept, SameRowsStaged, FewerGone, SameTouched, FewerStored
          DEF DeletionParts
<1>5. CASE /\ chunk[v][c] = "pending" /\ ~Deleting
           /\ chunk' = [chunk EXCEPT ![v][c] = "claimed"]
           /\ IndexTo(w, [indexer[w] EXCEPT !.pc = "claimed"])
  <2>1. /\ indexer'[w].pc = "claimed" /\ indexer'[w].v = v /\ indexer'[w].c = c
        /\ \A u \in Indexers \ {w} : indexer'[u] = indexer[u]
    BY <1>1, <1>5 DEF IndexTo, IndexerOK, IndexerRow
  <2>2. /\ chunk'[v][c] = "claimed"
        /\ \A u \in Versions, k \in ChunkIds : <<u, k>> # <<v, c>> => chunk'[u][k] = chunk[u][k]
    BY <1>5 DEF ChunksOK
  <2>3. ~VectorsClosed
    BY <1>5, RowsOpen
  <2>4. ~VectorsClosed'
    BY <1>3, <2>3, PhaseKept
  <2>5. ASSUME NEW u \in Indexers, NEW a \in Versions, NEW k \in ChunkIds, InHand(u, a, k)'
        PROVE  /\ Touched(a, k)'
               /\ indexer'[u].pc \in {"claimed", "upserting"} => chunk'[a][k] = "claimed"
               /\ \A x \in Indexers : InHand(x, a, k)' => x = u
    <3>1. \A x \in Indexers \ {w} : InHand(x, a, k)' => InHand(x, a, k)
      BY <2>1 DEF InHand
    <3>2. InHand(w, a, k)' => a = v /\ k = c
      BY <2>1 DEF InHand
    <3>3. \A x \in Indexers : InHand(x, a, k) =>
            /\ Touched(a, k)
            /\ indexer[x].pc \in {"claimed", "upserting"} => chunk[a][k] = "claimed"
            /\ \A y \in Indexers : InHand(y, a, k) => y = x
      BY <2>3 DEF DeletionParts, Embedded, Handled
    <3>4. \A x \in Indexers : ~InHand(x, v, c)
      BY <1>5, <2>3 DEF DeletionParts, Embedded, Handled, Touched
    <3>5. CASE <<a, k>> = <<v, c>>
      <4>1. Touched(a, k)' /\ chunk'[a][k] = "claimed"
        BY <2>2, <3>5 DEF Touched
      <4>2. \A x \in Indexers \ {w} : ~InHand(x, a, k)
        BY <3>4, <3>5
      <4> HIDE DEF InHand
      <4> QED BY <2>5, <3>1, <4>1, <4>2
    <3>6. CASE <<a, k>> # <<v, c>>
      <4>1. u # w /\ \A x \in Indexers : InHand(x, a, k)' => x # w
        BY <2>5, <3>2, <3>6
      <4>2. Touched(a, k)' <=> Touched(a, k)
        BY <2>2, <3>6 DEF Touched
      <4>3. chunk'[a][k] = chunk[a][k] /\ indexer'[u] = indexer[u]
        BY <2>1, <2>2, <3>6, <4>1
      <4> HIDE DEF InHand, Touched
      <4> QED BY <2>5, <3>1, <3>3, <4>1, <4>2, <4>3
    <3> QED BY <3>5, <3>6
  <2>6. \A p \in Versions, k \in ChunkIds : <<p, k>> \in vectors' => Recorded(p, k)' \/ Touched(p, k)'
    <3>1. \A p \in Versions, k \in ChunkIds : Touched(p, k) => Touched(p, k)'
      BY <2>2 DEF Touched
    <3> QED BY <1>2, <1>3, <3>1, PhaseKept DEF DeletionParts, Embedded
  <2>7. Embedded'
    <3>1. \A u \in Indexers : Handled(u)'
      BY <2>4, <2>5 DEF Handled
    <3> QED BY <2>6, <3>1 DEF Embedded
  <2>8. \A u \in Versions : StillSource(u)
    BY <1>2, <1>1, <2>1, InstanceSources DEF DeletionParts
  <2>9. \A u \in Versions : Sourced(u)'
    BY <1>3, <2>8, SourcedKept DEF DeletionParts
  <2>10. StillStaged
    <3>1. \A u \in Versions, k \in ChunkIds : chunk'[u][k] # "none" => chunk[u][k] # "none"
      BY <1>5, <2>2
    <3> QED BY <1>2, <3>1 DEF StillStaged, DeletionParts, Rowed
  <2>11. Phased' /\ Rowed'
    BY <1>3, <2>10, PhasedKept, RowedKept, SameStaged DEF DeletionParts
  <2>12. Working'
    BY <1>2, <1>3, WorkingKept, FewerGone DEF DeletionParts
  <2> QED BY <2>7, <2>9, <2>11, <2>12 DEF DeletionParts
<1> QED BY <1>1, <1>4, <1>5 DEF ClaimChunk

LEMMA AuthorizeChunkKeeps ==
  ASSUME DeletionInv, NEW w \in Indexers, IndexOnly, AuthorizeChunk(w)
  PROVE  DeletionParts'
<1> USE DEF DeletionInv, WholeInv, OnceInv, TypeInv
<1>1. UNCHANGED <<version, chunk, vectors, r2, del, stager, work, deleter>> /\ indexer[w].pc = "claimed"
  BY DEF AuthorizeChunk, IndexOnly, At
<1>2. SamePhase
  BY <1>1 DEF SamePhase
<1>3. /\ indexer'[w].v = indexer[w].v /\ indexer'[w].c = indexer[w].c
      /\ \A u \in Indexers \ {w} : indexer'[u] = indexer[u]
  BY DEF AuthorizeChunk, IndexTo, IndexerOK, IndexerRow
<1>4. StillInHand
  BY <1>1, <1>3, MovesInHand
<1>5. \A u \in Versions : StillSource(u)
  BY <1>1, <1>3, InstanceSources DEF DeletionParts
<1> QED BY <1>1, <1>2, <1>4, <1>5, PartsKept, SameRowsStaged, FewerGone, SameTouched, FewerStored DEF DeletionParts

LEMMA UpsertKeeps ==
  ASSUME DeletionInv, NEW w \in Indexers, IndexOnly, Upsert(w)
  PROVE  DeletionParts'
<1> USE DEF DeletionInv, WholeInv, OnceInv, TypeInv
<1>1. PICK v \in Versions, c \in ChunkIds : indexer[w].v = v /\ indexer[w].c = c
  BY DEF Upsert, At, IndexerOK, IndexerRow
<1>2. /\ UNCHANGED <<version, chunk, r2, del, stager, work, deleter>> /\ indexer[w].pc = "upserting"
      /\ vectors' \subseteq vectors \cup {<<v, c>>}
  BY <1>1 DEF Upsert, IndexOnly, At
<1>3. SamePhase
  BY <1>2 DEF SamePhase
<1>4. /\ indexer'[w].pc \in {"upserted", "unsure"}
      /\ indexer'[w].v = indexer[w].v /\ indexer'[w].c = indexer[w].c
      /\ \A u \in Indexers \ {w} : indexer'[u] = indexer[u]
  BY DEF Upsert, IndexTo, IndexerOK, IndexerRow
<1>5. StillInHand
  BY <1>2, <1>4, MovesInHand
<1>6. \A u \in Versions : StillSource(u)
  BY <1>2, <1>4, InstanceSources DEF DeletionParts
<1>7. ~VectorsClosed /\ Touched(v, c)
  <2>1. InHand(w, v, c)
    BY <1>1, <1>2 DEF InHand
  <2> QED BY <1>2, <2>1 DEF DeletionParts, Embedded, Handled
<1>8. StillStored
  BY <1>2, <1>7 DEF StillStored, Touched
<1>9. StillGone
  BY <1>1, <1>2, StoresGone
<1> QED BY <1>2, <1>3, <1>5, <1>6, <1>8, <1>9, PartsKept, SameRowsStaged, SameTouched DEF DeletionParts

\* The chunk an instance lets go of is in no other hands.
LEMMA LetGo ==
  ASSUME Embedded, NEW w \in Indexers, NEW v \in Versions, NEW c \in ChunkIds, InHand(w, v, c),
         StillInHand, indexer'[w].pc \notin {"claimed", "upserting"},
         \A u \in Versions, k \in ChunkIds : <<u, k>> # <<v, c>> => chunk'[u][k] = chunk[u][k],
         Touched(v, c) => Touched(v, c)'
  PROVE  StillTouched
<1>1. \A u \in Versions, k \in ChunkIds : Touched(u, k) => Touched(u, k)'
  BY DEF Touched
<1>2. ASSUME NEW u \in Indexers, InHand(u, v, c)' PROVE indexer'[u].pc \notin {"claimed", "upserting"}
  <2>1. InHand(u, v, c) /\ (indexer'[u].pc \in {"claimed", "upserting"} => indexer[u].pc \in {"claimed", "upserting"})
    BY <1>2 DEF StillInHand
  <2>2. CASE VectorsClosed
    BY <2>1, <2>2 DEF Embedded, Handled
  <2>3. CASE ~VectorsClosed
    BY <2>1, <2>3 DEF Embedded, Handled
  <2> QED BY <2>2, <2>3
<1>3. \A u \in Versions, k \in ChunkIds :
        \/ chunk'[u][k] = chunk[u][k]
        \/ \A x \in Indexers : InHand(x, u, k)' => indexer'[x].pc \notin {"claimed", "upserting"}
  BY <1>2 DEF InHand
<1> HIDE DEF InHand, Touched
<1> QED BY <1>1, <1>3 DEF StillTouched

LEMMA ConfirmChunkKeeps ==
  ASSUME DeletionInv, NEW w \in Indexers, IndexOnly, ConfirmChunk(w)
  PROVE  DeletionParts'
<1> USE DEF DeletionInv, WholeInv, OnceInv, TypeInv
<1>1. PICK v \in Versions, c \in ChunkIds : indexer[w].v = v /\ indexer[w].c = c
  BY DEF ConfirmChunk, At, IndexerOK, IndexerRow
<1>2. UNCHANGED <<vectors, r2, del, stager, work, deleter>> /\ indexer[w].pc = "upserted"
  BY DEF ConfirmChunk, IndexOnly, At
<1>3. SamePhase
  BY <1>2 DEF SamePhase
<1>4. /\ indexer'[w].pc \in {"unsure", "idle", "finishing"}
      /\ indexer'[w].pc # "idle" => indexer'[w].v = indexer[w].v /\ indexer'[w].c = indexer[w].c
      /\ \A u \in Indexers \ {w} : indexer'[u] = indexer[u]
  BY DEF ConfirmChunk, IndexTo, Idle, IndexerOK, IndexerRow
<1>5. StillInHand
  BY <1>2, <1>4, MovesInHand
<1>6. /\ \A u \in Versions, k \in ChunkIds : <<u, k>> # <<v, c>> => chunk'[u][k] = chunk[u][k]
      /\ chunk'[v][c] = chunk[v][c] \/ (chunk[v][c] = "claimed" /\ chunk'[v][c] = "indexed")
      /\ \/ version' = version
         \/ chunk'[v][c] = "indexed" /\ version' = [version EXCEPT ![v].next = c + 1, ![v].job = "pending"]
  <2> DEFINE owned == chunk[v][c] = "claimed" /\ ~Deleting
             state == IF owned THEN "indexed" ELSE chunk[v][c]
  <2>1. /\ chunk' = [chunk EXCEPT ![v][c] = state]
        /\ version' = IF state = "indexed" /\ version[v].next = c
                      THEN [version EXCEPT ![v].next = c + 1, ![v].job = "pending"] ELSE version
    BY <1>1 DEF ConfirmChunk
  <2> QED BY <2>1 DEF ChunksOK
<1>7. /\ \A u \in Versions : version'[u].state = version[u].state
      /\ \A u \in Versions \ {v} : version'[u] = version[u]
      /\ version'[v].state = "none" => version'[v] = version[v]
  <2>1. chunk'[v][c] = "indexed" => version[v].state # "none"
    BY <1>6 DEF DeletionParts, Rowed
  <2> QED BY <1>6, <2>1 DEF RowsOK, VersionRow
<1>8. \A u \in Versions : StillSource(u)
  BY <1>1, <1>2, <1>4, <1>7, InstanceSources DEF DeletionParts
<1>9. StillStaged
  BY <1>6, <1>7 DEF StillStaged, DeletionParts, Rowed
<1>10. StillTouched
  <2>1. InHand(w, v, c) /\ (Touched(v, c) => Touched(v, c)')
    BY <1>1, <1>2, <1>6 DEF InHand, Touched
  <2> QED BY <1>4, <1>5, <1>6, <2>1, LetGo DEF DeletionParts
<1> QED BY <1>2, <1>3, <1>5, <1>8, <1>9, <1>10, PartsKept, FewerGone, FewerStored DEF DeletionParts

LEMMA UnsureKeeps ==
  ASSUME DeletionInv, NEW w \in Indexers, IndexOnly, Unsure(w)
  PROVE  DeletionParts'
<1> USE DEF DeletionInv, WholeInv, OnceInv, TypeInv
<1>1. PICK v \in Versions, c \in ChunkIds : indexer[w].v = v /\ indexer[w].c = c
  BY DEF Unsure, At, IndexerOK, IndexerRow
<1>2. UNCHANGED <<vectors, r2, stager, work, deleter>> /\ indexer[w].pc = "unsure" /\ IndexTo(w, Idle)
      /\ del' \in {del, Unpark}
  BY DEF Unsure, IndexOnly, At
<1>3. SamePhase
  BY <1>2, UnparkSamePhase
<1>4. indexer'[w].pc = "idle" /\ \A u \in Indexers \ {w} : indexer'[u] = indexer[u]
  BY <1>2 DEF IndexTo, Idle, IndexerOK
<1>5. StillInHand
  BY <1>4, MovesInHand
<1>6. /\ \A u \in Versions, k \in ChunkIds : <<u, k>> # <<v, c>> => chunk'[u][k] = chunk[u][k]
      /\ chunk'[v][c] = chunk[v][c] \/ (chunk[v][c] = "claimed" /\ chunk'[v][c] = "uncertain")
  BY <1>1 DEF Unsure, ChunksOK
<1>7. /\ \A u \in Versions \ {v} : version'[u] = version[u]
      /\ version[v].state = "none" => version'[v] = version[v]
      /\ version[v].state # "none" => version'[v].state # "none"
  <2>1. version' = IF version[v].state = "none" THEN version
                   ELSE [version EXCEPT ![v].state = "failed", ![v].job = "uncertain"]
    BY <1>1 DEF Unsure
  <2> QED BY <2>1 DEF RowsOK, VersionRow
<1>8. \A u \in Versions : StillSource(u)
  BY <1>1, <1>2, <1>4, <1>7, InstanceSources DEF DeletionParts
<1>9. StillStaged
  BY <1>6, <1>7 DEF StillStaged, DeletionParts, Rowed
<1>10. StillTouched
  <2>1. InHand(w, v, c) /\ (Touched(v, c) => Touched(v, c)')
    BY <1>1, <1>2, <1>6 DEF InHand, Touched
  <2> QED BY <1>4, <1>5, <1>6, <2>1, LetGo DEF DeletionParts
<1> QED BY <1>2, <1>3, <1>5, <1>8, <1>9, <1>10, PartsKept, FewerGone, FewerStored DEF DeletionParts

\* An instance is done with its version.
LEMMA EndKeeps ==
  ASSUME DeletionInv, NEW w \in Indexers, IndexOnly,
         FinishVersion(w) \/ PublishDocument(w) \/ MarkReady(w)
  PROVE  DeletionParts'
<1> USE DEF DeletionInv, WholeInv, OnceInv, TypeInv
<1>1. PICK v \in Versions : indexer[w].v = v
  BY DEF FinishVersion, PublishDocument, MarkReady, At, IndexerOK
<1>2. /\ UNCHANGED <<chunk, vectors, r2, del, stager, work, deleter>>
      /\ indexer[w].pc \in {"finishing", "publishing", "ready"}
  BY DEF FinishVersion, PublishDocument, MarkReady, IndexOnly, At
<1>3. SamePhase
  BY <1>2 DEF SamePhase
<1>4. /\ indexer'[w].pc \in {"idle", "publishing"}
      /\ indexer'[w].pc # "idle" => indexer'[w].v = indexer[w].v
      /\ \A u \in Indexers \ {w} : indexer'[u] = indexer[u]
  BY DEF FinishVersion, PublishDocument, MarkReady, IndexTo, Idle, IndexerOK, IndexerRow
<1>5. StillInHand
  BY <1>4, MovesInHand
<1>6. /\ \A u \in Versions \ {v} : version'[u] = version[u]
      /\ version[v].state = "none" => version'[v] = version[v]
      /\ version[v].state # "none" => version'[v].state # "none"
  BY <1>1, CompleteStays DEF FinishVersion, PublishDocument, MarkReady
<1>7. \A u \in Versions : StillSource(u)
  BY <1>1, <1>2, <1>4, <1>6, InstanceSources DEF DeletionParts
<1>8. StillStaged
  BY <1>2, <1>6 DEF StillStaged, DeletionParts, Rowed
<1> QED BY <1>2, <1>3, <1>5, <1>7, <1>8, PartsKept, FewerGone, SameTouched, FewerStored DEF DeletionParts

\* Withdrawal, cleanup, leases and crashes.
LEMMA WithdrawKeeps ==
  ASSUME DeletionInv, IndexOnly, Unpublish \/ WithdrawAll
  PROVE  DeletionParts'
<1> USE DEF DeletionInv, WholeInv, OnceInv, TypeInv
<1>1. UNCHANGED <<chunk, vectors, r2, del, stager, indexer, work, deleter>>
  BY DEF Unpublish, WithdrawAll, IndexOnly
<1>2. SamePhase
  BY <1>1 DEF SamePhase
<1>3. \A u \in Versions : /\ version'[u].job = version[u].job
                          /\ version'[u].state = "none" <=> version[u].state = "none"
  <2>1. CASE UNCHANGED version
    BY <2>1
  <2>2. CASE /\ LatestVersion \in Staged
             /\ version' = [version EXCEPT ![LatestVersion].state = IF @ = "failed" THEN @ ELSE "withdrawn"]
    <3> HIDE DEF LatestVersion
    <3> QED BY <2>2 DEF Staged, RowsOK, VersionRow
  <2> QED BY <2>1, <2>2, LatestVersionType DEF Unpublish, WithdrawAll
<1>4. StillStaged
  BY <1>1, <1>3 DEF StillStaged, DeletionParts, Rowed
<1>5. \A u \in Versions : StillSource(u)
  BY <1>1, <1>3, SameSources
<1> QED BY <1>1, <1>2, <1>4, <1>5, PartsKept, FewerGone, SameTouched, SameInHand, FewerStored DEF DeletionParts

LEMMA CleanupKeeps ==
  ASSUME DeletionInv, IndexOnly, ClaimCleanup \/ CleanVectors \/ EndCleanup
  PROVE  DeletionParts'
<1> USE DEF DeletionInv, WholeInv, OnceInv, TypeInv
<1>1. UNCHANGED <<version, r2, del, stager, indexer, work, deleter>> /\ vectors' \subseteq vectors
  BY DEF ClaimCleanup, CleanVectors, EndCleanup, IndexOnly
<1>2. SamePhase
  BY <1>1 DEF SamePhase
<1>3. \A u \in Versions, k \in ChunkIds :
        \/ chunk'[u][k] = chunk[u][k]
        \/ /\ chunk[u][k] \in {"indexed", "cleanup_claimed"}
           /\ chunk'[u][k] \in {"indexed", "cleanup_claimed", "cleaned"}
  <2>1. CASE ClaimCleanup
    <3>1. MarkChunks(Cleanable, "cleanup_claimed")
      BY <2>1 DEF ClaimCleanup
    <3>2. "cleanup_claimed" \in ChunkStates
      BY DEF ChunkStates
    <3>3. \A p \in Cleanable : chunk[p[1]][p[2]] = "indexed"
      BY DEF Cleanable, ChunksIn
    <3>4. \A u \in Versions, k \in ChunkIds :
            chunk'[u][k] = IF <<u, k>> \in Cleanable THEN "cleanup_claimed" ELSE chunk[u][k]
      BY <3>1, <3>2, SetChunks
    <3> QED BY <3>3, <3>4
  <2>2. CASE CleanVectors
    BY <2>2 DEF CleanVectors
  <2>3. CASE EndCleanup
    <3> DEFINE ids == cleaner.ids \cap ChunksIn({"cleanup_claimed"})
    <3>1. PICK state \in {"cleaned", "indexed"} : MarkChunks(ids, state)
      BY <2>3 DEF EndCleanup
    <3>2. state \in ChunkStates
      BY DEF ChunkStates
    <3>3. \A p \in ids : chunk[p[1]][p[2]] = "cleanup_claimed"
      BY DEF ChunksIn
    <3> HIDE DEF ids
    <3>4. \A u \in Versions, k \in ChunkIds :
            chunk'[u][k] = IF <<u, k>> \in ids THEN state ELSE chunk[u][k]
      BY <3>1, <3>2, SetChunks
    <3> QED BY <3>3, <3>4
  <2> QED BY <2>1, <2>2, <2>3
<1>4. StillTouched
  BY <1>3 DEF StillTouched, Touched
<1>5. StillStaged
  BY <1>1, <1>3 DEF StillStaged, DeletionParts, Rowed
<1>6. \A u \in Versions : StillSource(u)
  BY <1>1, SameSources
<1> QED BY <1>1, <1>2, <1>4, <1>5, <1>6, PartsKept, FewerGone, SameInHand, FewerStored DEF DeletionParts

LEMMA StopsKeep ==
  ASSUME DeletionInv, IndexOnly, Lapse \/ CrashIndex
  PROVE  DeletionParts'
<1> USE DEF DeletionInv, WholeInv, OnceInv, TypeInv
<1>1. UNCHANGED <<version, chunk, vectors, del, work, deleter>>
  BY DEF Lapse, CrashIndex, IndexOnly
<1>2. SamePhase
  BY <1>1 DEF SamePhase
<1>3. /\ UNCHANGED indexer \/ \E w \in Indexers : IndexTo(w, Idle)
      /\ \A v \in Versions : stager'[v] = stager[v] \/ (stager[v] # "idle" /\ stager'[v] = "done")
      /\ \A v \in r2' : v \in r2 \/ (v \in Versions /\ stager[v] = "putting")
  BY DEF Lapse, CrashIndex, Placed, LeftOK, Scenario
<1>4. \A w \in Indexers : indexer'[w] = indexer[w] \/ indexer'[w].pc = "idle"
  BY <1>3 DEF IndexTo, Idle, IndexerOK
<1>5. StillInHand
  BY <1>4 DEF StillInHand, InHand
<1>6. \A v \in Versions : StillSource(v)
  BY <1>1, <1>3, <1>4 DEF StillSource
<1>7. StillGone
  BY <1>1, <1>3, StoresGone
<1> QED BY <1>1, <1>2, <1>5, <1>6, <1>7, PartsKept, SameRowsStaged, SameTouched, FewerStored DEF DeletionParts

\* Every step of the indexing.
LEMMA IndexKeeps == DeletionInv /\ IndexNext /\ IndexOnly => DeletionParts'
<1> SUFFICES ASSUME DeletionInv, IndexNext, IndexOnly PROVE DeletionParts'
  OBVIOUS
<1>1. left.indexers \subseteq Indexers
  BY DEF DeletionInv, WholeInv, OnceInv, TypeInv, LeftOK, Scenario
<1> QED BY <1>1, BeginSourceKeeps, AuthorizeSourceKeeps, PutSourceKeeps, CaptureSourceKeeps, FailSourceKeeps,
           CleanFailedSourceKeeps, CompleteOnlyKeeps, StartKeeps, PublishBatchKeeps, ClaimChunkKeeps,
           AuthorizeChunkKeeps, UpsertKeeps, ConfirmChunkKeeps, UnsureKeeps, EndKeeps, WithdrawKeeps,
           CleanupKeeps, StopsKeep DEF IndexNext, StageStep, IndexStep

-----------------------------------------------------------------------------
(* What a CHOOSE of the deletion finds.                                    *)

\* A finite set of numbers has a least one.
LEMMA LeastExists ==
  ASSUME NEW n \in Nat, NEW S, S \subseteq -1 .. n, S # {}
  PROVE  \E m \in S : \A u \in S : m <= u
<1> DEFINE T == {n + 1 - x : x \in S}
<1>1. T \subseteq 1 .. n + 2 /\ T # {} /\ n + 2 \in Nat
  <2>1. \A x \in S : x \in Int /\ -1 <= x /\ x <= n
    OBVIOUS
  <2>2. \A x \in S : n + 1 - x \in 1 .. n + 2
    BY <2>1
  <2>3. T # {} /\ n + 2 \in Nat
    <3>1. PICK x \in S : TRUE
      OBVIOUS
    <3>2. n + 1 - x \in T
      OBVIOUS
    <3> QED BY <3>2
  <2>4. T \subseteq 1 .. n + 2
    <3> SUFFICES ASSUME NEW x \in S PROVE n + 1 - x \in 1 .. n + 2
      BY Zenon
    <3> QED BY <2>2
  <2> QED BY <2>3, <2>4
<1>2. PICK g \in T : \A t \in T : t <= g
  <2> HIDE DEF T
  <2> QED BY <1>1, GreatestExists
<1>3. PICK m \in S : g = n + 1 - m
  OBVIOUS
<1>4. ASSUME NEW u \in S PROVE m <= u
  <2>1. n + 1 - u \in T /\ u \in Int /\ m \in Int
    OBVIOUS
  <2> HIDE DEF T
  <2>2. n + 1 - u <= n + 1 - m
    BY <1>2, <1>3, <2>1
  <2> QED BY <2>1, <2>2
<1> QED BY <1>4

\* What a key of the work is made of.
LEMMA ItemShape ==
  \A i \in Items : i[1] \in 1 .. 3 /\ i[2] \in 0 .. MaxVersion /\ i[3] \in -1 .. MaxChunks
BY Bounds DEF Items, SourceItem, VectorItem, Finalize, Versions, ChunkIds

\* claimNext takes up work there is.
LEMMA LeastIsOne ==
  ASSUME NEW S, S \subseteq Items, S # {}
  PROVE  LeastOf(S) \in S
<1> DEFINE A == {i[1] : i \in S}
<1>1. A \subseteq -1 .. 3 /\ A # {}
  BY ItemShape
<1>2. PICK a \in A : \A x \in A : a <= x
  <2> HIDE DEF A
  <2> QED BY <1>1, LeastExists
<1> DEFINE R == {i \in S : i[1] = a}
           B == {i[2] : i \in R}
<1>3. B \subseteq -1 .. MaxVersion /\ B # {} /\ MaxVersion \in Nat
  BY ItemShape, Bounds
<1>4. PICK b \in B : \A x \in B : b <= x
  <2> HIDE DEF B
  <2> QED BY <1>3, LeastExists
<1> DEFINE Q == {i \in R : i[2] = b}
           C == {i[3] : i \in Q}
<1>5. C \subseteq -1 .. MaxChunks /\ C # {} /\ MaxChunks \in Nat
  BY ItemShape, Bounds
<1>6. PICK c \in C : \A x \in C : c <= x
  <2> HIDE DEF C
  <2> QED BY <1>5, LeastExists
<1>7. PICK i \in S : i[1] = a /\ i[2] = b /\ i[3] = c
  OBVIOUS
<1>8. ASSUME NEW j \in S PROVE Before(i, j)
  <2>1. i[1] \in Int /\ j[1] \in Int /\ i[2] \in Int /\ j[2] \in Int /\ i[3] \in Int /\ j[3] \in Int
    BY ItemShape
  <2>2. i[1] <= j[1]
    BY <1>2, <1>7
  <2>3. j[1] = i[1] => i[2] <= j[2]
    BY <1>4, <1>7
  <2>4. j[1] = i[1] /\ j[2] = i[2] => i[3] <= j[3]
    BY <1>6, <1>7
  <2> QED BY <2>1, <2>2, <2>3, <2>4 DEF Before
<1> QED BY <1>8 DEF LeastOf

\* The next row of the manifest of the vectors.
LEMMA FirstIsNext ==
  ASSUME NEW S, S \subseteq Versions \X ChunkIds, S # {}
  PROVE  FirstOf(S) \in S /\ \A q \in S : ~After(FirstOf(S), q)
<1>1. \A p \in S : p[1] \in 1 .. MaxVersion /\ p[2] \in 0 .. MaxChunks - 1
  BY DEF Versions, ChunkIds
<1> DEFINE A == {p[1] : p \in S}
<1>2. A \subseteq -1 .. MaxVersion /\ A # {} /\ MaxVersion \in Nat
  BY <1>1, Bounds
<1>3. PICK a \in A : \A x \in A : a <= x
  <2> HIDE DEF A
  <2> QED BY <1>2, LeastExists
<1> DEFINE R == {p \in S : p[1] = a}
           B == {p[2] : p \in R}
<1>4. B \subseteq -1 .. MaxChunks /\ B # {} /\ MaxChunks \in Nat
  BY <1>1, Bounds
<1>5. PICK b \in B : \A x \in B : b <= x
  <2> HIDE DEF B
  <2> QED BY <1>4, LeastExists
<1>6. PICK p \in S : p[1] = a /\ p[2] = b
  OBVIOUS
<1>7. ASSUME NEW q \in S PROVE ~After(p, q)
  <2>1. p[1] \in Int /\ q[1] \in Int /\ p[2] \in Int /\ q[2] \in Int
    BY <1>1
  <2>2. p[1] <= q[1]
    BY <1>3, <1>6
  <2>3. q[1] = p[1] => p[2] <= q[2]
    BY <1>5, <1>6
  <2> QED BY <2>1, <2>2, <2>3 DEF After
<1> QED BY <1>7 DEF FirstOf

-----------------------------------------------------------------------------
(* The deletion begins.                                                    *)

\* Nothing is closed yet, and the rows stay.
LEMMA RevokeKeeps ==
  ASSUME DeletionInv, Revoke
  PROVE  DeletionParts'
<1> USE DEF DeletionInv, WholeInv, OnceInv, TypeInv
<1>1. UNCHANGED <<chunk, r2, vectors, stager, indexer, work, deleter>> /\ del.state = "none"
  BY DEF Revoke
<1>2. ~Deleting /\ ~SourcesClosed /\ ~VectorsClosed /\ del = NoDelete
  BY <1>1, NotBegun DEF Deleting, DeletionParts, Phased
<1>3. /\ del'.state = "active" /\ del'.max = LatestVersion /\ del'.legacyCount \in -1 .. 1
      /\ del'.source = -1 /\ del'.sourcesDone = FALSE
      /\ del'.cut = <<0, -1>> /\ del'.vectorsDone = FALSE
  <2>1. LegacyCount \in -1 .. 1
    BY DEF LegacyCount
  <2> QED BY <2>1 DEF Revoke, NoDelete
<1>4. version' = [v \in Versions |->
         IF v = LatestVersion /\ version[v].state # "failed"
         THEN [version[v] EXCEPT !.state = "withdrawn"] ELSE version[v]]
  BY DEF Revoke
<1>5. LatestVersion \in Versions => version[LatestVersion].state # "none"
  <2>1. Staged = {} => LatestVersion = 0
    BY DEF LatestVersion
  <2>2. LatestVersion \in Versions => LatestVersion \in Staged
    BY <2>1, LatestVersionType, Bounds DEF Versions
  <2> HIDE DEF LatestVersion
  <2> QED BY <2>2 DEF Staged
<1>6. \A v \in Staged : v <= LatestVersion
  BY LatestIsGreatest
<1>7. LatestVersion \in Int
  BY LatestVersionType
<1> HIDE DEF LatestVersion
<1>8. \A v \in Versions : /\ version'[v].job = version[v].job
                          /\ version'[v].state = "none" <=> version[v].state = "none"
  BY <1>4, <1>5 DEF RowsOK, VersionRow
<1>9. Phased'
  <2>1. Staged' = Staged
    BY <1>8 DEF Staged
  <2>2. <<0, -1>> \in (0 .. MaxVersion) \X Int
    BY Bounds
  <2>3. LatestVersion \in 0 .. MaxVersion
    BY LatestVersionType
  <2> QED BY <1>3, <1>6, <2>1, <2>2, <2>3 DEF Phased
<1>10. Rowed'
  BY <1>1, <1>8 DEF DeletionParts, Rowed
<1>11. ~SourcesClosed' /\ ~VectorsClosed'
  BY <1>3 DEF SourcesClosed, VectorsClosed
<1>12. /\ \A v \in Versions : ~Listed(v) /\ ~Listed(v)'
       /\ \A v \in Versions, c \in ChunkIds : ~Recorded(v, c) /\ ~Recorded(v, c)'
  <2>1. \A v \in Versions : ~Listed(v)
    BY <1>2, ListedClosed
  <2>2. \A v \in Versions, c \in ChunkIds : ~Recorded(v, c)
    BY <1>2, RecordedClosed
  <2>3. \A v \in Versions : ~Listed(v)'
    BY <1>3, Bounds DEF Listed, Versions
  <2>4. \A v \in Versions, c \in ChunkIds : ~Recorded(v, c)'
    BY <1>3, Bounds DEF Recorded, After, Versions
  <2> QED BY <2>1, <2>2, <2>3, <2>4
<1>13. Embedded'
  <2>1. ASSUME NEW w \in Indexers PROVE Handled(w)'
    <3>1. Handled(w)
      BY DEF DeletionParts, Embedded
    <3> QED BY <1>1, <1>2, <1>11, <3>1 DEF Handled, InHand, Touched
  <2>2. \A v \in Versions, c \in ChunkIds : <<v, c>> \in vectors' => Touched(v, c)'
    BY <1>1, <1>12 DEF DeletionParts, Embedded, Touched
  <2> QED BY <2>1, <2>2 DEF Embedded
<1>14. Working'
  <2>1. \A i \in Items : work[i].state = "none"
    BY <1>2 DEF DeletionParts, Working
  <2>2. \A d \in Deleters : deleter[d].pc \notin Busy
    BY <1>1 DEF Quiet, Busy
  <2> QED BY <1>1, <1>12, <2>1, <2>2 DEF Working
<1>15. ASSUME NEW v \in Versions PROVE Sourced(v)'
  <2>1. Sourced(v)
    BY DEF DeletionParts
  <2> QED BY <1>1, <1>3, <1>8, <1>11, <1>12, <2>1 DEF Sourced
<1> QED BY <1>9, <1>10, <1>13, <1>14, <1>15 DEF DeletionParts

-----------------------------------------------------------------------------
(* A deletion step, while the deletion stays in its phase.                 *)

\* What is left to show of such a step is about the work.
LEMMA PhasePartsKept ==
  ASSUME DeletionParts, SamePhase, UNCHANGED <<version, chunk, stager, indexer>>,
         r2' \subseteq r2, vectors' \subseteq vectors, Working'
  PROVE  DeletionParts'
<1>1. StillStaged
  BY SameRowsStaged DEF DeletionParts
<1>2. Phased' /\ Rowed'
  BY <1>1, PhasedKept, RowedKept, SameStaged DEF DeletionParts
<1>3. Embedded'
  BY EmbeddedKept, SameTouched, SameInHand, FewerStored DEF DeletionParts
<1>4. \A v \in Versions : Sourced(v)'
  <2>1. \A v \in Versions : StillSource(v)
    BY DEF StillSource
  <2> QED BY <2>1, SourcedKept DEF DeletionParts
<1> QED BY <1>2, <1>3, <1>4 DEF DeletionParts

\* A step takes up work there is; work stays what it is or goes on.
LEMMA TakenWork ==
  ASSUME WorkOK, NEW d \in Deleters, ClaimWork(d)
  PROVE  \E k \in Items :
           /\ work[k].state # "none"
           /\ deleter' = [deleter EXCEPT ![d] = [pc |-> "claimed", item |-> k]]
           /\ \A i \in Items : \/ work'[i].state = work[i].state
                               \/ work[i].state \in {"pending", "claimed", "uncertain"}
                                  /\ work'[i].state \in {"claimed", "uncertain"}
<1> DEFINE open == {i \in Items : Recovered[i].state \in {"pending", "uncertain"}}
           k == LeastOf(open)
<1>1. k \in open
  <2>1. open \subseteq Items /\ open # {}
    BY DEF ClaimWork
  <2> HIDE DEF open
  <2> QED BY <2>1, LeastIsOne
<1>2. /\ work' = [Recovered EXCEPT ![k] = [state |-> "claimed", by |-> {d}, lapsed |-> FALSE]]
      /\ deleter' = [deleter EXCEPT ![d] = [pc |-> "claimed", item |-> k]]
  BY DEF ClaimWork, DeleterTo
<1>3. k \in Items /\ Recovered[k].state \in {"pending", "uncertain"}
  BY <1>1
<1> HIDE DEF k
<1>4. \A i \in Items : i # k => work'[i] = Recovered[i]
  BY <1>2, <1>3 DEF Recovered
<1>5. work'[k].state = "claimed"
  BY <1>2, <1>3 DEF Recovered
<1>6. work[k].state \in {"pending", "claimed", "uncertain"}
  BY <1>3 DEF Recovered, Overdue
<1>7. \A i \in Items : \/ Recovered[i] = work[i]
                       \/ work[i].state = "claimed" /\ Recovered[i].state = "uncertain"
  BY DEF Recovered, Overdue
<1> QED BY <1>2, <1>3, <1>4, <1>5, <1>6, <1>7

\* A step that takes up, finds, parks or loses something erases nothing and ends
\* no work.
LEMMA TakeKeeps ==
  ASSUME DeletionInv, NEW d \in Deleters, ClaimWork(d) \/ MeetProducer(d) \/ Park(d)
  PROVE  DeletionParts'
<1> USE DEF DeletionInv, WholeInv, OnceInv, TypeInv
<1>1. UNCHANGED <<version, chunk, r2, vectors, stager, indexer>>
  BY DEF ClaimWork, MeetProducer, Park, OnlyDeletion
<1>2. SamePhase
  <2>1. CASE UNCHANGED del
    BY <2>1 DEF SamePhase
  <2>2. CASE Park(d)
    BY <2>2 DEF Park, SamePhase, Quiet, DelShape, DelFields
  <2> QED BY <2>1, <2>2 DEF ClaimWork, MeetProducer
<1>3. StillGone
  BY <1>1, FewerGone
<1>4. \A e \in Deleters : e # d => deleter'[e] = deleter[e]
  BY DEF ClaimWork, MeetProducer, Park, DeleterTo, Placed
<1>5. CASE MeetProducer(d) \/ Park(d)
  <2>1. UNCHANGED work /\ deleter'[d].pc \notin Busy
    BY <1>5 DEF MeetProducer, Park, DeleterTo, NoStep, Busy, Placed
  <2>2. \A i \in Items : Open(i) => Open(i)'
    BY <2>1 DEF Open
  <2>3. \A e \in Deleters : deleter'[e].pc \in Busy =>
          \E i \in Items :
            /\ deleter'[e].item = i /\ Closed(i)
            /\ deleter'[e].pc \in {"effect", "confirm"} => i # Finalize
            /\ deleter'[e].pc = "confirm" => Gone(i)'
    BY <1>3, <1>4, <2>1, StillBusy DEF DeletionParts
  <2> HIDE DEF Open, Gone, Closed
  <2>4. Working'
    BY <1>2, <1>3, <2>1, <2>2, <2>3, WorkKept DEF DeletionParts
  <2> QED BY <1>1, <1>2, <2>4, PhasePartsKept
<1>6. CASE ClaimWork(d)
  <2>1. PICK k \in Items :
          /\ work[k].state # "none"
          /\ deleter' = [deleter EXCEPT ![d] = [pc |-> "claimed", item |-> k]]
          /\ \A i \in Items : \/ work'[i].state = work[i].state
                              \/ work[i].state \in {"pending", "claimed", "uncertain"}
                                 /\ work'[i].state \in {"claimed", "uncertain"}
    BY <1>6, TakenWork
  <2>2. \A i \in Items : Open(i) => Open(i)'
    BY <2>1 DEF Open
  <2>3. deleter'[d] = [pc |-> "claimed", item |-> k]
    BY <2>1 DEF Placed
  <2>4. Closed(k)
    BY <2>1 DEF DeletionParts, Working
  <2>5. \A e \in Deleters : deleter'[e].pc \in Busy =>
          \E i \in Items :
            /\ deleter'[e].item = i /\ Closed(i)
            /\ deleter'[e].pc \in {"effect", "confirm"} => i # Finalize
            /\ deleter'[e].pc = "confirm" => Gone(i)'
    <3> HIDE DEF Closed, Gone
    <3>1. \A e \in Deleters : e # d /\ deleter'[e].pc \in Busy =>
          \E i \in Items :
            /\ deleter'[e].item = i /\ Closed(i)
            /\ deleter'[e].pc \in {"effect", "confirm"} => i # Finalize
            /\ deleter'[e].pc = "confirm" => Gone(i)'
      BY <1>3, <1>4, StillBusy DEF DeletionParts
    <3>2. /\ deleter'[d].item = k /\ k \in Items /\ Closed(k)
          /\ deleter'[d].pc \notin {"effect", "confirm"} /\ deleter'[d].pc # "confirm"
      BY <2>3, <2>4
    <3> QED BY <3>1, <3>2
  <2> HIDE DEF Open, Gone, Closed
  <2>6. Working'
    BY <1>2, <1>3, <2>1, <2>2, <2>5, WorkKept DEF DeletionParts
  <2> QED BY <1>1, <1>2, <2>6, PhasePartsKept
<1> QED BY <1>5, <1>6

\* Work whose claim is still the step's own is set; else nothing is.
LEMMA SetWorkRow ==
  ASSUME WorkOK, NEW d \in Deleters, NEW state, SetWork(d, state), NEW k \in Items, deleter[d].item = k
  PROVE  /\ \A i \in Items \ {k} : work'[i] = work[i]
         /\ \/ work'[k] = work[k]
            \/ work[k].state = "claimed" /\ work'[k].state = state
BY DEF SetWork, Owns, WorkOK, WorkRow

\* The work a step ends is erased, or is to be done again.
LEMMA EndedWork ==
  ASSUME DeletionInv, NEW d \in Deleters, EndWork(d)
  PROVE  \A i \in Items :
           \/ work'[i] = work[i]
           \/ work[i].state = "claimed" /\ work'[i].state = "uncertain"
           \/ work[i].state = "claimed" /\ work'[i].state = "complete" /\ i # Finalize /\ Gone(i)'
<1> USE DEF DeletionInv, WholeInv, OnceInv, TypeInv
<1> DEFINE state == IF DeleterAt(d, "confirm") THEN "complete" ELSE "uncertain"
<1>1. PICK k \in Items : deleter[d].item = k
  BY DEF Placed
<1>2. SetWork(d, state) /\ UNCHANGED <<r2, vectors>>
  BY DEF EndWork, OnlyDeletion
<1>3. state = "uncertain" \/ (state = "complete" /\ k # Finalize /\ Gone(k))
  BY <1>1 DEF DeleterAt, DeletionParts, Working, Busy
<1>4. Gone(k) => Gone(k)'
  BY <1>2 DEF Gone
<1> HIDE DEF state, Gone
<1> QED BY <1>1, <1>2, <1>3, <1>4, SetWorkRow

\* What a step erases was closed before, and what it completes is gone.
LEMMA EffectKeeps ==
  ASSUME DeletionInv, NEW d \in Deleters,
         AuthorizeEffect(d) \/ Effect(d) \/ EndWork(d) \/ CrashDeleter(d)
  PROVE  DeletionParts'
<1> USE DEF DeletionInv, WholeInv, OnceInv, TypeInv
<1>1. /\ UNCHANGED <<version, chunk, stager, indexer, del>>
      /\ r2' \subseteq r2 /\ vectors' \subseteq vectors
  BY DEF AuthorizeEffect, Effect, EndWork, CrashDeleter, OnlyDeletion, Erase
<1>2. SamePhase
  BY <1>1 DEF SamePhase
<1>3. StillGone
  BY <1>1, FewerGone
<1>4. \A e \in Deleters : e # d => deleter'[e] = deleter[e]
  BY DEF AuthorizeEffect, Effect, EndWork, CrashDeleter, DeleterTo, Placed
<1>5. PICK k \in Items : deleter[d].item = k
  BY DEF Placed
<1>6. deleter'[d].pc \in Busy =>
        /\ deleter'[d].item = k /\ Closed(k)
        /\ deleter'[d].pc \in {"effect", "confirm"} => k # Finalize
        /\ deleter'[d].pc = "confirm" => Gone(k)'
  <2>1. CASE AuthorizeEffect(d)
    <3>1. \E pc \in {"effect", "unsure"} : deleter' = [deleter EXCEPT ![d] = [deleter[d] EXCEPT !.pc = pc]]
      BY <2>1 DEF AuthorizeEffect, DeleterTo
    <3>2. deleter'[d].item = k /\ deleter'[d].pc # "confirm" /\ k # Finalize
      BY <1>5, <2>1, <3>1 DEF Placed, AuthorizeEffect
    <3>3. Closed(k)
      BY <1>5, <2>1 DEF AuthorizeEffect, DeleterAt, DeletionParts, Working, Busy
    <3> QED BY <3>2, <3>3
  <2>2. CASE Effect(d)
    <3>1. \/ Erase(k) /\ deleter' = [deleter EXCEPT ![d] = [deleter[d] EXCEPT !.pc = "confirm"]]
          \/ deleter' = [deleter EXCEPT ![d] = [deleter[d] EXCEPT !.pc = "unsure"]]
      BY <1>5, <2>2 DEF Effect, DeleterTo
    <3>2. /\ deleter'[d].item = k
          /\ deleter'[d].pc = "unsure" \/ (deleter'[d].pc = "confirm" /\ Erase(k))
      BY <1>5, <3>1 DEF Placed
    <3>3. Closed(k) /\ k # Finalize
      BY <1>5, <2>2 DEF Effect, DeleterAt, DeletionParts, Working, Busy
    <3>4. Erase(k) => Gone(k)'
      BY DEF Erase, Gone
    <3> QED BY <3>2, <3>3, <3>4
  <2>3. CASE EndWork(d) \/ CrashDeleter(d)
    BY <2>3 DEF EndWork, CrashDeleter, DeleterTo, NoStep, Busy, Placed
  <2> QED BY <2>1, <2>2, <2>3
<1>7. \A e \in Deleters : deleter'[e].pc \in Busy =>
        \E i \in Items :
          /\ deleter'[e].item = i /\ Closed(i)
          /\ deleter'[e].pc \in {"effect", "confirm"} => i # Finalize
          /\ deleter'[e].pc = "confirm" => Gone(i)'
  <2> HIDE DEF Closed, Gone
  <2>1. \A e \in Deleters : e # d /\ deleter'[e].pc \in Busy =>
        \E i \in Items :
          /\ deleter'[e].item = i /\ Closed(i)
          /\ deleter'[e].pc \in {"effect", "confirm"} => i # Finalize
          /\ deleter'[e].pc = "confirm" => Gone(i)'
    BY <1>3, <1>4, StillBusy DEF DeletionParts
  <2> QED BY <1>6, <2>1
<1>8. \A i \in Items :
        \/ work'[i] = work[i]
        \/ work[i].state = "claimed" /\ work'[i].state = "uncertain"
        \/ work[i].state = "claimed" /\ work'[i].state = "complete" /\ i # Finalize /\ Gone(i)'
  <2>1. CASE EndWork(d)
    BY <2>1, EndedWork
  <2>2. CASE UNCHANGED work
    BY <2>2
  <2> QED BY <2>1, <2>2 DEF AuthorizeEffect, Effect, CrashDeleter
<1>9. \A i \in Items : Open(i) => Open(i)' \/ Gone(i)'
  <2> HIDE DEF Gone
  <2> QED BY <1>8 DEF Open
<1> HIDE DEF Open, Gone, Closed
<1>10. Working'
  BY <1>2, <1>3, <1>7, <1>8, <1>9, WorkKept DEF DeletionParts
<1> QED BY <1>1, <1>2, <1>10, PhasePartsKept

\* A lease of work that runs out changes no state of the work.
LEMMA LapseWorkKeeps ==
  ASSUME DeletionInv, NEW k \in Items, LapseWork(k)
  PROVE  DeletionParts'
<1> USE DEF DeletionInv, WholeInv, OnceInv, TypeInv
<1>1. UNCHANGED <<version, chunk, r2, vectors, stager, indexer, del, deleter>>
  BY DEF LapseWork
<1>2. SamePhase
  BY <1>1 DEF SamePhase
<1>3. StillGone
  BY <1>1, FewerGone
<1>4. \A i \in Items : work'[i].state = work[i].state
  BY DEF LapseWork, WorkOK, WorkRow
<1>5. \A i \in Items : Open(i) => Open(i)'
  BY <1>4 DEF Open
<1>6. \A e \in Deleters : deleter'[e].pc \in Busy =>
        \E i \in Items :
          /\ deleter'[e].item = i /\ Closed(i)
          /\ deleter'[e].pc \in {"effect", "confirm"} => i # Finalize
          /\ deleter'[e].pc = "confirm" => Gone(i)'
  BY <1>1, <1>3, StillBusy DEF DeletionParts
<1> HIDE DEF Open, Gone, Closed
<1>7. Working'
  BY <1>2, <1>3, <1>4, <1>5, <1>6, WorkKept DEF DeletionParts
<1> QED BY <1>1, <1>2, <1>7, PhasePartsKept

-----------------------------------------------------------------------------
(* The manifest is laid out.                                               *)

\* What a step that lays out the manifest finds and leaves alone.
LEMMA MaterializeShape ==
  ASSUME DeletionInv, NEW d \in Deleters, Materialize(d)
  PROVE  /\ Deleting /\ ProducersSettled
         /\ UNCHANGED <<version, chunk, r2, vectors, stager, indexer, deleter>>
         /\ \A f \in DelFields \ {"state"} : Unpark[f] = del[f]
         /\ Unpark = [f \in DelFields |-> Unpark[f]] /\ Unpark.state \notin {"none", "done"}
<1> USE DEF DeletionInv, WholeInv, OnceInv, TypeInv
<1>1. Deleting
  BY DEF Materialize, Runs, Scheduled, Deleting
<1>2. /\ \A f \in DelFields \ {"state"} : Unpark[f] = del[f]
      /\ Unpark = [f \in DelFields |-> Unpark[f]] /\ Unpark.state \notin {"none", "done"}
  BY <1>1 DEF Unpark, Quiet, DelShape, DelFields, Deleting
<1> QED BY <1>1, <1>2 DEF Materialize

\* Work that is pended anew is pending; other work stays what it is.
LEMMA PendRow ==
  ASSUME WorkOK, NEW k \in Items, Pend(k)
  PROVE  /\ \A i \in Items \ {k} : work'[i] = work[i]
         /\ work'[k].state = IF work[k].state = "none" THEN "pending" ELSE work[k].state
BY DEF Pend, WorkOK, WorkRow

\* What is staged is what the deletion knows, and nothing else has a job or chunks.
LEMMA AllKnown ==
  ASSUME DeletionInv, Deleting
  PROVE  /\ \A v \in Versions : version[v].job # "none" => v \in Staged /\ v <= del.max
         /\ \A v \in Versions, c \in ChunkIds : chunk[v][c] # "none" => v \in Staged /\ v <= del.max
         /\ \A v \in Staged : v <= del.max
BY DEF DeletionInv, DeletionParts, Phased, Rowed, Staged, Deleting

\* Once the producers of the sources are settled nobody stores a source.
LEMMA NoPutting ==
  ASSUME DeletionInv, Deleting, SourceProducers = {}
  PROVE  \A v \in Versions : stager[v] # "putting"
<1> SUFFICES ASSUME NEW v \in Versions, stager[v] = "putting" PROVE FALSE
  OBVIOUS
<1>1. version[v].job = "source_pending"
  BY DEF DeletionInv, DeletionParts, Sourced
<1>2. v <= del.max
  BY <1>1, AllKnown
<1>3. v \in SourceProducers
  <2>1. v \in Int /\ 1 <= v /\ del.max \in Int
    BY DEF Versions, DeletionInv, DeletionParts, Phased
  <2> QED BY <1>1, <1>2, <2>1 DEF SourceProducers
<1> QED BY <1>3

\* Once those of the vectors are, nobody stores a vector.
LEMMA NoUpserting ==
  ASSUME DeletionInv, Deleting, ChunkProducers = {}
  PROVE  \A w \in Indexers : indexer[w].pc \notin {"claimed", "upserting"}
<1> SUFFICES ASSUME NEW w \in Indexers, indexer[w].pc \in {"claimed", "upserting"}, ~VectorsClosed PROVE FALSE
  BY DEF DeletionInv, DeletionParts, Embedded, Handled
<1>1. indexer[w].v \in Versions /\ indexer[w].c \in ChunkIds
  BY DEF DeletionInv, WholeInv, OnceInv, TypeInv, IndexerOK, IndexerRow
<1>2. PICK v \in Versions, c \in ChunkIds : indexer[w].v = v /\ indexer[w].c = c
  BY <1>1
<1>3. chunk[v][c] = "claimed"
  BY <1>2 DEF DeletionInv, DeletionParts, Embedded, Handled, InHand
<1>4. v <= del.max
  BY <1>3, AllKnown
<1>5. <<v, c>> \in ChunkProducers
  BY <1>3, <1>4 DEF ChunkProducers, ChunksIn
<1> QED BY <1>5

\* A step that lays out the manifest: what it closes is settled, what it adds to
\* the manifest is pended or gone.
LEMMA LayKeeps ==
  ASSUME DeletionInv, Deleting, UNCHANGED <<version, chunk, r2, vectors, stager, indexer, deleter>>,
         del'.state \notin {"none", "done"}, Phased',
         del.vectorsDone => del'.vectorsDone,
         SourcesClosed => SourcesClosed', SourcesClosed' => SourcesClosed \/ SourceProducers = {},
         VectorsClosed => VectorsClosed', VectorsClosed' => VectorsClosed \/ ChunkProducers = {},
         \A i \in Items :
           \/ work'[i] = work[i]
           \/ work[i].state = "none" /\ work'[i].state = "pending" /\ Closed(i)',
         \A v \in Versions : Listed(v) => Listed(v)',
         \A v \in Versions : Listed(v)' => Listed(v) \/ v \notin r2 \/ work'[SourceItem(v)].state # "none",
         \A v \in Versions, c \in ChunkIds : Recorded(v, c) => Recorded(v, c)',
         \A v \in Versions, c \in ChunkIds : Recorded(v, c)' =>
           Recorded(v, c) \/ <<v, c>> \notin vectors \/ work'[VectorItem(v, c)].state # "none"
  PROVE  DeletionParts'
<1> USE DEF DeletionInv, WholeInv, OnceInv, TypeInv
<1>1. Rowed'
  BY DEF DeletionParts, Rowed
<1>2. ASSUME NEW v \in Versions PROVE Sourced(v)'
  <2>1. Sourced(v)
    BY DEF DeletionParts
  <2>2. SourcesClosed' => stager[v] # "putting"
    BY <2>1, NoPutting DEF Sourced
  <2>3. Listed(v) => Listed(v)'
    OBVIOUS
  <2> QED BY <2>1, <2>2, <2>3 DEF Sourced
<1>3. Embedded'
  <2>1. ASSUME NEW w \in Indexers PROVE Handled(w)'
    <3>1. Handled(w)
      BY DEF DeletionParts, Embedded
    <3>2. VectorsClosed' => indexer[w].pc \notin {"claimed", "upserting"}
      BY <3>1, NoUpserting DEF Handled
    <3> QED BY <3>1, <3>2 DEF Handled, InHand, Touched
  <2>2. ASSUME NEW v \in Versions, NEW c \in ChunkIds, <<v, c>> \in vectors'
        PROVE  Recorded(v, c)' \/ Touched(v, c)'
    <3>1. Recorded(v, c) \/ Touched(v, c)
      BY <2>2 DEF DeletionParts, Embedded
    <3>2. Recorded(v, c) => Recorded(v, c)'
      OBVIOUS
    <3> QED BY <3>1, <3>2 DEF Touched
  <2> QED BY <2>1, <2>2 DEF Embedded
<1>4. \A i \in Items : Closed(i) => Closed(i)'
  BY DEF Closed, Deleting
<1>5. Deleting'
  BY DEF Deleting
<1>6. \A i \in Items : Gone(i)' = Gone(i)
  BY DEF Gone
<1>7. \A i \in Items : Open(i) => Open(i)'
  BY DEF Open
<1>8. \A i \in Items : work'[i].state # "none" => Open(i)' \/ Gone(i)'
  <2>1. \A i \in Items : work[i].state \in {"none", "pending", "claimed", "uncertain", "complete"}
    BY DEF WorkOK, WorkRow
  <2>2. \A i \in Items : work[i].state = "complete" => Gone(i)
    BY DEF DeletionParts, Working
  <2>3. \A i \in Items : \/ work'[i].state \in {"none", "pending", "claimed", "uncertain"}
                         \/ work'[i].state = "complete" /\ work[i].state = "complete"
    BY <2>1
  <2>4. \A i \in Items : work'[i].state \in {"pending", "claimed", "uncertain"} => Open(i)'
    BY DEF Open
  <2> HIDE DEF Open, Gone
  <2> QED BY <1>6, <2>2, <2>3, <2>4
<1>9. Working'
  <2>1. \A i \in Items : work'[i].state # "none" => Closed(i)' /\ Deleting'
    <3> HIDE DEF Closed
    <3> QED BY <1>4, <1>5 DEF DeletionParts, Working
  <2>2. \A i \in Items : work'[i].state = "complete" => i # Finalize /\ Gone(i)'
    <3> HIDE DEF Gone, Closed
    <3> QED BY <1>6 DEF DeletionParts, Working
  <2>3. ASSUME NEW d \in Deleters, deleter'[d].pc \in Busy
        PROVE  /\ Closed(deleter[d].item)'
               /\ deleter'[d].pc \in {"effect", "confirm"} => deleter'[d].item # Finalize
               /\ deleter'[d].pc = "confirm" => Gone(deleter[d].item)'
    <3>1. PICK i \in Items : deleter[d].item = i
      BY DEF Placed
    <3>2. deleter' = deleter
      OBVIOUS
    <3>3. /\ Closed(i)
          /\ deleter[d].pc \in {"effect", "confirm"} => i # Finalize
          /\ deleter[d].pc = "confirm" => Gone(i)
      BY <2>3, <3>1, <3>2 DEF DeletionParts, Working
    <3>4. Closed(i)' /\ (deleter[d].pc = "confirm" => Gone(i)')
      <4> HIDE DEF Closed, Gone
      <4> QED BY <1>4, <1>6, <3>3
    <3>5. Closed(deleter[d].item)'
      BY <3>1, <3>2, <3>4 DEF Closed
    <3>6. deleter'[d].pc = "confirm" => Gone(deleter[d].item)'
      BY <3>1, <3>2, <3>4 DEF Gone
    <3> QED BY <3>1, <3>2, <3>3, <3>5, <3>6
  <2>4. ASSUME NEW v \in Versions, Listed(v)' PROVE Open(SourceItem(v))' \/ Gone(SourceItem(v))'
    <3>1. SourceItem(v) \in Items
      BY ItemKeys DEF Versions
    <3>2. Listed(v) => Open(SourceItem(v)) \/ Gone(SourceItem(v))
      BY DEF DeletionParts, Working
    <3>3. v \notin r2 => Gone(SourceItem(v))
      BY DEF Gone, SourceItem
    <3>4. Listed(v) \/ v \notin r2 \/ work'[SourceItem(v)].state # "none"
      BY <2>4
    <3> HIDE DEF Open, Gone, Listed
    <3> QED BY <1>6, <1>7, <1>8, <3>1, <3>2, <3>3, <3>4
  <2>5. ASSUME NEW v \in Versions, NEW c \in ChunkIds, Recorded(v, c)'
        PROVE  Open(VectorItem(v, c))' \/ Gone(VectorItem(v, c))'
    <3>1. VectorItem(v, c) \in Items
      BY ItemKeys
    <3>2. Recorded(v, c) => Open(VectorItem(v, c)) \/ Gone(VectorItem(v, c))
      BY DEF DeletionParts, Working
    <3>3. <<v, c>> \notin vectors => Gone(VectorItem(v, c))
      BY DEF Gone, VectorItem
    <3>4. Recorded(v, c) \/ <<v, c>> \notin vectors \/ work'[VectorItem(v, c)].state # "none"
      BY <2>5
    <3> HIDE DEF Open, Gone, Recorded
    <3> QED BY <1>6, <1>7, <1>8, <3>1, <3>2, <3>3, <3>4
  <2> HIDE DEF Open, Gone, Closed, Listed, Recorded
  <2> QED BY <2>1, <2>2, <2>3, <2>4, <2>5 DEF Working
<1> QED BY <1>1, <1>2, <1>3, <1>9 DEF DeletionParts

\* A step that leaves the manifest where it is.
LEMMA LayNothing ==
  ASSUME DeletionInv, Deleting, SamePhase, del'.state \notin {"none", "done"},
         UNCHANGED <<version, chunk, r2, vectors, stager, indexer, deleter>>,
         \A i \in Items :
           \/ work'[i] = work[i]
           \/ work[i].state = "none" /\ work'[i].state = "pending" /\ Closed(i)
  PROVE  DeletionParts'
<1>1. Phased'
  BY PhasedKept DEF DeletionInv, DeletionParts, Staged
<1>2. /\ SourcesClosed' = SourcesClosed /\ VectorsClosed' = VectorsClosed
      /\ del'.vectorsDone = del.vectorsDone
      /\ \A v \in Versions : Listed(v)' = Listed(v)
      /\ \A v \in Versions, c \in ChunkIds : Recorded(v, c)' = Recorded(v, c)
      /\ \A i \in Items : Closed(i)' = Closed(i)
  BY PhaseKept DEF SamePhase
<1> HIDE DEF Closed, Listed, Recorded
<1> QED BY <1>1, <1>2, LayKeeps

\* The next source goes into the manifest, or the manifest is complete.
LEMMA LaySourcesKeeps ==
  ASSUME DeletionInv, NEW d \in Deleters, Materialize(d), ~del.sourcesDone, LaySources
  PROVE  DeletionParts'
<1> USE DEF DeletionInv, WholeInv, OnceInv, TypeInv
<1>1. /\ Deleting /\ ProducersSettled
      /\ UNCHANGED <<version, chunk, r2, vectors, stager, indexer, deleter>>
      /\ \A f \in DelFields \ {"state"} : Unpark[f] = del[f]
      /\ Unpark = [f \in DelFields |-> Unpark[f]] /\ Unpark.state \notin {"none", "done"}
  BY MaterializeShape
<1>2. SourceProducers = {}
  BY <1>1 DEF ProducersSettled
<1>3. /\ del.max \in 0 .. MaxVersion /\ del.source \in Int /\ del.cut = <<0, -1>>
      /\ del.legacyCount \in -1 .. 1 /\ \A v \in Staged : v <= del.max
  BY <1>1 DEF DeletionParts, Phased, Deleting
<1> DEFINE rest == {v \in Staged : v > del.source /\ v <= del.max}
           next == CHOOSE v \in rest : \A u \in rest : v <= u
           u == Unpark
<1>4. Staged' = Staged
  BY <1>1 DEF Staged
<1>5. \A v \in Versions : v \in r2 => Listed(v) \/ v \in Staged
  BY DEF DeletionParts, Sourced, Staged
<1>6. \A v \in Versions : Listed(v) <=> v <= del.source
  BY <1>1 DEF Listed, Deleting
<1>7. ~del.vectorsDone
  BY DEF DeletionParts, Phased
<1>8. ASSUME NEW s \in Int, s >= del.source, s # -1, del' = [u EXCEPT !.source = s]
      PROVE  /\ Phased' /\ del'.state \notin {"none", "done"} /\ SourcesClosed'
             /\ VectorsClosed' = VectorsClosed
             /\ \A v \in Versions : Listed(v)' <=> v <= s
             /\ \A v \in Versions, c \in ChunkIds : Recorded(v, c)' = Recorded(v, c)
  <2> HIDE DEF u
  <2>1. /\ del'.source = s /\ \A f \in DelFields \ {"source", "state"} : del'[f] = del[f]
        /\ del'.state \notin {"none", "done"}
    BY <1>1, <1>8 DEF u, DelFields
  <2>2. /\ del'.max = del.max /\ del'.legacyCount = del.legacyCount /\ del'.sourcesDone = del.sourcesDone
        /\ del'.cut = del.cut /\ del'.vectorsDone = del.vectorsDone
    BY <2>1 DEF DelFields
  <2>3. Phased'
    <3>1. del'.cut \in (0 .. MaxVersion) \X Int /\ del'.cut = <<0, -1>> /\ ~del'.vectorsDone
      BY <1>3, <1>7, <2>2, Bounds
    <3>2. del'.source \in Int /\ del'.max \in 0 .. MaxVersion /\ del'.legacyCount \in -1 .. 1
      BY <1>3, <1>8, <2>1, <2>2
    <3>3. \A v \in Staged' : v <= del'.max
      BY <1>3, <1>4, <2>2
    <3> HIDE DEF rest, next
    <3> QED BY <2>1, <3>1, <3>2, <3>3 DEF Phased
  <2>4. SourcesClosed'
    BY <1>8, <2>1 DEF SourcesClosed
  <2>5. VectorsClosed' = VectorsClosed
    BY <1>1, <2>1, <2>2 DEF VectorsClosed, Deleting
  <2>6. \A v \in Versions : Listed(v)' <=> v <= s
    BY <2>1, <2>2 DEF Listed
  <2>7. \A v \in Versions, c \in ChunkIds : Recorded(v, c)' = Recorded(v, c)
    BY <1>1, <2>1, <2>2 DEF Recorded, Deleting
  <2> QED BY <2>1, <2>3, <2>4, <2>5, <2>6, <2>7
<1>9. CASE del.source = -1
  <2>1. del' = [u EXCEPT !.source = 0] /\ (Pend(SourceItem(0)) \/ UNCHANGED work)
    BY <1>9 DEF LaySources
  <2>2. SourceItem(0) \in Items
    BY ItemKeys, Bounds
  <2>3. /\ Phased' /\ del'.state \notin {"none", "done"} /\ SourcesClosed'
        /\ VectorsClosed' = VectorsClosed
        /\ \A v \in Versions : Listed(v)' <=> v <= 0
        /\ \A v \in Versions, c \in ChunkIds : Recorded(v, c)' = Recorded(v, c)
    <3> HIDE DEF u
    <3> QED BY <1>8, <1>9, <2>1
  <2>4. \A i \in Items :
           \/ work'[i] = work[i]
           \/ work[i].state = "none" /\ work'[i].state = "pending" /\ i = SourceItem(0)
    <3>1. \A i \in Items : i # SourceItem(0) => work'[i] = work[i]
      BY <2>1, <2>2, PendRow
    <3>2. work[SourceItem(0)].state # "none" /\ Pend(SourceItem(0)) => UNCHANGED work
      BY <2>2 DEF Pend, WorkOK
    <3>3. Pend(SourceItem(0)) /\ work[SourceItem(0)].state = "none" => work'[SourceItem(0)].state = "pending"
      BY <2>2, PendRow
    <3> HIDE DEF Pend
    <3> QED BY <2>1, <3>1, <3>2, <3>3
  <2>5. \A i \in Items : i = SourceItem(0) => Closed(i)'
    BY <2>3 DEF Closed, SourceItem
  <2>6. \A v \in Versions : ~Listed(v)'
    BY <2>3 DEF Versions
  <2>7. \A v \in Versions : ~Listed(v)
    BY <1>6, <1>9, Bounds DEF Versions
  <2> HIDE DEF Listed, Recorded, Closed, u, SourceItem
  <2>8. \A i \in Items :
           \/ work'[i] = work[i]
           \/ work[i].state = "none" /\ work'[i].state = "pending" /\ Closed(i)'
    BY <2>4, <2>5
  <2> QED BY <1>1, <1>2, <1>7, <2>3, <2>6, <2>7, <2>8, LayKeeps
<1>10. CASE del.source # -1 /\ rest # {}
  <2>1. del' = [u EXCEPT !.source = next] /\ Pend(SourceItem(next))
    BY <1>10 DEF LaySources
  <2>2. next \in rest /\ \A v \in rest : next <= v
    <3>1. rest \subseteq -1 .. MaxVersion /\ MaxVersion \in Nat
      BY Bounds DEF Staged, Versions
    <3>2. \E m \in rest : \A v \in rest : m <= v
      <4> HIDE DEF rest
      <4> QED BY <1>10, <3>1, LeastExists
    <3> QED BY <3>2
  <2> HIDE DEF next
  <2>3. next \in Versions /\ next > del.source /\ next \in Int /\ next # -1
    BY <2>2, Bounds DEF Staged, Versions
  <2>4. SourceItem(next) \in Items
    BY <2>3, ItemKeys, Bounds DEF Versions
  <2>5. /\ Phased' /\ del'.state \notin {"none", "done"} /\ SourcesClosed'
        /\ VectorsClosed' = VectorsClosed
        /\ \A v \in Versions : Listed(v)' <=> v <= next
        /\ \A v \in Versions, c \in ChunkIds : Recorded(v, c)' = Recorded(v, c)
    <3> HIDE DEF u
    <3> QED BY <1>3, <1>8, <2>1, <2>3
  <2>6. \A i \in Items :
           \/ work'[i] = work[i]
           \/ work[i].state = "none" /\ work'[i].state = "pending" /\ i = SourceItem(next)
    <3>1. \A i \in Items : i # SourceItem(next) => work'[i] = work[i]
      BY <2>1, <2>4, PendRow
    <3>2. work[SourceItem(next)].state # "none" => UNCHANGED work
      BY <2>1, <2>4 DEF Pend, WorkOK
    <3>3. work[SourceItem(next)].state = "none" => work'[SourceItem(next)].state = "pending"
      BY <2>1, <2>4, PendRow
    <3> HIDE DEF SourceItem
    <3> QED BY <3>1, <3>2, <3>3
  <2>7. work'[SourceItem(next)].state # "none"
    BY <2>1, <2>4, PendRow
  <2>8. \A i \in Items : i = SourceItem(next) => Closed(i)'
    BY <2>5 DEF Closed, SourceItem
  <2>9. \A v \in Versions : Listed(v)' => Listed(v) \/ v \notin r2 \/ v = next
    <3> SUFFICES ASSUME NEW v \in Versions, v <= next, ~(v <= del.source), v # next, v \in Staged PROVE FALSE
      BY <1>5, <1>6, <2>5
    <3>1. v \in Int /\ v <= del.max /\ v > del.source
      BY <1>3 DEF Versions
    <3>2. next <= v
      BY <2>2, <3>1
    <3> QED BY <2>3, <3>1, <3>2
  <2>10. \A v \in Versions : Listed(v) => Listed(v)'
    BY <1>3, <1>6, <2>3, <2>5 DEF Versions
  <2> HIDE DEF Listed, Recorded, Closed, u, SourceItem, rest
  <2>11. \A i \in Items :
           \/ work'[i] = work[i]
           \/ work[i].state = "none" /\ work'[i].state = "pending" /\ Closed(i)'
    BY <2>6, <2>8
  <2>12. \A v \in Versions : Listed(v)' => Listed(v) \/ v \notin r2 \/ work'[SourceItem(v)].state # "none"
    BY <2>7, <2>9
  <2> QED BY <1>1, <1>2, <1>7, <2>5, <2>10, <2>11, <2>12, LayKeeps
<1>11. CASE del.source # -1 /\ rest = {}
  <2>1. del' = [u EXCEPT !.sourcesDone = TRUE] /\ UNCHANGED work
    BY <1>11 DEF LaySources
  <2> HIDE DEF u
  <2>2. /\ del'.sourcesDone = TRUE /\ \A f \in DelFields \ {"sourcesDone", "state"} : del'[f] = del[f]
        /\ del'.state \notin {"none", "done"}
    BY <1>1, <2>1 DEF u, DelFields
  <2>3. /\ del'.max = del.max /\ del'.legacyCount = del.legacyCount /\ del'.source = del.source
        /\ del'.cut = del.cut /\ del'.vectorsDone = del.vectorsDone
    BY <2>2 DEF DelFields
  <2>4. Phased'
    BY <1>3, <1>4, <1>7, <2>2, <2>3, Bounds DEF Phased
  <2>5. SourcesClosed' /\ SourcesClosed
    BY <1>11, <2>2 DEF SourcesClosed
  <2>6. VectorsClosed' = VectorsClosed
    BY <1>1, <2>2, <2>3 DEF VectorsClosed, Deleting
  <2>7. \A v \in Versions : Listed(v)'
    BY <2>2 DEF Listed
  <2>8. \A v \in Versions, c \in ChunkIds : Recorded(v, c)' = Recorded(v, c)
    BY <1>1, <2>2, <2>3 DEF Recorded, Deleting
  <2>9. \A v \in Versions : Listed(v) \/ v \notin r2
    <3> SUFFICES ASSUME NEW v \in Versions, ~(v <= del.source), v \in Staged PROVE FALSE
      BY <1>5, <1>6
    <3>1. v \in Int /\ v <= del.max /\ v > del.source
      BY <1>3 DEF Versions
    <3> QED BY <1>11, <3>1
  <2> HIDE DEF Listed, Recorded, Closed, rest
  <2> QED BY <1>1, <1>2, <1>7, <2>1, <2>2, <2>4, <2>5, <2>6, <2>7, <2>8, <2>9, LayKeeps
<1> QED BY <1>9, <1>10, <1>11

\* The next chunk goes into the manifest, or the manifest is complete.
LEMMA LayVectorsKeeps ==
  ASSUME DeletionInv, NEW d \in Deleters, Materialize(d), del.sourcesDone, ~del.vectorsDone, LayVectors
  PROVE  DeletionParts'
<1> USE DEF DeletionInv, WholeInv, OnceInv, TypeInv
<1> DEFINE rows == {p \in ChunksIn(ChunkStates \ {"none"}) : p[1] <= del.max /\ After(p, del.cut)}
           next == FirstOf(rows)
           u == Unpark
<1>1. /\ Deleting /\ ProducersSettled
      /\ UNCHANGED <<version, chunk, r2, vectors, stager, indexer, deleter>>
      /\ \A f \in DelFields \ {"state"} : u[f] = del[f]
      /\ u = [f \in DelFields |-> u[f]] /\ u.state \notin {"none", "done"}
  BY MaterializeShape
<1>2. ChunkProducers = {}
  BY <1>1 DEF ProducersSettled
<1>3. /\ del.max \in 0 .. MaxVersion /\ del.source \in Int /\ del.cut \in (0 .. MaxVersion) \X Int
      /\ del.legacyCount \in -1 .. 1 /\ \A v \in Staged : v <= del.max
  BY <1>1 DEF DeletionParts, Phased, Deleting
<1>4. Staged' = Staged
  BY <1>1 DEF Staged
\* A chunk after the cut that has no row is not stored.
<1>5. \A v \in Versions, c \in ChunkIds :
        <<v, c>> \in vectors => Recorded(v, c) \/ <<v, c>> \in rows
  <2> SUFFICES ASSUME NEW v \in Versions, NEW c \in ChunkIds, <<v, c>> \in vectors, ~Recorded(v, c)
               PROVE  <<v, c>> \in rows
    OBVIOUS
  <2>1. Touched(v, c) /\ After(<<v, c>>, del.cut)
    BY DEF DeletionParts, Embedded, Recorded
  <2>2. chunk[v][c] # "none" /\ chunk[v][c] \in ChunkStates
    BY <2>1 DEF Touched, ChunksOK
  <2>3. v <= del.max
    BY <1>1, <2>2, AllKnown
  <2> QED BY <2>1, <2>2, <2>3 DEF ChunksIn
<1>6. SourcesClosed
  BY DEF SourcesClosed
<1>7. \A v \in Versions : Listed(v)
  BY DEF Listed
<1>8. ASSUME NEW f \in {"cut", "legacyCount", "vectorsDone"}, del'.state \notin {"none", "done"},
             \A g \in DelFields \ {f, "state"} : del'[g] = del[g]
      PROVE  /\ del'.max = del.max /\ del'.source = del.source /\ del'.sourcesDone = TRUE
             /\ f # "cut" => del'.cut = del.cut
             /\ f # "legacyCount" => del'.legacyCount = del.legacyCount
             /\ f # "vectorsDone" => del'.vectorsDone = FALSE
             /\ SourcesClosed' /\ \A v \in Versions : Listed(v)'
  BY <1>8 DEF DelFields, SourcesClosed, Listed
<1> DEFINE unknown == del' = [u EXCEPT !.state = "legacy_manifest_required"] /\ UNCHANGED work
           known == del' = [u EXCEPT !.legacyCount = 0] /\ Pend(VectorItem(0, 0))
           laid == del' = [u EXCEPT !.vectorsDone = TRUE, !.state = "finalizing"] /\ UNCHANGED work
<1>9. /\ rows = {} /\ del.legacyCount = -1 => unknown
      /\ rows = {} /\ del.legacyCount = 1 => known
      /\ rows = {} /\ del.legacyCount \notin {-1, 1} => laid
  <2>1. rows = {} => CASE del.legacyCount = -1 -> unknown [] del.legacyCount = 1 -> known [] OTHER -> laid
    BY DEF LayVectors
  <2> HIDE DEF rows, unknown, known, laid
  <2> QED BY <2>1
<1>10. CASE rows # {}
  <2>1. del' = [u EXCEPT !.cut = next] /\ Pend(VectorItem(next[1], next[2]))
    BY <1>10 DEF LayVectors
  <2>2. next \in rows /\ \A q \in rows : ~After(next, q)
    <3>1. rows \subseteq Versions \X ChunkIds
      BY DEF ChunksIn
    <3> HIDE DEF rows
    <3> QED BY <1>10, <3>1, FirstIsNext
  <2> HIDE DEF next, u
  <2>3. PICK a \in Versions, b \in ChunkIds : next = <<a, b>> /\ <<a, b>> \in rows
    BY <2>2 DEF ChunksIn
  <2>4. /\ del'.cut = <<a, b>> /\ del'.state \notin {"none", "done"}
        /\ \A g \in DelFields \ {"cut", "state"} : del'[g] = del[g]
    BY <1>1, <2>1, <2>3 DEF DelFields
  <2>5. /\ del'.max = del.max /\ del'.source = del.source /\ del'.sourcesDone = TRUE
        /\ del'.legacyCount = del.legacyCount /\ del'.vectorsDone = FALSE
        /\ SourcesClosed' /\ \A v \in Versions : Listed(v)'
    BY <1>8, <2>4
  <2>6. Phased'
    <3>1. del'.cut \in (0 .. MaxVersion) \X Int
      BY <2>4 DEF Versions, ChunkIds
    <3>2. \A v \in Staged' : v <= del'.max
      BY <1>3, <1>4, <2>5
    <3> HIDE DEF rows
    <3> QED BY <1>3, <2>4, <2>5, <3>1, <3>2 DEF Phased
  <2>7. VectorsClosed'
    BY <2>4, Bounds DEF VectorsClosed, Versions
  <2> DEFINE item == VectorItem(a, b)
  <2>8. item \in Items /\ Pend(item)
    BY <2>1, <2>3, ItemKeys
  <2> HIDE DEF item
  <2>9. \A i \in Items :
           \/ work'[i] = work[i]
           \/ work[i].state = "none" /\ work'[i].state = "pending" /\ i = item
    <3>1. \A i \in Items : i # item => work'[i] = work[i]
      BY <2>8, PendRow
    <3>2. work[item].state # "none" => UNCHANGED work
      BY <2>8 DEF Pend, WorkOK
    <3>3. work[item].state = "none" => work'[item].state = "pending"
      BY <2>8, PendRow
    <3> QED BY <3>1, <3>2, <3>3
  <2>10. work'[item].state # "none"
    BY <2>8, PendRow
  <2>11. \A i \in Items : i = item => Closed(i)'
    BY <2>7 DEF Closed, VectorItem, item
  <2>12. /\ \A v \in Versions, c \in ChunkIds : Recorded(v, c) => Recorded(v, c)'
         /\ \A v \in Versions, c \in ChunkIds : Recorded(v, c)' =>
              Recorded(v, c) \/ <<v, c>> \notin vectors \/ (v = a /\ c = b)
    <3> SUFFICES ASSUME NEW v \in Versions, NEW c \in ChunkIds
                 PROVE  /\ Recorded(v, c) => Recorded(v, c)'
                        /\ Recorded(v, c)' => Recorded(v, c) \/ <<v, c>> \notin vectors \/ (v = a /\ c = b)
      OBVIOUS
    <3>1. v \in Int /\ c \in Int /\ a \in Int /\ b \in Int /\ del.cut[1] \in Int /\ del.cut[2] \in Int
      BY <1>3, Bounds DEF Versions, ChunkIds
    <3>2. Recorded(v, c) <=> ~After(<<v, c>>, del.cut)
      BY <1>1 DEF Recorded, Deleting
    <3>3. Recorded(v, c)' <=> ~After(<<v, c>>, <<a, b>>)
      BY <2>4, <2>5 DEF Recorded, After
    <3>4. After(<<a, b>>, del.cut)
      BY <2>3
    <3>5. <<v, c>> \in rows => ~After(<<a, b>>, <<v, c>>)
      BY <2>2, <2>3
    <3>6. Recorded(v, c) => Recorded(v, c)'
      BY <3>1, <3>2, <3>3, <3>4 DEF After
    <3>7. ~After(<<a, b>>, <<v, c>>) /\ ~After(<<v, c>>, <<a, b>>) => v = a /\ c = b
      BY <3>1 DEF After
    <3> QED BY <1>5, <3>3, <3>5, <3>6, <3>7
  <2> HIDE DEF Listed, Recorded, Closed, rows
  <2>13. \A i \in Items :
           \/ work'[i] = work[i]
           \/ work[i].state = "none" /\ work'[i].state = "pending" /\ Closed(i)'
    BY <2>9, <2>11
  <2>14. \A v \in Versions, c \in ChunkIds : Recorded(v, c)' =>
           Recorded(v, c) \/ <<v, c>> \notin vectors \/ work'[VectorItem(v, c)].state # "none"
    BY <2>10, <2>12 DEF item
  <2> QED BY <1>1, <1>2, <1>6, <1>7, <2>4, <2>5, <2>6, <2>7, <2>12, <2>13, <2>14, LayKeeps
<1>11. CASE rows = {} /\ del.legacyCount = -1
  <2>1. del' = [u EXCEPT !.state = "legacy_manifest_required"] /\ UNCHANGED work
    BY <1>11, <1>9
  <2> HIDE DEF u
  <2>2. del'.state = "legacy_manifest_required" /\ \A g \in DelFields \ {"state"} : del'[g] = del[g]
    BY <1>1, <2>1 DEF DelFields
  <2>3. SamePhase
    BY <1>1, <2>2 DEF SamePhase, DelFields, Deleting
  <2> QED BY <1>1, <2>1, <2>2, <2>3, LayNothing
<1>12. CASE rows = {} /\ del.legacyCount = 1
  <2>1. del' = [u EXCEPT !.legacyCount = 0] /\ Pend(VectorItem(0, 0))
    BY <1>12, <1>9
  <2> HIDE DEF u
  <2>2. /\ del'.legacyCount = 0 /\ del'.state \notin {"none", "done"}
        /\ \A g \in DelFields \ {"legacyCount", "state"} : del'[g] = del[g]
    BY <1>1, <2>1 DEF DelFields
  <2>3. /\ del'.max = del.max /\ del'.source = del.source /\ del'.sourcesDone = TRUE
        /\ del'.cut = del.cut /\ del'.vectorsDone = FALSE
        /\ SourcesClosed' /\ \A v \in Versions : Listed(v)'
    BY <1>8, <2>2
  <2>4. Phased'
    <3>1. \A v \in Staged' : v <= del'.max
      BY <1>3, <1>4, <2>3
    <3> HIDE DEF rows
    <3> QED BY <1>3, <2>2, <2>3, <3>1 DEF Phased
  <2>5. VectorsClosed' = VectorsClosed
    BY <1>1, <2>2, <2>3 DEF VectorsClosed, Deleting
  <2>6. \A v \in Versions, c \in ChunkIds : Recorded(v, c)' = Recorded(v, c)
    BY <1>1, <2>2, <2>3 DEF Recorded, Deleting
  <2>7. VectorItem(0, 0) \in Items
    BY ItemKeys
  <2>8. \A i \in Items : i = VectorItem(0, 0) => Closed(i)'
    BY DEF Closed, VectorItem
  <2> HIDE DEF Listed, Recorded, Closed, rows, VectorItem
  <2>9. \A i \in Items :
           \/ work'[i] = work[i]
           \/ work[i].state = "none" /\ work'[i].state = "pending" /\ Closed(i)'
    <3>1. \A i \in Items : i # VectorItem(0, 0) => work'[i] = work[i]
      BY <2>1, <2>7, PendRow
    <3>2. work[VectorItem(0, 0)].state # "none" => UNCHANGED work
      BY <2>1, <2>7 DEF Pend, WorkOK
    <3>3. work[VectorItem(0, 0)].state = "none" => work'[VectorItem(0, 0)].state = "pending"
      BY <2>1, <2>7, PendRow
    <3> QED BY <2>8, <3>1, <3>2, <3>3
  <2> QED BY <1>1, <1>2, <1>6, <1>7, <2>2, <2>3, <2>4, <2>5, <2>6, <2>9, LayKeeps
<1>13. CASE rows = {} /\ del.legacyCount \notin {-1, 1}
  <2>1. del' = [u EXCEPT !.vectorsDone = TRUE, !.state = "finalizing"] /\ UNCHANGED work
    BY <1>13, <1>9
  <2> HIDE DEF u
  <2>2. /\ del'.vectorsDone = TRUE /\ del'.state \notin {"none", "done"}
        /\ \A g \in DelFields \ {"vectorsDone", "state"} : del'[g] = del[g]
    BY <1>1, <2>1 DEF DelFields
  <2>3. /\ del'.max = del.max /\ del'.source = del.source /\ del'.sourcesDone = TRUE
        /\ del'.cut = del.cut /\ del'.legacyCount = del.legacyCount
        /\ SourcesClosed' /\ \A v \in Versions : Listed(v)'
    BY <1>8, <2>2
  <2>4. Phased'
    <3>1. \A v \in Staged' : v <= del'.max
      BY <1>3, <1>4, <2>3
    <3>2. del.legacyCount = 0
      BY <1>3, <1>13
    <3> HIDE DEF rows
    <3> QED BY <1>3, <2>2, <2>3, <3>1, <3>2 DEF Phased
  <2>5. VectorsClosed' /\ \A v \in Versions, c \in ChunkIds : Recorded(v, c)'
    BY <2>2 DEF VectorsClosed, Recorded
  <2>6. \A v \in Versions, c \in ChunkIds : Recorded(v, c) \/ <<v, c>> \notin vectors
    <3> HIDE DEF rows
    <3> QED BY <1>5, <1>13
  <2> HIDE DEF Listed, Recorded, Closed, rows
  <2> QED BY <1>1, <1>2, <1>6, <1>7, <2>1, <2>2, <2>3, <2>4, <2>5, <2>6, LayKeeps
<1> QED BY <1>10, <1>11, <1>12, <1>13

LEMMA MaterializeKeeps ==
  ASSUME DeletionInv, NEW d \in Deleters, Materialize(d)
  PROVE  DeletionParts'
<1> USE DEF DeletionInv, WholeInv, OnceInv, TypeInv
<1>1. CASE ~del.sourcesDone
  BY <1>1, LaySourcesKeeps DEF Materialize
<1>2. CASE del.sourcesDone /\ ~del.vectorsDone
  BY <1>2, LayVectorsKeeps DEF Materialize
<1>3. CASE del.sourcesDone /\ del.vectorsDone
  <2>1. Pend(Finalize) /\ UNCHANGED del
    BY <1>3 DEF Materialize
  <2>2. Deleting /\ UNCHANGED <<version, chunk, r2, vectors, stager, indexer, deleter>>
    BY MaterializeShape
  <2>3. SamePhase
    BY <2>1 DEF SamePhase
  <2>4. Finalize \in Items /\ Closed(Finalize)
    BY <1>3, ItemKeys DEF Closed, Finalize
  <2> HIDE DEF Closed
  <2>5. \A i \in Items :
           \/ work'[i] = work[i]
           \/ work[i].state = "none" /\ work'[i].state = "pending" /\ Closed(i)
    <3>1. \A i \in Items : i # Finalize => work'[i] = work[i]
      BY <2>1, <2>4, PendRow
    <3>2. work[Finalize].state # "none" => UNCHANGED work
      BY <2>1, <2>4 DEF Pend, WorkOK
    <3>3. work[Finalize].state = "none" => work'[Finalize].state = "pending"
      BY <2>1, <2>4, PendRow
    <3> QED BY <2>4, <3>1, <3>2, <3>3
  <2> QED BY <2>1, <2>2, <2>3, <2>5, LayNothing DEF Deleting
<1> QED BY <1>1, <1>2, <1>3

-----------------------------------------------------------------------------
(* The rows go.                                                            *)

\* A step that finalizes and is not the owner of its work leaves the rows.
LEMMA LateFinalizeKeeps ==
  ASSUME DeletionInv, NEW d \in Deleters, FinalizeOne(d), ~(Owns(d) /\ ~work[Finalize].lapsed)
  PROVE  DeletionParts'
<1> USE DEF DeletionInv, WholeInv, OnceInv, TypeInv
<1>1. UNCHANGED <<version, chunk, r2, vectors, stager, indexer, del>> /\ SetWork(d, "uncertain")
  BY DEF FinalizeOne
<1>2. SamePhase
  BY <1>1 DEF SamePhase
<1>3. StillGone
  BY <1>1, FewerGone
<1>4. deleter[d].item = Finalize /\ deleter'[d].pc \notin Busy /\ \A e \in Deleters : e # d => deleter'[e] = deleter[e]
  BY DEF FinalizeOne, DeleterTo, NoStep, Busy, Placed
<1>5. \A e \in Deleters : deleter'[e].pc \in Busy =>
        \E i \in Items :
          /\ deleter'[e].item = i /\ Closed(i)
          /\ deleter'[e].pc \in {"effect", "confirm"} => i # Finalize
          /\ deleter'[e].pc = "confirm" => Gone(i)'
  BY <1>3, <1>4, StillBusy DEF DeletionParts
<1>6. \A i \in Items :
        work'[i] = work[i] \/ (work[i].state = "claimed" /\ work'[i].state = "uncertain")
  BY <1>1, <1>4, SetWorkRow, ItemKeys
<1>7. \A i \in Items : Open(i) => Open(i)'
  BY <1>6 DEF Open
<1> HIDE DEF Open, Gone, Closed
<1>8. Working'
  BY <1>2, <1>3, <1>5, <1>6, <1>7, WorkKept DEF DeletionParts
<1> QED BY <1>1, <1>2, <1>8, PhasePartsKept

\* What an owner finds: the manifest is complete.
LEMMA OwnerFinds ==
  ASSUME DeletionInv, NEW d \in Deleters, FinalizeOne(d), Owns(d)
  PROVE  Deleting /\ del.vectorsDone /\ del.sourcesDone /\ work[Finalize].state = "claimed"
<1>1. work[Finalize].state = "claimed" /\ Finalize \in Items
  BY ItemKeys DEF FinalizeOne, Owns
<1>2. Closed(Finalize) /\ Deleting
  BY <1>1 DEF DeletionInv, DeletionParts, Working
<1> QED BY <1>1, <1>2 DEF DeletionInv, DeletionParts, Phased, Closed, Finalize, Deleting

\* What it does to the rows.
LEMMA RowsGo ==
  ASSUME DeletionInv, NEW d \in Deleters, FinalizeOne(d), RemoveRows(d)
  PROVE  /\ \A v \in Versions, c \in ChunkIds : chunk'[v][c] \in {"none", chunk[v][c]}
         /\ \A v \in Versions :
              \/ version'[v] = version[v]
              \/ version'[v].state = version[v].state /\ version'[v].job = "none"
              \/ version'[v] = NoVersion /\ \A c \in ChunkIds : chunk'[v][c] = "none"
<1> USE DEF DeletionInv, WholeInv, OnceInv, TypeInv
<1>1. CASE ChunksIn(ChunkStates \ {"none"}) # {}
  <2>1. MarkChunks(Versions \X ChunkIds, "none") /\ UNCHANGED version
    BY <1>1 DEF RemoveRows
  <2>2. \A v \in Versions, c \in ChunkIds : chunk'[v][c] = "none"
    BY <2>1 DEF MarkChunks
  <2> QED BY <2>1, <2>2
<1>2. CASE ChunksIn(ChunkStates \ {"none"}) = {}
  <2>1. UNCHANGED chunk
    BY <1>2 DEF RemoveRows
  <2>2. \A v \in Versions, c \in ChunkIds : chunk[v][c] = "none"
    <3> SUFFICES ASSUME NEW v \in Versions, NEW c \in ChunkIds, chunk[v][c] # "none"
                 PROVE  <<v, c>> \in ChunksIn(ChunkStates \ {"none"})
      BY <1>2
    <3>1. chunk[v][c] \in ChunkStates
      BY DEF ChunksOK
    <3> QED BY <3>1 DEF ChunksIn
  <2>3. \/ UNCHANGED version
        \/ \E v \in Jobs : version' = [version EXCEPT ![v].job = "none"]
        \/ \E v \in Staged : version' = [version EXCEPT ![v] = NoVersion]
    BY <1>2 DEF RemoveRows
  <2> QED BY <2>1, <2>2, <2>3 DEF RowsOK, VersionRow
<1> QED BY <1>1, <1>2

\* What it does to the work, while it does not end the deletion.
LEMMA WorkGoes ==
  ASSUME DeletionInv, NEW d \in Deleters, FinalizeOne(d), Owns(d), RemoveRows(d), UNCHANGED del
  PROVE  \A i \in Items :
           \/ work'[i] = work[i]
           \/ i = Finalize /\ work'[i].state \in {"pending", "uncertain"}
           \/ work[i].state = "complete" /\ work'[i] = NoWork
<1> USE DEF DeletionInv, WholeInv, OnceInv, TypeInv
<1>1. deleter[d].item = Finalize /\ Finalize \in Items
  BY ItemKeys DEF FinalizeOne
<1>2. CASE Continue(d) \/ SetWork(d, "uncertain")
  <2>1. \E state \in {"pending", "uncertain"} : SetWork(d, state)
    BY <1>2 DEF Continue
  <2> QED BY <1>1, <2>1, SetWorkRow
<1>3. CASE /\ Complete # {}
           /\ work' = [work EXCEPT ![LeastOf(Complete)] = NoWork,
                                   ![Finalize] = [state |-> "pending", by |-> {}, lapsed |-> FALSE]]
  <2>1. LeastOf(Complete) \in Complete
    <3>1. Complete \subseteq Items
      BY DEF Complete
    <3> QED BY <1>3, <3>1, LeastIsOne
  <2> DEFINE k == LeastOf(Complete)
  <2>2. k \in Items /\ work[k].state = "complete"
    BY <2>1 DEF Complete
  <2> HIDE DEF k
  <2>3. work' = [work EXCEPT ![k] = NoWork, ![Finalize] = [state |-> "pending", by |-> {}, lapsed |-> FALSE]]
    BY <1>3 DEF k
  <2> QED BY <1>1, <2>2, <2>3 DEF WorkOK
<1>4. ~(del' = [NoDelete EXCEPT !.state = "done"])
  <2>1. Deleting
    BY OwnerFinds
  <2> QED BY <2>1 DEF Deleting, NoDelete
<1> QED BY <1>2, <1>3, <1>4 DEF RemoveRows

\* A batch of the finalization that leaves more to do.
LEMMA RemoveRowsKeeps ==
  ASSUME DeletionInv, NEW d \in Deleters, FinalizeOne(d), Owns(d), RemoveRows(d), UNCHANGED del
  PROVE  DeletionParts'
<1> USE DEF DeletionInv, WholeInv, OnceInv, TypeInv
<1>1. Deleting /\ del.vectorsDone /\ del.sourcesDone
  BY OwnerFinds
<1>2. UNCHANGED <<r2, vectors, stager, indexer>>
  BY DEF FinalizeOne
<1>3. SamePhase
  BY DEF SamePhase
<1>4. /\ \A v \in Versions, c \in ChunkIds : chunk'[v][c] \in {"none", chunk[v][c]}
      /\ \A v \in Versions :
           \/ version'[v] = version[v]
           \/ version'[v].state = version[v].state /\ version'[v].job = "none"
           \/ version'[v] = NoVersion /\ \A c \in ChunkIds : chunk'[v][c] = "none"
  BY RowsGo
<1>5. Staged' \subseteq Staged
  BY <1>4 DEF Staged, NoVersion
<1>6. Phased'
  BY <1>3, <1>5, PhasedKept DEF DeletionParts
<1>7. Rowed'
  BY <1>4 DEF DeletionParts, Rowed, NoVersion
<1>8. SourcesClosed /\ VectorsClosed /\ SourcesClosed' /\ VectorsClosed'
  BY <1>1 DEF SourcesClosed, VectorsClosed
<1>9. Embedded'
  <2>1. \A w \in Indexers : Handled(w)'
    BY <1>2, <1>8 DEF DeletionParts, Embedded, Handled
  <2>2. \A v \in Versions, c \in ChunkIds : Recorded(v, c)'
    BY <1>1 DEF Recorded
  <2> QED BY <2>1, <2>2 DEF Embedded
<1>10. ASSUME NEW v \in Versions PROVE Sourced(v)'
  <2>1. Sourced(v) /\ Listed(v)'
    BY <1>1 DEF DeletionParts, Listed
  <2>2. stager[v] # "putting"
    BY <1>8, <2>1 DEF Sourced
  <2>3. version'[v].job \in {"none", version[v].job}
    BY <1>4 DEF NoVersion
  <2> QED BY <1>1, <1>2, <2>1, <2>2, <2>3 DEF Sourced, Deleting
<1>11. Working'
  <2>1. StillGone
    BY <1>2, FewerGone
  <2>2. deleter'[d].pc \notin Busy /\ \A e \in Deleters : e # d => deleter'[e] = deleter[e]
    BY DEF FinalizeOne, DeleterTo, NoStep, Busy, Placed
  <2>3. \A e \in Deleters : deleter'[e].pc \in Busy =>
          \E i \in Items :
            /\ deleter'[e].item = i /\ Closed(i)
            /\ deleter'[e].pc \in {"effect", "confirm"} => i # Finalize
            /\ deleter'[e].pc = "confirm" => Gone(i)'
    BY <2>1, <2>2, StillBusy DEF DeletionParts
  <2>4. \A i \in Items :
           \/ work'[i] = work[i]
           \/ i = Finalize /\ work'[i].state \in {"pending", "uncertain"}
           \/ work[i].state = "complete" /\ work'[i].state = "none"
    BY WorkGoes DEF NoWork
  <2>5. \A i \in Items : Open(i) => Open(i)'
    BY <2>4 DEF Open
  <2>6. work[Finalize].state # "none"
    BY OwnerFinds
  <2> HIDE DEF Open, Gone, Closed
  <2> QED BY <1>3, <2>1, <2>3, <2>4, <2>5, <2>6, WorkKept DEF DeletionParts
<1> QED BY <1>6, <1>7, <1>9, <1>10, <1>11 DEF DeletionParts

\* The last batch: no work is left, so all that is in the manifest is gone.
LEMMA LastBatchKeeps ==
  ASSUME DeletionInv, NEW d \in Deleters, FinalizeOne(d), Owns(d), RemoveRows(d),
         del' = [NoDelete EXCEPT !.state = "done"], del' # del
  PROVE  DeletionParts'
<1> USE DEF DeletionInv, WholeInv, OnceInv, TypeInv
<1>1. Deleting /\ del.vectorsDone /\ del.sourcesDone
  BY OwnerFinds
<1>2. UNCHANGED <<version, chunk, r2, vectors, stager, indexer>> /\ Others = {}
      /\ work' = [work EXCEPT ![Finalize] = NoWork]
  BY DEF FinalizeOne, RemoveRows
<1>3. del'.state = "done" /\ del'.max = 0 /\ del'.source = -1 /\ del'.cut = <<0, -1>>
      /\ del'.vectorsDone = FALSE /\ del'.legacyCount = 0 /\ del'.sourcesDone = FALSE
  BY DEF NoDelete
<1>4. Phased'
  <2>1. <<0, -1>> \in (0 .. MaxVersion) \X Int /\ 0 \in 0 .. MaxVersion
    BY Bounds
  <2> QED BY <1>3, <2>1 DEF Phased
<1>5. Rowed'
  BY <1>2 DEF DeletionParts, Rowed
<1>6. SourcesClosed /\ VectorsClosed /\ SourcesClosed' /\ VectorsClosed'
  BY <1>1, <1>3 DEF SourcesClosed, VectorsClosed
<1>7. Embedded'
  <2>1. \A w \in Indexers : Handled(w)'
    BY <1>2, <1>6 DEF DeletionParts, Embedded, Handled
  <2>2. \A v \in Versions, c \in ChunkIds : Recorded(v, c)'
    BY <1>3 DEF Recorded
  <2> QED BY <2>1, <2>2 DEF Embedded
<1>8. ASSUME NEW v \in Versions PROVE Sourced(v)'
  <2>1. Sourced(v) /\ Listed(v)'
    BY <1>3 DEF DeletionParts, Listed
  <2>2. stager[v] # "putting"
    BY <1>6, <2>1 DEF Sourced
  <2> QED BY <1>2, <1>3, <2>1, <2>2 DEF Sourced
<1>9. Working'
  <2>1. \A i \in Items : work'[i].state = "none"
    BY <1>2 DEF Others, WorkOK, NoWork
  <2>2. \A i \in Items : Closed(i)'
    BY <1>3, <1>6 DEF Closed
  <2>3. StillGone
    BY <1>2, FewerGone
  <2>4. deleter'[d].pc \notin Busy /\ \A e \in Deleters : e # d => deleter'[e] = deleter[e]
    BY DEF FinalizeOne, DeleterTo, NoStep, Busy, Placed
  <2>5. ASSUME NEW e \in Deleters, deleter'[e].pc \in Busy
        PROVE  /\ Closed(deleter[e].item)'
               /\ deleter'[e].pc \in {"effect", "confirm"} => deleter'[e].item # Finalize
               /\ deleter'[e].pc = "confirm" => Gone(deleter[e].item)'
    <3>1. PICK i \in Items : /\ deleter'[e].item = i
                             /\ deleter'[e].pc \in {"effect", "confirm"} => i # Finalize
                             /\ deleter'[e].pc = "confirm" => Gone(i)'
      BY <2>3, <2>4, <2>5, StillBusy DEF DeletionParts
    <3>2. Closed(i)'
      BY <2>2
    <3>3. Closed(deleter[e].item)'
      BY <3>1, <3>2 DEF Closed
    <3>4. deleter'[e].pc = "confirm" => Gone(deleter[e].item)'
      BY <3>1 DEF Gone
    <3> QED BY <3>1, <3>3, <3>4
  <2>6. \A i \in Items : Open(i) => i = Finalize
    BY <1>2 DEF Open, Others
  <2>7. ASSUME NEW v \in Versions PROVE Gone(SourceItem(v))'
    <3>1. SourceItem(v) \in Items /\ SourceItem(v) # Finalize
      BY ItemKeys DEF Versions
    <3>2. Listed(v)
      BY <1>1 DEF Listed
    <3>3. Gone(SourceItem(v))
      BY <2>6, <3>1, <3>2 DEF DeletionParts, Working
    <3> QED BY <1>2, <3>3 DEF Gone
  <2>8. ASSUME NEW v \in Versions, NEW c \in ChunkIds PROVE Gone(VectorItem(v, c))'
    <3>1. VectorItem(v, c) \in Items /\ VectorItem(v, c) # Finalize
      BY ItemKeys
    <3>2. Recorded(v, c)
      BY <1>1 DEF Recorded
    <3>3. Gone(VectorItem(v, c))
      BY <2>6, <3>1, <3>2 DEF DeletionParts, Working
    <3> QED BY <1>2, <3>3 DEF Gone
  <2> HIDE DEF Open, Gone, Closed, Listed, Recorded
  <2> QED BY <2>1, <2>5, <2>7, <2>8 DEF Working
<1> QED BY <1>4, <1>5, <1>7, <1>8, <1>9 DEF DeletionParts

LEMMA FinalizeKeeps ==
  ASSUME DeletionInv, NEW d \in Deleters, FinalizeOne(d)
  PROVE  DeletionParts'
<1>1. CASE Owns(d) /\ ~work[Finalize].lapsed
  <2>1. RemoveRows(d)
    BY <1>1 DEF FinalizeOne
  <2>2. UNCHANGED del \/ del' = [NoDelete EXCEPT !.state = "done"]
    BY <2>1 DEF RemoveRows
  <2> QED BY <1>1, <2>1, <2>2, RemoveRowsKeeps, LastBatchKeeps
<1> QED BY <1>1, LateFinalizeKeeps

-----------------------------------------------------------------------------
(* Every step.                                                             *)

\* What stages a source and what deletes stay where the code can be.
LEMMA StagerPlaced ==
  ASSUME DeletionInv, KnowledgeNext
  PROVE  stager' \in [Versions -> {"idle", "begun", "putting", "put", "failing", "done"}]
<1> USE DEF DeletionInv, WholeInv, OnceInv, TypeInv
<1>1. \/ UNCHANGED stager
      \/ \E v \in Versions, pc \in {"begun", "putting", "put", "failing", "done"} :
           stager' = [stager EXCEPT ![v] = pc]
  <2>1. CASE IndexNext
    BY <2>1 DEF IndexNext, StageStep, IndexStep, BeginSource, AuthorizeSource, PutSource, CaptureSource, FailSource,
       CleanFailedSource, CompleteOnly, ReadPreparation, CheckChunk, PublishBatch, FailRead, MarkReady, ClaimChunk, StageTo,
       AuthorizeChunk, Upsert, ConfirmChunk, Unsure, FinishVersion, PublishDocument, Unpublish, WithdrawAll,
       ClaimCleanup, CleanVectors, EndCleanup, Lapse, CrashIndex
  <2>2. ASSUME NEW d, DeleterStep(d) \/ CrashDeleter(d) PROVE UNCHANGED stager
    BY <2>2 DEF DeleterStep, CrashDeleter, ClaimWork, MeetProducer, Park, Materialize, AuthorizeEffect, Effect,
       EndWork, FinalizeOne, OnlyDeletion
  <2>3. (Revoke \/ \E i \in Items : LapseWork(i)) => UNCHANGED stager
    BY DEF Revoke, LapseWork
  <2> QED BY <2>1, <2>2, <2>3 DEF KnowledgeNext
<1> QED BY <1>1 DEF Placed

LEMMA DeleterPlaced ==
  ASSUME DeletionInv, KnowledgeNext
  PROVE  deleter' \in [Deleters -> [pc : {"idle", "parking", "claimed", "effect", "confirm", "unsure"},
                                    item : Items]]
<1> USE DEF DeletionInv, WholeInv, OnceInv, TypeInv
<1> DEFINE Row == [pc : {"idle", "parking", "claimed", "effect", "confirm", "unsure"}, item : Items]
<1>1. left.deleters \subseteq Deleters
  BY DEF LeftOK, Scenario
<1>2. NoStep \in Row /\ [NoStep EXCEPT !.pc = "parking"] \in Row
  BY ItemKeys DEF NoStep
<1>3. ASSUME NEW d \in Deleters, DeleterStep(d) \/ CrashDeleter(d)
      PROVE  deleter' = deleter \/ \E row \in Row : DeleterTo(d, row)
  <2>1. CASE ClaimWork(d)
    <3> DEFINE open == {i \in Items : Recovered[i].state \in {"pending", "uncertain"}}
    <3>1. open \subseteq Items /\ open # {}
      BY <2>1 DEF ClaimWork
    <3>2. DeleterTo(d, [pc |-> "claimed", item |-> LeastOf(open)])
      BY <2>1 DEF ClaimWork
    <3> HIDE DEF open
    <3>3. LeastOf(open) \in Items
      BY <3>1, LeastIsOne
    <3> QED BY <3>2, <3>3
  <2>2. CASE MeetProducer(d)
    BY <1>2, <2>2 DEF MeetProducer
  <2>3. CASE AuthorizeEffect(d) \/ Effect(d)
    <3>1. \A pc \in {"effect", "confirm", "unsure"} : [deleter[d] EXCEPT !.pc = pc] \in Row
      BY DEF Placed
    <3>2. \E pc \in {"effect", "confirm", "unsure"} : DeleterTo(d, [deleter[d] EXCEPT !.pc = pc])
      BY <2>3 DEF AuthorizeEffect, Effect
    <3> QED BY <3>1, <3>2
  <2>4. CASE Park(d) \/ EndWork(d) \/ FinalizeOne(d) \/ CrashDeleter(d)
    BY <1>2, <2>4 DEF Park, EndWork, FinalizeOne, CrashDeleter
  <2>5. CASE Materialize(d)
    BY <2>5 DEF Materialize
  <2> QED BY <1>3, <2>1, <2>2, <2>3, <2>4, <2>5 DEF DeleterStep
<1>4. (IndexNext /\ IndexOnly) \/ Revoke \/ (\E i \in Items : LapseWork(i)) => deleter' = deleter
  BY DEF IndexOnly, Revoke, LapseWork
<1> HIDE DEF Row
<1>5. deleter' = deleter \/ \E d \in Deleters, row \in Row : DeleterTo(d, row)
  BY <1>1, <1>3, <1>4 DEF KnowledgeNext
<1> QED BY <1>5 DEF Placed, DeleterTo, Row

\* The invariant of the deletion is inductive.
LEMMA NextDeletion == DeletionInv /\ [KnowledgeNext]_knowledgeVars => DeletionInv'
<1> SUFFICES ASSUME DeletionInv, [KnowledgeNext]_knowledgeVars PROVE DeletionInv'
  OBVIOUS
<1>1. WholeInv'
  BY NextWhole DEF DeletionInv
<1>2. CASE KnowledgeNext
  <2>1. Placed'
    BY <1>2, StagerPlaced, DeleterPlaced DEF Placed
  <2>2. DeletionParts'
    <3>1. left.deleters \subseteq Deleters
      BY DEF DeletionInv, WholeInv, OnceInv, TypeInv, LeftOK, Scenario
    <3> QED BY <1>2, <3>1, IndexKeeps, RevokeKeeps, TakeKeeps, EffectKeeps, LapseWorkKeeps, MaterializeKeeps,
               FinalizeKeeps DEF KnowledgeNext, DeleterStep
  <2> QED BY <1>1, <2>1, <2>2 DEF DeletionInv
<1>3. CASE UNCHANGED knowledgeVars
  <2> USE <1>3 DEF knowledgeVars, indexVars, DeletionInv
  <2>1. Placed'
    BY DEF Placed
  <2>2. SamePhase
    BY DEF SamePhase
  <2>3. DeletionParts'
    <3>1. StillGone
      BY FewerGone
    <3>2. Working'
      BY <2>2, <3>1, WorkingKept DEF DeletionParts
    <3> QED BY <2>2, <3>2, PhasePartsKept
  <2> QED BY <1>1, <2>1, <2>3
<1> QED BY <1>2, <1>3

LEMMA InitDeletion == DeletionInit => DeletionInv
<1> SUFFICES ASSUME DeletionInit PROVE DeletionInv
  OBVIOUS
<1>1. WholeInv
  BY InitWhole
<1>2. /\ del = NoDelete /\ work = [i \in Items |-> NoWork] /\ deleter = [d \in Deleters |-> NoStep]
      /\ stager = [v \in Versions |-> "idle"] /\ indexer = [w \in Indexers |-> Idle]
      /\ version = [v \in Versions |-> NoVersion]
      /\ chunk = [v \in Versions |-> [c \in ChunkIds |-> "none"]]
      /\ r2 \subseteq {0} /\ vectors \subseteq {<<0, 0>>}
  BY DEF DeletionInit, KnowledgeInit
<1>3. Placed
  BY <1>2, ItemKeys DEF Placed, NoStep
<1>4. Phased
  <2>1. <<0, -1>> \in (0 .. MaxVersion) \X Int /\ 0 \in 0 .. MaxVersion
    BY Bounds
  <2> QED BY <1>2, <2>1 DEF Phased, NoDelete
<1>5. Rowed
  BY <1>2 DEF Rowed, NoVersion
<1>6. ~SourcesClosed /\ ~VectorsClosed
  BY <1>2 DEF SourcesClosed, VectorsClosed, NoDelete
<1>7. Embedded
  <2>1. \A w \in Indexers : Handled(w)
    BY <1>2, <1>6 DEF Handled, InHand, Idle
  <2>2. \A v \in Versions, c \in ChunkIds : <<v, c>> \notin vectors
    BY <1>2, Bounds DEF Versions
  <2> QED BY <2>1, <2>2 DEF Embedded
<1>8. Working
  <2>1. \A i \in Items : work[i].state = "none"
    BY <1>2 DEF NoWork
  <2>2. \A d \in Deleters : deleter[d].pc \notin Busy
    BY <1>2 DEF NoStep, Busy
  <2>3. \A v \in Versions : ~Listed(v)
    BY <1>6, ListedClosed
  <2>4. \A v \in Versions, c \in ChunkIds : ~Recorded(v, c)
    BY <1>6, RecordedClosed
  <2> QED BY <2>1, <2>2, <2>3, <2>4 DEF Working
<1>9. ASSUME NEW v \in Versions PROVE Sourced(v)
  <2>1. v \notin r2
    BY <1>2, Bounds DEF Versions
  <2> QED BY <1>2, <2>1 DEF Sourced, NoVersion, Idle
<1> QED BY <1>1, <1>3, <1>4, <1>5, <1>7, <1>8, <1>9 DEF DeletionInv, DeletionParts

-----------------------------------------------------------------------------
(* A document from before the manifests.                                   *)

\* Nothing but a deletion stores or erases what such a document has.
LEMMA IndexStores ==
  ASSUME DeletionInv, IndexNext
  PROVE  (0 \in r2' => 0 \in r2) /\ (<<0, 0>> \in vectors' => <<0, 0>> \in vectors)
<1> USE DEF DeletionInv, WholeInv, OnceInv, TypeInv
<1>1. left.indexers \subseteq Indexers
  BY DEF LeftOK, Scenario
<1>2. 0 \notin Versions
  BY Bounds DEF Versions
<1>3. /\ UNCHANGED r2 \/ (\E v \in Versions : PutSource(v)) \/ CrashIndex
      /\ \/ UNCHANGED vectors \/ (\E w \in Indexers : Upsert(w)) \/ CleanVectors
  BY <1>1 DEF IndexNext, StageStep, IndexStep, BeginSource, AuthorizeSource, PutSource, CaptureSource, FailSource,
       CleanFailedSource, CompleteOnly, ReadPreparation, CheckChunk, PublishBatch, FailRead, MarkReady, ClaimChunk,
       AuthorizeChunk, Upsert, ConfirmChunk, Unsure, FinishVersion, PublishDocument, Unpublish, WithdrawAll,
       ClaimCleanup, CleanVectors, EndCleanup, Lapse, CrashIndex
<1>4. 0 \in r2' => 0 \in r2
  BY <1>2, <1>3 DEF PutSource, CrashIndex
<1>5. ASSUME NEW w \in Indexers, Upsert(w) PROVE <<0, 0>> \in vectors' => <<0, 0>> \in vectors
  <2>1. indexer[w].v \in Versions
    BY <1>5 DEF Upsert, At, IndexerOK
  <2>2. vectors' \subseteq vectors \cup {<<indexer[w].v, indexer[w].c>>}
    BY <1>5 DEF Upsert
  <2> QED BY <1>2, <2>1, <2>2
<1>6. CleanVectors => vectors' \subseteq vectors
  BY DEF CleanVectors
<1> QED BY <1>3, <1>4, <1>5, <1>6

\* If such a document is not updated it never has a version.
LEMMA LegacyUnstaged ==
  ASSUME DeletionInv, Legacy, left.legacy # "none", IndexNext, IndexOnly
  PROVE  /\ Staged' = {} /\ doc'.path = 0
         /\ left.legacy = "unknown" /\ del.state = "none" => doc'.status = "published"
<1> USE DEF DeletionInv, WholeInv, OnceInv, TypeInv
<1>1. left.updates = 0 /\ Staged = {} /\ doc.path = 0
  BY DEF Legacy
<1>2. \A v \in Versions : version[v].state = "none" /\ version[v].job = "none"
  BY <1>1 DEF Staged, DeletionParts, Rowed
<1>3. \A v \in Versions : ~BeginSource(v)
  BY <1>1 DEF BeginSource, Use
<1>4. \A v \in Versions : ~CleanFailedSource(v) /\ ~CompleteOnly(v)
                          /\ (CaptureSource(v) => UNCHANGED doc)
  BY <1>2 DEF CleanFailedSource, CompleteOnly, CaptureSource
<1>5. doc' = doc \/ \E s : doc' = [doc EXCEPT !.status = s]
  BY <1>3, <1>4 DEF IndexNext, StageStep, IndexStep, AuthorizeSource, PutSource, FailSource,
       ReadPreparation, CheckChunk, PublishBatch, FailRead, MarkReady, ClaimChunk,
       AuthorizeChunk, Upsert, ConfirmChunk, Unsure, FinishVersion, PublishDocument, Unpublish, WithdrawAll,
       ClaimCleanup, CleanVectors, EndCleanup, Lapse, CrashIndex
<1>6. doc'.path = 0
  BY <1>1, <1>5 DEF DocOK
<1>7. CASE del.state # "none"
  BY <1>1, <1>6, <1>7, NothingNew
<1>8. CASE del.state = "none"
  <2>1. \A v \in Versions : stager[v] = "idle"
    BY <1>2, <1>8 DEF DeletionParts, Sourced
  <2>2. \A w \in Indexers : indexer[w].pc = "idle"
    BY <2>1, Tended DEF DeletionParts
  <2>3. \A v \in Versions : ~StageStep(v)
    BY <2>1 DEF StageStep, AuthorizeSource, PutSource, CaptureSource, FailSource
  <2>4. \A w \in Indexers : ~IndexStep(w)
    BY <2>2 DEF IndexStep, At, PublishBatch, FailRead, MarkReady, ClaimChunk, AuthorizeChunk, Upsert, ConfirmChunk, Unsure,
                FinishVersion, PublishDocument
  <2>5. left.indexers \subseteq Indexers
    BY DEF LeftOK, Scenario
  <2>6. UNCHANGED version
    BY <1>1, <1>3, <1>4, <2>3, <2>4, <2>5
       DEF IndexNext, ReadPreparation, CheckChunk, Unpublish, WithdrawAll, ClaimCleanup, CleanVectors,
           EndCleanup, Lapse, CrashIndex
  <2>7. left.legacy = "unknown" => UNCHANGED doc
    <3>1. left.legacy = "unknown" => ~Unpublish
      BY DEF Legacy, Use, Unpublish
    <3>2. \A w \in left.indexers, v \in Versions : CheckChunk(w, v) => UNCHANGED doc
      BY DEF CheckChunk
    <3> QED BY <1>3, <1>4, <2>3, <2>4, <2>5, <3>1, <3>2
            DEF IndexNext, CleanFailedSource, CompleteOnly, ReadPreparation, WithdrawAll,
                ClaimCleanup, CleanVectors, EndCleanup, Lapse, CrashIndex
  <2> QED BY <1>1, <1>6, <1>8, <2>6, <2>7 DEF Staged, Legacy
<1> QED BY <1>7, <1>8

\* A scenario keeps its kind of document, and updates and unpublications only run out.
LEMMA LeftKept ==
  ASSUME LeftOK, KnowledgeNext
  PROVE  /\ left'.legacy = left.legacy /\ (left.updates = 0 => left'.updates = 0)
         /\ left.unpublishes = 0 => left'.unpublishes = 0
<1>1. \/ UNCHANGED left
      \/ \E what \in {"updates", "unpublishes", "deletes", "crashes", "losses", "delays"} : Use(what)
  <2>1. IndexNext =>
          \/ UNCHANGED left
          \/ \E what \in {"updates", "unpublishes", "deletes", "crashes", "losses", "delays"} : Use(what)
    BY DEF Free, IndexNext, StageStep, IndexStep, BeginSource, AuthorizeSource, PutSource, CaptureSource, FailSource,
       CleanFailedSource, CompleteOnly, ReadPreparation, CheckChunk, PublishBatch, FailRead, MarkReady, ClaimChunk,
       AuthorizeChunk, Upsert, ConfirmChunk, Unsure, FinishVersion, PublishDocument, Unpublish, WithdrawAll,
       ClaimCleanup, CleanVectors, EndCleanup, Lapse, CrashIndex
  <2>2. ASSUME NEW d, DeleterStep(d) \/ CrashDeleter(d)
        PROVE  \/ UNCHANGED left
               \/ \E what \in {"updates", "unpublishes", "deletes", "crashes", "losses", "delays"} : Use(what)
    BY <2>2 DEF DeleterStep, CrashDeleter, ClaimWork, MeetProducer, Park, Materialize, AuthorizeEffect, Effect,
       EndWork, FinalizeOne, OnlyDeletion, Runs, Free
  <2>3. (Revoke \/ \E i \in Items : LapseWork(i)) =>
          \/ UNCHANGED left
          \/ \E what \in {"updates", "unpublishes", "deletes", "crashes", "losses", "delays"} : Use(what)
    BY DEF Revoke, LapseWork, Free
  <2> QED BY <2>1, <2>2, <2>3 DEF KnowledgeNext
<1> QED BY <1>1 DEF Use, LeftOK, Scenario

\* Open work is not forgotten.
LEMMA OpenStays ==
  ASSUME DeletionInv, NEW d \in Deleters, DeleterStep(d) \/ CrashDeleter(d),
         ~(del.state # "done" /\ del'.state = "done")
  PROVE  \A i \in Items : Open(i) => Open(i)' \/ Gone(i)'
<1> USE DEF DeletionInv, WholeInv, OnceInv, TypeInv
<1> HIDE DEF Gone
<1>1. CASE UNCHANGED work
  BY <1>1 DEF Open
<1>2. CASE ClaimWork(d)
  <2>1. \A i \in Items : \/ work'[i].state = work[i].state
                         \/ work'[i].state \in {"claimed", "uncertain"}
    BY <1>2, TakenWork
  <2> QED BY <2>1 DEF Open
<1>3. CASE EndWork(d)
  <2>1. \A i \in Items : work'[i] = work[i] \/ work'[i].state = "uncertain" \/ Gone(i)'
    BY <1>3, EndedWork
  <2> QED BY <2>1 DEF Open
<1>4. CASE Materialize(d)
  <2>1. UNCHANGED work \/ \E k : Pend(k)
    BY <1>4 DEF Materialize, LaySources, LayVectors
  <2>2. ASSUME NEW k, Pend(k) PROVE \A i \in Items : work'[i] = work[i] \/ work[i].state = "none"
    BY <2>2 DEF Pend, WorkOK
  <2> QED BY <1>1, <2>1, <2>2 DEF Open
<1>5. CASE FinalizeOne(d)
  <2>1. deleter[d].item = Finalize /\ Finalize \in Items
    BY <1>5, ItemKeys DEF FinalizeOne
  <2>2. CASE SetWork(d, "uncertain")
    <3>1. \A i \in Items : work'[i] = work[i] \/ work'[i].state = "uncertain"
      BY <2>1, <2>2, SetWorkRow
    <3> QED BY <3>1 DEF Open
  <2>3. CASE Owns(d) /\ RemoveRows(d)
    <3>1. Deleting
      BY <1>5, <2>3, OwnerFinds
    <3>2. UNCHANGED del
      BY <2>3, <3>1 DEF RemoveRows, NoDelete, Deleting
    <3>3. \A i \in Items :
            \/ work'[i] = work[i]
            \/ work'[i].state \in {"pending", "uncertain"}
            \/ work[i].state = "complete"
      BY <1>5, <2>3, <3>2, WorkGoes
    <3> QED BY <3>3 DEF Open
  <2> QED BY <1>5, <2>2, <2>3 DEF FinalizeOne
<1> QED BY <1>1, <1>2, <1>3, <1>4, <1>5
        DEF DeleterStep, CrashDeleter, MeetProducer, Park, AuthorizeEffect, Effect

\* A step after which such a document's source and vector, if they are still
\* stored, are as sure to be erased as before.
LEMMA LegacyKept ==
  ASSUME Legacy, left'.legacy = left.legacy,
         left.legacy # "none" => left'.updates = 0 /\ Staged' = {} /\ doc'.path = 0,
         left.legacy = "unknown" =>
           left'.unpublishes = 0 /\ (del'.state = "none" => doc'.status = "published"),
         0 \in r2' => 0 \in r2, <<0, 0>> \in vectors' => <<0, 0>> \in vectors,
         del'.state = "done" => del.state = "done",
         del.state = "none" => del'.state = "none",
         del'.legacyPath = del.legacyPath,
         SourcesClosed => SourcesClosed' /\ (Open(SourceItem(0)) => Open(SourceItem(0))' \/ Gone(SourceItem(0))'),
         SourcesClosed' => SourcesClosed \/ ~del.legacyPath \/ Open(SourceItem(0))',
         del'.legacyCount = 0 => del.legacyCount = 0 \/ Open(VectorItem(0, 0))' \/ Gone(VectorItem(0, 0))',
         Open(VectorItem(0, 0)) => Open(VectorItem(0, 0))' \/ Gone(VectorItem(0, 0))'
  PROVE  Legacy'
<1>1. /\ Gone(SourceItem(0))' => 0 \notin r2'
      /\ Gone(VectorItem(0, 0))' => <<0, 0>> \notin vectors'
  BY DEF Gone, SourceItem, VectorItem
<1> HIDE DEF Open, Gone, SourcesClosed
<1>2. 0 \in r2' => /\ left'.legacy # "none" /\ del'.state # "done"
                   /\ del'.state = "none" \/ IF SourcesClosed' THEN Open(SourceItem(0))' ELSE del'.legacyPath
  BY <1>1 DEF Legacy
<1>3. <<0, 0>> \in vectors' =>
        /\ left'.legacy # "none" /\ del'.state # "done"
        /\ del'.state = "none" \/ del'.legacyCount # 0 \/ Open(VectorItem(0, 0))'
  BY <1>1 DEF Legacy
<1> QED BY <1>2, <1>3 DEF Legacy

\* A step of the indexing, or the end of a lease of work.
LEMMA AsideLegacy ==
  ASSUME LegacyInv, (IndexNext /\ IndexOnly) \/ \E i \in Items : LapseWork(i)
  PROVE  Legacy'
<1> USE DEF LegacyInv, DeletionInv, WholeInv, OnceInv, TypeInv
<1>1. /\ left'.legacy = left.legacy /\ (left.updates = 0 => left'.updates = 0)
      /\ left.unpublishes = 0 => left'.unpublishes = 0
  BY LeftKept DEF KnowledgeNext
<1>2. CASE IndexNext /\ IndexOnly
  <2>1. SamePhase
    BY <1>2, IndexingServes, UnparkSamePhase
  <2>2. SourcesClosed' = SourcesClosed
    BY <2>1, PhaseKept
  <2>3. UNCHANGED work
    BY <1>2 DEF IndexOnly
  <2>4. \A i \in Items : Open(i)' <=> Open(i)
    BY <2>3 DEF Open
  <2>5. SourceItem(0) \in Items /\ VectorItem(0, 0) \in Items
    BY ItemKeys, Bounds
  <2>6. left.legacy # "none" => left'.updates = 0 /\ Staged' = {} /\ doc'.path = 0
    BY <1>1, <1>2, LegacyUnstaged DEF Legacy
  <2>9. left.legacy = "unknown" =>
          left'.unpublishes = 0 /\ (del'.state = "none" => doc'.status = "published")
    BY <1>1, <1>2, <2>1, LegacyUnstaged DEF Legacy, SamePhase
  <2>7. (0 \in r2' => 0 \in r2) /\ (<<0, 0>> \in vectors' => <<0, 0>> \in vectors)
    BY <1>2, IndexStores
  <2>8. /\ del'.state = "done" => del.state = "done"
        /\ del.state = "none" => del'.state = "none"
        /\ del'.legacyPath = del.legacyPath /\ del'.legacyCount = del.legacyCount
    BY <2>1 DEF SamePhase
  <2> HIDE DEF Open, Gone, SourcesClosed, LegacyInv
  <2> QED BY <1>1, <2>2, <2>4, <2>5, <2>6, <2>7, <2>8, <2>9, LegacyKept DEF LegacyInv
<1>3. ASSUME NEW k \in Items, LapseWork(k) PROVE Legacy'
  <2>1. UNCHANGED <<doc, version, r2, vectors, del>>
    BY <1>3 DEF LapseWork
  <2>2. \A i \in Items : work'[i].state = work[i].state
    BY <1>3 DEF LapseWork, WorkOK, WorkRow
  <2>3. SourceItem(0) \in Items /\ VectorItem(0, 0) \in Items
    BY ItemKeys, Bounds
  <2>4. /\ Open(SourceItem(0))' <=> Open(SourceItem(0))
        /\ Open(VectorItem(0, 0))' <=> Open(VectorItem(0, 0))
    BY <2>2, <2>3 DEF Open, SourceItem, VectorItem
  <2> HIDE DEF Open
  <2> QED BY <1>1, <2>1, <2>4 DEF Legacy, Staged, SourcesClosed
<1> QED BY <1>2, <1>3

\* The deletion begins: what is stored is there by its path and by its count.
LEMMA RevokeLegacy ==
  ASSUME LegacyInv, Revoke
  PROVE  Legacy'
<1> USE DEF LegacyInv, DeletionInv, WholeInv, OnceInv, TypeInv
<1>1. UNCHANGED <<r2, vectors>> /\ del.state = "none" /\ doc' = [status |-> "absent", path |-> 0]
  BY DEF Revoke
<1>2. /\ left'.legacy = left.legacy /\ (left.updates = 0 => left'.updates = 0)
      /\ left.unpublishes = 0 => left'.unpublishes = 0
  BY LeftKept DEF KnowledgeNext
<1>3. left.legacy # "none" => Staged' = {}
  <2> SUFFICES ASSUME left.legacy # "none" PROVE Staged' = {}
    OBVIOUS
  <2>1. Staged = {}
    BY DEF Legacy
  <2>2. LatestVersion \notin Versions
    BY <2>1, Bounds DEF LatestVersion, Versions
  <2>3. \A v \in Versions : version'[v] = version[v]
    BY <2>2 DEF Revoke
  <2> QED BY <2>1, <2>3 DEF Staged
<1>4. left.legacy # "none" => del'.legacyPath /\ del'.legacyCount # 0
  <2> SUFFICES ASSUME left.legacy # "none" PROVE del'.legacyPath /\ del'.legacyCount # 0
    OBVIOUS
  <2>1. Staged = {} /\ doc.path = 0
    BY DEF Legacy
  <2>2. del'.legacyPath = TRUE
    BY <2>1 DEF Revoke, NoDelete
  <2>3. del'.legacyCount = LegacyCount
    BY DEF Revoke, NoDelete
  <2>4. LegacyCount # 0
    <3>1. CASE left.legacy = "counted"
      BY <2>1, <3>1 DEF LegacyCount
    <3>2. CASE left.legacy = "unknown"
      <4>1. doc.status = "published"
        BY <1>1, <3>2 DEF Legacy
      <4> QED BY <2>1, <3>2, <4>1 DEF LegacyCount
    <3>3. left.legacy \in {"counted", "unknown"}
      BY DEF LeftOK, Scenario, Kinds
    <3> QED BY <3>1, <3>2, <3>3
  <2> QED BY <2>2, <2>3, <2>4
<1>5. del'.state = "active" /\ ~SourcesClosed'
  BY DEF Revoke, NoDelete, SourcesClosed
<1> HIDE DEF SourcesClosed, Open
<1> QED BY <1>1, <1>2, <1>3, <1>4, <1>5 DEF Legacy

\* Laying out the manifest: what such a document has goes into it.
LEMMA LayLegacy ==
  ASSUME DeletionInv, NEW d \in Deleters, Materialize(d)
  PROVE  /\ del'.state \notin {"none", "done"} /\ del'.legacyPath = del.legacyPath
         /\ SourcesClosed => SourcesClosed'
         /\ SourcesClosed' => SourcesClosed \/ ~del.legacyPath \/ Open(SourceItem(0))'
         /\ del'.legacyCount = 0 => \/ del.legacyCount = 0 \/ Open(VectorItem(0, 0))'
                                    \/ Gone(VectorItem(0, 0))'
<1> USE DEF DeletionInv, WholeInv, OnceInv, TypeInv
<1> DEFINE u == Unpark
<1>1. /\ Deleting /\ UNCHANGED vectors
      /\ \A f \in DelFields \ {"state"} : u[f] = del[f]
      /\ u = [f \in DelFields |-> u[f]] /\ u.state \notin {"none", "done"}
  BY MaterializeShape
<1>2. del.state \notin {"none", "done"}
  BY <1>1 DEF Deleting
<1>3. SourceItem(0) \in Items /\ VectorItem(0, 0) \in Items
  BY ItemKeys, Bounds
<1>4. CASE ~del.sourcesDone
  <2> DEFINE rest == {v \in Staged : v > del.source /\ v <= del.max}
             next == CHOOSE v \in rest : \A w \in rest : v <= w
  <2>1. LaySources
    BY <1>4 DEF Materialize
  <2>2. del.source = -1 =>
          /\ del' = [u EXCEPT !.source = 0]
          /\ IF del.legacyPath THEN Pend(SourceItem(0)) ELSE UNCHANGED work
    BY <2>1 DEF LaySources
  <2>3. del.source # -1 => \/ del' = [u EXCEPT !.source = next]
                           \/ del' = [u EXCEPT !.sourcesDone = TRUE]
    BY <2>1 DEF LaySources
  <2>4. del.source = -1 /\ del.legacyPath => Open(SourceItem(0))'
    <3> SUFFICES ASSUME del.source = -1, del.legacyPath PROVE Open(SourceItem(0))'
      OBVIOUS
    <3>1. ~SourcesClosed
      BY <1>2, <1>4 DEF SourcesClosed
    <3>2. work[SourceItem(0)].state = "none"
      BY <1>3, <3>1 DEF DeletionParts, Working, Closed, SourceItem
    <3>3. work'[SourceItem(0)].state = "pending"
      BY <1>3, <2>2, <3>2, PendRow
    <3> QED BY <3>3 DEF Open, SourceItem
  <2>5. /\ del'.state \notin {"none", "done"} /\ del'.legacyPath = del.legacyPath
        /\ del'.legacyCount = del.legacyCount
        /\ SourcesClosed => SourcesClosed'
    <3> HIDE DEF next, u
    <3>1. CASE del.source = -1
      BY <1>1, <1>2, <1>4, <2>2, <3>1 DEF DelFields, SourcesClosed
    <3>2. CASE del.source # -1 /\ del' = [u EXCEPT !.sourcesDone = TRUE]
      BY <1>1, <3>2 DEF DelFields, SourcesClosed
    <3>3. CASE del.source # -1 /\ del' = [u EXCEPT !.source = next] /\ rest # {}
      <4>1. next # -1
        <5>1. rest \subseteq 1 .. MaxVersion
          BY DEF Staged, Versions
        <5> HIDE DEF rest
        <5>2. \E m \in rest : \A w \in rest : m <= w
          <6>1. MaxVersion \in Nat /\ rest \subseteq -1 .. MaxVersion /\ rest # {}
            BY <3>3, <5>1, Bounds
          <6> QED BY <6>1, LeastExists
        <5>3. next \in rest
          BY <5>2 DEF next
        <5> QED BY <5>1, <5>3
      <4> QED BY <1>1, <3>3, <4>1 DEF DelFields, SourcesClosed
    <3>4. CASE del.source # -1 /\ rest = {}
      <4>1. del' = [u EXCEPT !.sourcesDone = TRUE]
        BY <2>1, <3>4 DEF LaySources, u
      <4> QED BY <3>2, <3>4, <4>1
    <3> QED BY <2>3, <3>1, <3>2, <3>3, <3>4
  <2>6. del.source # -1 => SourcesClosed
    BY DEF SourcesClosed
  <2> HIDE DEF SourcesClosed, Open, Gone
  <2> QED BY <2>4, <2>5, <2>6
<1>5. CASE del.sourcesDone /\ ~del.vectorsDone
  <2> DEFINE rows == {p \in ChunksIn(ChunkStates \ {"none"}) : p[1] <= del.max /\ After(p, del.cut)}
             next == FirstOf(rows)
             unknown == del' = [u EXCEPT !.state = "legacy_manifest_required"]
             known == del' = [u EXCEPT !.legacyCount = 0] /\ Pend(VectorItem(0, 0))
             laid == del' = [u EXCEPT !.vectorsDone = TRUE, !.state = "finalizing"]
  <2>1. LayVectors
    BY <1>5 DEF Materialize
  <2>2. del' = [u EXCEPT !.cut = next] \/ unknown \/ known \/ laid
    <3>1. rows # {} => del' = [u EXCEPT !.cut = next]
      BY <2>1 DEF LayVectors
    <3>2. rows = {} => CASE del.legacyCount = -1 -> unknown /\ UNCHANGED work
                         [] del.legacyCount = 1 -> known
                         [] OTHER -> laid /\ UNCHANGED work
      BY <2>1 DEF LayVectors
    <3> HIDE DEF rows, unknown, known, laid
    <3> QED BY <3>1, <3>2
  <2>3. SourcesClosed
    BY <1>5 DEF SourcesClosed
  <2>4. known => Open(VectorItem(0, 0))' \/ Gone(VectorItem(0, 0))'
    <3> SUFFICES ASSUME Pend(VectorItem(0, 0)) PROVE Open(VectorItem(0, 0))' \/ Gone(VectorItem(0, 0))'
      OBVIOUS
    <3>1. work[VectorItem(0, 0)].state = "complete" => Gone(VectorItem(0, 0))
      BY <1>3 DEF DeletionParts, Working
    <3>2. Gone(VectorItem(0, 0)) => Gone(VectorItem(0, 0))'
      BY <1>1 DEF Gone, VectorItem
    <3>3. work'[VectorItem(0, 0)].state = IF work[VectorItem(0, 0)].state = "none" THEN "pending"
                                          ELSE work[VectorItem(0, 0)].state
      BY <1>3, PendRow
    <3>4. work[VectorItem(0, 0)].state \in {"none", "pending", "claimed", "uncertain", "complete"}
      BY <1>3 DEF WorkOK, WorkRow
    <3>5. work'[VectorItem(0, 0)].state \in {"pending", "claimed", "uncertain"} => Open(VectorItem(0, 0))'
      BY DEF Open, VectorItem
    <3> HIDE DEF Gone
    <3> QED BY <3>1, <3>2, <3>3, <3>4, <3>5
  <2>5. /\ del'.state \notin {"none", "done"} /\ del'.legacyPath = del.legacyPath /\ SourcesClosed'
        /\ del'.legacyCount = del.legacyCount \/ known
    <3> HIDE DEF next, u
    <3> QED BY <1>1, <1>2, <1>5, <2>2 DEF DelFields, SourcesClosed
  <2> HIDE DEF SourcesClosed, Open, Gone, known
  <2> QED BY <2>3, <2>4, <2>5
<1>6. CASE del.sourcesDone /\ del.vectorsDone
  <2>1. UNCHANGED del
    BY <1>6 DEF Materialize
  <2> QED BY <1>2, <2>1 DEF SourcesClosed
<1> QED BY <1>4, <1>5, <1>6

\* A deletion step: open work is not forgotten, and the last batch finds none.
LEMMA DeleterLegacy ==
  ASSUME LegacyInv, NEW d \in Deleters, DeleterStep(d) \/ CrashDeleter(d), KnowledgeNext
  PROVE  Legacy'
<1> USE DEF LegacyInv, DeletionInv, WholeInv, OnceInv, TypeInv
<1>1. /\ left'.legacy = left.legacy /\ (left.updates = 0 => left'.updates = 0)
      /\ left.unpublishes = 0 => left'.unpublishes = 0
  BY LeftKept
<1>2. UNCHANGED doc /\ r2' \subseteq r2 /\ vectors' \subseteq vectors
  BY DEF DeleterStep, CrashDeleter, ClaimWork, MeetProducer, Park, Materialize, AuthorizeEffect, Effect,
         EndWork, FinalizeOne, OnlyDeletion, Erase
<1>3. Staged' \subseteq Staged
  BY EndsEmpty
<1>4. left.legacy # "none" => left'.updates = 0 /\ Staged' = {} /\ doc'.path = 0
  BY <1>1, <1>2, <1>3 DEF Legacy
<1>5. SourceItem(0) \in Items /\ VectorItem(0, 0) \in Items
  BY ItemKeys, Bounds
<1>6. CASE del.state # "done" /\ del'.state = "done"
  <2>1. FinalizeOne(d) /\ Owns(d) /\ RemoveRows(d) /\ del' = [NoDelete EXCEPT !.state = "done"]
    <3>1. ~Materialize(d)
      BY <1>6, LayLegacy
    <3>2. ~Park(d)
      BY <1>6 DEF Park, Quiet, DelShape, DelFields
    <3>3. FinalizeOne(d) /\ ~UNCHANGED del
      BY <1>6, <3>1, <3>2 DEF DeleterStep, CrashDeleter, ClaimWork, MeetProducer, AuthorizeEffect, Effect, EndWork
    <3> QED BY <3>3 DEF FinalizeOne, RemoveRows
  <2>2. Deleting /\ del.vectorsDone /\ del.sourcesDone
    BY <2>1, OwnerFinds
  <2>3. Others = {}
    BY <1>6, <2>1 DEF RemoveRows
  <2>4. \A i \in Items : Open(i) => i = Finalize
    BY <2>3 DEF Open, Others
  <2>5. ~Open(SourceItem(0)) /\ ~Open(VectorItem(0, 0))
    BY <1>5, <2>4 DEF SourceItem, VectorItem, Finalize
  <2>6. SourcesClosed /\ del.legacyCount = 0 /\ del.state # "none"
    BY <2>2 DEF SourcesClosed, DeletionParts, Phased, Deleting
  <2>7. 0 \notin r2 /\ <<0, 0>> \notin vectors
    <3> HIDE DEF SourcesClosed, Open
    <3> QED BY <2>5, <2>6 DEF Legacy
  <2>8. 0 \notin r2' /\ <<0, 0>> \notin vectors'
    BY <1>2, <2>7
  <2>9. del'.state # "none"
    BY <1>6
  <2> QED BY <1>1, <1>4, <2>8, <2>9 DEF Legacy
<1>7. CASE ~(del.state # "done" /\ del'.state = "done")
  <2>1. \A i \in Items : Open(i) => Open(i)' \/ Gone(i)'
    BY <1>7, OpenStays
  <2>2. /\ Open(SourceItem(0)) => Open(SourceItem(0))' \/ Gone(SourceItem(0))'
        /\ Open(VectorItem(0, 0)) => Open(VectorItem(0, 0))' \/ Gone(VectorItem(0, 0))'
    <3>1. PICK s \in Items, t \in Items : s = SourceItem(0) /\ t = VectorItem(0, 0)
      BY <1>5
    <3>2. (Open(s) => Open(s)' \/ Gone(s)') /\ (Open(t) => Open(t)' \/ Gone(t)')
      BY <2>1
    <3> QED BY <3>1, <3>2 DEF Open, Gone, SourceItem, VectorItem
  <2>3. /\ del.state = "none" <=> del'.state = "none"
        /\ del'.legacyPath = del.legacyPath
        /\ SourcesClosed => SourcesClosed'
        /\ SourcesClosed' => SourcesClosed \/ ~del.legacyPath \/ Open(SourceItem(0))'
        /\ del'.legacyCount = 0 => \/ del.legacyCount = 0 \/ Open(VectorItem(0, 0))'
                                   \/ Gone(VectorItem(0, 0))'
    <3>1. CASE Materialize(d)
      <4>1. Deleting
        BY <3>1, MaterializeShape
      <4> QED BY <3>1, <4>1, LayLegacy DEF Deleting
    <3>2. CASE UNCHANGED del
      BY <3>2 DEF SourcesClosed
    <3>3. CASE Park(d)
      <4>1. SamePhase
        BY <3>3 DEF Park, SamePhase, Quiet, DelShape, DelFields
      <4>2. SourcesClosed' = SourcesClosed
        BY <4>1, PhaseKept
      <4> QED BY <4>1, <4>2 DEF SamePhase
    <3>4. CASE FinalizeOne(d)
      <4>1. UNCHANGED del \/ (Owns(d) /\ RemoveRows(d) /\ del' = [NoDelete EXCEPT !.state = "done"])
        BY <3>4 DEF FinalizeOne, RemoveRows
      <4>2. ~UNCHANGED del => del'.state = "done" /\ Deleting
        BY <3>4, <4>1, OwnerFinds DEF NoDelete
      <4>3. UNCHANGED del
        BY <1>7, <4>2 DEF Deleting
      <4> QED BY <3>2, <4>3
    <3> QED BY <3>1, <3>2, <3>3, <3>4
            DEF DeleterStep, CrashDeleter, ClaimWork, MeetProducer, AuthorizeEffect, Effect, EndWork
  <2>4. left.legacy = "unknown" =>
          left'.unpublishes = 0 /\ (del'.state = "none" => doc'.status = "published")
    BY <1>1, <1>2, <2>3 DEF Legacy
  <2> HIDE DEF Open, Gone, SourcesClosed, LegacyInv
  <2> QED BY <1>1, <1>2, <1>4, <1>7, <2>2, <2>3, <2>4, LegacyKept DEF LegacyInv
<1> QED BY <1>6, <1>7

\* Such a document is there from the start, with no manifest.
LEMMA InitLegacy ==
  ASSUME NeverEdited, DeletionInit
  PROVE  LegacyInv
<1>1. DeletionInv
  BY InitDeletion
<1>2. /\ left \in Scenarios /\ doc.path = 0 /\ del.state = "none"
      /\ left.legacy # "none" => doc.status = "published"
      /\ version = [v \in Versions |-> NoVersion]
      /\ r2 = IF left.legacy = "none" THEN {} ELSE {0}
      /\ vectors = IF left.legacy = "none" THEN {} ELSE {<<0, 0>>}
  BY DEF DeletionInit, KnowledgeInit, NoDelete
<1>3. Staged = {}
  BY <1>2 DEF Staged, NoVersion
<1>4. Legacy
  BY <1>2, <1>3 DEF Legacy, NeverEdited
<1> QED BY <1>1, <1>4 DEF LegacyInv

LEMMA NextLegacy == LegacyInv /\ [KnowledgeNext]_knowledgeVars => LegacyInv'
<1> SUFFICES ASSUME LegacyInv, [KnowledgeNext]_knowledgeVars PROVE Legacy'
  BY NextDeletion DEF LegacyInv
<1>1. left.deleters \subseteq Deleters
  BY DEF LegacyInv, DeletionInv, WholeInv, OnceInv, TypeInv, LeftOK, Scenario
<1>2. CASE KnowledgeNext
  BY <1>1, <1>2, AsideLegacy, RevokeLegacy, DeleterLegacy DEF KnowledgeNext
<1>3. CASE UNCHANGED knowledgeVars
  BY <1>3 DEF knowledgeVars, indexVars, LegacyInv, Legacy, Open, SourcesClosed, Staged
<1> QED BY <1>2, <1>3

-----------------------------------------------------------------------------
(* The theorems.                                                           *)

\* What the manifests of a finished deletion list is gone, and so are the
\* manifests.
LEMMA DoneErased ==
  ASSUME DeletionInv, del.state = "done"
  PROVE  /\ r2 \subseteq {0} /\ vectors \subseteq {<<0, 0>>} /\ Staged = {}
         /\ \A v \in Versions, c \in ChunkIds : chunk[v][c] = "none"
<1> USE DEF DeletionInv, WholeInv, OnceInv, TypeInv
<1>1. Staged = {} /\ ~Deleting
  BY DEF Deleting
<1>2. \A v \in Versions, c \in ChunkIds : chunk[v][c] = "none"
  BY <1>1 DEF Staged, DeletionParts, Rowed
<1>3. \A i \in Items : ~Open(i)
  BY <1>1 DEF DeletionParts, Working, Open
<1>4. ASSUME NEW v \in Versions PROVE v \notin r2
  <2>1. SourceItem(v) \in Items /\ Listed(v)
    BY ItemKeys DEF Listed, Versions
  <2>2. Gone(SourceItem(v))
    BY <1>3, <2>1 DEF DeletionParts, Working
  <2> QED BY <2>2 DEF Gone, SourceItem
<1>5. ASSUME NEW v \in Versions, NEW c \in ChunkIds PROVE <<v, c>> \notin vectors
  <2>1. VectorItem(v, c) \in Items /\ Recorded(v, c)
    BY ItemKeys DEF Recorded
  <2>2. Gone(VectorItem(v, c))
    BY <1>3, <2>1 DEF DeletionParts, Working
  <2> QED BY <2>2 DEF Gone, VectorItem
<1>6. r2 \subseteq {0}
  BY <1>4, Bounds DEF StoresOK, Versions
<1>7. vectors \subseteq {<<0, 0>>}
  BY <1>5 DEF StoresOK
<1> QED BY <1>1, <1>2, <1>6, <1>7

\* Whatever was being stored, indexed, cleaned or withdrawn when a deletion began,
\* whichever steps and instances died, lost an answer or were late, and however
\* many deleters worked at once, a deletion that is finished has erased every
\* source and every vector of every version that was ever staged, and removed
\* their rows.
THEOREM DeletionErases ==
  KnowledgeSpec =>
    [](del.state = "done" =>
         /\ r2 \subseteq {0} /\ vectors \subseteq {<<0, 0>>} /\ Staged = {}
         /\ \A v \in Versions, c \in ChunkIds : chunk[v][c] = "none")
<1> DEFINE Erased == del.state = "done" =>
             /\ r2 \subseteq {0} /\ vectors \subseteq {<<0, 0>>} /\ Staged = {}
             /\ \A v \in Versions, c \in ChunkIds : chunk[v][c] = "none"
<1>1. DeletionInv => Erased
  BY DoneErased
<1> HIDE DEF Erased
<1>2. KnowledgeSpec => []Erased
  BY <1>1, InitDeletion, NextDeletion, PTL DEF KnowledgeSpec
<1> QED BY <1>2 DEF Erased

\* It has also erased the source and the vectors of a document from before the
\* manifests, with two exceptions that leave them behind: an update replaces the
\* path and the count by which the deletion would find them, and unpublishing a
\* document whose vectors were never counted makes the deletion take its count to
\* be zero.
THEOREM DeletedWhole ==
  ASSUME NeverEdited
  PROVE  KnowledgeSpec => []DeletedLeavesNothing
<1>1. LegacyInv => DeletedLeavesNothing
  <2> SUFFICES ASSUME LegacyInv, del.state = "done"
               PROVE  /\ r2 = {} /\ vectors = {} /\ Staged = {}
                      /\ \A v \in Versions, c \in ChunkIds : chunk[v][c] = "none"
    BY DEF DeletedLeavesNothing
  <2>1. /\ r2 \subseteq {0} /\ vectors \subseteq {<<0, 0>>} /\ Staged = {}
        /\ \A v \in Versions, c \in ChunkIds : chunk[v][c] = "none"
    BY DoneErased DEF LegacyInv
  <2>2. 0 \notin r2 /\ <<0, 0>> \notin vectors
    BY DEF LegacyInv, Legacy
  <2> QED BY <2>1, <2>2
<1>2. DeletionInit => LegacyInv
  BY InitLegacy
<1> QED BY <1>1, <1>2, NextLegacy, PTL DEF KnowledgeSpec

=============================================================================

---------------------------- MODULE MCKnowledge ----------------------------
(* One document with up to two versions of up to two chunks. *)
EXTENDS KnowledgeDeletion

CONSTANTS w1, w2, d1, d2

\* A document that is created, indexed and deleted, and what disturbs it.
Calm == [legacy |-> "none", chunks |-> 1, indexers |-> {w1}, deleters |-> {d1},
         updates |-> 0, unpublishes |-> 0, deletes |-> 1,
         crashes |-> 0, losses |-> 0, delays |-> 0]
Disturbed ==
  {[Calm EXCEPT !.losses = 1, !.chunks = 2],
   [Calm EXCEPT !.crashes = 2],
   [Calm EXCEPT !.updates = 1],
   [Calm EXCEPT !.updates = 1, !.deletes = 0, !.indexers = {w1, w2}],
   [Calm EXCEPT !.unpublishes = 1],
   [Calm EXCEPT !.deletes = 2, !.chunks = 2, !.indexers = {w1, w2}],
   [Calm EXCEPT !.delays = 1, !.deleters = {d1, d2}],
   [Calm EXCEPT !.legacy = "counted", !.losses = 1],
   [Calm EXCEPT !.legacy = "counted", !.unpublishes = 1],
   [Calm EXCEPT !.legacy = "unknown", !.deletes = 2]}

\* Documents from before the manifests that are edited, then deleted: an update
\* resets the count of vectors, and so does an unpublish, also where it was unknown.
Leftovers == {[Calm EXCEPT !.legacy = "counted", !.updates = 1],
              [Calm EXCEPT !.legacy = "unknown", !.unpublishes = 1]}

\* A document that is updated while it is indexed.
Edited == {[Calm EXCEPT !.updates = 1, !.deletes = 0]}
=============================================================================

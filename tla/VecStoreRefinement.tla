------------------------- MODULE VecStoreRefinement -------------------------
(***************************************************************************)
(* The write path of VecStore implements the index of VectorDB: an id is   *)
(* in the index when its record is in the vector file and its row is       *)
(* committed.  An insertion takes effect at the rename, a deletion at the  *)
(* commit of its rows, an updated vector when stdio writes it, updated     *)
(* metadata at the commit.                                                 *)
(***************************************************************************)
EXTENDS VecStore

Stored == IdsOf(main) \cap DOMAIN db.rows

RecordOf(img, i) ==
  img.recs[CHOOSE p \in 1 .. Len(img.recs) : img.recs[p].id = i]

Kind == IF pc \in {"idle", "down"} THEN "none"
        ELSE IF pc \in {"update", "flush", "answer", "undo"} THEN "update"
        ELSE IF ids # {} THEN "delete" ELSE "insert"

Took == \/ Kind = "insert" /\ pc = "reopen"
        \/ Kind = "delete" /\ pc \in {"rename", "reopen"}
        \/ pc \in {"flush", "answer"}

StoredVectors == [i \in Stored |-> RecordOf(main, i).vec]
StoredMetas   == [i \in Stored |-> db.rows[i]]
Request       == [kind |-> Kind, items |-> batch, ids |-> ids]
Phase         == IF pc \in {"idle", "down"} THEN pc
                 ELSE IF Took THEN "done" ELSE "asked"

Abs == INSTANCE VectorDB WITH
  vectors <- StoredVectors, metas <- StoredMetas, last <- db.seq,
  request <- Request, phase <- Phase

\* Every behaviour of the write path is one of the abstract index, whatever
\* the batches, deletions and updates, and wherever the process dies.
Implements == Abs!Spec
=============================================================================

----------------------------- MODULE MCVecStore -----------------------------
(* Small arguments for VecStore: single items and pairs, an invalid vector   *)
(* first, an unknown id after a known one, a batch longer than one chunk.    *)
EXTENDS VecStoreRefinement

CONSTANTS v1, v2, m1, m2

Ins(v, m) == [vec |-> v, meta |-> m]
Upd(i, v, m) == [id |-> i, vec |-> v, meta |-> m]

MCInsertBatches ==
  { <<Ins(v1, m1)>>, <<Ins(BadVec, m1)>>, <<Ins(v2, m2), Ins(v1, m1)>>,
    <<Ins(BadVec, m1), Ins(v1, m2)>> }

MCUpdateBatches ==
  { <<Upd(1, v2, m2)>>, <<Upd(1, v2, NoMeta), Upd(3, v2, m1)>>,
    <<Upd(2, BadVec, m2)>>, <<Upd(2, NoVec, m1), Upd(3, v1, m2)>> }

MCIdLists == (SUBSET (1 .. 3)) \cup {{2, 4}}

MCFilters == {{m1}, {m2}, {}}

\* Fewer arguments for the run in which everything may fail
FewInsertBatches == {<<Ins(v1, m1)>>, <<Ins(v2, m2), Ins(v1, m1)>>}

FewUpdateBatches == {<<Upd(1, v2, m2)>>, <<Upd(1, v2, NoMeta), Upd(3, v2, m1)>>,
                     <<Upd(1, v2, NoMeta), Upd(2, NoVec, m1)>>}

FewIdLists == {{1}, {2, 3}}
=============================================================================

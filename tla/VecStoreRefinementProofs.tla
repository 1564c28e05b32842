---------------------- MODULE VecStoreRefinementProofs ----------------------
(***************************************************************************)
(* The proof that VecStore implements VectorDB while SQLite reports no     *)
(* error and the process may die anywhere: the invariant that says, at     *)
(* each point of an operation, what the program's state owes the abstract  *)
(* index; then one lemma for each way a step maps to an abstract step.     *)
(***************************************************************************)
EXTENDS VecStoreRefinement, VecStoreProofs

-----------------------------------------------------------------------------
(* The invariant                                                           *)

\* What an operation is for, and where the transaction is open.
InOrder ==
  /\ pc # "nothing"
  /\ inTxn <=> pc \in {"item", "rows", "update", "undo"}
  /\ ~inTxn => work = db
  /\ pc \in {"open", "item"} => valid # <<>>
  /\ pc \in {"idle", "down"} => batch = <<>> /\ ids = {}
  /\ pc \in InsertPcs \cup UpdatePcs => ids = {}
  /\ pc \in {"scan", "rows"} => ids # {}

\* stdio holds back at most the vector that an update has written last.
Unwritten ==
  \/ wbuf = <<>>
  \/ /\ pc \in {"update", "flush"}
     /\ \E p \in 1 .. Len(main.recs), j \in 1 .. Len(batch) :
          /\ batch[j].vec \in Vectors /\ main.recs[p].id = batch[j].id
          /\ wbuf = [q \in {p} |-> batch[j].vec]

\* Of the first n items of an insertion, those with the right dimensions are
\* the valid ones, in their order.
Fit == {j \in 1 .. Len(batch) : batch[j].vec \in Vectors}
RankOf(j) == Cardinality({i \in Fit : i <= j})

Selected(n) ==
  /\ Len(valid) = Cardinality({j \in Fit : j <= n})
  /\ \A j \in Fit : j <= n => RankOf(j) \in 1 .. Len(valid) /\ valid[RankOf(j)] = batch[j]
  /\ \A m \in 1 .. Len(valid) : \E j \in Fit : j <= n /\ RankOf(j) = m

Inserting == pc = "rename" /\ ids = {}

Chosen ==
  /\ pc = "filter" => Selected(k - 1)
  /\ pc \in {"open", "item", "append"} \/ Inserting => Selected(Len(batch))

\* The records collected are numbered on from low, which is above all others.
NumberedFrom(low) ==
  /\ low \in Nat
  /\ \A i \in IdsOf(main) : i <= low
  /\ \A j \in 1 .. Len(buf) : buf[j].id = low + j

Prepared ==
  /\ pc \in {"open", "item", "append"} => temp.recs = main.recs
  /\ pc = "item" =>
       /\ NumberedFrom(db.seq) /\ work.seq = db.seq + Len(buf)
       /\ \A i \in DOMAIN db.rows : i \in DOMAIN work.rows /\ work.rows[i] = db.rows[i]
  /\ pc = "append" \/ Inserting =>
       /\ buf # <<>> /\ Len(buf) = Len(valid)
       /\ NumberedFrom(db.seq - Len(buf))
       /\ \A j \in 1 .. Len(buf) :
            /\ buf[j].vec = valid[j].vec
            /\ buf[j].id \in DOMAIN db.rows /\ db.rows[buf[j].id] = valid[j].meta
  /\ Inserting => temp.recs = main.recs \o buf

\* A deletion has deleted the rows it has named so far, and copies records as
\* they are.
Deleting == pc = "rename" /\ ids # {}

Deleted ==
  /\ pc = "scan" => todo = ids
  /\ pc = "rows" =>
       /\ todo \subseteq ids /\ work.seq = db.seq
       /\ work.rows = [i \in DOMAIN db.rows \ (ids \ todo) |-> db.rows[i]]
  /\ Deleting => DOMAIN db.rows \cap ids = {}
  /\ pc \in {"scan", "rows"} \/ Deleting =>
       \A p \in 1 .. Len(temp.recs) : \E q \in 1 .. Len(main.recs) :
         temp.recs[p] = main.recs[q]

\* Of the first n items of an update, the last with metadata for i decides.
MetaOf(i, n) ==
  LET S == {j \in 1 .. Len(batch) : j <= n /\ batch[j].id = i /\ batch[j].meta # NoMeta} IN
  \/ S = {} /\ work.rows[i] = db.rows[i]
  \/ \E j \in S : (\A l \in S : l <= j) /\ work.rows[i] = batch[j].meta

Updated ==
  /\ pc = "update" =>
       /\ hdr = Len(main.recs) /\ work.seq = db.seq /\ DOMAIN work.rows = DOMAIN db.rows
       /\ \A i \in DOMAIN db.rows : MetaOf(i, k - 1)
  /\ pc = "undo" =>
       \E j \in 1 .. Len(batch) : batch[j].vec \in Vectors /\ batch[j].id \notin IdsOf(main)

RefineInv == InOrder /\ Unwritten /\ Chosen /\ Prepared /\ Deleted /\ Updated

-----------------------------------------------------------------------------
(* Every step keeps it                                                     *)

\* No statement fails, so none of the ways out of a failure is taken.
LEMMA NoFailedSteps ==
  ASSUME NoSqliteErrors, TypeInv, CopyInv, InOrder
  PROVE  /\ ~InsertRowFails /\ ~UpdateRowFails /\ ~InsertNothing
         /\ ~RollbackInsert /\ ~CommitFails
  <1>1. ~InsertRowFails /\ ~UpdateRowFails /\ ~CommitFails
    BY DEF NoSqliteErrors, InsertRowFails, UpdateRowFails, CommitFails
  <1>2. ~InsertNothing
    BY DEF InOrder, InsertNothing
  <1>3. ~RollbackInsert
    <2> SUFFICES ASSUME RollbackInsert PROVE FALSE
      OBVIOUS
    <2>1. /\ pc = "item" /\ k > Len(valid) /\ buf = <<>> /\ valid # <<>>
          /\ Len(buf) = k - 1 /\ k \in Nat
      BY DEF RollbackInsert, InOrder, CopyInv, BufGood, TypeInv, TypeOK, CallType
    <2>2. Len(<<>>) = 0 /\ Len(valid) \in Nat
      BY EmptySeq, TypeFacts DEF TypeInv
    <2>3. Len(valid) = 0
      BY <2>1, <2>2
    <2> QED
      BY <2>1, <2>3, EmptySeq DEF TypeInv, TypeOK, CallType
  <1> QED
    BY <1>1, <1>2, <1>3

LEMMA OrderPreserved ==
  ASSUME NoSqliteErrors, TypeInv, CopyInv, InOrder, [Next]_vars
  PROVE  InOrder'
  <1>0. "step" \notin Faults /\ "commit" \notin Faults /\ inTxn \in BOOLEAN
    BY DEF NoSqliteErrors, TypeInv, TypeOK, SqliteType
  <1>1. CASE Insert
    <2>1. CASE StartInsert \/ FilterItem \/ NothingValid \/ CopyToTemp
      BY <2>1 DEF InOrder, StartInsert, FilterItem, NothingValid, CopyToTemp,
         sqlite, call, Forget, InsertPcs, UpdatePcs
    <2>2. CASE OpenInsert
      BY <2>2 DEF InOrder, OpenInsert, sqlite, Begin, InsertPcs, UpdatePcs
    <2>3. CASE InsertRow \/ EndInsert \/ AppendRecords
      BY <1>0, <2>3 DEF InOrder, InsertRow, EndInsert, AppendRecords, Commit,
         CommitFails, sqlite, call, InsertPcs, UpdatePcs
    <2> QED
      BY <1>1, <2>1, <2>2, <2>3, NoFailedSteps DEF Insert
  <1>2. CASE Delete
    <2>1. CASE StartDeleteByIds \/ StartDeleteByFilter \/ DeleteByFilterNoMatch
      BY <2>1 DEF InOrder, StartDeleteByIds, StartDeleteByFilter, BeginDelete,
         DeleteByFilterNoMatch, sqlite, call, InsertPcs, UpdatePcs
    <2>2. CASE ScanRecord \/ SealTemp
      BY <2>2 DEF InOrder, ScanRecord, SealTemp, Begin, sqlite, call, InsertPcs,
         UpdatePcs
    <2>3. CASE DeleteRows \/ CommitDelete
      BY <1>0, <2>3 DEF InOrder, DeleteRows, CommitDelete, Commit, call, InsertPcs,
         UpdatePcs
    <2> QED
      BY <1>2, <2>1, <2>2, <2>3 DEF Delete
  <1>3. CASE UpdateById
    <2>1. CASE StartUpdate \/ UpdateMetaOnly \/ UpdateVector \/ UpdateNotFound
      BY <2>1 DEF InOrder, StartUpdate, UpdateMetaOnly, UpdateVector,
         UpdateNotFound, Begin, InsertPcs, UpdatePcs
    <2>2. CASE CommitUpdate \/ FlushUpdate \/ AnswerUpdate \/ UndoUpdate
      BY <1>0, <2>2 DEF InOrder, CommitUpdate, FlushUpdate, AnswerUpdate,
         UndoUpdate, Commit, CommitFails, Rollback, Forget, sqlite, call,
         InsertPcs, UpdatePcs
    <2> QED
      BY <1>3, <2>1, <2>2, NoFailedSteps DEF UpdateById
  <1>4. CASE \/ RenameTemp \/ Reopen \/ Read \/ StatsOnClosedFile \/ Crash
             \/ Connect \/ UNCHANGED vars
    BY <1>4 DEF InOrder, RenameTemp, Reopen, Read, StatsOnClosedFile, Crash,
       Connect, Die, Forget, sqlite, call, vars, InsertPcs, UpdatePcs
  <1> QED
    BY <1>1, <1>2, <1>3, <1>4 DEF Next

\* What an update may find: the records with the id it looks for, and nothing
\* only when there is none.
LEMMA LocatedIsHit ==
  ASSUME TypeInv, NEW id, NEW p \in Located(id) \ {0}
  PROVE  p \in 1 .. Len(main.recs) /\ main.recs[p].id = id
  <1>1. p \in Slots /\ main.recs[p].id = id
    BY DEF Located
  <1>2. hdr \in Nat /\ Len(main.recs) \in Nat
    BY TypeFacts DEF TypeInv, TypeOK, CallType
  <1>3. Smaller(hdr, Len(main.recs)) \in Nat /\ Smaller(hdr, Len(main.recs)) <= Len(main.recs)
    BY <1>2 DEF Smaller
  <1> DEFINE n == Smaller(hdr, Len(main.recs))
  <1>4. p \in 1 .. n
    BY <1>1 DEF Slots
  <1> HIDE DEF n
  <1>5. n \in Nat /\ n <= Len(main.recs)
    BY <1>3 DEF n
  <1>6. p \in 1 .. Len(main.recs)
    BY <1>2, <1>4, <1>5
  <1> QED
    BY <1>1, <1>6

LEMMA LocatedIsSure ==
  ASSUME TypeInv, CopyInv, hdr = Len(main.recs), NEW id, 0 \in Located(id)
  PROVE  id \notin IdsOf(main)
  <1>1. Len(main.recs) \in Nat /\ Smaller(hdr, Len(main.recs)) = Len(main.recs)
    BY TypeFacts DEF TypeInv, Smaller
  <1>2. AscendingIn(main.recs, Smaller(hdr, Len(main.recs)))
    BY <1>1 DEF CopyInv, MainGood, Good
  <1>3. Slots = 1 .. Len(main.recs)
    BY <1>1 DEF Slots
  <1> DEFINE hits == {p \in Slots : main.recs[p].id = id}
  <1>4. hits = {}
    <2>1. CASE hits # {}
      <3>1. Located(id) = hits
        BY <1>2, <2>1 DEF Located
      <3> QED
        BY <1>1, <1>3, <3>1
    <2> QED
      BY <2>1
  <1> QED
    BY <1>3, <1>4 DEF IdsOf

LEMMA UnwrittenPreserved ==
  ASSUME NoSqliteErrors, TypeInv, CopyInv, InOrder, Unwritten, [Next]_vars
  PROVE  Unwritten'
  <1>1. CASE Insert
    BY <1>1 DEF Unwritten, Insert, StartInsert, FilterItem, NothingValid,
       CopyToTemp, OpenInsert, InsertRow, InsertRowFails, EndInsert,
       RollbackInsert, AppendRecords, InsertNothing, Flush
  <1>2. CASE Delete
    BY <1>2 DEF Unwritten, Delete, StartDeleteByIds, StartDeleteByFilter,
       BeginDelete, DeleteByFilterNoMatch, ScanRecord, SealTemp, DeleteRows,
       CommitDelete, Flush
  <1>3. CASE UpdateVector
    <2>1. /\ pc = "update" /\ pc' = "update" /\ batch' = batch /\ HasVector
          /\ k <= Len(batch) /\ main' = Flushed(main)
      BY <1>3 DEF UpdateVector
    <2>2. PICK p \in Located(Item.id) \ {0} : wbuf' = [q \in {p} |-> Item.vec]
      BY <1>3 DEF UpdateVector
    <2>3. p \in 1 .. Len(main.recs) /\ main.recs[p].id = Item.id
      BY <2>2, LocatedIsHit
    <2>4. p \in 1 .. Len(main'.recs) /\ main'.recs[p].id = Item.id
      BY <2>1, <2>3, FlushedImage DEF TypeInv
    <2>5. k \in 1 .. Len(batch)
      BY <2>1, TypeFacts DEF TypeInv, Room, TypeOK, CallType
    <2>6. /\ batch'[k].vec \in Vectors /\ main'.recs[p].id = batch'[k].id
          /\ wbuf' = [q \in {p} |-> batch'[k].vec] /\ k \in 1 .. Len(batch')
      BY <2>1, <2>2, <2>4, <2>5 DEF HasVector, Item
    <2>7. \E q \in 1 .. Len(main'.recs), j \in 1 .. Len(batch') :
            /\ batch'[j].vec \in Vectors /\ main'.recs[q].id = batch'[j].id
            /\ wbuf' = [x \in {q} |-> batch'[j].vec]
      BY <2>4, <2>6
    <2> QED
      BY <2>1, <2>7 DEF Unwritten
  <1>4. CASE /\ UNCHANGED <<main, wbuf, batch>>
             /\ pc \in {"update", "flush"} => pc' \in {"update", "flush"}
    <2>1. CASE wbuf = <<>>
      BY <1>4, <2>1 DEF Unwritten
    <2>2. CASE wbuf # <<>>
      <3>1. PICK p \in 1 .. Len(main.recs), j \in 1 .. Len(batch) :
              /\ batch[j].vec \in Vectors /\ main.recs[p].id = batch[j].id
              /\ wbuf = [q \in {p} |-> batch[j].vec]
        BY <2>2 DEF Unwritten
      <3>2. pc' \in {"update", "flush"}
        BY <1>4, <2>2 DEF Unwritten
      <3>3. /\ p \in 1 .. Len(main'.recs) /\ j \in 1 .. Len(batch')
            /\ batch'[j].vec \in Vectors /\ main'.recs[p].id = batch'[j].id
            /\ wbuf' = [q \in {p} |-> batch'[j].vec]
        BY <1>4, <3>1
      <3> QED
        BY <3>2, <3>3 DEF Unwritten
    <2> QED
      BY <2>1, <2>2
  <1>5. CASE UpdateById /\ ~UpdateVector
    <2>1. CASE UpdateMetaOnly \/ CommitUpdate
      BY <1>4, <2>1 DEF UpdateMetaOnly, CommitUpdate, disk, call
    <2>2. CASE StartUpdate \/ UpdateNotFound \/ FlushUpdate
      BY <2>2 DEF Unwritten, StartUpdate, UpdateNotFound, FlushUpdate, Flush
    <2>3. CASE UpdateRowFails
      BY NoFailedSteps, <2>3
    <2>4. CASE AnswerUpdate \/ UndoUpdate
      BY <2>4 DEF Unwritten, AnswerUpdate, UndoUpdate
    <2> QED
      BY <1>5, <2>1, <2>2, <2>3, <2>4 DEF UpdateById
  <1>6. CASE RenameTemp \/ Connect
    BY <1>6 DEF Unwritten, RenameTemp, Connect
  <1>7. CASE Reopen \/ Read \/ StatsOnClosedFile \/ Crash
    BY <1>7 DEF Unwritten, Reopen, Read, StatsOnClosedFile, Crash, Die, Flush
  <1>8. CASE UNCHANGED vars
    BY <1>4, <1>8 DEF vars
  <1> QED
    BY <1>1, <1>2, <1>3, <1>5, <1>6, <1>7, <1>8 DEF Next

LEMMA ChosenSteps ==
  ASSUME InOrder, [Next]_vars
  PROVE  \/ pc' \notin {"filter", "open", "item", "append"} /\ ~Inserting'
         \/ StartInsert \/ FilterItem \/ CopyToTemp
         \/ /\ UNCHANGED <<batch, valid>>
            /\ pc \in {"open", "item", "append"} \/ Inserting
            /\ pc' \notin {"filter"}
         \/ UNCHANGED <<pc, k, batch, valid, ids>>
  <1>1. CASE Insert
    BY <1>1 DEF Insert, NothingValid, OpenInsert, InsertRow, InsertRowFails,
       EndInsert, RollbackInsert, AppendRecords, InsertNothing, call, Inserting
  <1>2. CASE Delete
    BY <1>2 DEF InOrder, Delete, StartDeleteByIds, StartDeleteByFilter,
       BeginDelete, DeleteByFilterNoMatch, ScanRecord, SealTemp, DeleteRows,
       CommitDelete, call, Inserting
  <1>3. CASE UpdateById
    BY <1>3 DEF UpdateById, StartUpdate, UpdateMetaOnly, UpdateVector,
       UpdateNotFound, UpdateRowFails, CommitUpdate, FlushUpdate, AnswerUpdate,
       UndoUpdate, Inserting
  <1> QED
    BY <1>1, <1>2, <1>3
       DEF Next, RenameTemp, Reopen, Read, StatsOnClosedFile, Crash, Connect,
       Die, call, vars, Inserting

\* The items of an initial part of a batch are finite in number.
LEMMA FitIsFinite ==
  ASSUME TypeInv, NEW n \in Nat
  PROVE  /\ IsFiniteSet({j \in Fit : j <= n})
         /\ Cardinality({j \in Fit : j <= n}) \in Nat
  <1>1. {j \in Fit : j <= n} \subseteq 1 .. n
    BY TypeFacts DEF TypeInv, Fit
  <1>2. IsFiniteSet(1 .. n)
    BY FS_Interval
  <1>3. IsFiniteSet({j \in Fit : j <= n})
    BY <1>1, <1>2, FS_Subset
  <1> QED
    BY <1>3, FS_CardinalityType

LEMMA StartChoosesNothing ==
  ASSUME TypeInv, StartInsert
  PROVE  Selected(0)'
  <1>1. valid' = <<>> /\ Len(valid') = 0
    BY EmptySeq DEF StartInsert, TypeInv, Room
  <1>2. ASSUME NEW j \in Fit'
        PROVE  ~(j <= 0)
    BY <1>2 DEF Fit
  <1>3. {j \in Fit' : j <= 0} = {}
    BY <1>2
  <1>4. Cardinality({j \in Fit' : j <= 0}) = 0
    BY <1>3, FS_EmptySet
  <1>5. Len(valid)' = Cardinality({j \in Fit : j <= 0})'
    BY <1>1, <1>4
  <1>6. \A m \in 1 .. Len(valid') : FALSE
    BY <1>1
  <1> QED
    BY <1>2, <1>5, <1>6 DEF Selected

LEMMA FilterSelects ==
  ASSUME TypeInv, Selected(k - 1), FilterItem
  PROVE  Selected(k - 1)'
  <1> DEFINE V == [vec : Vectors, meta : Metas]
             S(n) == {j \in Fit : j <= n}
  <1>1. /\ batch' = batch /\ k' = k + 1 /\ k \in 1 .. Len(batch)
        /\ k \in Nat /\ Len(batch) \in Nat
        /\ valid' = IF batch[k].vec = BadVec THEN valid ELSE Append(valid, batch[k])
    BY TypeFacts DEF FilterItem, TypeInv, Room
  <1>2. /\ batch[k] \in Insertion /\ valid \in Seq(V) /\ Len(valid) \in Nat
    <2>1. batch \in Seq(Insertion)
      BY DEF FilterItem, TypeInv, BatchFits, InsertPcs
    <2> QED
      BY <1>1, <2>1, ElementOfSeq, TypeFacts DEF TypeInv, TypeOK, CallType
  <1>3. Fit' = Fit /\ \A j : RankOf(j)' = RankOf(j)
    BY <1>1 DEF Fit, RankOf
  <1>4. k \in Fit <=> batch[k].vec # BadVec
    BY <1>1, <1>2, ConstantsAssumption DEF Fit, Insertion
  <1>5. /\ Len(valid) = Cardinality(S(k - 1))
        /\ \A j \in Fit : j <= k - 1 =>
             RankOf(j) \in 1 .. Len(valid) /\ valid[RankOf(j)] = batch[j]
        /\ \A m \in 1 .. Len(valid) : \E j \in Fit : j <= k - 1 /\ RankOf(j) = m
    BY DEF Selected
  <1>6. \A j \in Fit : j \in Nat
    BY DEF Fit
  <1>7. CASE k \notin Fit
    <2>1. valid' = valid
      BY <1>1, <1>4, <1>7
    <2>2. \A j \in Fit : j <= k <=> j <= k - 1
      BY <1>1, <1>6, <1>7
    <2>3. S(k) = S(k - 1)
      BY <2>2
    <2>4. /\ Len(valid') = Cardinality({j \in Fit' : j <= k' - 1})
      <3>1. k' - 1 = k
        BY <1>1
      <3> QED
        BY <1>3, <1>5, <2>1, <2>3, <3>1
    <2>5. ASSUME NEW j \in Fit', j <= k' - 1
          PROVE  RankOf(j)' \in 1 .. Len(valid') /\ valid'[RankOf(j)'] = batch'[j]
      BY <1>1, <1>3, <1>5, <2>1, <2>2, <2>5
    <2>6. ASSUME NEW m \in 1 .. Len(valid')
          PROVE  \E j \in Fit' : j <= k' - 1 /\ RankOf(j)' = m
      <3>1. PICK j \in Fit : j <= k - 1 /\ RankOf(j) = m
        BY <1>5, <2>1, <2>6
      <3>2. j \in Fit' /\ j <= k' - 1 /\ RankOf(j)' = m
        BY <1>1, <1>3, <1>6, <2>2, <3>1
      <3> QED
        BY <3>2
    <2> QED
      BY <2>4, <2>5, <2>6 DEF Selected
  <1>8. CASE k \in Fit
    <2>1. batch[k] \in V
      BY <1>2, <1>8 DEF Fit, Insertion
    <2>2. valid' = Append(valid, batch[k])
      BY <1>1, <1>4, <1>8
    <2>3. /\ Len(valid') = Len(valid) + 1
          /\ valid'[Len(valid) + 1] = batch[k]
          /\ \A m \in 1 .. Len(valid) : valid'[m] = valid[m]
      <3>1. valid \in Seq(V) /\ batch[k] \in V
        BY <1>2, <2>1
      <3> HIDE DEF V
      <3> QED
        BY <2>2, <3>1, AppendProperties
    <2>4. S(k) = S(k - 1) \cup {k} /\ k \notin S(k - 1)
      <3>1. \A j \in Fit : j <= k <=> j <= k - 1 \/ j = k
        BY <1>1, <1>6
      <3>2. S(k) = S(k - 1) \cup {k}
        BY <1>8, <3>1
      <3>3. ~(k <= k - 1)
        BY <1>1
      <3> QED
        BY <3>2, <3>3
    <2>5. IsFiniteSet(S(k - 1))
      BY <1>1, FitIsFinite
    <2>6. Cardinality(S(k)) = Len(valid) + 1
      <3> DEFINE T == S(k - 1)
      <3>1. IsFiniteSet(T) /\ k \notin T /\ Cardinality(T) = Len(valid) /\ S(k) = T \cup {k}
        BY <1>5, <2>4, <2>5
      <3> HIDE DEF T, S
      <3>2. Cardinality(T \cup {k}) = Cardinality(T) + 1
        BY <3>1, FS_AddElement
      <3> QED
        BY <3>1, <3>2
    <2>7. RankOf(k) = Len(valid) + 1
      BY <2>6 DEF RankOf
    <2>8. Len(valid') = Cardinality({j \in Fit' : j <= k' - 1})
      <3>1. k' - 1 = k
        BY <1>1
      <3> QED
        BY <1>3, <2>3, <2>6, <3>1
    <2>9. ASSUME NEW j \in Fit', j <= k' - 1
          PROVE  RankOf(j)' \in 1 .. Len(valid') /\ valid'[RankOf(j)'] = batch'[j]
      <3>1. CASE j = k
        BY <1>1, <1>2, <1>3, <2>3, <2>7, <3>1
      <3>2. CASE j # k
        <4>1. j \in Fit /\ j <= k - 1
          BY <1>1, <1>3, <1>6, <2>9, <3>2
        <4>2. RankOf(j) \in 1 .. Len(valid) /\ valid[RankOf(j)] = batch[j]
          BY <1>5, <4>1
        <4> QED
          BY <1>1, <1>2, <1>3, <2>3, <4>2
      <3> QED
        BY <3>1, <3>2
    <2>10. ASSUME NEW m \in 1 .. Len(valid')
           PROVE  \E j \in Fit' : j <= k' - 1 /\ RankOf(j)' = m
      <3>1. CASE m = Len(valid) + 1
        BY <1>1, <1>3, <1>8, <2>7, <3>1
      <3>2. CASE m \in 1 .. Len(valid)
        <4>1. PICK j \in Fit : j <= k - 1 /\ RankOf(j) = m
          BY <1>5, <3>2
        <4>2. j \in Fit' /\ j <= k' - 1 /\ RankOf(j)' = m
          BY <1>1, <1>3, <1>6, <4>1
        <4> QED
          BY <4>2
      <3> QED
        BY <1>2, <2>3, <2>10, <3>1, <3>2
    <2> QED
      BY <2>8, <2>9, <2>10 DEF Selected
  <1> QED
    BY <1>7, <1>8

\* Which items are selected depends on the batch and the valid items only.
LEMMA SelectionStays ==
  ASSUME UNCHANGED <<batch, valid>>
  PROVE  \A n : Selected(n) = (Len(valid') = Cardinality({j \in Fit' : j <= n})
            /\ (\A j \in Fit' : j <= n => /\ RankOf(j)' \in 1 .. Len(valid')
                                         /\ valid'[RankOf(j)'] = batch'[j])
            /\ \A m \in 1 .. Len(valid') : \E j \in Fit' : j <= n /\ RankOf(j)' = m)
  <1>1. Fit' = Fit /\ \A j : RankOf(j)' = RankOf(j)
    BY DEF Fit, RankOf
  <1> QED
    BY <1>1 DEF Selected

LEMMA ChosenPreserved ==
  ASSUME TypeInv, InOrder, Chosen, [Next]_vars
  PROVE  Chosen'
  <1>1. CASE pc' \notin {"filter", "open", "item", "append"} /\ ~Inserting'
    BY <1>1 DEF Chosen
  <1>2. CASE StartInsert
    <2>1. Selected(0)' /\ k' = 1 /\ pc' = "filter"
      BY <1>2, StartChoosesNothing DEF StartInsert
    <2>2. Selected(k - 1)'
      <3>1. k' - 1 = 0
        BY <2>1
      <3> QED
        BY <2>1, <3>1
    <2> QED
      BY <2>1, <2>2 DEF Chosen, Inserting
  <1>3. CASE FilterItem
    <2>1. pc = "filter" /\ pc' = "filter" /\ Selected(k - 1)
      BY <1>3 DEF FilterItem, Chosen
    <2>2. Selected(k - 1)'
      BY <1>3, <2>1, FilterSelects
    <2> QED
      BY <2>1, <2>2 DEF Chosen, Inserting
  <1>4. CASE CopyToTemp
    <2>1. /\ pc = "filter" /\ pc' = "open" /\ UNCHANGED <<batch, valid>>
          /\ Selected(k - 1) /\ k > Len(batch)
      BY <1>4 DEF CopyToTemp, call, Chosen
    <2>2. k - 1 = Len(batch)
      BY <2>1, TypeFacts DEF TypeInv, Room
    <2>3. Selected(Len(batch))
      BY <2>1, <2>2
    <2>4. Selected(Len(batch))'
      BY <2>1, <2>3, SelectionStays DEF Selected
    <2> QED
      BY <2>1, <2>4 DEF Chosen, Inserting
  <1>5. CASE /\ UNCHANGED <<batch, valid>>
             /\ pc \in {"open", "item", "append"} \/ Inserting
             /\ pc' \notin {"filter"}
    <2>1. Selected(Len(batch))
      BY <1>5 DEF Chosen
    <2>2. Selected(Len(batch))'
      BY <1>5, <2>1, SelectionStays DEF Selected
    <2> QED
      BY <1>5, <2>2 DEF Chosen
  <1>6. CASE UNCHANGED <<pc, k, batch, valid, ids>>
    <2>1. Selected(Len(batch)) => Selected(Len(batch))'
      BY <1>6, SelectionStays DEF Selected
    <2>2. Selected(k - 1) => Selected(k - 1)'
      BY <1>6, SelectionStays DEF Selected
    <2> QED
      BY <1>6, <2>1, <2>2 DEF Chosen, Inserting
  <1> QED
    BY <1>1, <1>2, <1>3, <1>4, <1>5, <1>6, ChosenSteps

LEMMA FlushOfNothing ==
  ASSUME TypeInv, wbuf = <<>>
  PROVE  Flushed(main) = main
  <1>1. main = [count |-> main.count, recs |-> main.recs] /\ main.recs \in Seq(Rec)
    BY DEF TypeInv, TypeOK, DiskType, Image
  <1> DEFINE n == Len(main.recs)
             r == [p \in 1 .. n |-> [id |-> main.recs[p].id,
                     vec |-> IF p \in DOMAIN wbuf THEN wbuf[p] ELSE main.recs[p].vec]]
  <1>2. \A p : p \notin DOMAIN wbuf
    <2>1. DOMAIN <<>> = {}
      OBVIOUS
    <2> QED
      BY <2>1
  <1>3. ASSUME NEW p \in 1 .. n
        PROVE  r[p] = main.recs[p]
    <2>1. main.recs[p] \in Rec
      BY <1>1, <1>3, ElementOfSeq
    <2>2. main.recs[p] = [id |-> main.recs[p].id, vec |-> main.recs[p].vec]
      BY <2>1 DEF Rec
    <2>3. r[p] = [id |-> main.recs[p].id, vec |-> main.recs[p].vec]
      BY <1>2, <1>3
    <2> QED
      BY <2>2, <2>3
  <1>4. main.recs = [p \in 1 .. n |-> main.recs[p]]
    BY <1>1
  <1>5. r = main.recs
    BY <1>3, <1>4
  <1> QED
    BY <1>1, <1>5 DEF Flushed

LEMMA PreparedSteps ==
  ASSUME NoSqliteErrors, TypeInv, CopyInv, InOrder, [Next]_vars
  PROVE  \/ pc' \notin {"open", "item", "append"} /\ ~Inserting'
         \/ CopyToTemp \/ OpenInsert \/ InsertRow \/ EndInsert \/ AppendRecords
         \/ UNCHANGED <<main, temp, db, work, pc, valid, ids, buf>>
  <1>1. CASE Insert
    BY <1>1, NoFailedSteps DEF Insert, StartInsert, FilterItem, NothingValid, Inserting
  <1>2. CASE Delete
    BY <1>2 DEF InOrder, Delete, StartDeleteByIds, StartDeleteByFilter,
       BeginDelete, DeleteByFilterNoMatch, ScanRecord, SealTemp, DeleteRows,
       CommitDelete, call, Inserting
  <1>3. CASE UpdateById
    BY <1>3 DEF UpdateById, StartUpdate, UpdateMetaOnly, UpdateVector,
       UpdateNotFound, UpdateRowFails, CommitUpdate, FlushUpdate, AnswerUpdate,
       UndoUpdate, Inserting
  <1> QED
    BY <1>1, <1>2, <1>3
       DEF Next, RenameTemp, Reopen, Read, StatsOnClosedFile, Crash, Connect,
       Die, vars, Inserting

LEMMA OpenPrepares ==
  ASSUME TypeInv, CopyInv, InOrder, Unwritten, Prepared, OpenInsert
  PROVE  Prepared'
  <1>1. /\ pc = "open" /\ pc' = "item" /\ UNCHANGED <<temp, buf, db, work>>
        /\ main' = Flushed(main) /\ buf = <<>> /\ work = db
    BY DEF InOrder, OpenInsert, Begin, Flush, TypeInv, Room
  <1>2. main' = main
    BY <1>1, FlushOfNothing DEF Unwritten
  <1>3. temp'.recs = main'.recs
    BY <1>1, <1>2 DEF Prepared
  <1>4. Len(buf) = 0 /\ db.seq \in Nat
    BY <1>1, EmptySeq, TypeFacts DEF TypeInv
  <1>5. \A i \in IdsOf(main) : i <= db.seq
    BY GoodIds DEF CopyInv, MainGood
  <1>6. NumberedFrom(db.seq)'
    BY <1>1, <1>2, <1>4, <1>5 DEF NumberedFrom, IdsOf
  <1> QED
    BY <1>1, <1>3, <1>4, <1>6 DEF Prepared, Inserting

LEMMA InsertPrepares ==
  ASSUME TypeInv, NumberInv, Prepared, InsertRow
  PROVE  Prepared'
  <1> DEFINE r == [id |-> work.seq + 1, vec |-> valid[k].vec]
  <1>1. /\ pc = "item" /\ pc' = "item" /\ main' = main /\ temp' = temp
        /\ db' = db /\ buf' = Append(buf, r)
    BY DEF InsertRow, NextRowId, disk
  <1>2. /\ temp.recs = main.recs /\ NumberedFrom(db.seq)
        /\ work.seq = db.seq + Len(buf)
        /\ \A i \in DOMAIN db.rows : i \in DOMAIN work.rows /\ work.rows[i] = db.rows[i]
    BY <1>1 DEF Prepared
  <1>3. /\ db.seq \in Nat /\ work.seq \in Nat /\ DOMAIN db.rows \subseteq Nat
        /\ Len(buf) \in Nat
    BY TypeFacts DEF TypeInv, TypeOK, SqliteType, IsTable, Ids
  <1>4. /\ Len(buf') = Len(buf) + 1 /\ buf'[Len(buf) + 1] = r
        /\ \A j \in 1 .. Len(buf) : buf'[j] = buf[j]
    <2>1. valid[k] \in [vec : Vectors, meta : Metas]
      <3> DEFINE V == [vec : Vectors, meta : Metas]
      <3>1. k \in 1 .. Len(valid) /\ valid \in Seq(V)
        BY TypeFacts DEF TypeInv, TypeOK, CallType, Room, InsertRow
      <3> HIDE DEF V
      <3>2. valid[k] \in V
        BY <3>1, ElementOfSeq
      <3> QED
        BY <3>2 DEF V
    <2>2. buf \in Seq(Rec) /\ r \in Rec
      BY <1>3, <2>1, BufType DEF Rec
    <2> HIDE DEF r
    <2> QED
      BY <1>1, <2>2, AppendProperties
  <1>5. NumberedFrom(db.seq)'
    <2>1. ASSUME NEW j \in 1 .. Len(buf')
          PROVE  buf'[j].id = db.seq + j
      <3>1. CASE j = Len(buf) + 1
        BY <1>2, <1>3, <1>4, <3>1
      <3>2. CASE j \in 1 .. Len(buf)
        BY <1>2, <1>4, <3>2 DEF NumberedFrom
      <3> QED
        BY <1>3, <1>4, <2>1, <3>1, <3>2
    <2> QED
      BY <1>1, <1>2, <2>1 DEF NumberedFrom, IdsOf
  <1>6. work'.seq = db'.seq + Len(buf')
    <2>1. work'.seq = work.seq + 1
      BY InsertAddsRow
    <2> QED
      BY <1>1, <1>2, <1>3, <1>4, <2>1
  <1>7. ASSUME NEW i \in DOMAIN db'.rows
        PROVE  i \in DOMAIN work'.rows /\ work'.rows[i] = db'.rows[i]
    <2>1. i \in DOMAIN db.rows /\ i # work.seq + 1
      BY <1>1, <1>3, <1>7 DEF NumberInv
    <2>2. work'.rows = WithRow(work.rows, work.seq + 1, BoundMeta)
      BY InsertAddsRow
    <2> QED
      BY <1>1, <1>2, <2>1, <2>2 DEF WithRow
  <1> QED
    BY <1>1, <1>2, <1>5, <1>6, <1>7 DEF Prepared, Inserting

LEMMA EndInsertPrepares ==
  ASSUME NoSqliteErrors, TypeInv, CopyInv, InOrder, MetaInv, Prepared, EndInsert
  PROVE  Prepared'
  <1>1. /\ pc = "item" /\ pc' = "append" /\ UNCHANGED <<main, temp, buf, valid>>
        /\ db' = work /\ buf # <<>> /\ k > Len(valid)
    BY NoFailedSteps DEF EndInsert, Commit, disk, call
  <1>2. /\ temp.recs = main.recs /\ NumberedFrom(db.seq)
        /\ work.seq = db.seq + Len(buf)
    BY <1>1 DEF Prepared
  <1>3. /\ Len(buf) = k - 1 /\ k \in 1 .. Len(valid) + 1
        /\ Len(buf) \in Nat /\ Len(valid) \in Nat /\ db.seq \in Nat
    BY <1>1, TypeFacts DEF CopyInv, BufGood, TypeInv, Room
  <1>4. Len(buf) = Len(valid) /\ db'.seq - Len(buf) = db.seq
    BY <1>1, <1>2, <1>3
  <1>5. NumberedFrom(db.seq - Len(buf))'
    BY <1>1, <1>2, <1>4 DEF NumberedFrom, IdsOf
  <1>6. \A j \in 1 .. Len(buf') :
          /\ buf'[j].vec = valid'[j].vec
          /\ buf'[j].id \in DOMAIN db'.rows /\ db'.rows[buf'[j].id] = valid'[j].meta
    BY <1>1 DEF MetaInv
  <1> QED
    BY <1>1, <1>2, <1>4, <1>5, <1>6 DEF Prepared, Inserting

LEMMA AppendPrepares ==
  ASSUME TypeInv, CopyInv, Prepared, AppendRecords
  PROVE  Prepared'
  <1>1. /\ pc = "append" /\ pc' = "rename" /\ UNCHANGED <<main, db, buf, valid>>
        /\ temp.recs = main.recs
    BY DEF AppendRecords, sqlite, call, Prepared
  <1>2. temp'.recs = main'.recs \o buf'
    BY <1>1, AppendAddsBuffer
  <1>3. NumberedFrom(db.seq - Len(buf))'
    BY <1>1 DEF Prepared, NumberedFrom, IdsOf
  <1> QED
    BY <1>1, <1>2, <1>3 DEF Prepared, Inserting

LEMMA PreparedPreserved ==
  ASSUME NoSqliteErrors, TypeInv, NumberInv, CopyInv, MetaInv, InOrder, Unwritten,
         Prepared, [Next]_vars
  PROVE  Prepared'
  <1>1. CASE pc' \notin {"open", "item", "append"} /\ ~Inserting'
    BY <1>1 DEF Prepared
  <1>2. CASE CopyToTemp
    BY <1>2 DEF CopyToTemp, Prepared, Inserting
  <1>3. CASE UNCHANGED <<main, temp, db, work, pc, valid, ids, buf>>
    <2>1. /\ NumberedFrom(db.seq)' = NumberedFrom(db.seq)
          /\ NumberedFrom(db.seq - Len(buf))' = NumberedFrom(db.seq - Len(buf))
          /\ Inserting' = Inserting
      BY <1>3 DEF NumberedFrom, IdsOf, Inserting
    <2> QED
      BY <1>3, <2>1 DEF Prepared
  <1> QED
    BY <1>1, <1>2, <1>3, PreparedSteps, OpenPrepares, InsertPrepares,
       EndInsertPrepares, AppendPrepares

LEMMA DeletedSteps ==
  ASSUME InOrder, [Next]_vars
  PROVE  \/ pc' \notin {"scan", "rows"} /\ ~Deleting'
         \/ /\ pc' = "scan" /\ todo' = ids'
            /\ temp' = [count |-> main.count, recs |-> <<>>]
         \/ ScanRecord \/ SealTemp \/ DeleteRows \/ CommitDelete
         \/ UNCHANGED <<main, temp, db, work, pc, ids, todo>>
  <1>1. CASE Insert
    BY <1>1 DEF InOrder, Insert, StartInsert, FilterItem, NothingValid,
       CopyToTemp, OpenInsert, InsertRow, InsertRowFails, EndInsert,
       RollbackInsert, AppendRecords, InsertNothing, call, Deleting, InsertPcs
  <1>2. CASE Delete
    BY <1>2 DEF Delete, StartDeleteByIds, StartDeleteByFilter, BeginDelete,
       DeleteByFilterNoMatch, Deleting
  <1>3. CASE UpdateById
    BY <1>3 DEF UpdateById, StartUpdate, UpdateMetaOnly, UpdateVector,
       UpdateNotFound, UpdateRowFails, CommitUpdate, FlushUpdate, AnswerUpdate,
       UndoUpdate, Deleting
  <1> QED
    BY <1>1, <1>2, <1>3
       DEF Next, RenameTemp, Reopen, Read, StatsOnClosedFile, Crash, Connect,
       Die, vars, Deleting

LEMMA ScanDeletes ==
  ASSUME TypeInv, CopyInv, Deleted, ScanRecord
  PROVE  Deleted'
  <1>1. /\ pc = "scan" /\ pc' = "scan" /\ UNCHANGED <<main, ids, todo>> /\ k <= hdr
        /\ todo = ids
        /\ \A p \in 1 .. Len(temp.recs) : \E q \in 1 .. Len(main.recs) :
             temp.recs[p] = main.recs[q]
    BY DEF ScanRecord, Deleted
  <1>2. /\ k \in 1 .. Len(main.recs) /\ main.recs[k] \in Rec
        /\ temp.recs \in Seq(Rec)
    BY <1>1, ScanReadsRecord
  <1>3. CASE temp' = temp
    BY <1>1, <1>3 DEF Deleted, Deleting
  <1>4. CASE temp'.recs = Append(temp.recs, main.recs[k])
    <2> DEFINE r == main.recs[k]
    <2>1. /\ Len(temp'.recs) = Len(temp.recs) + 1
          /\ temp'.recs[Len(temp.recs) + 1] = r
          /\ \A p \in 1 .. Len(temp.recs) : temp'.recs[p] = temp.recs[p]
          /\ Len(temp.recs) \in Nat
      <3>1. r \in Rec
        BY <1>2
      <3> HIDE DEF r
      <3>2. temp'.recs = Append(temp.recs, r)
        BY <1>4 DEF r
      <3> QED
        BY <1>2, <3>1, <3>2, AppendProperties, IdsAreNumbers
    <2>2. ASSUME NEW p \in 1 .. Len(temp'.recs)
          PROVE  \E q \in 1 .. Len(main'.recs) : temp'.recs[p] = main'.recs[q]
      <3>1. CASE p = Len(temp.recs) + 1
        BY <1>1, <1>2, <2>1, <3>1
      <3>2. CASE p \in 1 .. Len(temp.recs)
        BY <1>1, <2>1, <3>2
      <3> QED
        BY <2>1, <2>2, <3>1, <3>2
    <2> QED
      BY <1>1, <2>2 DEF Deleted, Deleting
  <1> QED
    BY <1>3, <1>4, ScanKeepsOrDrops

LEMMA SealDeletes ==
  ASSUME TypeInv, InOrder, Deleted, SealTemp
  PROVE  Deleted'
  <1>1. /\ pc = "scan" /\ pc' = "rows" /\ UNCHANGED <<db, work, ids, todo>>
        /\ main' = Flushed(main) /\ work = db /\ todo = ids
        /\ temp' = [temp EXCEPT !.count = Len(temp.recs)]
    BY DEF InOrder, SealTemp, Begin, Flush, call, Deleted
  <1>2. main' = main
    BY <1>1, FlushOfNothing DEF TypeInv, TempReady
  <1>3. temp'.recs = temp.recs
    BY <1>1 DEF TypeInv, TempReady, Image
  <1>4. work'.rows = [i \in DOMAIN db'.rows \ (ids' \ todo') |-> db'.rows[i]]
    BY <1>1 DEF TypeInv, TypeOK, SqliteType, IsTable
  <1>5. \A p \in 1 .. Len(temp'.recs) : \E q \in 1 .. Len(main'.recs) :
          temp'.recs[p] = main'.recs[q]
    BY <1>1, <1>2, <1>3 DEF Deleted
  <1> QED
    BY <1>1, <1>4, <1>5 DEF Deleted, Deleting

LEMMA RowsDelete ==
  ASSUME NoSqliteErrors, TypeInv, Deleted, DeleteRows
  PROVE  Deleted'
  <1>1. /\ pc = "rows" /\ pc' = "rows" /\ UNCHANGED <<main, temp, db, ids>>
        /\ todo' = todo \ NextBatch
        /\ work' = [work EXCEPT !.rows = WithoutRows(@, NextBatch)]
    BY DEF DeleteRows, disk, NoSqliteErrors
  <1>2. work = [rows |-> work.rows, seq |-> work.seq]
    BY DEF TypeInv, TypeOK, SqliteType, IsTable
  <1>3. work'.rows = WithoutRows(work.rows, NextBatch) /\ work'.seq = work.seq
    BY <1>1, <1>2
  <1>4. /\ todo \subseteq ids /\ work.seq = db.seq
        /\ work.rows = [i \in DOMAIN db.rows \ (ids \ todo) |-> db.rows[i]]
        /\ \A p \in 1 .. Len(temp.recs) : \E q \in 1 .. Len(main.recs) :
             temp.recs[p] = main.recs[q]
    BY <1>1 DEF Deleted
  <1>5. NextBatch \subseteq todo
    BY DEF NextBatch
  <1>6. (DOMAIN db.rows \ (ids \ todo)) \ NextBatch = DOMAIN db.rows \ (ids \ todo')
    BY <1>1, <1>4, <1>5
  <1>7. work'.rows = [i \in DOMAIN db'.rows \ (ids' \ todo') |-> db'.rows[i]]
    BY <1>1, <1>3, <1>4, <1>6 DEF WithoutRows
  <1> QED
    BY <1>1, <1>3, <1>4, <1>7 DEF Deleted, Deleting

LEMMA CommitDeletes ==
  ASSUME NoSqliteErrors, Deleted, CommitDelete
  PROVE  /\ Deleted'
         /\ db'.seq = db.seq
         /\ db'.rows = [i \in DOMAIN db.rows \ ids |-> db.rows[i]]
  <1>1. /\ pc = "rows" /\ pc' \in {"rename", "reopen"} /\ todo = {}
        /\ UNCHANGED <<main, temp, ids>> /\ db' = work
    BY DEF CommitDelete, Commit, disk, call, NoSqliteErrors
  <1>2. /\ work.seq = db.seq
        /\ work.rows = [i \in DOMAIN db.rows \ ids |-> db.rows[i]]
        /\ \A p \in 1 .. Len(temp.recs) : \E q \in 1 .. Len(main.recs) :
             temp.recs[p] = main.recs[q]
    BY <1>1 DEF Deleted
  <1>3. DOMAIN db'.rows \cap ids' = {}
    BY <1>1, <1>2
  <1> QED
    BY <1>1, <1>2, <1>3 DEF Deleted

LEMMA DeletedPreserved ==
  ASSUME NoSqliteErrors, TypeInv, CopyInv, InOrder, Deleted, [Next]_vars
  PROVE  Deleted'
  <1>1. CASE pc' \notin {"scan", "rows"} /\ ~Deleting'
    BY <1>1 DEF Deleted
  <1>2. CASE /\ pc' = "scan" /\ todo' = ids'
             /\ temp' = [count |-> main.count, recs |-> <<>>]
    <2>1. Len(temp'.recs) = 0
      BY <1>2, EmptySeq
    <2>2. \A p \in 1 .. Len(temp'.recs) : FALSE
      BY <2>1
    <2> QED
      BY <1>2, <2>2 DEF Deleted, Deleting
  <1>3. CASE UNCHANGED <<main, temp, db, work, pc, ids, todo>>
    BY <1>3 DEF Deleted, Deleting
  <1> QED
    BY <1>1, <1>2, <1>3, DeletedSteps, ScanDeletes, SealDeletes, RowsDelete,
       CommitDeletes

LEMMA UpdatedSteps ==
  ASSUME NoSqliteErrors, TypeInv, CopyInv, InOrder, [Next]_vars
  PROVE  \/ pc' \notin {"update", "undo"}
         \/ StartUpdate \/ UpdateMetaOnly \/ UpdateVector \/ UpdateNotFound
         \/ UNCHANGED <<main, db, work, pc, batch, hdr, k>>
  <1>1. CASE Insert
    BY <1>1 DEF Insert, StartInsert, FilterItem, NothingValid, CopyToTemp,
       OpenInsert, InsertRow, InsertRowFails, EndInsert, RollbackInsert,
       AppendRecords, InsertNothing
  <1>2. CASE Delete
    BY <1>2 DEF Delete, StartDeleteByIds, StartDeleteByFilter, BeginDelete,
       DeleteByFilterNoMatch, ScanRecord, SealTemp, DeleteRows, CommitDelete
  <1>3. CASE UpdateById
    BY <1>3, NoFailedSteps DEF UpdateById, CommitUpdate, FlushUpdate,
       AnswerUpdate, UndoUpdate
  <1> QED
    BY <1>1, <1>2, <1>3
       DEF Next, RenameTemp, Reopen, Read, StatsOnClosedFile, Crash, Connect,
       Die, vars

\* What the metadata of an item does to the rows, and how many there are of it.
LEMMA MetaWritten ==
  ASSUME TypeInv, pc = "update", k <= Len(batch), work' = WithMeta,
         NEW i \in DOMAIN work.rows
  PROVE  work'.rows[i] = IF HasMeta /\ Item.id = i THEN Item.meta ELSE work.rows[i]
  <1>1. work = [rows |-> work.rows, seq |-> work.seq]
    BY DEF TypeInv, TypeOK, SqliteType, IsTable
  <1>2. CASE RowHit
    <2>1. work' = [rows |-> WithRow(work.rows, Item.id, Item.meta),
                   seq |-> work.seq]
      BY <1>1, <1>2 DEF WithMeta
    <2> QED
      BY <1>2, <2>1 DEF WithRow, RowHit
  <1>3. CASE ~RowHit
    BY <1>3 DEF WithMeta, RowHit
  <1> QED
    BY <1>2, <1>3

LEMMA ItemUpdates ==
  ASSUME TypeInv, Updated, pc = "update", k <= Len(batch), work' = WithMeta,
         db' = db, batch' = batch, k' = k + 1
  PROVE  /\ work'.seq = db'.seq /\ DOMAIN work'.rows = DOMAIN db'.rows
         /\ \A i \in DOMAIN db'.rows : MetaOf(i, k - 1)'
  <1> DEFINE S(i, n) == {j \in 1 .. Len(batch) :
                           j <= n /\ batch[j].id = i /\ batch[j].meta # NoMeta}
  <1>1. /\ work.seq = db.seq /\ DOMAIN work.rows = DOMAIN db.rows
        /\ \A i \in DOMAIN db.rows : MetaOf(i, k - 1)
    BY DEF Updated
  <1>2. k \in 1 .. Len(batch) /\ k \in Nat /\ k' - 1 = k
    BY TypeFacts DEF TypeInv, Room, TypeOK, CallType
  <1>3. work'.seq = db'.seq /\ DOMAIN work'.rows = DOMAIN db'.rows
    BY <1>1, UpdateKeepsRows, UpdateItemType
  <1>4. ASSUME NEW i \in DOMAIN db.rows
        PROVE  \/ S(i, k) = {} /\ work'.rows[i] = db.rows[i]
               \/ \E j \in S(i, k) : (\A l \in S(i, k) : l <= j) /\ work'.rows[i] = batch[j].meta
    <2>1. \/ S(i, k - 1) = {} /\ work.rows[i] = db.rows[i]
          \/ \E j \in S(i, k - 1) : /\ \A l \in S(i, k - 1) : l <= j
                                    /\ work.rows[i] = batch[j].meta
      BY <1>1 DEF MetaOf
    <2>2. work'.rows[i] = IF HasMeta /\ Item.id = i THEN Item.meta ELSE work.rows[i]
      BY <1>1, MetaWritten
    <2>3. CASE HasMeta /\ Item.id = i
      <3>1. k \in S(i, k) /\ work'.rows[i] = batch[k].meta
        BY <1>2, <2>2, <2>3 DEF HasMeta, Item
      <3>2. \A l \in S(i, k) : l <= k
        OBVIOUS
      <3> QED
        BY <3>1, <3>2
    <2>4. CASE ~(HasMeta /\ Item.id = i)
      <3>1. k \notin S(i, k)
        BY <2>4 DEF HasMeta, Item
      <3>2. S(i, k) = S(i, k - 1)
        <4>1. \A j \in 1 .. Len(batch) : j # k => (j <= k <=> j <= k - 1)
          BY <1>2
        <4>2. ~(k <= k - 1)
          BY <1>2
        <4> QED
          BY <3>1, <4>1, <4>2
      <3>3. work'.rows[i] = work.rows[i]
        BY <2>2, <2>4
      <3> HIDE DEF S
      <3> QED
        BY <2>1, <3>2, <3>3
    <2> QED
      BY <2>3, <2>4
  <1>5. ASSUME NEW i \in DOMAIN db'.rows
        PROVE  MetaOf(i, k - 1)'
    <2>1. {j \in 1 .. Len(batch') : /\ j <= k' - 1 /\ batch'[j].id = i
                                    /\ batch'[j].meta # NoMeta} = S(i, k)
      BY <1>2
    <2> QED
      BY <1>4, <1>5, <2>1 DEF MetaOf
  <1> QED
    BY <1>3, <1>5

LEMMA StartUpdates ==
  ASSUME TypeInv, CopyInv, InOrder, StartUpdate
  PROVE  Updated'
  <1>1. /\ pc = "idle" /\ pc' = "update" /\ UNCHANGED <<db, work>> /\ work = db
        /\ hdr' = main.count /\ k' = 1 /\ Flush
    BY DEF StartUpdate, Begin, InOrder
  <1>2. hdr' = Len(main'.recs)
    BY <1>1, FlushType DEF TypeInv, CopyInv, MainGood, Good
  <1>3. ASSUME NEW i \in DOMAIN db'.rows
        PROVE  MetaOf(i, k - 1)'
    <2>1. k' - 1 = 0 /\ \A j \in 1 .. Len(batch') : ~(j <= 0)
      BY <1>1
    <2>2. {j \in 1 .. Len(batch') : /\ j <= k' - 1 /\ batch'[j].id = i
                                    /\ batch'[j].meta # NoMeta} = {}
      BY <2>1
    <2> QED
      BY <1>1, <2>2 DEF MetaOf
  <1> QED
    BY <1>1, <1>2, <1>3 DEF Updated

LEMMA UpdatedPreserved ==
  ASSUME NoSqliteErrors, TypeInv, CopyInv, InOrder, Updated, [Next]_vars
  PROVE  Updated'
  <1>1. CASE pc' \notin {"update", "undo"}
    BY <1>1 DEF Updated
  <1>2. CASE UpdateMetaOnly \/ UpdateVector
    <2>1. /\ pc = "update" /\ pc' = "update" /\ k <= Len(batch) /\ work' = WithMeta
          /\ db' = db /\ batch' = batch /\ k' = k + 1 /\ hdr' = hdr
          /\ main' = main \/ main' = Flushed(main)
      BY <1>2 DEF UpdateMetaOnly, UpdateVector, disk
    <2>2. Len(main'.recs) = Len(main.recs) /\ hdr = Len(main.recs)
      BY <2>1, FlushedImage DEF Updated, TypeInv
    <2> QED
      BY <2>1, <2>2, ItemUpdates DEF Updated
  <1>3. CASE UpdateNotFound
    <2>1. /\ pc = "update" /\ pc' = "undo" /\ k <= Len(batch) /\ batch' = batch
          /\ HasVector /\ 0 \in Located(Item.id) /\ main' = Flushed(main)
          /\ hdr = Len(main.recs)
      BY <1>3 DEF UpdateNotFound, Flush, Updated
    <2>2. Item.id \notin IdsOf(main)
      BY <2>1, LocatedIsSure
    <2>3. IdsOf(main)' = IdsOf(main)
      BY <2>1, FlushKeepsIds
    <2>4. k \in 1 .. Len(batch)
      BY <2>1, TypeFacts DEF TypeInv, Room, TypeOK, CallType
    <2>5. batch'[k].vec \in Vectors /\ batch'[k].id \notin IdsOf(main)' /\ k \in 1 .. Len(batch')
      BY <2>1, <2>2, <2>3, <2>4 DEF HasVector, Item
    <2> QED
      BY <2>1, <2>5 DEF Updated
  <1>4. CASE UNCHANGED <<main, db, work, pc, batch, hdr, k>>
    <2>1. IdsOf(main)' = IdsOf(main) /\ \A i : MetaOf(i, k - 1)' = MetaOf(i, k - 1)
      BY <1>4 DEF IdsOf, MetaOf
    <2> QED
      BY <1>4, <2>1 DEF Updated
  <1> QED
    BY <1>1, <1>2, <1>3, <1>4, UpdatedSteps, StartUpdates

LEMMA RefineInvariant ==
  ASSUME NoSqliteErrors
  PROVE  Spec => []RefineInv
  <1>1. Init => RefineInv
    BY DEF Init, RefineInv, InOrder, Unwritten, Chosen, Prepared, Deleted,
       Updated, Inserting, Deleting, InsertPcs, UpdatePcs
  <1>2. TypeInv /\ NumberInv /\ CopyInv /\ MetaInv /\ RefineInv /\ [Next]_vars
          => RefineInv'
    BY OrderPreserved, UnwrittenPreserved, ChosenPreserved, PreparedPreserved,
       DeletedPreserved, UpdatedPreserved DEF RefineInv
  <1> QED
    BY <1>1, <1>2, TypeInvariant, NumberInvariant, CopyInvariant, MetaInvariant,
       PTL DEF Spec

-----------------------------------------------------------------------------
(* What the abstract index sees of a state                                 *)

\* Ascending ids name one record each.
LEMMA RecordFound ==
  ASSUME NEW img \in Image, AscendingIn(img.recs, Len(img.recs)),
         NEW p \in 1 .. Len(img.recs)
  PROVE  RecordOf(img, img.recs[p].id) = img.recs[p]
  <1>1. /\ Len(img.recs) \in Nat
        /\ \A q \in 1 .. Len(img.recs) : img.recs[q].id \in Nat
    BY IdsAreNumbers DEF Image
  <1>2. ASSUME NEW q \in 1 .. Len(img.recs), img.recs[q].id = img.recs[p].id
        PROVE  q = p
    BY <1>1, <1>2 DEF AscendingIn
  <1>3. (CHOOSE q \in 1 .. Len(img.recs) : img.recs[q].id = img.recs[p].id) = p
    BY <1>2
  <1> QED
    BY <1>3 DEF RecordOf

\* The abstract index depends on the vectors and rows stored, the sequence, and
\* the call in progress.
LEMMA StoredStays ==
  ASSUME UNCHANGED <<main, db>>
  PROVE  /\ StoredVectors' = StoredVectors /\ StoredMetas' = StoredMetas
         /\ Stored' = Stored /\ db'.seq = db.seq
  BY DEF StoredVectors, StoredMetas, Stored, RecordOf, IdsOf

LEMMA Unseen ==
  ASSUME UNCHANGED <<main, db, batch, ids>>, Kind' = Kind, Phase' = Phase
  PROVE  UNCHANGED Abs!vars
  BY StoredStays DEF Abs!vars, Request

\* The call in progress, by where the client is.
SeenAs ==
  /\ pc \in {"idle", "down"} => Kind = "none" /\ Phase = pc
  /\ pc \in InsertPcs \/ Inserting => Kind = "insert" /\ Phase = "asked"
  /\ pc \in {"scan", "rows"} => Kind = "delete" /\ Phase = "asked"
  /\ Deleting => Kind = "delete" /\ Phase = "done"
  /\ pc \in {"update", "undo"} => Kind = "update" /\ Phase = "asked"
  /\ pc \in {"flush", "answer"} => Kind = "update" /\ Phase = "done"
  /\ pc = "reopen" => Phase = "done"

LEMMA KindOfPlace == (InOrder => SeenAs) /\ (InOrder' => SeenAs')
  <1>1. InOrder => SeenAs
    BY DEF SeenAs, InOrder, Kind, Phase, Took, InsertPcs, UpdatePcs, Inserting,
       Deleting
  <1>2. InOrder' => SeenAs'
    BY DEF SeenAs, InOrder, Kind, Phase, Took, InsertPcs, UpdatePcs, Inserting,
       Deleting
  <1> QED
    BY <1>1, <1>2

\* Nothing the caller could see happens while a copy is prepared, while rows
\* are written inside the transaction, or when stdio has nothing to write.
LEMMA QuietSteps ==
  ASSUME NoSqliteErrors, TypeInv, CopyInv, RefineInv, InOrder',
         \/ FilterItem \/ CopyToTemp \/ OpenInsert \/ InsertRow \/ AppendRecords
         \/ ScanRecord \/ SealTemp \/ DeleteRows \/ UpdateMetaOnly
         \/ DeleteByFilterNoMatch \/ Read \/ UNCHANGED vars
  PROVE  UNCHANGED Abs!vars
  <1> USE DEF RefineInv
  <1>1. CASE FilterItem \/ CopyToTemp \/ InsertRow \/ AppendRecords
    <2>1. /\ UNCHANGED <<main, db, batch, ids>> /\ pc \in InsertPcs
          /\ pc' \in InsertPcs \/ Inserting'
      BY <1>1 DEF FilterItem, CopyToTemp, InsertRow, AppendRecords, disk, sqlite,
         call, InsertPcs, Inserting, InOrder
    <2> QED
      BY <2>1, Unseen, KindOfPlace DEF SeenAs
  <1>2. CASE OpenInsert
    <2>1. /\ UNCHANGED <<db, batch, ids>> /\ pc = "open" /\ pc' = "item"
          /\ main' = Flushed(main)
      BY <1>2 DEF InOrder, OpenInsert, Begin, Flush
    <2>2. main' = main
      BY <2>1, FlushOfNothing DEF Unwritten
    <2> QED
      BY <2>1, <2>2, Unseen, KindOfPlace DEF SeenAs, InsertPcs
  <1>3. CASE ScanRecord \/ DeleteRows
    <2>1. /\ UNCHANGED <<main, db, batch, ids>> /\ pc \in {"scan", "rows"} /\ pc' = pc
      BY <1>3 DEF ScanRecord, DeleteRows, disk, sqlite
    <2> QED
      BY <2>1, Unseen, KindOfPlace DEF SeenAs
  <1>4. CASE SealTemp
    <2>1. /\ UNCHANGED <<db, batch, ids>> /\ pc = "scan" /\ pc' = "rows"
          /\ main' = Flushed(main)
      BY <1>4 DEF InOrder, SealTemp, Begin, Flush, call
    <2>2. main' = main
      BY <2>1, FlushOfNothing DEF Unwritten
    <2> QED
      BY <2>1, <2>2, Unseen, KindOfPlace DEF SeenAs
  <1>5. CASE UpdateMetaOnly
    <2>1. UNCHANGED <<main, db, batch, ids>> /\ pc = "update" /\ pc' = "update"
      BY <1>5 DEF UpdateMetaOnly, disk
    <2> QED
      BY <2>1, Unseen, KindOfPlace DEF SeenAs
  <1>6. CASE DeleteByFilterNoMatch \/ Read
    <2>1. /\ UNCHANGED <<db, batch, ids>> /\ pc = "idle" /\ pc' = "idle"
          /\ main' = Flushed(main)
      BY <1>6 DEF DeleteByFilterNoMatch, Read, sqlite, call, Flush
    <2>2. main' = main
      BY <2>1, FlushOfNothing DEF Unwritten
    <2> QED
      BY <2>1, <2>2, Unseen, KindOfPlace DEF SeenAs
  <1>7. CASE UNCHANGED vars
    BY <1>7, Unseen DEF vars, Kind, Phase, Took
  <1> QED
    BY <1>1, <1>2, <1>3, <1>4, <1>5, <1>6, <1>7

LEMMA StartAsks ==
  ASSUME TypeInv, RefineInv, InOrder',
         StartInsert \/ StartDeleteByIds \/ StartDeleteByFilter \/ StartUpdate
  PROVE  Abs!AskInsert \/ Abs!AskDelete \/ Abs!AskDeleteByFilter \/ Abs!AskUpdate
  <1> USE DEF RefineInv
  <1>1. /\ pc = "idle" /\ Phase = "idle" /\ batch = <<>> /\ ids = {} /\ work = db
        /\ wbuf = <<>>
    BY KindOfPlace DEF SeenAs, InOrder, Unwritten, StartInsert, StartDeleteByIds,
       StartDeleteByFilter, StartUpdate
  <1>2. UNCHANGED <<main, db>>
    BY <1>1, FlushOfNothing DEF StartInsert, StartDeleteByIds, StartDeleteByFilter,
       StartUpdate, BeginDelete, Flush, Begin, disk, sqlite
  <1>3. UNCHANGED <<StoredVectors, StoredMetas, db.seq>>
    BY <1>2, StoredStays
  <1>4. CASE StartInsert
    <2>1. PICK b \in InsertBatches : batch' = b
      BY <1>4 DEF StartInsert
    <2>2. pc' = "filter" /\ ids' = {}
      BY <1>1, <1>4 DEF StartInsert
    <2>3. Kind' = "insert" /\ Phase' = "asked"
      BY <2>2, KindOfPlace DEF SeenAs, InsertPcs
    <2>4. Request' = [kind |-> "insert", items |-> b, ids |-> {}]
      BY <2>1, <2>2, <2>3 DEF Request
    <2>5. Abs!Ask("insert", b, {})
      BY <1>1, <1>3, <2>3, <2>4 DEF Abs!Ask
    <2> QED
      BY <2>5 DEF Abs!AskInsert
  <1>5. CASE StartUpdate
    <2>1. PICK b \in UpdateBatches : batch' = b
      BY <1>5 DEF StartUpdate
    <2>2. pc' = "update" /\ ids' = {}
      BY <1>1, <1>5 DEF StartUpdate
    <2>3. Kind' = "update" /\ Phase' = "asked"
      BY <2>2, KindOfPlace DEF SeenAs
    <2>4. Request' = [kind |-> "update", items |-> b, ids |-> {}]
      BY <2>1, <2>2, <2>3 DEF Request
    <2>5. Abs!Ask("update", b, {})
      BY <1>1, <1>3, <2>3, <2>4 DEF Abs!Ask
    <2> QED
      BY <2>5 DEF Abs!AskUpdate
  <1>6. ASSUME NEW S, NEW filtered, BeginDelete(S, filtered)
        PROVE  Abs!Ask("delete", <<>>, S)
    <2>1. pc' = "scan" /\ ids' = S /\ batch' = <<>>
      BY <1>1, <1>6 DEF BeginDelete
    <2>2. Kind' = "delete" /\ Phase' = "asked"
      BY <2>1, KindOfPlace DEF SeenAs
    <2>3. Request' = [kind |-> "delete", items |-> <<>>, ids |-> S]
      BY <2>1, <2>2 DEF Request
    <2> QED
      BY <1>1, <1>3, <2>2, <2>3 DEF Abs!Ask
  <1>7. CASE StartDeleteByIds
    <2>1. PICK S \in IdLists : BeginDelete(S, FALSE)
      BY <1>7 DEF StartDeleteByIds
    <2> QED
      BY <1>6, <2>1 DEF Abs!AskDelete
  <1>8. CASE StartDeleteByFilter
    <2>1. PICK f \in Filters : BeginDelete(Matching(f), TRUE)
      BY <1>8 DEF StartDeleteByFilter
    <2>2. Matching(f) \in SUBSET (1 .. MaxId)
      BY DEF Matching, TypeInv, TypeOK, SqliteType, IsTable, Ids
    <2>3. Matching(f) \cap DOMAIN StoredMetas =
            {i \in DOMAIN StoredMetas : StoredMetas[i] \in f}
      BY <1>1 DEF Matching, StoredMetas, Stored
    <2> QED
      BY <1>6, <2>1, <2>2, <2>3 DEF Abs!AskDeleteByFilter
  <1> QED
    BY <1>4, <1>5, <1>7, <1>8

\* The items the abstract insertion accepts are those the client keeps.
LEMMA AcceptedAreValid ==
  ASSUME TypeInv, Selected(Len(batch))
  PROVE  Abs!Accepted = valid
  <1>1. \A S : Abs!Cardinality(S) = Cardinality(S)
    BY DEF Abs!Cardinality, Cardinality
  <1>2. Abs!Fitting = Fit /\ Request.items = batch
    BY DEF Abs!Fitting, Fit, Request
  <1>3. \A j : Abs!Rank(j) = RankOf(j)
    BY <1>1, <1>2 DEF Abs!Rank, RankOf
  <1>4. /\ Len(valid) = Cardinality({j \in Fit : j <= Len(batch)})
        /\ \A j \in Fit : j <= Len(batch) => valid[RankOf(j)] = batch[j]
        /\ \A m \in 1 .. Len(valid) : \E j \in Fit : j <= Len(batch) /\ RankOf(j) = m
    BY DEF Selected
  <1>5. \A j \in Fit : j <= Len(batch)
    BY TypeFacts DEF Fit, TypeInv
  <1>6. {j \in Fit : j <= Len(batch)} = Fit
    BY <1>5
  <1>7. Len(valid) = Abs!Cardinality(Abs!Fitting)
    BY <1>1, <1>2, <1>4, <1>6
  <1>8. ASSUME NEW n \in 1 .. Len(valid)
        PROVE  Request.items[CHOOSE j \in Abs!Fitting : Abs!Rank(j) = n] = valid[n]
    <2> DEFINE c == CHOOSE j \in Abs!Fitting : Abs!Rank(j) = n
    <2>1. \E j \in Abs!Fitting : Abs!Rank(j) = n
      BY <1>2, <1>3, <1>4
    <2>2. c \in Abs!Fitting /\ Abs!Rank(c) = n
      BY <2>1
    <2> HIDE DEF c
    <2>3. valid[n] = batch[c]
      BY <1>2, <1>3, <1>4, <1>5, <2>2
    <2> QED
      BY <1>2, <2>3 DEF c
  <1>9. valid = [n \in 1 .. Len(valid) |-> valid[n]]
    BY DEF TypeInv, TypeOK, CallType
  <1>10. Abs!Accepted = [n \in 1 .. Len(valid) |->
                           Request.items[CHOOSE j \in Abs!Fitting : Abs!Rank(j) = n]]
    BY <1>7, Zenon DEF Abs!Accepted
  <1> QED
    BY <1>8, <1>9, <1>10

LEMMA CallReturns ==
  ASSUME TypeInv, RefineInv, InOrder',
         NothingValid \/ Reopen \/ AnswerUpdate \/ UndoUpdate
  PROVE  Abs!Return
  <1> USE DEF RefineInv
  <1>1. UNCHANGED <<main, db>>
    <2>1. CASE Reopen
      <3>1. wbuf = <<>> /\ main' = Flushed(main) /\ db' = db
        BY <2>1 DEF Reopen, Flush, sqlite, Unwritten
      <3> QED
        BY <3>1, FlushOfNothing
    <2> QED
      BY <2>1 DEF NothingValid, AnswerUpdate, UndoUpdate, Rollback, disk, sqlite
  <1>2. UNCHANGED <<StoredVectors, StoredMetas, db.seq>>
    BY <1>1, StoredStays
  <1>3. pc' = "idle" /\ batch' = <<>> /\ ids' = {}
    BY DEF NothingValid, Reopen, AnswerUpdate, UndoUpdate, Forget
  <1>4. Phase' = "idle" /\ Request' = Abs!None
    BY <1>3, KindOfPlace DEF SeenAs, Request, Abs!None
  <1>5. Abs!MayReturn
    <2>1. CASE NothingValid
      <3>1. /\ pc = "filter" /\ k > Len(batch) /\ valid = <<>> /\ Selected(k - 1)
        BY <2>1 DEF NothingValid, Chosen
      <3>2. k - 1 = Len(batch)
        BY <3>1, TypeFacts DEF TypeInv, Room
      <3>3. Selected(Len(batch))
        BY <3>1, <3>2
      <3>4. Abs!Accepted = <<>>
        BY <3>1, <3>3, AcceptedAreValid
      <3>5. Phase = "asked" /\ Request.kind = "insert"
        BY <3>1, KindOfPlace DEF SeenAs, InsertPcs, Request
      <3> QED
        BY <3>4, <3>5 DEF Abs!MayReturn, Abs!Asked
    <2>2. CASE Reopen \/ AnswerUpdate
      <3>1. Phase = "done"
        BY <2>2, KindOfPlace DEF SeenAs, Reopen, AnswerUpdate
      <3> QED
        BY <3>1 DEF Abs!MayReturn
    <2>3. CASE UndoUpdate
      <3>1. pc = "undo"
        BY <2>3 DEF UndoUpdate
      <3>2. Phase = "asked" /\ Request.kind = "update" /\ Request.items = batch
        BY <3>1, KindOfPlace DEF SeenAs, Request
      <3>3. PICK j \in 1 .. Len(batch) :
              batch[j].vec \in Vectors /\ batch[j].id \notin IdsOf(main)
        BY <3>1 DEF Updated
      <3>4. batch[j].id \notin DOMAIN StoredVectors
        BY <3>3 DEF StoredVectors, Stored
      <3>5. \E i \in 1 .. Len(Request.items) :
              /\ Request.items[i].vec \in Vectors
              /\ Request.items[i].id \notin DOMAIN StoredVectors
        BY <3>2, <3>3, <3>4
      <3> QED
        BY <3>2, <3>5 DEF Abs!MayReturn, Abs!Asked
    <2> QED
      BY <2>1, <2>2, <2>3
  <1> QED
    BY <1>2, <1>4, <1>5 DEF Abs!Return

LEMMA ProcessDies ==
  ASSUME StatsOnClosedFile \/ Crash, InOrder'
  PROVE  Abs!Die
  <1>1. /\ UNCHANGED <<main, db>> /\ pc' = "down" /\ batch' = <<>> /\ ids' = {}
    BY DEF StatsOnClosedFile, Crash, Die, Forget
  <1>2. Phase' = "down" /\ Request' = Abs!None
    BY <1>1, KindOfPlace DEF SeenAs, Request, Abs!None
  <1> QED
    BY <1>1, <1>2, StoredStays DEF Abs!Die

LEMMA ClientConnects ==
  ASSUME InOrder, InOrder', Connect
  PROVE  Abs!Connect
  <1>1. /\ UNCHANGED <<main, db, batch, ids>> /\ pc = "down" /\ pc' = "idle"
    BY DEF Connect, disk, sqlite, call
  <1>2. Phase = "down" /\ Phase' = "idle" /\ Request' = Request
    BY <1>1, KindOfPlace DEF SeenAs, Request
  <1> QED
    BY <1>1, <1>2, StoredStays DEF Abs!Connect

\* The commit of an insertion's rows reserves ids; no record has them yet.
LEMMA CommitReserves ==
  ASSUME NoSqliteErrors, TypeInv, TypeInv', NumberInv, CopyInv, RefineInv,
         InOrder', EndInsert
  PROVE  Abs!Reserve
  <1> USE DEF RefineInv
  <1>1. /\ pc = "item" /\ pc' = "append" /\ UNCHANGED <<main, batch, ids>>
        /\ db' = work
    BY NoFailedSteps DEF EndInsert, Commit, disk, call
  <1>2. /\ Phase = "asked" /\ Phase' = "asked" /\ Request' = Request
        /\ Request.kind = "insert"
    BY <1>1, KindOfPlace DEF SeenAs, InsertPcs, Request
  <1>3. \A i \in DOMAIN db.rows : i \in DOMAIN work.rows /\ work.rows[i] = db.rows[i]
    BY <1>1 DEF Prepared
  <1>4. ASSUME NEW i \in IdsOf(main), i \in DOMAIN work.rows
        PROVE  i \in DOMAIN db.rows
    <2>1. i \in Nat /\ i <= db.seq /\ db.seq \in Nat
      BY <1>4, GoodIds, ImageIds, TypeFacts
         DEF CopyInv, MainGood, TypeInv, TypeOK, DiskType
    <2> QED
      BY <1>4, <2>1 DEF NumberInv
  <1>5. Stored' = Stored
    BY <1>1, <1>3, <1>4 DEF Stored, IdsOf
  <1>6. StoredVectors' = StoredVectors
    BY <1>1, <1>5 DEF StoredVectors, RecordOf
  <1>7. StoredMetas' = StoredMetas
    BY <1>1, <1>3, <1>5 DEF StoredMetas, Stored
  <1>8. db'.seq \in db.seq .. MaxId
    BY <1>1, TypeFacts, ConstantsAssumption
       DEF NumberInv, TypeInv, TypeOK, SqliteType, IsTable
  <1> QED
    BY <1>2, <1>6, <1>7, <1>8 DEF Abs!Reserve, Abs!Asked

LEMMA CommitRemoves ==
  ASSUME NoSqliteErrors, TypeInv, RefineInv, InOrder', CommitDelete
  PROVE  Abs!Remove
  <1> USE DEF RefineInv
  <1>1. /\ pc = "rows" /\ pc' \in {"rename", "reopen"} /\ ids # {}
        /\ UNCHANGED <<main, batch, ids>>
    BY DEF CommitDelete, disk, call, InOrder
  <1>2. /\ db'.seq = db.seq
        /\ db'.rows = [i \in DOMAIN db.rows \ ids |-> db.rows[i]]
    BY CommitDeletes
  <1>3. Phase = "asked" /\ Kind = "delete" /\ Phase' = "done" /\ Kind' = "delete"
    BY <1>1, KindOfPlace DEF SeenAs, Deleting, Kind
  <1>4. Request' = Request /\ Request.kind = "delete" /\ Request.ids = ids
    BY <1>1, <1>3 DEF Request
  <1>5. Stored' = Stored \ ids /\ DOMAIN db'.rows = DOMAIN db.rows \ ids
    BY <1>1, <1>2 DEF Stored, IdsOf
  <1>6. StoredVectors' = [i \in DOMAIN StoredVectors \ ids |-> StoredVectors[i]]
    BY <1>1, <1>5 DEF StoredVectors, RecordOf
  <1>7. StoredMetas' = [i \in DOMAIN StoredMetas \ ids |-> StoredMetas[i]]
    <2>1. ASSUME NEW i \in Stored \ ids
          PROVE  db'.rows[i] = db.rows[i]
      BY <1>2, <2>1 DEF Stored
    <2> QED
      BY <1>5, <2>1 DEF StoredMetas
  <1> QED
    BY <1>2, <1>3, <1>4, <1>6, <1>7 DEF Abs!Remove, Abs!Asked

\* The copy of a deletion shows the same index as the file it replaces, whose
\* other records lost their rows at the commit.
LEMMA RenameShowsTheSame ==
  ASSUME TypeInv, CopyInv, FollowInv, RefineInv, InOrder', RenameTemp, Deleting
  PROVE  UNCHANGED Abs!vars
  <1> USE DEF RefineInv
  <1>1. /\ pc = "rename" /\ pc' = "reopen" /\ main' = temp
        /\ UNCHANGED <<db, batch, ids>> /\ ids # {}
    BY DEF RenameTemp, sqlite, call, Deleting
  <1>2. /\ DOMAIN db.rows \cap ids = {}
        /\ \A p \in 1 .. Len(temp.recs) : \E q \in 1 .. Len(main.recs) :
             temp.recs[p] = main.recs[q]
    BY DEF Deleted
  <1>3. /\ main \in Image /\ AscendingIn(main.recs, Len(main.recs))
        /\ temp \in Image /\ AscendingIn(temp.recs, Len(temp.recs))
    BY <1>1 DEF TypeInv, TypeOK, DiskType, TempReady, CopyInv, MainGood, TempGood,
       CopyPcs, Good
  <1>4. IdsOf(temp) \subseteq IdsOf(main)
    BY <1>2 DEF IdsOf
  <1>5. Stored' = Stored
    <2>1. IdsOf(main) \ IdsOf(temp) \subseteq ids
      BY <1>1 DEF FollowInv
    <2>2. Stored' = IdsOf(temp) \cap DOMAIN db.rows
      BY <1>1 DEF Stored
    <2> QED
      BY <1>2, <1>4, <2>1, <2>2 DEF Stored
  <1>6. ASSUME NEW i \in Stored
        PROVE  RecordOf(temp, i) = RecordOf(main, i)
    <2>1. i \in IdsOf(temp)
      BY <1>1, <1>5, <1>6 DEF Stored
    <2>2. PICK p \in 1 .. Len(temp.recs) : temp.recs[p].id = i
      BY <2>1 DEF IdsOf
    <2>3. PICK q \in 1 .. Len(main.recs) : temp.recs[p] = main.recs[q]
      BY <1>2
    <2>4. RecordOf(temp, temp.recs[p].id) = temp.recs[p]
      BY <1>3, RecordFound
    <2>5. RecordOf(main, main.recs[q].id) = main.recs[q]
      BY <1>3, RecordFound
    <2> QED
      BY <2>2, <2>3, <2>4, <2>5
  <1>7. StoredVectors' = StoredVectors
    BY <1>1, <1>5, <1>6 DEF StoredVectors
  <1>8. StoredMetas' = StoredMetas
    BY <1>1, <1>5 DEF StoredMetas
  <1>9. Kind' = Kind /\ Phase' = Phase
    BY <1>1, KindOfPlace DEF SeenAs, Deleting, Kind
  <1> QED
    BY <1>1, <1>7, <1>8, <1>9 DEF Abs!vars, Request

\* The rename of an insertion's copy adds the accepted items, all at once.
LEMMA RenameAdds ==
  ASSUME TypeInv, CopyInv, FollowInv, RefineInv, InOrder', RenameTemp, Inserting
  PROVE  Abs!Add
  <1> USE DEF RefineInv
  <1> DEFINE n   == Len(buf)
             low == db.seq - Len(buf)
             new == low + 1 .. low + Len(buf)
  <1>1. /\ pc = "rename" /\ pc' = "reopen" /\ main' = temp
        /\ UNCHANGED <<db, batch, ids>> /\ ids = {}
    BY DEF RenameTemp, sqlite, call, Inserting
  <1>2. /\ buf # <<>> /\ Len(buf) = Len(valid) /\ temp.recs = main.recs \o buf
        /\ low \in Nat /\ \A i \in IdsOf(main) : i <= low
        /\ \A j \in 1 .. Len(buf) :
             /\ buf[j].id = low + j /\ buf[j].vec = valid[j].vec
             /\ buf[j].id \in DOMAIN db.rows /\ db.rows[buf[j].id] = valid[j].meta
    BY DEF Prepared, NumberedFrom
  <1>3. Abs!Accepted = valid
    BY AcceptedAreValid DEF Chosen
  <1>4. /\ main \in Image /\ AscendingIn(main.recs, Len(main.recs))
        /\ temp \in Image /\ AscendingIn(temp.recs, Len(temp.recs))
        /\ main.recs \in Seq(Rec) /\ buf \in Seq(Rec)
        /\ Len(main.recs) \in Nat /\ Len(buf) \in Nat /\ db.seq \in Nat
    BY <1>1, BufType, TypeFacts DEF TypeInv, TypeOK, DiskType, TempReady, CopyInv,
       MainGood, TempGood, CopyPcs, Good
  <1>5. /\ Len(temp.recs) = Len(main.recs) + Len(buf)
        /\ \A p \in 1 .. Len(main.recs) : temp.recs[p] = main.recs[p]
        /\ \A j \in 1 .. Len(buf) : temp.recs[Len(main.recs) + j] = buf[j]
    <2>1. /\ Len(temp.recs) = Len(main.recs) + Len(buf)
          /\ \A p \in 1 .. Len(main.recs) + Len(buf) :
               temp.recs[p] = IF p <= Len(main.recs) THEN main.recs[p]
                              ELSE buf[p - Len(main.recs)]
      <3> DEFINE s == main.recs
      <3>1. s \in Seq(Rec) /\ buf \in Seq(Rec) /\ temp.recs = s \o buf
        BY <1>2, <1>4
      <3> HIDE DEF s
      <3>2. /\ Len(temp.recs) = Len(s) + Len(buf)
            /\ \A p \in 1 .. Len(s) + Len(buf) :
                 temp.recs[p] = IF p <= Len(s) THEN s[p] ELSE buf[p - Len(s)]
        BY <3>1, ConcatProperties
      <3> QED
        BY <3>2 DEF s
    <2> DEFINE m == Len(main.recs)
    <2>2. m \in Nat /\ Len(buf) \in Nat
      BY <1>4
    <2>3. ASSUME NEW j \in 1 .. Len(buf)
          PROVE  temp.recs[m + j] = buf[j]
      <3>1. m + j \in 1 .. m + Len(buf) /\ ~(m + j <= m) /\ m + j - m = j
        BY <2>2, <2>3
      <3> QED
        BY <2>1, <3>1
    <2>4. ASSUME NEW p \in 1 .. m
          PROVE  temp.recs[p] = main.recs[p]
      <3>1. p \in 1 .. m + Len(buf) /\ p <= m
        BY <2>2, <2>4
      <3> QED
        BY <2>1, <3>1
    <2> QED
      BY <2>1, <2>3, <2>4
  <1>6. ASSUME NEW i \in new
        PROVE  /\ i \in IdsOf(temp) /\ i \in DOMAIN db.rows
               /\ RecordOf(temp, i).vec = valid[i - low].vec
               /\ db.rows[i] = valid[i - low].meta
    <2> DEFINE j == i - low
    <2>1. j \in 1 .. Len(buf) /\ low + j = i
      BY <1>2, <1>4, <1>6
    <2>2. /\ buf[j].id = i /\ buf[j].vec = valid[j].vec
          /\ i \in DOMAIN db.rows /\ db.rows[i] = valid[j].meta
      BY <1>2, <2>1
    <2> HIDE DEF j
    <2>3. Len(main.recs) + j \in 1 .. Len(temp.recs)
      BY <1>4, <1>5, <2>1
    <2>4. temp.recs[Len(main.recs) + j] = buf[j]
      BY <1>5, <2>1
    <2>5. RecordOf(temp, temp.recs[Len(main.recs) + j].id) = temp.recs[Len(main.recs) + j]
      BY <1>4, <2>3, RecordFound
    <2>6. RecordOf(temp, i) = buf[j]
      BY <2>2, <2>4, <2>5
    <2>7. i \in IdsOf(temp)
      BY <2>2, <2>3, <2>4 DEF IdsOf
    <2> QED
      BY <2>2, <2>6, <2>7 DEF j
  <1>7. ASSUME NEW i \in IdsOf(main)
        PROVE  i \in IdsOf(temp) /\ i \notin new /\ RecordOf(temp, i) = RecordOf(main, i)
    <2>1. PICK p \in 1 .. Len(main.recs) : main.recs[p].id = i
      BY <1>7 DEF IdsOf
    <2>2. p \in 1 .. Len(temp.recs) /\ temp.recs[p] = main.recs[p]
      BY <1>4, <1>5, <2>1
    <2>3. RecordOf(temp, temp.recs[p].id) = temp.recs[p]
      BY <1>4, <2>2, RecordFound
    <2>4. RecordOf(main, main.recs[p].id) = main.recs[p]
      BY <1>4, RecordFound
    <2>5. i \in IdsOf(temp)
      BY <2>1, <2>2 DEF IdsOf
    <2>6. i \notin new
      <3>1. i \in Nat /\ i <= low
        BY <1>2, <1>4, <1>7, ImageIds
      <3> QED
        BY <1>2, <3>1
    <2> QED
      BY <2>1, <2>2, <2>3, <2>4, <2>5, <2>6
  <1>8. ASSUME NEW i \in IdsOf(temp)
        PROVE  i \in IdsOf(main) \/ i \in new
    <2>1. PICK p \in 1 .. Len(temp.recs) : temp.recs[p].id = i
      BY <1>8 DEF IdsOf
    <2>2. CASE p \in 1 .. Len(main.recs)
      BY <1>5, <2>1, <2>2 DEF IdsOf
    <2>3. CASE p \notin 1 .. Len(main.recs)
      <3> DEFINE j == p - Len(main.recs)
      <3>1. j \in 1 .. Len(buf) /\ Len(main.recs) + j = p
        BY <1>4, <1>5, <2>3
      <3> HIDE DEF j
      <3>2. i = low + j
        BY <1>2, <1>5, <2>1, <3>1
      <3> QED
        BY <1>2, <1>4, <3>1, <3>2
    <2> QED
      BY <2>2, <2>3
  <1> HIDE DEF new
  <1>9. Stored' = Stored \cup new
    <2>1. Stored' = IdsOf(temp) \cap DOMAIN db.rows
      BY <1>1 DEF Stored
    <2> QED
      BY <1>6, <1>7, <1>8, <2>1 DEF Stored
  <1>10. StoredVectors' = [i \in DOMAIN StoredVectors \cup new |->
            IF i \in new THEN valid[i - low].vec ELSE StoredVectors[i]]
    <2>1. StoredVectors' = [i \in Stored \cup new |-> RecordOf(temp, i).vec]
      BY <1>1, <1>9 DEF StoredVectors
    <2>2. ASSUME NEW i \in Stored \cup new
          PROVE  RecordOf(temp, i).vec =
                   IF i \in new THEN valid[i - low].vec ELSE StoredVectors[i]
      BY <1>6, <1>7, <2>2 DEF Stored, StoredVectors
    <2>3. DOMAIN StoredVectors = Stored
      BY DEF StoredVectors
    <2> HIDE DEF low
    <2> QED
      BY <2>1, <2>2, <2>3
  <1>11. StoredMetas' = [i \in DOMAIN StoredMetas \cup new |->
            IF i \in new THEN valid[i - low].meta ELSE StoredMetas[i]]
    <2>1. StoredMetas' = [i \in Stored \cup new |-> db.rows[i]]
      BY <1>1, <1>9 DEF StoredMetas
    <2>2. ASSUME NEW i \in Stored \cup new
          PROVE  db.rows[i] =
                   IF i \in new THEN valid[i - low].meta ELSE StoredMetas[i]
      BY <1>6, <1>7, <2>2 DEF Stored, StoredMetas
    <2>3. DOMAIN StoredMetas = Stored
      BY DEF StoredMetas
    <2> HIDE DEF low
    <2> QED
      BY <2>1, <2>2, <2>3
  <1>12. /\ Phase = "asked" /\ Kind = "insert" /\ Phase' = "done" /\ Kind' = "insert"
    BY <1>1, KindOfPlace DEF SeenAs, Inserting, Kind
  <1>13. Request' = Request /\ Request.kind = "insert"
    BY <1>1, <1>12 DEF Request
  <1>14. /\ low \in 0 .. db.seq - Len(Abs!Accepted) /\ Abs!Accepted # <<>>
         /\ \A i \in DOMAIN StoredVectors : i <= low
         /\ new = low + 1 .. low + Len(Abs!Accepted)
    <2>1. Len(valid) # 0
      BY <1>2, <1>4, EmptySeq
    <2>2. valid # <<>>
      BY <2>1, EmptySeq
    <2>3. \A i \in DOMAIN StoredVectors : i <= low
      BY <1>2 DEF StoredVectors, Stored
    <2>4. low \in 0 .. db.seq - Len(valid)
      BY <1>2, <1>4
    <2>5. new = low + 1 .. low + Len(valid)
      BY <1>2 DEF new
    <2> QED
      BY <1>3, <2>2, <2>3, <2>4, <2>5
  <1> HIDE DEF low
  <1> QED
    BY <1>1, <1>3, <1>10, <1>11, <1>12, <1>13, <1>14 DEF Abs!Add, Abs!Asked

\* What stdio writes is the vector of one item of the update, or nothing.
LEMMA FlushSetsVector ==
  ASSUME TypeInv, CopyInv, RefineInv, main' = Flushed(main), db' = db,
         Request' = Request, Phase' = Phase
  PROVE  Abs!SetVector \/ UNCHANGED Abs!vars
  <1> USE DEF RefineInv
  <1>1. CASE wbuf = <<>>
    <2>1. main' = main
      BY <1>1, FlushOfNothing
    <2> QED
      BY <2>1, StoredStays DEF Abs!vars
  <1>2. CASE wbuf # <<>>
    <2>1. pc \in {"update", "flush"}
      BY <1>2 DEF Unwritten
    <2>2. PICK p \in 1 .. Len(main.recs), j \in 1 .. Len(batch) :
            /\ batch[j].vec \in Vectors /\ main.recs[p].id = batch[j].id
            /\ wbuf = [q \in {p} |-> batch[j].vec]
      BY <1>2 DEF Unwritten
    <2> DEFINE u == batch[j]
    <2>3. Request.kind = "update" /\ Request.items = batch
      BY <2>1, KindOfPlace DEF SeenAs, Request
    <2>4. /\ main \in Image /\ AscendingIn(main.recs, Len(main.recs))
          /\ Flushed(main) \in Image
          /\ AscendingIn(Flushed(main).recs, Len(Flushed(main).recs))
          /\ Len(Flushed(main).recs) = Len(main.recs)
      BY FlushedImage, FlushedGood, TypeFacts
         DEF TypeInv, TypeOK, DiskType, CopyInv, MainGood, Good
    <2>5. ASSUME NEW q \in 1 .. Len(main.recs)
          PROVE  /\ Flushed(main).recs[q].id = main.recs[q].id
                 /\ Flushed(main).recs[q].vec = IF q = p THEN u.vec ELSE main.recs[q].vec
      BY <2>2, <2>5 DEF Flushed
    <2>6. Stored' = Stored
      <3>1. IdsOf(main)' = IdsOf(main)
        BY FlushKeepsIds
      <3> QED
        BY <3>1 DEF Stored
    <2>7. ASSUME NEW i \in Stored
          PROVE  RecordOf(main', i).vec = IF i = u.id THEN u.vec ELSE RecordOf(main, i).vec
      <3>1. PICK q \in 1 .. Len(main.recs) : main.recs[q].id = i
        BY <2>7 DEF Stored, IdsOf
      <3>2. RecordOf(main, i) = main.recs[q]
        BY <2>4, <3>1, RecordFound
      <3>3. /\ q \in 1 .. Len(Flushed(main).recs)
            /\ Flushed(main).recs[q].id = i
        BY <2>4, <2>5, <3>1
      <3>4. RecordOf(Flushed(main), i) = Flushed(main).recs[q]
        BY <2>4, <3>3, RecordFound
      <3>5. i = u.id <=> q = p
        <4>1. RecordOf(main, main.recs[p].id) = main.recs[p]
          BY <2>4, RecordFound
        <4>2. ASSUME i = u.id, q # p
              PROVE  FALSE
          <5>1. main.recs[q].id = main.recs[p].id
            BY <2>2, <3>1, <4>2
          <5>2. main.recs[q].id \in Nat /\ main.recs[p].id \in Nat
            BY <2>4, IdsAreNumbers DEF Image
          <5>3. p < q \/ q < p
            BY <4>2
          <5> QED
            BY <2>4, <5>1, <5>2, <5>3 DEF AscendingIn
        <4> QED
          BY <2>2, <3>1, <4>2
      <3> QED
        BY <2>5, <3>2, <3>4, <3>5
    <2>8. StoredVectors' = [i \in Stored |-> IF i = u.id THEN u.vec ELSE StoredVectors[i]]
      BY <2>6, <2>7 DEF StoredVectors
    <2>9. StoredMetas' = StoredMetas
      BY <2>6 DEF StoredMetas
    <2>10. CASE u.id \in Stored
      <3>1. StoredVectors' = [StoredVectors EXCEPT ![u.id] = u.vec]
        BY <2>8 DEF StoredVectors
      <3>2. u.id \in DOMAIN StoredVectors
        BY <2>10 DEF StoredVectors
      <3> QED
        BY <2>2, <2>3, <2>9, <3>1, <3>2 DEF Abs!SetVector
    <2>11. CASE u.id \notin Stored
      <3>1. StoredVectors' = StoredVectors
        BY <2>8, <2>11 DEF StoredVectors
      <3> QED
        BY <2>9, <3>1 DEF Abs!vars
    <2> QED
      BY <2>10, <2>11
  <1> QED
    BY <1>1, <1>2

LEMMA UpdateWrites ==
  ASSUME TypeInv, CopyInv, RefineInv, InOrder',
         UpdateVector \/ UpdateNotFound \/ FlushUpdate
  PROVE  Abs!SetVector \/ UNCHANGED Abs!vars
  <1> USE DEF RefineInv
  <1>1. /\ main' = Flushed(main) /\ UNCHANGED <<db, batch, ids>>
        /\ \/ pc = "update" /\ pc' \in {"update", "undo"}
           \/ pc = "flush" /\ pc' = "answer"
    BY DEF UpdateVector, UpdateNotFound, FlushUpdate, Flush, sqlite, call
  <1>2. Kind' = Kind /\ Phase' = Phase
    BY <1>1, KindOfPlace DEF SeenAs
  <1>3. Request' = Request
    BY <1>1, <1>2 DEF Request
  <1> QED
    BY <1>1, <1>2, <1>3, FlushSetsVector

\* The commit of an update sets the metadata of all its items at once.
LEMMA CommitSetsMetas ==
  ASSUME NoSqliteErrors, TypeInv, CopyInv, RefineInv, InOrder', CommitUpdate
  PROVE  Abs!SetMetas
  <1> USE DEF RefineInv
  <1>1. /\ pc = "update" /\ pc' = "flush" /\ UNCHANGED <<main, batch, ids>>
        /\ db' = work /\ k > Len(batch)
    BY NoFailedSteps DEF CommitUpdate, Commit, disk, call
  <1>2. /\ work.seq = db.seq /\ DOMAIN work.rows = DOMAIN db.rows
        /\ \A i \in DOMAIN db.rows : MetaOf(i, k - 1)
    BY <1>1 DEF Updated
  <1>3. Stored' = Stored /\ StoredVectors' = StoredVectors
    BY <1>1, <1>2 DEF Stored, StoredVectors, IdsOf
  <1>4. /\ Phase = "asked" /\ Kind = "update" /\ Phase' = "done" /\ Kind' = "update"
    BY <1>1, KindOfPlace DEF SeenAs
  <1>5. Request' = Request /\ Request.kind = "update" /\ Request.items = batch
    BY <1>1, <1>4 DEF Request
  <1>6. ASSUME NEW i \in Stored
        PROVE  work.rows[i] = IF Abs!MetaItems(i) = {} THEN StoredMetas[i]
                              ELSE Request.items[Abs!Max(Abs!MetaItems(i))].meta
    <2> DEFINE S == {j \in 1 .. Len(batch) :
                       j <= k - 1 /\ batch[j].id = i /\ batch[j].meta # NoMeta}
    <2>1. \A j \in 1 .. Len(batch) : j <= k - 1
      BY <1>1, TypeFacts DEF TypeInv, TypeOK, CallType
    <2>2. Abs!MetaItems(i) = S
      BY <1>5, <2>1 DEF Abs!MetaItems
    <2>3. \/ S = {} /\ work.rows[i] = db.rows[i]
          \/ \E j \in S : (\A l \in S : l <= j) /\ work.rows[i] = batch[j].meta
      BY <1>2, <1>6 DEF MetaOf, Stored
    <2>4. S \subseteq Int /\ StoredMetas[i] = db.rows[i]
      BY <1>6 DEF StoredMetas
    <2> HIDE DEF S
    <2>5. CASE S = {}
      BY <2>2, <2>3, <2>4, <2>5
    <2>6. CASE S # {}
      <3>1. PICK j \in S : (\A l \in S : l <= j) /\ work.rows[i] = batch[j].meta
        BY <2>3, <2>6
      <3>2. \A x \in S : (\A y \in S : x >= y) => x = j
        BY <2>4, <3>1
      <3>3. j \in S /\ \A y \in S : j >= y
        BY <2>4, <3>1
      <3>4. (CHOOSE x \in S : \A y \in S : x >= y) = j
        BY <3>2, <3>3
      <3>5. Abs!Max(S) = j
        BY <3>4 DEF Abs!Max
      <3> QED
        BY <1>5, <2>2, <2>6, <3>1, <3>5
    <2> QED
      BY <2>5, <2>6
  <1>7. StoredMetas' = [i \in DOMAIN StoredMetas |->
          IF Abs!MetaItems(i) = {} THEN StoredMetas[i]
                                   ELSE Request.items[Abs!Max(Abs!MetaItems(i))].meta]
    <2>1. StoredMetas' = [i \in Stored |-> work.rows[i]]
      BY <1>1, <1>3 DEF StoredMetas
    <2>2. DOMAIN StoredMetas = Stored
      BY DEF StoredMetas
    <2> QED
      BY <1>6, <2>1, <2>2
  <1> QED
    BY <1>1, <1>2, <1>3, <1>4, <1>5, <1>7 DEF Abs!SetMetas, Abs!Asked

-----------------------------------------------------------------------------
(* The refinement                                                          *)

LEMMA InitRefines == Init => Abs!Init
  <1> SUFFICES ASSUME Init PROVE Abs!Init
    OBVIOUS
  <1>1. IdsOf(main) = {} /\ Stored = {}
    BY DEF Init, IdsOf, Stored
  <1>2. StoredVectors = <<>> /\ StoredMetas = <<>>
    BY <1>1 DEF StoredVectors, StoredMetas
  <1>3. Request = Abs!None /\ Phase = "idle" /\ db.seq = 0
    BY DEF Init, Request, Kind, Phase, Abs!None
  <1> QED
    BY <1>2, <1>3 DEF Abs!Init

LEMMA NextRefines ==
  ASSUME NoSqliteErrors, TypeInv, TypeInv', NumberInv, CopyInv, FollowInv,
         RefineInv, RefineInv', [Next]_vars
  PROVE  [Abs!Next]_(Abs!vars)
  <1>1. InOrder /\ InOrder'
    BY DEF RefineInv
  <1>2. CASE Insert
    <2>1. CASE StartInsert
      BY <1>1, <2>1, StartAsks DEF Abs!Next
    <2>2. CASE NothingValid
      BY <1>1, <2>2, CallReturns DEF Abs!Next
    <2>3. CASE EndInsert
      BY <1>1, <2>3, CommitReserves DEF Abs!Next
    <2>4. CASE FilterItem \/ CopyToTemp \/ OpenInsert \/ InsertRow \/ AppendRecords
      BY <1>1, <2>4, QuietSteps
    <2> QED
      BY <1>1, <1>2, <2>1, <2>2, <2>3, <2>4, NoFailedSteps DEF Insert
  <1>3. CASE Delete
    <2>1. CASE StartDeleteByIds \/ StartDeleteByFilter
      BY <1>1, <2>1, StartAsks DEF Abs!Next
    <2>2. CASE CommitDelete
      BY <1>1, <2>2, CommitRemoves DEF Abs!Next
    <2>3. CASE DeleteByFilterNoMatch \/ ScanRecord \/ SealTemp \/ DeleteRows
      BY <1>1, <2>3, QuietSteps
    <2> QED
      BY <1>3, <2>1, <2>2, <2>3 DEF Delete
  <1>4. CASE UpdateById
    <2>1. CASE StartUpdate
      BY <1>1, <2>1, StartAsks DEF Abs!Next
    <2>2. CASE UpdateVector \/ UpdateNotFound \/ FlushUpdate
      BY <1>1, <2>2, UpdateWrites DEF Abs!Next
    <2>3. CASE CommitUpdate
      BY <1>1, <2>3, CommitSetsMetas DEF Abs!Next
    <2>4. CASE AnswerUpdate \/ UndoUpdate
      BY <1>1, <2>4, CallReturns DEF Abs!Next
    <2>5. CASE UpdateMetaOnly
      BY <1>1, <2>5, QuietSteps
    <2> QED
      BY <1>1, <1>4, <2>1, <2>2, <2>3, <2>4, <2>5, NoFailedSteps DEF UpdateById
  <1>5. CASE RenameTemp
    <2>1. Inserting \/ Deleting
      BY <1>5 DEF RenameTemp, Inserting, Deleting
    <2> QED
      BY <1>1, <1>5, <2>1, RenameAdds, RenameShowsTheSame DEF Abs!Next
  <1>6. CASE Reopen
    BY <1>1, <1>6, CallReturns DEF Abs!Next
  <1>7. CASE StatsOnClosedFile \/ Crash
    BY <1>1, <1>7, ProcessDies DEF Abs!Next
  <1>8. CASE Connect
    BY <1>1, <1>8, ClientConnects DEF Abs!Next
  <1>9. CASE Read \/ UNCHANGED vars
    BY <1>1, <1>9, QuietSteps
  <1> QED
    BY <1>2, <1>3, <1>4, <1>5, <1>6, <1>7, <1>8, <1>9 DEF Next

\* While SQLite reports no error every behaviour of the write path is one of
\* the abstract index, for all arguments and bounds and wherever the process
\* dies: an insertion appears whole at the rename and a deletion whole at the
\* commit of its rows, or not at all; an update replaces vectors one by one and
\* the metadata at once; and no call returns before it took effect, but an
\* insertion of nothing and an update of an unknown id.
THEOREM WritePathImplementsIndex ==
  ASSUME NoSqliteErrors
  PROVE  Spec => Implements
  <1>1. TypeInv /\ TypeInv' /\ NumberInv /\ CopyInv /\ FollowInv /\ RefineInv
          /\ RefineInv' /\ [Next]_vars => [Abs!Next]_(Abs!vars)
    BY NextRefines
  <1> QED
    BY <1>1, InitRefines, TypeInvariant, NumberInvariant, CopyInvariant,
       FollowInvariant, RefineInvariant, PTL DEF Spec, Implements, Abs!Spec

=============================================================================

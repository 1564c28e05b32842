--------------------------- MODULE VecStoreProofs ---------------------------
(***************************************************************************)
(* Proofs about the write path of VecStore, for all arguments, bounds and  *)
(* vectors.                                                                *)
(***************************************************************************)
EXTENDS VecStore, FiniteSetTheorems, SequenceTheorems, NaturalsInduction,
        WellFoundedInduction, TLAPS

InsertPcs == {"filter", "open", "item", "append", "nothing"}
UpdatePcs == {"update", "flush", "answer", "undo"}

\* What a batch holds depends on the operation.
BatchFits ==
  /\ pc \in InsertPcs => batch \in Seq(Insertion)
  /\ pc \in UpdatePcs => batch \in Seq(Update)

\* An insertion has reserved the ids it is going to use.
Room ==
  /\ pc = "filter" => /\ k \in 1 .. Len(batch) + 1 /\ Len(valid) < k
                      /\ work.seq + Len(batch) <= MaxId
  /\ pc = "open" => work.seq + Len(valid) <= MaxId
  /\ pc = "item" => /\ k \in 1 .. Len(valid) + 1
                    /\ work.seq + (Len(valid) - k + 1) <= MaxId
                    /\ Len(buf) < k
  /\ pc = "append" => Len(buf) <= Len(valid)
  /\ pc = "update" => k >= 1
  /\ pc \in {"idle", "down"} => valid = <<>>
  /\ pc \in {"idle", "down", "filter", "open"} => buf = <<>>

\* While a ".temp" file is being prepared it exists, and stdio owes nothing
\* to the file it is going to replace.
TempReady ==
  /\ pc \in {"open", "item", "append", "rename", "scan", "rows"} => temp \in Image
  /\ pc \in {"open", "item", "append", "rename", "rows"} =>
       temp.count <= Len(temp.recs)
  /\ pc \in {"item", "append"} => hdr = temp.count
  /\ pc = "scan" => hdr = main.count /\ k >= 1
  /\ pc \in {"item", "append", "nothing", "rename", "reopen", "scan", "rows"} =>
       wbuf = <<>>

TypeInv == TypeOK /\ BatchFits /\ Room /\ TempReady /\ HeaderWithinFile

LEMMA FlushedImage ==
  ASSUME TypeOK
  PROVE  /\ Flushed(main) \in Image
         /\ Flushed(main).count = main.count
         /\ Len(Flushed(main).recs) = Len(main.recs)
         /\ \A p \in 1 .. Len(main.recs) :
              Flushed(main).recs[p].id = main.recs[p].id
  <1> DEFINE r == Flushed(main).recs
  <1>1. main \in Image /\ main.recs \in Seq(Rec) /\ Len(main.recs) \in Nat
    BY DEF TypeOK, DiskType, Image
  <1>2. \A p \in DOMAIN wbuf : wbuf[p] \in Vectors
    BY DEF TypeOK, DiskType
  <1>3. \A p \in 1 .. Len(main.recs) : main.recs[p] \in Rec
    BY <1>1, ElementOfSeq
  <1>4. /\ r \in [1 .. Len(main.recs) -> Rec]
        /\ \A p \in 1 .. Len(main.recs) : r[p].id = main.recs[p].id
    BY <1>2, <1>3 DEF Rec, Flushed
  <1>5. r \in Seq(Rec) /\ Len(r) = Len(main.recs)
    <2> HIDE DEF r
    <2> QED
      BY <1>1, <1>4
  <1> QED
    BY <1>1, <1>4, <1>5 DEF Image, Flushed

LEMMA NoWrites ==
  ASSUME NEW n \in Nat
  PROVE  DOMAIN <<>> \subseteq 1 .. n /\ <<>> \in [DOMAIN <<>> -> Vectors]
  OBVIOUS

LEMMA FlushType ==
  ASSUME TypeOK, Flush
  PROVE  /\ main' \in Image
         /\ main'.count = main.count
         /\ Len(main'.recs) = Len(main.recs)
         /\ wbuf' = <<>>
         /\ DOMAIN wbuf' \subseteq 1 .. Len(main'.recs)
         /\ wbuf' \in [DOMAIN wbuf' -> Vectors]
  <1>1. Len(main.recs) \in Nat
    BY DEF TypeOK, DiskType, Image
  <1> QED
    BY <1>1, FlushedImage, NoWrites DEF Flush

LEMMA TypeFacts ==
  ASSUME TypeOK
  PROVE  /\ main.recs \in Seq(Rec) /\ main.count \in Nat
         /\ Len(main.recs) \in Nat
         /\ Len(batch) \in Nat /\ Len(valid) \in Nat /\ Len(buf) \in Nat
         /\ db.seq \in Nat /\ work.seq \in Nat
  BY ConstantsAssumption
     DEF TypeOK, DiskType, CallType, SqliteType, IsTable, Image

LEMMA ForgetType ==
  ASSUME Forget
  PROVE  /\ CallType'
         /\ valid' = <<>> /\ buf' = <<>> /\ batch' = <<>>
  <1>1. \A S : <<>> \in Seq(S)
    BY EmptySeq
  <1> QED
    BY <1>1 DEF Forget, CallType, Tally

\* The table stays one when a row is written or rows are deleted.
LEMMA WithRowType ==
  ASSUME NEW t, IsTable(t), NEW id \in Ids, NEW md \in Metas, NEW n \in 0 .. MaxId
  PROVE  IsTable([rows |-> WithRow(t.rows, id, md), seq |-> n])
  BY DEF IsTable, WithRow

LEMMA WithoutRowsType ==
  ASSUME NEW t, IsTable(t), NEW S
  PROVE  /\ IsTable([t EXCEPT !.rows = WithoutRows(@, S)])
         /\ [t EXCEPT !.rows = WithoutRows(@, S)].seq = t.seq
  <1>1. [t EXCEPT !.rows = WithoutRows(@, S)] =
          [rows |-> WithoutRows(t.rows, S), seq |-> t.seq]
    BY DEF IsTable
  <1> QED
    BY <1>1 DEF IsTable, WithoutRows

\* The item an update has come to, and what it does to the table.
LEMMA UpdateItemType ==
  ASSUME TypeInv, pc = "update", k <= Len(batch)
  PROVE  /\ Item \in Update
         /\ IsTable(WithMeta) /\ WithMeta.seq = work.seq
         /\ MetaTally \in Nat /\ tally.vec \in Nat
  <1>1. batch \in Seq(Update) /\ k \in 1 .. Len(batch)
    BY TypeFacts DEF TypeInv, TypeOK, CallType, BatchFits, UpdatePcs, Room
  <1>2. Item \in Update
    BY <1>1, ElementOfSeq DEF Item
  <1>3. IsTable(work) /\ tally \in [meta : Nat, vec : Nat]
    BY DEF TypeInv, TypeOK, SqliteType, CallType
  <1>4. CASE RowHit
    <2>1. Item.id \in Ids /\ Item.meta \in Metas
      BY <1>2, <1>3, <1>4 DEF RowHit, HasMeta, Update, IsTable
    <2>2. WithMeta = [rows |-> WithRow(work.rows, Item.id, Item.meta),
                      seq |-> work.seq]
      BY <1>3, <1>4 DEF WithMeta, IsTable
    <2>3. IsTable(WithMeta)
      BY <1>3, <2>1, <2>2, WithRowType DEF IsTable
    <2> QED
      BY <1>2, <1>3, <1>4, <2>2, <2>3 DEF MetaTally
  <1>5. CASE ~RowHit
    BY <1>2, <1>3, <1>5 DEF WithMeta, MetaTally
  <1> QED
    BY <1>4, <1>5

-----------------------------------------------------------------------------
(* Every action keeps the types                                            *)

LEMMA StartInsertType ==
  ASSUME TypeInv, StartInsert
  PROVE  TypeInv'
  <1>1. DiskType'
    BY DEF TypeInv, TypeOK, DiskType, disk, sqlite, StartInsert
  <1>2. SqliteType'
    BY DEF TypeInv, TypeOK, SqliteType, disk, sqlite, StartInsert
  <1>3. CallType'
    BY ConstantsAssumption DEF TypeInv, TypeOK, CallType, StartInsert
  <1>4. PlaceType'
    BY DEF TypeInv, TypeOK, PlaceType, disk, sqlite, StartInsert
  <1>5. BatchFits'
    BY ConstantsAssumption DEF BatchFits, InsertPcs, UpdatePcs, StartInsert
  <1>6. Room'
    BY DEF TypeInv, Room, disk, sqlite, StartInsert
  <1>7. TempReady'
    BY DEF TypeInv, TempReady, disk, sqlite, StartInsert
  <1>8. HeaderWithinFile'
    BY DEF TypeInv, HeaderWithinFile, TempReady, disk, sqlite, StartInsert
  <1> QED
    BY <1>1, <1>2, <1>3, <1>4, <1>5, <1>6, <1>7, <1>8 DEF TypeInv, TypeOK

LEMMA FilterItemType ==
  ASSUME TypeInv, FilterItem
  PROVE  TypeInv'
  <1>1. DiskType'
    BY DEF TypeInv, TypeOK, DiskType, disk, sqlite, FilterItem
  <1>2. SqliteType'
    BY DEF TypeInv, TypeOK, SqliteType, disk, sqlite, FilterItem
  <1>3. CallType'
    <2>1. batch \in Seq(Insertion) /\ k \in 1 .. Len(batch)
      BY TypeFacts DEF TypeInv, BatchFits, InsertPcs, Room, FilterItem
    <2>2. batch[k] \in Insertion
      BY <2>1, ElementOfSeq
    <2>3. batch[k].vec # BadVec => batch[k] \in [vec : Vectors, meta : Metas]
      BY <2>2 DEF Insertion
    <2>4. valid' \in Seq([vec : Vectors, meta : Metas])
      BY <2>3, AppendProperties DEF TypeInv, TypeOK, CallType, FilterItem
    <2> QED
      BY <2>4 DEF TypeInv, TypeOK, CallType, FilterItem
  <1>4. PlaceType'
    BY DEF TypeInv, TypeOK, PlaceType, disk, sqlite, FilterItem
  <1>5. BatchFits'
    BY DEF TypeInv, BatchFits, InsertPcs, UpdatePcs, disk, sqlite, FilterItem
  <1>6. Room'
    BY DEF TypeInv, Room, disk, sqlite, FilterItem
  <1>7. TempReady'
    BY DEF TypeInv, TempReady, disk, sqlite, FilterItem
  <1>8. HeaderWithinFile'
    BY DEF TypeInv, HeaderWithinFile, TempReady, disk, sqlite, FilterItem
  <1> QED
    BY <1>1, <1>2, <1>3, <1>4, <1>5, <1>6, <1>7, <1>8 DEF TypeInv, TypeOK

LEMMA NothingValidType ==
  ASSUME TypeInv, NothingValid
  PROVE  TypeInv'
  <1>1. DiskType'
    BY DEF TypeInv, TypeOK, DiskType, disk, sqlite, NothingValid
  <1>2. SqliteType'
    BY DEF TypeInv, TypeOK, SqliteType, disk, sqlite, NothingValid
  <1>3. CallType'
    BY ForgetType DEF TypeInv, TypeOK, CallType, disk, sqlite, NothingValid
  <1>4. PlaceType'
    BY DEF TypeInv, TypeOK, PlaceType, disk, sqlite, NothingValid
  <1>5. BatchFits'
    BY ForgetType
       DEF TypeInv, BatchFits, InsertPcs, UpdatePcs, disk, sqlite, NothingValid
  <1>6. Room'
    BY ForgetType DEF TypeInv, Room, disk, sqlite, NothingValid
  <1>7. TempReady'
    BY DEF TypeInv, TempReady, disk, sqlite, NothingValid
  <1>8. HeaderWithinFile'
    BY DEF TypeInv, HeaderWithinFile, TempReady, disk, sqlite, NothingValid
  <1> QED
    BY <1>1, <1>2, <1>3, <1>4, <1>5, <1>6, <1>7, <1>8 DEF TypeInv, TypeOK

LEMMA CopyToTempType ==
  ASSUME TypeInv, CopyToTemp
  PROVE  TypeInv'
  <1>1. DiskType'
    BY DEF TypeInv, TypeOK, DiskType, call, sqlite, CopyToTemp
  <1>2. SqliteType'
    BY DEF TypeInv, TypeOK, SqliteType, call, sqlite, CopyToTemp
  <1>3. CallType'
    BY DEF TypeInv, TypeOK, CallType, call, sqlite, CopyToTemp
  <1>4. PlaceType'
    BY DEF TypeInv, TypeOK, PlaceType, call, sqlite, CopyToTemp
  <1>5. BatchFits'
    BY DEF TypeInv, BatchFits, InsertPcs, UpdatePcs, call, sqlite, CopyToTemp
  <1>6. Room'
    BY TypeFacts, ConstantsAssumption
       DEF TypeInv, TypeOK, CallType, Room, call, sqlite, CopyToTemp
  <1>7. TempReady'
    BY DEF TypeInv, TypeOK, DiskType, TempReady, HeaderWithinFile, call,
       CopyToTemp
  <1>8. HeaderWithinFile'
    BY DEF TypeInv, HeaderWithinFile, TempReady, call, sqlite, CopyToTemp
  <1> QED
    BY <1>1, <1>2, <1>3, <1>4, <1>5, <1>6, <1>7, <1>8 DEF TypeInv, TypeOK

LEMMA OpenInsertType ==
  ASSUME TypeInv, OpenInsert
  PROVE  TypeInv'
  <1>1. DiskType'
    BY FlushType DEF TypeInv, TypeOK, DiskType, sqlite, OpenInsert, Begin
  <1>2. SqliteType'
    BY DEF TypeInv, TypeOK, SqliteType, sqlite, OpenInsert, Begin
  <1>3. CallType'
    BY DEF TypeInv, TypeOK, CallType, TempReady, Image, OpenInsert
  <1>4. PlaceType'
    BY DEF TypeInv, TypeOK, PlaceType, sqlite, OpenInsert, Begin
  <1>5. BatchFits'
    BY DEF TypeInv, BatchFits, InsertPcs, UpdatePcs, sqlite, OpenInsert, Begin
  <1>6. Room'
    BY DEF TypeInv, Room, sqlite, OpenInsert, Begin
  <1>7. TempReady'
    BY FlushType DEF TypeInv, TempReady, sqlite, OpenInsert, Begin
  <1>8. HeaderWithinFile'
    BY FlushType
       DEF TypeInv, HeaderWithinFile, TempReady, sqlite, OpenInsert, Begin
  <1> QED
    BY <1>1, <1>2, <1>3, <1>4, <1>5, <1>6, <1>7, <1>8 DEF TypeInv, TypeOK

LEMMA InsertRowType ==
  ASSUME TypeInv, InsertRow
  PROVE  TypeInv'
  <1>a. valid[k] \in [vec : Vectors, meta : Metas]
    <2>1. valid \in Seq([vec : Vectors, meta : Metas])
      BY DEF TypeInv, TypeOK, CallType
    <2>2. Len(valid) \in Nat /\ k \in 1 .. Len(valid)
      BY TypeFacts DEF TypeInv, Room, InsertRow
    <2> QED
      BY <2>1, <2>2, ElementOfSeq
  <1>b. BoundMeta \in Metas
    BY <1>a DEF TypeInv, TypeOK, CallType, BoundMeta
  <1>c. /\ NextRowId(work) \in Ids /\ NextRowId(work) = work.seq + 1
        /\ work.seq + 1 \in 0 .. MaxId
    <2>1. /\ Len(valid) \in Nat /\ k \in 1 .. Len(valid)
          /\ work.seq + (Len(valid) - k + 1) <= MaxId
          /\ work.seq \in Nat /\ MaxId \in Nat
      BY TypeFacts, ConstantsAssumption DEF TypeInv, Room, InsertRow
    <2>2. work.seq + 1 <= MaxId
      BY <2>1
    <2> QED
      BY <2>1, <2>2 DEF NextRowId, Ids
  <1>d. /\ work'.seq = work.seq + 1
        /\ buf' = Append(buf, [id |-> NextRowId(work), vec |-> valid[k].vec])
        /\ [id |-> NextRowId(work), vec |-> valid[k].vec] \in [id : Ids, vec : Vectors]
    BY <1>a, <1>c DEF InsertRow
  <1>e. buf' \in Seq([id : Ids, vec : Vectors]) /\ Len(buf') = Len(buf) + 1
    BY <1>d, AppendProperties DEF TypeInv, TypeOK, CallType
  <1>1. DiskType'
    BY DEF TypeInv, TypeOK, DiskType, disk, InsertRow
  <1>2. SqliteType'
    BY <1>b, <1>c, WithRowType DEF TypeInv, TypeOK, SqliteType, InsertRow
  <1>3. CallType'
    BY <1>e DEF TypeInv, TypeOK, CallType, InsertRow
  <1>4. PlaceType'
    BY DEF TypeInv, TypeOK, PlaceType, disk, InsertRow
  <1>5. BatchFits'
    BY DEF TypeInv, BatchFits, InsertPcs, UpdatePcs, disk, InsertRow
  <1>6. Room'
    <2>1. /\ k \in 1 .. Len(valid) /\ Len(valid) \in Nat /\ Len(buf) \in Nat
          /\ work.seq \in Nat /\ MaxId \in Nat
      BY TypeFacts, ConstantsAssumption DEF TypeInv, Room, InsertRow
    <2>2. /\ work.seq + (Len(valid) - k + 1) <= MaxId /\ Len(buf) < k
          /\ pc = "item" /\ pc' = "item" /\ k' = k + 1 /\ valid' = valid
      BY DEF TypeInv, Room, InsertRow
    <2>3. /\ k' \in 1 .. Len(valid') + 1
          /\ work'.seq + (Len(valid') - k' + 1) <= MaxId
          /\ Len(buf') < k'
      <3>1. work'.seq = work.seq + 1 /\ Len(buf') = Len(buf) + 1
        BY <1>d, <1>e
      <3>2. /\ k + 1 \in 1 .. Len(valid) + 1 /\ Len(buf) + 1 < k + 1
            /\ work.seq + 1 + (Len(valid) - (k + 1) + 1) <= MaxId
        BY <2>1, <2>2
      <3> QED
        BY <2>2, <3>1, <3>2
    <2> QED
      BY <2>2, <2>3 DEF Room
  <1>7. TempReady'
    BY DEF TypeInv, TempReady, disk, InsertRow
  <1>8. HeaderWithinFile'
    BY DEF TypeInv, HeaderWithinFile, TempReady, disk, InsertRow
  <1> QED
    BY <1>1, <1>2, <1>3, <1>4, <1>5, <1>6, <1>7, <1>8 DEF TypeInv, TypeOK

LEMMA InsertRowFailsType ==
  ASSUME TypeInv, InsertRowFails
  PROVE  TypeInv'
  <1>a. valid[k] \in [vec : Vectors, meta : Metas]
    <2>1. valid \in Seq([vec : Vectors, meta : Metas])
      BY DEF TypeInv, TypeOK, CallType
    <2>2. Len(valid) \in Nat /\ k \in 1 .. Len(valid)
      BY TypeFacts DEF TypeInv, Room, InsertRowFails
    <2> QED
      BY <2>1, <2>2, ElementOfSeq
  <1>1. DiskType'
    BY DEF TypeInv, TypeOK, DiskType, disk, sqlite, InsertRowFails
  <1>2. SqliteType'
    BY DEF TypeInv, TypeOK, SqliteType, disk, sqlite, InsertRowFails
  <1>3. CallType'
    BY <1>a DEF TypeInv, TypeOK, CallType, BoundMeta, InsertRowFails
  <1>4. PlaceType'
    BY DEF TypeInv, TypeOK, PlaceType, disk, sqlite, InsertRowFails
  <1>5. BatchFits'
    BY DEF TypeInv, BatchFits, InsertPcs, UpdatePcs, disk, sqlite,
       InsertRowFails
  <1>6. Room'
    BY TypeFacts, ConstantsAssumption DEF TypeInv, Room, sqlite, InsertRowFails
  <1>7. TempReady'
    BY DEF TypeInv, TempReady, disk, sqlite, InsertRowFails
  <1>8. HeaderWithinFile'
    BY DEF TypeInv, HeaderWithinFile, TempReady, disk, sqlite, InsertRowFails
  <1> QED
    BY <1>1, <1>2, <1>3, <1>4, <1>5, <1>6, <1>7, <1>8 DEF TypeInv, TypeOK

LEMMA EndInsertType ==
  ASSUME TypeInv, EndInsert
  PROVE  TypeInv'
  <1>1. DiskType'
    BY DEF TypeInv, TypeOK, DiskType, disk, call, sqlite, EndInsert, Commit,
       CommitFails, Rollback
  <1>2. SqliteType'
    BY DEF TypeInv, TypeOK, SqliteType, disk, call, sqlite, EndInsert, Commit,
       CommitFails, Rollback
  <1>3. CallType'
    BY DEF TypeInv, TypeOK, CallType, disk, call, sqlite, EndInsert, Commit,
       CommitFails, Rollback
  <1>4. PlaceType'
    BY DEF TypeInv, TypeOK, PlaceType, disk, call, sqlite, EndInsert, Commit,
       CommitFails, Rollback
  <1>5. BatchFits'
    BY DEF TypeInv, BatchFits, InsertPcs, UpdatePcs, disk, call, sqlite,
       EndInsert, Commit, CommitFails, Rollback
  <1>6. Room'
    BY DEF TypeInv, Room, disk, call, sqlite, EndInsert, Commit, CommitFails,
       Rollback
  <1>7. TempReady'
    BY DEF TypeInv, TempReady, disk, call, sqlite, EndInsert, Commit,
       CommitFails, Rollback
  <1>8. HeaderWithinFile'
    BY DEF TypeInv, HeaderWithinFile, TempReady, disk, call, sqlite, EndInsert,
       Commit, CommitFails, Rollback
  <1> QED
    BY <1>1, <1>2, <1>3, <1>4, <1>5, <1>6, <1>7, <1>8 DEF TypeInv, TypeOK

LEMMA RollbackInsertType ==
  ASSUME TypeInv, RollbackInsert
  PROVE  TypeInv'
  <1>1. DiskType'
    BY DEF TypeInv, TypeOK, DiskType, disk, call, RollbackInsert, Rollback
  <1>2. SqliteType'
    BY DEF TypeInv, TypeOK, SqliteType, disk, call, RollbackInsert, Rollback
  <1>3. CallType'
    BY DEF TypeInv, TypeOK, CallType, disk, call, RollbackInsert, Rollback
  <1>4. PlaceType'
    BY DEF TypeInv, TypeOK, PlaceType, disk, call, RollbackInsert, Rollback
  <1>5. BatchFits'
    BY DEF TypeInv, BatchFits, InsertPcs, UpdatePcs, disk, call,
       RollbackInsert, Rollback
  <1>6. Room'
    BY DEF TypeInv, Room, disk, call, RollbackInsert, Rollback
  <1>7. TempReady'
    BY DEF TypeInv, TempReady, disk, call, RollbackInsert, Rollback
  <1>8. HeaderWithinFile'
    BY DEF TypeInv, HeaderWithinFile, TempReady, disk, call, RollbackInsert,
       Rollback
  <1> QED
    BY <1>1, <1>2, <1>3, <1>4, <1>5, <1>6, <1>7, <1>8 DEF TypeInv, TypeOK

LEMMA AppendRecordsType ==
  ASSUME TypeInv, AppendRecords
  PROVE  TypeInv'
  <1>a. /\ temp \in Image /\ temp.recs \in Seq(Rec) /\ temp.count <= Len(temp.recs)
        /\ hdr = temp.count /\ Len(buf) <= Len(valid)
    BY DEF TypeInv, TempReady, Room, Image, AppendRecords
  <1>b. PICK junk \in [1 .. Len(valid) - Len(buf) -> [id : 0 .. MaxId, vec : Vectors]] :
          temp' = [count |-> hdr + Len(buf), recs |-> temp.recs \o buf \o junk]
    BY DEF AppendRecords
  <1>c. junk \in Seq(Rec) /\ buf \in Seq(Rec) /\ Len(buf) \in Nat
    <2>1. Len(valid) - Len(buf) \in Nat
      BY <1>a, TypeFacts DEF TypeInv
    <2>2. junk \in Seq([id : 0 .. MaxId, vec : Vectors])
      <3> DEFINE n == Len(valid) - Len(buf)
                 R == [id : 0 .. MaxId, vec : Vectors]
      <3>1. n \in Nat /\ junk \in [1 .. n -> R]
        BY <2>1
      <3> HIDE DEF n, R
      <3> SUFFICES junk \in Seq(R)
        BY DEF R
      <3> QED
        BY <3>1
    <2>3. /\ [id : 0 .. MaxId, vec : Vectors] \subseteq Rec
          /\ [id : Ids, vec : Vectors] \subseteq Rec
      BY ConstantsAssumption DEF Rec, Ids
    <2> QED
      BY <2>2, <2>3, SeqMonotonic, TypeFacts DEF TypeInv, TypeOK, CallType
  <1>d. /\ temp.recs \o buf \in Seq(Rec)
        /\ Len(temp.recs \o buf) = Len(temp.recs) + Len(buf)
    BY <1>a, <1>c, ConcatProperties
  <1>e. /\ temp.recs \o buf \o junk \in Seq(Rec)
        /\ Len(temp.recs \o buf \o junk) = Len(temp.recs) + Len(buf) + Len(junk)
    BY <1>c, <1>d, ConcatProperties
  <1>f. temp' \in Image /\ temp'.count <= Len(temp'.recs)
    <2>1. temp.count \in Nat /\ Len(temp.recs) \in Nat /\ Len(junk) \in Nat
      BY <1>a, <1>c DEF Image
    <2> QED
      BY <1>a, <1>b, <1>c, <1>e, <2>1 DEF Image
  <1>1. DiskType'
    BY <1>f DEF TypeInv, TypeOK, DiskType, AppendRecords
  <1>2. SqliteType'
    BY DEF TypeInv, TypeOK, SqliteType, call, sqlite, AppendRecords
  <1>3. CallType'
    BY DEF TypeInv, TypeOK, CallType, call, sqlite, AppendRecords
  <1>4. PlaceType'
    BY DEF TypeInv, TypeOK, PlaceType, call, sqlite, AppendRecords
  <1>5. BatchFits'
    BY DEF TypeInv, BatchFits, InsertPcs, UpdatePcs, call, sqlite,
       AppendRecords
  <1>6. Room'
    BY DEF TypeInv, Room, call, sqlite, AppendRecords
  <1>7. TempReady'
    BY <1>f DEF TypeInv, TempReady, call, AppendRecords
  <1>8. HeaderWithinFile'
    BY DEF TypeInv, HeaderWithinFile, TempReady, call, sqlite, AppendRecords
  <1> QED
    BY <1>1, <1>2, <1>3, <1>4, <1>5, <1>6, <1>7, <1>8 DEF TypeInv, TypeOK

LEMMA InsertNothingType ==
  ASSUME TypeInv, InsertNothing
  PROVE  TypeInv'
  <1>1. DiskType'
    BY DEF TypeInv, TypeOK, DiskType, sqlite, InsertNothing
  <1>2. SqliteType'
    BY DEF TypeInv, TypeOK, SqliteType, sqlite, InsertNothing
  <1>3. CallType'
    BY ForgetType DEF TypeInv, TypeOK, CallType, sqlite, InsertNothing
  <1>4. PlaceType'
    BY DEF TypeInv, TypeOK, PlaceType, sqlite, InsertNothing
  <1>5. BatchFits'
    BY ForgetType
       DEF TypeInv, BatchFits, InsertPcs, UpdatePcs, sqlite, InsertNothing
  <1>6. Room'
    BY ForgetType DEF TypeInv, Room, sqlite, InsertNothing
  <1>7. TempReady'
    BY DEF TypeInv, TempReady, sqlite, InsertNothing
  <1>8. HeaderWithinFile'
    BY DEF TypeInv, HeaderWithinFile, TempReady, sqlite, InsertNothing
  <1> QED
    BY <1>1, <1>2, <1>3, <1>4, <1>5, <1>6, <1>7, <1>8 DEF TypeInv, TypeOK

LEMMA RenameTempType ==
  ASSUME TypeInv, RenameTemp
  PROVE  TypeInv'
  <1>1. DiskType'
    <2>1. temp \in Image /\ Len(temp.recs) \in Nat /\ wbuf = <<>>
      BY DEF TypeInv, TempReady, Image, RenameTemp
    <2> QED
      BY <2>1, NoWrites DEF TypeInv, TypeOK, DiskType, RenameTemp
  <1>2. SqliteType'
    BY DEF TypeInv, TypeOK, SqliteType, call, sqlite, RenameTemp
  <1>3. CallType'
    BY DEF TypeInv, TypeOK, CallType, call, sqlite, RenameTemp
  <1>4. PlaceType'
    BY DEF TypeInv, TypeOK, PlaceType, call, sqlite, RenameTemp
  <1>5. BatchFits'
    BY DEF TypeInv, BatchFits, InsertPcs, UpdatePcs, call, sqlite, RenameTemp
  <1>6. Room'
    BY DEF TypeInv, Room, call, sqlite, RenameTemp
  <1>7. TempReady'
    BY DEF TypeInv, TempReady, call, sqlite, RenameTemp
  <1>8. HeaderWithinFile'
    BY DEF TypeInv, HeaderWithinFile, TempReady, call, sqlite, RenameTemp
  <1> QED
    BY <1>1, <1>2, <1>3, <1>4, <1>5, <1>6, <1>7, <1>8 DEF TypeInv, TypeOK

LEMMA ReopenType ==
  ASSUME TypeInv, Reopen
  PROVE  TypeInv'
  <1>1. DiskType'
    BY FlushType DEF TypeInv, TypeOK, DiskType, sqlite, Reopen
  <1>2. SqliteType'
    BY DEF TypeInv, TypeOK, SqliteType, sqlite, Reopen
  <1>3. CallType'
    BY ForgetType DEF TypeInv, TypeOK, CallType, sqlite, Reopen
  <1>4. PlaceType'
    BY DEF TypeInv, TypeOK, PlaceType, sqlite, Reopen
  <1>5. BatchFits'
    BY ForgetType DEF TypeInv, BatchFits, InsertPcs, UpdatePcs, sqlite, Reopen
  <1>6. Room'
    BY ForgetType DEF TypeInv, Room, sqlite, Reopen
  <1>7. TempReady'
    BY FlushType DEF TypeInv, TempReady, sqlite, Reopen
  <1>8. HeaderWithinFile'
    BY FlushType DEF TypeInv, HeaderWithinFile, TempReady, sqlite, Reopen
  <1> QED
    BY <1>1, <1>2, <1>3, <1>4, <1>5, <1>6, <1>7, <1>8 DEF TypeInv, TypeOK

LEMMA StartDeleteByIdsType ==
  ASSUME TypeInv, StartDeleteByIds
  PROVE  TypeInv'
  <1>a. <<>> \in Seq(Rec) /\ main.count \in Nat
    BY EmptySeq, TypeFacts DEF TypeInv
  <1>b. [count |-> main.count, recs |-> <<>>] \in Image
    BY <1>a DEF Image
  <1>1. DiskType'
    BY FlushType, <1>a
       DEF TypeInv, TypeOK, DiskType, Image, StartDeleteByIds, BeginDelete
  <1>2. SqliteType'
    BY DEF TypeInv, TypeOK, SqliteType, sqlite, StartDeleteByIds, BeginDelete
  <1>3. CallType'
    <2>1. \A S \in IdLists : S \in SUBSET Nat
      BY ConstantsAssumption
    <2>2. PICK S \in IdLists : BeginDelete(S, FALSE)
      BY DEF StartDeleteByIds
    <2>3. ids' \in SUBSET Nat /\ todo' \in SUBSET Nat
      BY <2>1, <2>2 DEF BeginDelete
    <2> QED
      BY <1>a, <2>2, <2>3 DEF TypeInv, TypeOK, CallType, BeginDelete
  <1>4. PlaceType'
    BY DEF TypeInv, TypeOK, PlaceType, sqlite, StartDeleteByIds, BeginDelete
  <1>5. BatchFits'
    BY DEF TypeInv, BatchFits, InsertPcs, UpdatePcs, sqlite, StartDeleteByIds,
       BeginDelete
  <1>6. Room'
    BY DEF TypeInv, Room, sqlite, StartDeleteByIds, BeginDelete
  <1>7. TempReady'
    BY FlushType, <1>a, <1>b
       DEF TypeInv, TypeOK, TempReady, StartDeleteByIds, BeginDelete
  <1>8. HeaderWithinFile'
    BY FlushType
       DEF TypeInv, HeaderWithinFile, TempReady, sqlite, StartDeleteByIds,
       BeginDelete
  <1> QED
    BY <1>1, <1>2, <1>3, <1>4, <1>5, <1>6, <1>7, <1>8 DEF TypeInv, TypeOK

LEMMA StartDeleteByFilterType ==
  ASSUME TypeInv, StartDeleteByFilter
  PROVE  TypeInv'
  <1>a. <<>> \in Seq(Rec) /\ main.count \in Nat
    BY EmptySeq, TypeFacts DEF TypeInv
  <1>b. [count |-> main.count, recs |-> <<>>] \in Image
    BY <1>a DEF Image
  <1>1. DiskType'
    BY FlushType, <1>a
       DEF TypeInv, TypeOK, DiskType, Image, StartDeleteByFilter, BeginDelete
  <1>2. SqliteType'
    BY DEF TypeInv, TypeOK, SqliteType, sqlite, StartDeleteByFilter,
       BeginDelete
  <1>3. CallType'
    <2>1. \A f : Matching(f) \subseteq Nat
      BY DEF TypeInv, TypeOK, SqliteType, IsTable, Ids, Matching
    <2> QED
      BY <1>a, <2>1
         DEF TypeInv, TypeOK, CallType, StartDeleteByFilter, BeginDelete
  <1>4. PlaceType'
    BY DEF TypeInv, TypeOK, PlaceType, sqlite, StartDeleteByFilter, BeginDelete
  <1>5. BatchFits'
    BY DEF TypeInv, BatchFits, InsertPcs, UpdatePcs, sqlite,
       StartDeleteByFilter, BeginDelete
  <1>6. Room'
    BY DEF TypeInv, Room, sqlite, StartDeleteByFilter, BeginDelete
  <1>7. TempReady'
    BY FlushType, <1>a, <1>b
       DEF TypeInv, TypeOK, TempReady, StartDeleteByFilter, BeginDelete
  <1>8. HeaderWithinFile'
    BY FlushType
       DEF TypeInv, HeaderWithinFile, TempReady, sqlite, StartDeleteByFilter,
       BeginDelete
  <1> QED
    BY <1>1, <1>2, <1>3, <1>4, <1>5, <1>6, <1>7, <1>8 DEF TypeInv, TypeOK

LEMMA DeleteByFilterNoMatchType ==
  ASSUME TypeInv, DeleteByFilterNoMatch
  PROVE  TypeInv'
  <1>1. DiskType'
    BY FlushType
       DEF TypeInv, TypeOK, DiskType, call, sqlite, DeleteByFilterNoMatch
  <1>2. SqliteType'
    BY DEF TypeInv, TypeOK, SqliteType, call, sqlite, DeleteByFilterNoMatch
  <1>3. CallType'
    BY DEF TypeInv, TypeOK, CallType, call, sqlite, DeleteByFilterNoMatch
  <1>4. PlaceType'
    BY DEF TypeInv, TypeOK, PlaceType, call, sqlite, DeleteByFilterNoMatch
  <1>5. BatchFits'
    BY DEF TypeInv, BatchFits, InsertPcs, UpdatePcs, call, sqlite,
       DeleteByFilterNoMatch
  <1>6. Room'
    BY DEF TypeInv, Room, call, sqlite, DeleteByFilterNoMatch
  <1>7. TempReady'
    BY FlushType DEF TypeInv, TempReady, call, sqlite, DeleteByFilterNoMatch
  <1>8. HeaderWithinFile'
    BY FlushType
       DEF TypeInv, HeaderWithinFile, TempReady, call, sqlite,
       DeleteByFilterNoMatch
  <1> QED
    BY <1>1, <1>2, <1>3, <1>4, <1>5, <1>6, <1>7, <1>8 DEF TypeInv, TypeOK

LEMMA RecsReplaced ==
  ASSUME NEW C, NEW S, NEW f \in [count : C, recs : S], NEW r
  PROVE  [f EXCEPT !.recs = r] = [count |-> f.count, recs |-> r]
  OBVIOUS

LEMMA ScanRecordType ==
  ASSUME TypeInv, ScanRecord
  PROVE  TypeInv'
  <1>a. temp \in Image /\ temp.recs \in Seq(Rec) /\ temp.count \in Nat
    BY DEF TypeInv, TempReady, Image, ScanRecord
  <1>b. main.recs[k] \in Rec
    BY TypeFacts, ElementOfSeq
       DEF TypeInv, TypeOK, CallType, TempReady, HeaderWithinFile, ScanRecord
  <1>c. /\ Append(temp.recs, main.recs[k]) \in Seq(Rec)
        /\ [temp EXCEPT !.recs = Append(@, main.recs[k])] =
             [count |-> temp.count, recs |-> Append(temp.recs, main.recs[k])]
    <2>1. Append(temp.recs, main.recs[k]) \in Seq(Rec)
      BY <1>a, <1>b, AppendProperties
    <2>2. [temp EXCEPT !.recs = Append(@, main.recs[k])] =
            [count |-> temp.count, recs |-> Append(temp.recs, main.recs[k])]
      BY <1>a, RecsReplaced DEF Image
    <2> QED
      BY <2>1, <2>2
  <1>d. temp' \in Image
    BY <1>a, <1>c DEF Image, ScanRecord
  <1>1. DiskType'
    BY <1>d DEF TypeInv, TypeOK, DiskType, ScanRecord
  <1>2. SqliteType'
    BY DEF TypeInv, TypeOK, SqliteType, sqlite, ScanRecord
  <1>3. CallType'
    BY DEF TypeInv, TypeOK, CallType, sqlite, ScanRecord
  <1>4. PlaceType'
    BY DEF TypeInv, TypeOK, PlaceType, sqlite, ScanRecord
  <1>5. BatchFits'
    BY DEF TypeInv, BatchFits, InsertPcs, UpdatePcs, sqlite, ScanRecord
  <1>6. Room'
    BY DEF TypeInv, Room, sqlite, ScanRecord
  <1>7. TempReady'
    BY <1>d DEF TypeInv, TypeOK, CallType, TempReady, ScanRecord
  <1>8. HeaderWithinFile'
    BY DEF TypeInv, HeaderWithinFile, TempReady, sqlite, ScanRecord
  <1> QED
    BY <1>1, <1>2, <1>3, <1>4, <1>5, <1>6, <1>7, <1>8 DEF TypeInv, TypeOK

LEMMA SealTempType ==
  ASSUME TypeInv, SealTemp
  PROVE  TypeInv'
  <1>a. /\ temp' = [count |-> Len(temp.recs), recs |-> temp.recs]
        /\ temp.recs \in Seq(Rec) /\ Len(temp.recs) \in Nat
    BY DEF TypeInv, TempReady, Image, SealTemp
  <1>b. temp' \in Image /\ temp'.count <= Len(temp'.recs)
    BY <1>a DEF Image
  <1>1. DiskType'
    BY FlushType, <1>b DEF TypeInv, TypeOK, DiskType, SealTemp
  <1>2. SqliteType'
    BY DEF TypeInv, TypeOK, SqliteType, call, sqlite, SealTemp, Begin
  <1>3. CallType'
    BY DEF TypeInv, TypeOK, CallType, call, sqlite, SealTemp, Begin
  <1>4. PlaceType'
    BY <1>a DEF TypeInv, TypeOK, CallType, PlaceType, SealTemp
  <1>5. BatchFits'
    BY DEF TypeInv, BatchFits, InsertPcs, UpdatePcs, call, sqlite, SealTemp,
       Begin
  <1>6. Room'
    BY DEF TypeInv, Room, call, sqlite, SealTemp, Begin
  <1>7. TempReady'
    BY FlushType, <1>b DEF TypeInv, TypeOK, TempReady, SealTemp
  <1>8. HeaderWithinFile'
    BY FlushType
       DEF TypeInv, HeaderWithinFile, TempReady, call, sqlite, SealTemp, Begin
  <1> QED
    BY <1>1, <1>2, <1>3, <1>4, <1>5, <1>6, <1>7, <1>8 DEF TypeInv, TypeOK

LEMMA DeleteRowsType ==
  ASSUME TypeInv, DeleteRows
  PROVE  TypeInv'
  <1>1. DiskType'
    BY DEF TypeInv, TypeOK, DiskType, disk, DeleteRows
  <1>2. SqliteType'
    BY WithoutRowsType DEF TypeInv, TypeOK, SqliteType, DeleteRows
  <1>3. CallType'
    BY DEF TypeInv, TypeOK, CallType, disk, DeleteRows
  <1>4. PlaceType'
    BY DEF TypeInv, TypeOK, PlaceType, disk, DeleteRows
  <1>5. BatchFits'
    BY DEF TypeInv, BatchFits, InsertPcs, UpdatePcs, disk, DeleteRows
  <1>6. Room'
    BY DEF TypeInv, Room, disk, DeleteRows
  <1>7. TempReady'
    BY DEF TypeInv, TempReady, disk, DeleteRows
  <1>8. HeaderWithinFile'
    BY DEF TypeInv, HeaderWithinFile, TempReady, disk, DeleteRows
  <1> QED
    BY <1>1, <1>2, <1>3, <1>4, <1>5, <1>6, <1>7, <1>8 DEF TypeInv, TypeOK

LEMMA CommitDeleteType ==
  ASSUME TypeInv, CommitDelete
  PROVE  TypeInv'
  <1>1. DiskType'
    BY DEF TypeInv, TypeOK, DiskType, disk, call, CommitDelete, Commit,
       Rollback
  <1>2. SqliteType'
    BY DEF TypeInv, TypeOK, SqliteType, disk, call, CommitDelete, Commit,
       Rollback
  <1>3. CallType'
    BY DEF TypeInv, TypeOK, CallType, disk, call, CommitDelete, Commit,
       Rollback
  <1>4. PlaceType'
    BY DEF TypeInv, TypeOK, PlaceType, disk, call, CommitDelete, Commit,
       Rollback
  <1>5. BatchFits'
    BY DEF TypeInv, BatchFits, InsertPcs, UpdatePcs, disk, call, CommitDelete,
       Commit, Rollback
  <1>6. Room'
    BY DEF TypeInv, Room, disk, call, CommitDelete, Commit, Rollback
  <1>7. TempReady'
    BY DEF TypeInv, TempReady, disk, call, CommitDelete, Commit, Rollback
  <1>8. HeaderWithinFile'
    BY DEF TypeInv, HeaderWithinFile, TempReady, disk, call, CommitDelete,
       Commit, Rollback
  <1> QED
    BY <1>1, <1>2, <1>3, <1>4, <1>5, <1>6, <1>7, <1>8 DEF TypeInv, TypeOK

LEMMA StartUpdateType ==
  ASSUME TypeInv, StartUpdate
  PROVE  TypeInv'
  <1>1. DiskType'
    BY FlushType DEF TypeInv, TypeOK, DiskType, StartUpdate, Begin
  <1>2. SqliteType'
    BY DEF TypeInv, TypeOK, SqliteType, StartUpdate, Begin
  <1>3. CallType'
    BY TypeFacts, ConstantsAssumption
       DEF TypeInv, TypeOK, CallType, StartUpdate
  <1>4. PlaceType'
    BY DEF TypeInv, TypeOK, PlaceType, StartUpdate, Begin
  <1>5. BatchFits'
    BY ConstantsAssumption DEF BatchFits, InsertPcs, UpdatePcs, StartUpdate
  <1>6. Room'
    BY DEF TypeInv, Room, StartUpdate, Begin
  <1>7. TempReady'
    BY FlushType DEF TypeInv, TempReady, StartUpdate, Begin
  <1>8. HeaderWithinFile'
    BY FlushType DEF TypeInv, HeaderWithinFile, TempReady, StartUpdate, Begin
  <1> QED
    BY <1>1, <1>2, <1>3, <1>4, <1>5, <1>6, <1>7, <1>8 DEF TypeInv, TypeOK

LEMMA UpdateMetaOnlyType ==
  ASSUME TypeInv, UpdateMetaOnly
  PROVE  TypeInv'
  <1>1. DiskType'
    BY DEF TypeInv, TypeOK, DiskType, disk, UpdateMetaOnly
  <1>2. SqliteType'
    BY UpdateItemType DEF TypeInv, TypeOK, SqliteType, UpdateMetaOnly
  <1>3. CallType'
    BY UpdateItemType DEF TypeInv, TypeOK, CallType, Tally, UpdateMetaOnly
  <1>4. PlaceType'
    BY DEF TypeInv, TypeOK, PlaceType, disk, UpdateMetaOnly
  <1>5. BatchFits'
    BY DEF TypeInv, BatchFits, InsertPcs, UpdatePcs, disk, UpdateMetaOnly
  <1>6. Room'
    BY DEF TypeInv, TypeOK, CallType, Room, UpdateMetaOnly
  <1>7. TempReady'
    BY DEF TypeInv, TempReady, disk, UpdateMetaOnly
  <1>8. HeaderWithinFile'
    BY DEF TypeInv, HeaderWithinFile, TempReady, disk, UpdateMetaOnly
  <1> QED
    BY <1>1, <1>2, <1>3, <1>4, <1>5, <1>6, <1>7, <1>8 DEF TypeInv, TypeOK

LEMMA UpdateVectorType ==
  ASSUME TypeInv, UpdateVector
  PROVE  TypeInv'
  <1>a. PICK p \in Located(Item.id) \ {0} : wbuf' = [q \in {p} |-> Item.vec]
    BY DEF UpdateVector
  <1>b. p \in 1 .. Len(main.recs)
    BY <1>a, TypeFacts DEF TypeInv, TypeOK, CallType, Located, Slots, Smaller
  <1>c. /\ main' \in Image /\ main'.count = main.count
        /\ Len(main'.recs) = Len(main.recs)
    BY FlushedImage DEF TypeInv, UpdateVector
  <1>1. DiskType'
    BY <1>a, <1>b, <1>c DEF TypeInv, TypeOK, DiskType, HasVector, UpdateVector
  <1>2. SqliteType'
    BY UpdateItemType DEF TypeInv, TypeOK, SqliteType, UpdateVector
  <1>3. CallType'
    BY UpdateItemType DEF TypeInv, TypeOK, CallType, Tally, UpdateVector
  <1>4. PlaceType'
    BY DEF TypeInv, TypeOK, PlaceType, UpdateVector
  <1>5. BatchFits'
    BY DEF TypeInv, BatchFits, InsertPcs, UpdatePcs, UpdateVector
  <1>6. Room'
    BY DEF TypeInv, TypeOK, CallType, Room, UpdateVector
  <1>7. TempReady'
    BY DEF TypeInv, TempReady, UpdateVector
  <1>8. HeaderWithinFile'
    BY <1>c DEF TypeInv, HeaderWithinFile
  <1> QED
    BY <1>1, <1>2, <1>3, <1>4, <1>5, <1>6, <1>7, <1>8 DEF TypeInv, TypeOK

LEMMA UpdateNotFoundType ==
  ASSUME TypeInv, UpdateNotFound
  PROVE  TypeInv'
  <1>1. DiskType'
    BY FlushType DEF TypeInv, TypeOK, DiskType, UpdateNotFound
  <1>2. SqliteType'
    BY UpdateItemType DEF TypeInv, TypeOK, SqliteType, UpdateNotFound
  <1>3. CallType'
    BY UpdateItemType DEF TypeInv, TypeOK, CallType, Tally, UpdateNotFound
  <1>4. PlaceType'
    BY DEF TypeInv, TypeOK, PlaceType, UpdateNotFound
  <1>5. BatchFits'
    BY DEF TypeInv, BatchFits, InsertPcs, UpdatePcs, UpdateNotFound
  <1>6. Room'
    BY DEF TypeInv, Room, UpdateNotFound
  <1>7. TempReady'
    BY FlushType DEF TypeInv, TempReady, UpdateNotFound
  <1>8. HeaderWithinFile'
    BY FlushType DEF TypeInv, HeaderWithinFile, TempReady, UpdateNotFound
  <1> QED
    BY <1>1, <1>2, <1>3, <1>4, <1>5, <1>6, <1>7, <1>8 DEF TypeInv, TypeOK

LEMMA UpdateRowFailsType ==
  ASSUME TypeInv, UpdateRowFails
  PROVE  TypeInv'
  <1>1. DiskType'
    BY DEF TypeInv, TypeOK, DiskType, disk, call, sqlite, UpdateRowFails
  <1>2. SqliteType'
    BY DEF TypeInv, TypeOK, SqliteType, disk, call, sqlite, UpdateRowFails
  <1>3. CallType'
    BY DEF TypeInv, TypeOK, CallType, disk, call, sqlite, UpdateRowFails
  <1>4. PlaceType'
    BY DEF TypeInv, TypeOK, PlaceType, disk, call, sqlite, UpdateRowFails
  <1>5. BatchFits'
    BY DEF TypeInv, BatchFits, InsertPcs, UpdatePcs, disk, call, sqlite,
       UpdateRowFails
  <1>6. Room'
    BY DEF TypeInv, Room, disk, call, sqlite, UpdateRowFails
  <1>7. TempReady'
    BY DEF TypeInv, TempReady, disk, call, sqlite, UpdateRowFails
  <1>8. HeaderWithinFile'
    BY DEF TypeInv, HeaderWithinFile, TempReady, disk, call, sqlite,
       UpdateRowFails
  <1> QED
    BY <1>1, <1>2, <1>3, <1>4, <1>5, <1>6, <1>7, <1>8 DEF TypeInv, TypeOK

LEMMA CommitUpdateType ==
  ASSUME TypeInv, CommitUpdate
  PROVE  TypeInv'
  <1>1. DiskType'
    BY DEF TypeInv, TypeOK, DiskType, disk, call, sqlite, CommitUpdate, Commit,
       CommitFails, Rollback
  <1>2. SqliteType'
    BY DEF TypeInv, TypeOK, SqliteType, disk, call, sqlite, CommitUpdate,
       Commit, CommitFails, Rollback
  <1>3. CallType'
    BY DEF TypeInv, TypeOK, CallType, disk, call, sqlite, CommitUpdate, Commit,
       CommitFails, Rollback
  <1>4. PlaceType'
    BY DEF TypeInv, TypeOK, PlaceType, disk, call, sqlite, CommitUpdate,
       Commit, CommitFails, Rollback
  <1>5. BatchFits'
    BY DEF TypeInv, BatchFits, InsertPcs, UpdatePcs, disk, call, sqlite,
       CommitUpdate, Commit, CommitFails, Rollback
  <1>6. Room'
    BY DEF TypeInv, Room, disk, call, sqlite, CommitUpdate, Commit,
       CommitFails, Rollback
  <1>7. TempReady'
    BY DEF TypeInv, TempReady, disk, call, sqlite, CommitUpdate, Commit,
       CommitFails, Rollback
  <1>8. HeaderWithinFile'
    BY DEF TypeInv, HeaderWithinFile, TempReady, disk, call, sqlite,
       CommitUpdate, Commit, CommitFails, Rollback
  <1> QED
    BY <1>1, <1>2, <1>3, <1>4, <1>5, <1>6, <1>7, <1>8 DEF TypeInv, TypeOK

LEMMA FlushUpdateType ==
  ASSUME TypeInv, FlushUpdate
  PROVE  TypeInv'
  <1>1. DiskType'
    BY FlushType DEF TypeInv, TypeOK, DiskType, call, sqlite, FlushUpdate
  <1>2. SqliteType'
    BY DEF TypeInv, TypeOK, SqliteType, call, sqlite, FlushUpdate
  <1>3. CallType'
    BY DEF TypeInv, TypeOK, CallType, call, sqlite, FlushUpdate
  <1>4. PlaceType'
    BY DEF TypeInv, TypeOK, PlaceType, call, sqlite, FlushUpdate
  <1>5. BatchFits'
    BY DEF TypeInv, BatchFits, InsertPcs, UpdatePcs, call, sqlite, FlushUpdate
  <1>6. Room'
    BY DEF TypeInv, Room, call, sqlite, FlushUpdate
  <1>7. TempReady'
    BY FlushType DEF TypeInv, TempReady, call, sqlite, FlushUpdate
  <1>8. HeaderWithinFile'
    BY FlushType
       DEF TypeInv, HeaderWithinFile, TempReady, call, sqlite, FlushUpdate
  <1> QED
    BY <1>1, <1>2, <1>3, <1>4, <1>5, <1>6, <1>7, <1>8 DEF TypeInv, TypeOK

LEMMA AnswerUpdateType ==
  ASSUME TypeInv, AnswerUpdate
  PROVE  TypeInv'
  <1>1. DiskType'
    BY DEF TypeInv, TypeOK, DiskType, disk, sqlite, AnswerUpdate, UpdateCount
  <1>2. SqliteType'
    BY DEF TypeInv, TypeOK, SqliteType, disk, sqlite, AnswerUpdate, UpdateCount
  <1>3. CallType'
    BY ForgetType
       DEF TypeInv, TypeOK, CallType, disk, sqlite, AnswerUpdate, UpdateCount
  <1>4. PlaceType'
    BY DEF TypeInv, TypeOK, CallType, PlaceType, UpdateCount, AnswerUpdate
  <1>5. BatchFits'
    BY ForgetType
       DEF TypeInv, BatchFits, InsertPcs, UpdatePcs, disk, sqlite,
       AnswerUpdate, UpdateCount
  <1>6. Room'
    BY ForgetType DEF TypeInv, Room, disk, sqlite, AnswerUpdate, UpdateCount
  <1>7. TempReady'
    BY DEF TypeInv, TempReady, disk, sqlite, AnswerUpdate, UpdateCount
  <1>8. HeaderWithinFile'
    BY DEF TypeInv, HeaderWithinFile, TempReady, disk, sqlite, AnswerUpdate,
       UpdateCount
  <1> QED
    BY <1>1, <1>2, <1>3, <1>4, <1>5, <1>6, <1>7, <1>8 DEF TypeInv, TypeOK

LEMMA UndoUpdateType ==
  ASSUME TypeInv, UndoUpdate
  PROVE  TypeInv'
  <1>1. DiskType'
    BY DEF TypeInv, TypeOK, DiskType, disk, UndoUpdate, Rollback
  <1>2. SqliteType'
    BY DEF TypeInv, TypeOK, SqliteType, disk, UndoUpdate, Rollback
  <1>3. CallType'
    BY ForgetType DEF TypeInv, TypeOK, CallType, disk, UndoUpdate, Rollback
  <1>4. PlaceType'
    BY DEF TypeInv, TypeOK, PlaceType, disk, UndoUpdate, Rollback
  <1>5. BatchFits'
    BY ForgetType
       DEF TypeInv, BatchFits, InsertPcs, UpdatePcs, disk, UndoUpdate, Rollback
  <1>6. Room'
    BY ForgetType DEF TypeInv, Room, disk, UndoUpdate, Rollback
  <1>7. TempReady'
    BY DEF TypeInv, TempReady, disk, UndoUpdate, Rollback
  <1>8. HeaderWithinFile'
    BY DEF TypeInv, HeaderWithinFile, TempReady, disk, UndoUpdate, Rollback
  <1> QED
    BY <1>1, <1>2, <1>3, <1>4, <1>5, <1>6, <1>7, <1>8 DEF TypeInv, TypeOK

LEMMA ReadType ==
  ASSUME TypeInv, Read
  PROVE  TypeInv'
  <1>1. DiskType'
    BY FlushType DEF TypeInv, TypeOK, DiskType, call, sqlite, Read
  <1>2. SqliteType'
    BY DEF TypeInv, TypeOK, SqliteType, call, sqlite, Read
  <1>3. CallType'
    BY DEF TypeInv, TypeOK, CallType, call, sqlite, Read
  <1>4. PlaceType'
    BY DEF TypeInv, TypeOK, PlaceType, call, sqlite, Read
  <1>5. BatchFits'
    BY DEF TypeInv, BatchFits, InsertPcs, UpdatePcs, call, sqlite, Read
  <1>6. Room'
    BY DEF TypeInv, Room, call, sqlite, Read
  <1>7. TempReady'
    BY FlushType DEF TypeInv, TempReady, call, sqlite, Read
  <1>8. HeaderWithinFile'
    BY FlushType DEF TypeInv, HeaderWithinFile, TempReady, call, sqlite, Read
  <1> QED
    BY <1>1, <1>2, <1>3, <1>4, <1>5, <1>6, <1>7, <1>8 DEF TypeInv, TypeOK

LEMMA StatsOnClosedFileType ==
  ASSUME TypeInv, StatsOnClosedFile
  PROVE  TypeInv'
  <1>1. DiskType'
    BY TypeFacts, NoWrites
       DEF TypeInv, TypeOK, DiskType, StatsOnClosedFile, Die
  <1>2. SqliteType'
    BY DEF TypeInv, TypeOK, SqliteType, StatsOnClosedFile, Die
  <1>3. CallType'
    BY ForgetType DEF TypeInv, TypeOK, CallType, StatsOnClosedFile, Die
  <1>4. PlaceType'
    BY DEF TypeInv, TypeOK, PlaceType, StatsOnClosedFile, Die
  <1>5. BatchFits'
    BY ForgetType
       DEF TypeInv, BatchFits, InsertPcs, UpdatePcs, StatsOnClosedFile, Die
  <1>6. Room'
    BY ForgetType DEF TypeInv, Room, StatsOnClosedFile, Die
  <1>7. TempReady'
    BY DEF TypeInv, TempReady, StatsOnClosedFile, Die
  <1>8. HeaderWithinFile'
    BY DEF TypeInv, HeaderWithinFile, TempReady, StatsOnClosedFile, Die
  <1> QED
    BY <1>1, <1>2, <1>3, <1>4, <1>5, <1>6, <1>7, <1>8 DEF TypeInv, TypeOK

LEMMA CrashType ==
  ASSUME TypeInv, Crash
  PROVE  TypeInv'
  <1>1. DiskType'
    BY TypeFacts, NoWrites DEF TypeInv, TypeOK, DiskType, Crash, Die
  <1>2. SqliteType'
    BY DEF TypeInv, TypeOK, SqliteType, Crash, Die
  <1>3. CallType'
    BY ForgetType DEF TypeInv, TypeOK, CallType, Crash, Die
  <1>4. PlaceType'
    BY DEF TypeInv, TypeOK, PlaceType, Crash, Die
  <1>5. BatchFits'
    BY ForgetType DEF TypeInv, BatchFits, InsertPcs, UpdatePcs, Crash, Die
  <1>6. Room'
    BY ForgetType DEF TypeInv, Room, Crash, Die
  <1>7. TempReady'
    BY DEF TypeInv, TempReady, Crash, Die
  <1>8. HeaderWithinFile'
    BY DEF TypeInv, HeaderWithinFile, TempReady, Crash, Die
  <1> QED
    BY <1>1, <1>2, <1>3, <1>4, <1>5, <1>6, <1>7, <1>8 DEF TypeInv, TypeOK

LEMMA ConnectType ==
  ASSUME TypeInv, Connect
  PROVE  TypeInv'
  <1>1. DiskType'
    BY DEF TypeInv, TypeOK, DiskType, disk, call, sqlite, Connect
  <1>2. SqliteType'
    BY DEF TypeInv, TypeOK, SqliteType, disk, call, sqlite, Connect
  <1>3. CallType'
    BY DEF TypeInv, TypeOK, CallType, disk, call, sqlite, Connect
  <1>4. PlaceType'
    BY DEF TypeInv, TypeOK, PlaceType, disk, call, sqlite, Connect
  <1>5. BatchFits'
    BY DEF TypeInv, BatchFits, InsertPcs, UpdatePcs, disk, call, sqlite,
       Connect
  <1>6. Room'
    BY DEF TypeInv, Room, disk, call, sqlite, Connect
  <1>7. TempReady'
    BY DEF TypeInv, TempReady, disk, call, sqlite, Connect
  <1>8. HeaderWithinFile'
    BY DEF TypeInv, HeaderWithinFile, TempReady, disk, call, sqlite, Connect
  <1> QED
    BY <1>1, <1>2, <1>3, <1>4, <1>5, <1>6, <1>7, <1>8 DEF TypeInv, TypeOK

-----------------------------------------------------------------------------
(* Types and the header of the vector file, for every kind of fault        *)

LEMMA InitType == Init => TypeInv
  <1> SUFFICES ASSUME Init PROVE TypeInv
    OBVIOUS
  <1>1. \A S : <<>> \in Seq(S) /\ Len(<<>>) = 0
    BY EmptySeq
  <1>2. main = [count |-> 0, recs |-> <<>>] /\ main \in Image
    BY <1>1 DEF Init, Image
  <1>3. DiskType
    BY <1>1, <1>2 DEF Init, DiskType
  <1>4. SqliteType
    <2>1. DOMAIN <<>> = {} /\ <<>> \in [DOMAIN <<>> -> Metas]
      OBVIOUS
    <2>2. \A t : t = [rows |-> <<>>, seq |-> 0] => IsTable(t)
      BY <2>1, ConstantsAssumption DEF IsTable
    <2> QED
      BY <2>2 DEF Init, SqliteType
  <1>5. CallType
    BY <1>1 DEF Init, CallType, Tally
  <1>6. PlaceType
    BY DEF Init, PlaceType
  <1>7. BatchFits /\ Room
    BY DEF Init, BatchFits, Room, InsertPcs, UpdatePcs
  <1>8. TempReady /\ HeaderWithinFile
    BY <1>1, <1>2 DEF Init, TempReady, HeaderWithinFile
  <1> QED
    BY <1>3, <1>4, <1>5, <1>6, <1>7, <1>8 DEF TypeInv, TypeOK

LEMMA StutterType ==
  ASSUME TypeInv, UNCHANGED vars
  PROVE  TypeInv'
  <1>1. TypeOK'
    BY DEF TypeInv, TypeOK, DiskType, SqliteType, CallType, PlaceType, vars
  <1>2. BatchFits' /\ Room'
    BY DEF TypeInv, BatchFits, Room, vars
  <1>3. TempReady' /\ HeaderWithinFile'
    BY DEF TypeInv, TempReady, HeaderWithinFile, vars
  <1> QED
    BY <1>1, <1>2, <1>3 DEF TypeInv

LEMMA NextType ==
  ASSUME TypeInv, [Next]_vars
  PROVE  TypeInv'
  <1>1. CASE Insert
    BY <1>1, StartInsertType, FilterItemType, NothingValidType,
       CopyToTempType, OpenInsertType, InsertRowType, InsertRowFailsType,
       EndInsertType, RollbackInsertType, AppendRecordsType, InsertNothingType
       DEF Insert
  <1>2. CASE Delete
    BY <1>2, StartDeleteByIdsType, StartDeleteByFilterType,
       DeleteByFilterNoMatchType, ScanRecordType, SealTempType,
       DeleteRowsType, CommitDeleteType
       DEF Delete
  <1>3. CASE UpdateById
    BY <1>3, StartUpdateType, UpdateMetaOnlyType, UpdateVectorType,
       UpdateNotFoundType, UpdateRowFailsType, CommitUpdateType,
       FlushUpdateType, AnswerUpdateType, UndoUpdateType
       DEF UpdateById
  <1>4. CASE UNCHANGED vars
    BY <1>4, StutterType
  <1> QED
    BY <1>1, <1>2, <1>3, <1>4, RenameTempType, ReopenType, ReadType,
       StatsOnClosedFileType, CrashType, ConnectType
       DEF Next

LEMMA TypeInvariant == Spec => []TypeInv
  BY InitType, NextType, PTL DEF Spec

\* Every variable keeps its type, whatever the arguments and whatever fails:
\* no id passes the bound, no slot past the end of the vector file is
\* overwritten, no item of the wrong dimensions is inserted.
THEOREM TypeCorrect == Spec => []TypeOK
  BY TypeInvariant, PTL DEF TypeInv

\* The header never counts more records than the vector file holds, whatever
\* fails and wherever the process dies.
THEOREM HeaderStaysWithinFile == Spec => []HeaderWithinFile
  BY TypeInvariant, PTL DEF TypeInv

-----------------------------------------------------------------------------
(* AUTOINCREMENT: no id is handed out twice, for every kind of fault       *)

\* What the transaction adds to the committed rows is numbered above every
\* number committed before.
NumberInv ==
  /\ db.seq <= work.seq
  /\ \A i \in DOMAIN db.rows : i <= db.seq
  /\ \A i \in DOMAIN work.rows :
       /\ i <= work.seq
       /\ i \in DOMAIN db.rows \/ db.seq < i

\* The ways an action may change the SQLite state.
SqliteKept   == UNCHANGED <<db, work>>
TxnCommitted == db' = work /\ work' = work
TxnUndone    == work' = db /\ db' = db
RowInserted  ==
  /\ db' = db
  /\ work'.seq = work.seq + 1
  /\ DOMAIN work'.rows = DOMAIN work.rows \cup {work.seq + 1}
RowsKeptOrDeleted ==
  /\ db' = db
  /\ work'.seq = work.seq
  /\ DOMAIN work'.rows \subseteq DOMAIN work.rows

LEMMA SqliteSteps ==
  ASSUME TypeInv, [Next]_vars
  PROVE  \/ SqliteKept \/ TxnCommitted \/ TxnUndone
         \/ RowInserted \/ RowsKeptOrDeleted
  <1>1. CASE InsertRow
    <2>1. work' = [rows |-> WithRow(work.rows, work.seq + 1, BoundMeta),
                   seq |-> work.seq + 1]
      BY <1>1 DEF InsertRow, NextRowId
    <2> QED
      BY <1>1, <2>1 DEF InsertRow, WithRow, RowInserted
  <1>2. CASE DeleteRows
    <2>1. CASE UNCHANGED work
      BY <1>2, <2>1 DEF DeleteRows, SqliteKept
    <2>2. CASE work' = [work EXCEPT !.rows = WithoutRows(@, NextBatch)]
      <3>1. work = [rows |-> work.rows, seq |-> work.seq]
        BY DEF TypeInv, TypeOK, SqliteType, IsTable
      <3>2. work' = [rows |-> WithoutRows(work.rows, NextBatch), seq |-> work.seq]
        BY <2>2, <3>1
      <3> QED
        BY <1>2, <3>2 DEF DeleteRows, WithoutRows, RowsKeptOrDeleted
    <2> QED
      BY <1>2, <2>1, <2>2 DEF DeleteRows
  <1>3. ASSUME work' = WithMeta, db' = db
        PROVE  RowsKeptOrDeleted
    <2>1. CASE RowHit
      <3>1. work = [rows |-> work.rows, seq |-> work.seq]
        BY DEF TypeInv, TypeOK, SqliteType, IsTable
      <3>2. work' = [rows |-> WithRow(work.rows, Item.id, Item.meta),
                     seq |-> work.seq]
        BY <1>3, <2>1, <3>1 DEF WithMeta
      <3>3. Item.id \in DOMAIN work.rows
        BY <2>1 DEF RowHit
      <3> QED
        BY <1>3, <3>2, <3>3 DEF WithRow, RowsKeptOrDeleted
    <2> QED
      BY <1>3, <2>1 DEF WithMeta, RowsKeptOrDeleted
  <1>4. CASE UpdateMetaOnly \/ UpdateVector \/ UpdateNotFound
    BY <1>3, <1>4 DEF UpdateMetaOnly, UpdateVector, UpdateNotFound
  <1>5. CASE \/ StartInsert \/ FilterItem \/ NothingValid \/ CopyToTemp
             \/ OpenInsert \/ InsertRowFails \/ EndInsert \/ RollbackInsert
             \/ AppendRecords \/ InsertNothing
    BY <1>5 DEF StartInsert, FilterItem, NothingValid, CopyToTemp, OpenInsert,
       InsertRowFails, EndInsert, RollbackInsert, AppendRecords, InsertNothing,
       sqlite, Begin, Commit, CommitFails, Rollback, SqliteKept, TxnCommitted,
       TxnUndone
  <1>6. CASE \/ StartDeleteByIds \/ StartDeleteByFilter \/ DeleteByFilterNoMatch
             \/ ScanRecord \/ SealTemp \/ CommitDelete
    BY <1>6 DEF StartDeleteByIds, StartDeleteByFilter, DeleteByFilterNoMatch,
       BeginDelete, ScanRecord, SealTemp, CommitDelete, sqlite, Begin, Commit,
       Rollback, SqliteKept, TxnCommitted, TxnUndone
  <1>7. CASE \/ StartUpdate \/ UpdateRowFails \/ CommitUpdate \/ FlushUpdate
             \/ AnswerUpdate \/ UndoUpdate
    BY <1>7 DEF StartUpdate, UpdateRowFails, CommitUpdate, FlushUpdate,
       AnswerUpdate, UndoUpdate, sqlite, Begin, Commit, CommitFails, Rollback,
       SqliteKept, TxnCommitted, TxnUndone
  <1>8. CASE \/ RenameTemp \/ Reopen \/ Read \/ StatsOnClosedFile \/ Crash
             \/ Connect \/ UNCHANGED vars
    BY <1>8 DEF RenameTemp, Reopen, Read, StatsOnClosedFile, Crash, Connect, Die,
       sqlite, vars, SqliteKept, TxnUndone
  <1> QED
    BY <1>1, <1>2, <1>4, <1>5, <1>6, <1>7, <1>8
       DEF Next, Insert, Delete, UpdateById

LEMMA NumbersPreserved ==
  ASSUME TypeInv, NumberInv, [Next]_vars
  PROVE  /\ NumberInv'
         /\ db.seq <= db'.seq
         /\ \A i \in DOMAIN db'.rows \ DOMAIN db.rows : db.seq < i /\ i <= db'.seq
  <1>1. /\ db.seq \in Nat /\ work.seq \in Nat
        /\ DOMAIN db.rows \subseteq Nat /\ DOMAIN work.rows \subseteq Nat
    BY TypeFacts DEF TypeInv, TypeOK, SqliteType, IsTable, Ids
  <1>2. CASE SqliteKept
    BY <1>1, <1>2 DEF NumberInv, SqliteKept
  <1>3. CASE TxnCommitted
    BY <1>1, <1>3 DEF NumberInv, TxnCommitted
  <1>4. CASE TxnUndone
    BY <1>1, <1>4 DEF NumberInv, TxnUndone
  <1>5. CASE RowInserted
    BY <1>1, <1>5 DEF NumberInv, RowInserted
  <1>6. CASE RowsKeptOrDeleted
    BY <1>1, <1>6 DEF NumberInv, RowsKeptOrDeleted
  <1> QED
    BY <1>2, <1>3, <1>4, <1>5, <1>6, SqliteSteps

LEMMA NumberInvariant == Spec => []NumberInv
  <1>1. Init => NumberInv
    BY DEF Init, NumberInv
  <1>2. TypeInv /\ NumberInv /\ [Next]_vars => NumberInv'
    BY NumbersPreserved
  <1> QED
    BY <1>1, <1>2, TypeInvariant, PTL DEF Spec

\* A row that appears is numbered above every row there has ever been, although
\* transactions fail, stay open over several operations and are rolled back.
THEOREM NoIdIsReused == Spec => NoIdReuse
  <1>1. TypeInv /\ NumberInv /\ [Next]_vars =>
          [/\ db.seq <= db.seq'
           /\ \A i \in DOMAIN db.rows' \ DOMAIN db.rows :
                db.seq < i /\ i <= db.seq']_vars
    BY NumbersPreserved
  <1> QED
    BY <1>1, TypeInvariant, NumberInvariant, PTL DEF Spec, NoIdReuse

-----------------------------------------------------------------------------
(* The copy that replaces the vector file, when SQLite reports no error    *)
(* and the process may die anywhere                                        *)

NoSqliteErrors == Faults \subseteq {"crash"}

\* The records are counted and numbered in ascending order, up to n.
Good(img, n) ==
  /\ img.count = Len(img.recs)
  /\ AscendingIn(img.recs, Len(img.recs))
  /\ \A p \in 1 .. Len(img.recs) : img.recs[p].id <= n

MainGood == Good(main, db.seq)

CopyPcs == {"open", "item", "append", "rename", "rows"}

TempGood == pc \in CopyPcs => Good(temp, db.seq)

\* The records about to be appended ascend, above low and up to high.
BufBetween(low, high) ==
  /\ AscendingIn(buf, Len(buf))
  /\ \A p \in 1 .. Len(buf) : low < buf[p].id /\ buf[p].id <= high

BufGood ==
  /\ pc = "item" => Len(buf) = k - 1 /\ BufBetween(db.seq, work.seq)
  /\ pc = "append" => /\ Len(buf) = Len(valid)
                      /\ \E n \in Nat : /\ Good(temp, n)
                                        /\ BufBetween(n, db.seq)

\* What a deletion has kept so far lies below what it has yet to look at.
ScanGood ==
  pc = "scan" =>
    /\ k <= hdr + 1
    /\ AscendingIn(temp.recs, Len(temp.recs))
    /\ \A q \in 1 .. Len(temp.recs) :
         /\ temp.recs[q].id <= db.seq
         /\ \A j \in k .. Len(main.recs) : temp.recs[q].id < main.recs[j].id

CopyInv == MainGood /\ TempGood /\ BufGood /\ ScanGood

LEMMA IdsAreNumbers ==
  ASSUME NEW s \in Seq(Rec)
  PROVE  /\ Len(s) \in Nat
         /\ \A p \in 1 .. Len(s) : s[p].id \in Nat
  <1>1. \A p \in 1 .. Len(s) : s[p] \in Rec
    BY ElementOfSeq
  <1> QED
    BY <1>1 DEF Rec

LEMMA AppendAscending ==
  ASSUME NEW s \in Seq(Rec), NEW r \in Rec,
         AscendingIn(s, Len(s)),
         \A p \in 1 .. Len(s) : s[p].id < r.id
  PROVE  AscendingIn(Append(s, r), Len(Append(s, r)))
  <1>1. /\ Len(Append(s, r)) = Len(s) + 1 /\ Append(s, r)[Len(s) + 1] = r
        /\ \A p \in 1 .. Len(s) : Append(s, r)[p] = s[p]
    BY AppendProperties
  <1>2. Len(s) \in Nat
    BY IdsAreNumbers
  <1> SUFFICES ASSUME NEW p \in 1 .. Len(s) + 1, NEW q \in 1 .. Len(s) + 1, p < q
               PROVE  Append(s, r)[p].id < Append(s, r)[q].id
    BY <1>1 DEF AscendingIn
  <1>3. p \in 1 .. Len(s)
    BY <1>2
  <1>4. CASE q = Len(s) + 1
    BY <1>1, <1>3, <1>4
  <1>5. CASE q \in 1 .. Len(s)
    BY <1>1, <1>3, <1>5 DEF AscendingIn
  <1> QED
    BY <1>2, <1>4, <1>5

LEMMA ConcatAscending ==
  ASSUME NEW s \in Seq(Rec), NEW t \in Seq(Rec), NEW n \in Nat,
         AscendingIn(s, Len(s)), \A p \in 1 .. Len(s) : s[p].id <= n,
         AscendingIn(t, Len(t)), \A p \in 1 .. Len(t) : n < t[p].id
  PROVE  AscendingIn(s \o t, Len(s \o t))
  <1>1. /\ Len(s \o t) = Len(s) + Len(t)
        /\ \A p \in 1 .. Len(s \o t) :
             (s \o t)[p] = IF p <= Len(s) THEN s[p] ELSE t[p - Len(s)]
    BY ConcatProperties
  <1>2. /\ Len(s) \in Nat /\ \A p \in 1 .. Len(s) : s[p].id \in Nat
        /\ Len(t) \in Nat /\ \A p \in 1 .. Len(t) : t[p].id \in Nat
    BY IdsAreNumbers
  <1> SUFFICES ASSUME NEW p \in 1 .. Len(s) + Len(t),
                      NEW q \in 1 .. Len(s) + Len(t), p < q
               PROVE  (s \o t)[p].id < (s \o t)[q].id
    BY <1>1 DEF AscendingIn
  <1>3. CASE q <= Len(s)
    BY <1>1, <1>2, <1>3 DEF AscendingIn
  <1>4. CASE p <= Len(s) /\ q > Len(s)
    <2>1. q - Len(s) \in 1 .. Len(t)
      BY <1>2, <1>4
    <2> QED
      BY <1>1, <1>2, <1>4, <2>1
  <1>5. CASE p > Len(s)
    <2>1. p - Len(s) \in 1 .. Len(t) /\ q - Len(s) \in 1 .. Len(t)
          /\ p - Len(s) < q - Len(s)
      BY <1>2, <1>5
    <2> QED
      BY <1>1, <1>2, <1>5, <2>1 DEF AscendingIn
  <1> QED
    BY <1>2, <1>3, <1>4, <1>5

LEMMA BufRecs == Seq([id : Ids, vec : Vectors]) \subseteq Seq(Rec)
  <1>1. [id : Ids, vec : Vectors] \subseteq Rec
    BY ConstantsAssumption DEF Rec, Ids
  <1> QED
    BY <1>1, SeqMonotonic

LEMMA BufType ==
  ASSUME TypeInv
  PROVE  buf \in Seq(Rec)
  BY BufRecs DEF TypeInv, TypeOK, CallType

\* The sequence only grows, so what was below it stays below it.
LEMMA GoodLater ==
  ASSUME NEW img \in Image, NEW m \in Nat, NEW n \in Nat, m <= n, Good(img, m)
  PROVE  Good(img, n)
  BY IdsAreNumbers DEF Good, Image

LEMMA FlushedGood ==
  ASSUME TypeInv, NEW n \in Nat, Good(main, n)
  PROVE  Good(Flushed(main), n)
  BY FlushedImage, TypeFacts DEF TypeInv, Good, AscendingIn

LEMMA MainSteps ==
  ASSUME [Next]_vars
  PROVE  main' = main \/ main' = Flushed(main) \/ RenameTemp
  <1>1. CASE Insert
    BY <1>1 DEF Insert, StartInsert, FilterItem, NothingValid, CopyToTemp,
       OpenInsert, InsertRow, InsertRowFails, EndInsert, RollbackInsert,
       AppendRecords, InsertNothing, Flush, disk
  <1>2. CASE Delete
    BY <1>2 DEF Delete, StartDeleteByIds, StartDeleteByFilter, BeginDelete,
       DeleteByFilterNoMatch, ScanRecord, SealTemp, DeleteRows, CommitDelete,
       Flush, disk
  <1>3. CASE UpdateById
    BY <1>3 DEF UpdateById, StartUpdate, UpdateMetaOnly, UpdateVector,
       UpdateNotFound, UpdateRowFails, CommitUpdate, FlushUpdate, AnswerUpdate,
       UndoUpdate, Flush, disk
  <1> QED
    BY <1>1, <1>2, <1>3
       DEF Next, Reopen, Read, StatsOnClosedFile, Crash, Connect, Die, Flush,
       disk, vars

LEMMA TempSteps ==
  ASSUME [Next]_vars
  PROVE  \/ temp' = temp /\ (pc' \in CopyPcs => pc \in CopyPcs)
         \/ pc' \notin CopyPcs
         \/ CopyToTemp \/ AppendRecords \/ SealTemp
  <1>1. CASE Insert
    BY <1>1 DEF Insert, StartInsert, FilterItem, NothingValid, CopyToTemp,
       OpenInsert, InsertRow, InsertRowFails, EndInsert, RollbackInsert,
       InsertNothing, disk, CopyPcs
  <1>2. CASE Delete
    BY <1>2 DEF Delete, StartDeleteByIds, StartDeleteByFilter, BeginDelete,
       DeleteByFilterNoMatch, ScanRecord, DeleteRows, CommitDelete, disk, CopyPcs
  <1>3. CASE UpdateById
    BY <1>3 DEF UpdateById, StartUpdate, UpdateMetaOnly, UpdateVector,
       UpdateNotFound, UpdateRowFails, CommitUpdate, FlushUpdate, AnswerUpdate,
       UndoUpdate, disk, CopyPcs
  <1> QED
    BY <1>1, <1>2, <1>3
       DEF Next, RenameTemp, Reopen, Read, StatsOnClosedFile, Crash, Connect,
       Die, disk, call, vars, CopyPcs

LEMMA ScanSteps ==
  ASSUME [Next]_vars
  PROVE  \/ pc' # "scan"
         \/ ScanRecord
         \/ /\ pc' = "scan" /\ k' = 1
            /\ temp' = [count |-> main.count, recs |-> <<>>]
            /\ hdr' = main.count
         \/ UNCHANGED <<main, temp, db, pc, k, hdr>>
  <1>1. CASE Insert
    BY <1>1 DEF Insert, StartInsert, FilterItem, NothingValid, CopyToTemp,
       OpenInsert, InsertRow, InsertRowFails, EndInsert, RollbackInsert,
       AppendRecords, InsertNothing
  <1>2. CASE Delete
    BY <1>2 DEF Delete, StartDeleteByIds, StartDeleteByFilter, BeginDelete,
       DeleteByFilterNoMatch, SealTemp, DeleteRows, CommitDelete
  <1>3. CASE UpdateById
    BY <1>3 DEF UpdateById, StartUpdate, UpdateMetaOnly, UpdateVector,
       UpdateNotFound, UpdateRowFails, CommitUpdate, FlushUpdate, AnswerUpdate,
       UndoUpdate
  <1> QED
    BY <1>1, <1>2, <1>3
       DEF Next, RenameTemp, Reopen, Read, StatsOnClosedFile, Crash, Connect,
       Die, vars

LEMMA BufSteps ==
  ASSUME NoSqliteErrors, [Next]_vars
  PROVE  \/ pc' \notin {"item", "append"}
         \/ OpenInsert \/ InsertRow \/ EndInsert
         \/ UNCHANGED <<temp, db, work, pc, valid, k, buf>>
  <1>0. "step" \notin Faults
    BY DEF NoSqliteErrors
  <1>1. CASE Insert
    BY <1>0, <1>1 DEF Insert, StartInsert, FilterItem, NothingValid, CopyToTemp,
       InsertRowFails, RollbackInsert, AppendRecords, InsertNothing
  <1>2. CASE Delete
    BY <1>2 DEF Delete, StartDeleteByIds, StartDeleteByFilter, BeginDelete,
       DeleteByFilterNoMatch, ScanRecord, SealTemp, DeleteRows, CommitDelete
  <1>3. CASE UpdateById
    BY <1>3 DEF UpdateById, StartUpdate, UpdateMetaOnly, UpdateVector,
       UpdateNotFound, UpdateRowFails, CommitUpdate, FlushUpdate, AnswerUpdate,
       UndoUpdate
  <1> QED
    BY <1>1, <1>2, <1>3
       DEF Next, RenameTemp, Reopen, Read, StatsOnClosedFile, Crash, Connect,
       Die, vars

LEMMA MainStaysGood ==
  ASSUME TypeInv, NumberInv, CopyInv, [Next]_vars
  PROVE  MainGood'
  <1>1. /\ db.seq \in Nat /\ db'.seq \in Nat /\ db.seq <= db'.seq
        /\ main \in Image /\ main' \in Image
    BY NextType, NumbersPreserved, TypeFacts DEF TypeInv, TypeOK, DiskType,
       SqliteType, IsTable
  <1>2. Good(main, db.seq) => Good(main, db'.seq)
    BY <1>1, GoodLater
  <1>3. CASE main' = main
    BY <1>2, <1>3 DEF CopyInv, MainGood
  <1>4. CASE main' = Flushed(main)
    <2>1. Good(Flushed(main), db'.seq)
      BY <1>1, <1>2, FlushedGood DEF CopyInv, MainGood
    <2> QED
      BY <1>4, <2>1 DEF MainGood
  <1>5. CASE RenameTemp
    <2>1. main' = temp /\ db' = db /\ Good(temp, db.seq)
      BY <1>5 DEF CopyInv, TempGood, CopyPcs, RenameTemp, sqlite
    <2> QED
      BY <2>1 DEF MainGood
  <1> QED
    BY <1>3, <1>4, <1>5, MainSteps

LEMMA AppendedGood ==
  ASSUME TypeInv, CopyInv, AppendRecords
  PROVE  Good(temp', db'.seq)
  <1>1. /\ temp \in Image /\ temp.recs \in Seq(Rec) /\ hdr = temp.count
        /\ buf \in Seq(Rec) /\ Len(buf) \in Nat /\ Len(buf) = Len(valid)
        /\ Len(temp.recs) \in Nat
    BY BufType, TypeFacts DEF TypeInv, TempReady, Image, CopyInv, BufGood, AppendRecords
  <1>2. PICK n \in Nat : Good(temp, n) /\ BufBetween(n, db.seq)
    BY DEF CopyInv, BufGood, AppendRecords
  <1>3. PICK junk \in [1 .. Len(valid) - Len(buf) -> [id : 0 .. MaxId, vec : Vectors]] :
          temp' = [count |-> hdr + Len(buf), recs |-> temp.recs \o buf \o junk]
    BY DEF AppendRecords
  <1>4. junk = <<>>
    <2>1. 1 .. Len(valid) - Len(buf) = 1 .. 0
      BY <1>1
    <2> DEFINE R == [id : 0 .. MaxId, vec : Vectors]
    <2>2. junk \in [1 .. 0 -> R]
      BY <1>3, <2>1
    <2> HIDE DEF R
    <2>3. junk \in Seq(R)
      BY <2>2
    <2>4. Len(junk) = 0
      BY <2>2, <2>3, LenProperties
    <2> QED
      BY <2>3, <2>4, EmptySeq
  <1>5. temp.recs \o buf \in Seq(Rec)
    BY <1>1, ConcatProperties
  <1>6. temp.recs \o buf \o junk = temp.recs \o buf
    BY <1>4, <1>5, ConcatEmptySeq
  <1>7. /\ Len(temp.recs \o buf) = Len(temp.recs) + Len(buf)
        /\ \A p \in 1 .. Len(temp.recs) + Len(buf) :
             (temp.recs \o buf)[p] =
               IF p <= Len(temp.recs) THEN temp.recs[p] ELSE buf[p - Len(temp.recs)]
    BY <1>1, ConcatProperties
  <1>8. AscendingIn(temp.recs \o buf, Len(temp.recs \o buf))
    BY <1>1, <1>2, ConcatAscending DEF Good, BufBetween
  <1>9. \A p \in 1 .. Len(temp.recs) + Len(buf) : (temp.recs \o buf)[p].id <= db.seq
    <2> SUFFICES ASSUME NEW p \in 1 .. Len(temp.recs) + Len(buf)
                 PROVE  (temp.recs \o buf)[p].id <= db.seq
      OBVIOUS
    <2>1. CASE p <= Len(temp.recs)
      <3>1. temp.recs[p].id \in Nat /\ temp.recs[p].id <= db.seq
        <4>1. p \in 1 .. Len(temp.recs) /\ db.seq \in Nat
          BY <1>1, <2>1, TypeFacts DEF TypeInv
        <4> QED
          BY <1>1, <4>1, IdsAreNumbers DEF CopyInv, TempGood, CopyPcs, Good,
             AppendRecords
      <3> QED
        BY <1>7, <2>1, <3>1
    <2>2. CASE p > Len(temp.recs)
      <3>1. p - Len(temp.recs) \in 1 .. Len(buf)
        BY <1>1, <2>2
      <3> QED
        BY <1>2, <1>7, <2>2, <3>1 DEF BufBetween
    <2> QED
      BY <1>1, <2>1, <2>2
  <1> QED
    BY <1>1, <1>2, <1>3, <1>6, <1>7, <1>8, <1>9 DEF Good, AppendRecords, sqlite

LEMMA TempStaysGood ==
  ASSUME TypeInv, NumberInv, CopyInv, [Next]_vars
  PROVE  TempGood'
  <1>1. /\ db.seq \in Nat /\ db'.seq \in Nat /\ db.seq <= db'.seq
    BY NextType, NumbersPreserved, TypeFacts DEF TypeInv, TypeOK, SqliteType,
       IsTable
  <1>2. CASE temp' = temp /\ (pc' \in CopyPcs => pc \in CopyPcs)
    <2> SUFFICES ASSUME pc' \in CopyPcs PROVE Good(temp', db'.seq)
      BY DEF TempGood
    <2>1. temp \in Image /\ Good(temp, db.seq)
      BY <1>2 DEF TypeInv, TempReady, CopyInv, TempGood, CopyPcs
    <2> QED
      BY <1>1, <1>2, <2>1, GoodLater
  <1>3. CASE CopyToTemp
    BY <1>3 DEF CopyInv, MainGood, TempGood, sqlite, CopyToTemp
  <1>4. CASE AppendRecords
    BY <1>4, AppendedGood DEF TempGood
  <1>5. CASE SealTemp
    <2>1. temp' = [count |-> Len(temp.recs), recs |-> temp.recs] /\ db' = db
      BY <1>5 DEF TypeInv, TempReady, Image, SealTemp, Begin, sqlite
    <2> QED
      BY <1>5, <2>1 DEF CopyInv, ScanGood, TempGood, Good, SealTemp
  <1> QED
    BY <1>2, <1>3, <1>4, <1>5, TempSteps DEF TempGood

LEMMA BufStaysGood ==
  ASSUME NoSqliteErrors, TypeInv, NumberInv, CopyInv, [Next]_vars
  PROVE  BufGood'
  <1>1. /\ db.seq \in Nat /\ work.seq \in Nat /\ db.seq <= work.seq
        /\ buf \in Seq(Rec) /\ Len(buf) \in Nat /\ Len(valid) \in Nat
    BY TypeFacts, BufType DEF TypeInv, NumberInv
  <1>2. CASE pc' \notin {"item", "append"}
    BY <1>2 DEF BufGood
  <1>3. CASE UNCHANGED <<temp, db, work, pc, valid, k, buf>>
    BY <1>3 DEF CopyInv, BufGood, BufBetween
  <1>4. CASE OpenInsert
    <2>1. buf' = <<>> /\ k' = 1 /\ Len(<<>>) = 0
      BY <1>4, EmptySeq DEF TypeInv, Room, OpenInsert
    <2>2. Len(buf') = 0
      BY <2>1
    <2> QED
      BY <1>4, <2>1, <2>2 DEF BufGood, BufBetween, AscendingIn, OpenInsert
  <1>5. CASE InsertRow
    <2> DEFINE r == [id |-> NextRowId(work), vec |-> valid[k].vec]
    <2>1. /\ buf' = Append(buf, r) /\ r.id = work.seq + 1
          /\ work'.seq = work.seq + 1 /\ db' = db /\ k' = k + 1 /\ pc' = "item"
      BY <1>5 DEF InsertRow, NextRowId
    <2>2. /\ Len(buf) = k - 1 /\ BufBetween(db.seq, work.seq) /\ k \in Nat
      BY <1>5 DEF TypeInv, TypeOK, CallType, CopyInv, BufGood, InsertRow
    <2>3. buf' \in Seq(Rec)
      BY <1>5, InsertRowType, BufRecs DEF TypeInv, TypeOK, CallType
    <2>4. /\ Len(Append(buf, r)) = Len(buf) + 1 /\ Append(buf, r)[Len(buf) + 1] = r
          /\ \A p \in 1 .. Len(buf) : Append(buf, r)[p] = buf[p]
      BY <1>1, AppendProperties
    <2>5. r \in Rec
      <3>1. Len(buf) + 1 \in 1 .. Len(buf')
        BY <1>1, <2>1, <2>4
      <3> QED
        BY <2>1, <2>3, <2>4, <3>1, ElementOfSeq
    <2>6. \A p \in 1 .. Len(buf) :
            buf[p].id \in Nat /\ db.seq < buf[p].id /\ buf[p].id <= work.seq
      BY <1>1, <2>2, IdsAreNumbers DEF BufBetween
    <2> HIDE DEF r
    <2>7. AscendingIn(Append(buf, r), Len(Append(buf, r)))
      <3>1. \A p \in 1 .. Len(buf) : buf[p].id < r.id
        BY <1>1, <2>1, <2>6
      <3>2. AscendingIn(buf, Len(buf))
        BY <2>2 DEF BufBetween
      <3> QED
        BY <1>1, <2>5, <3>1, <3>2, AppendAscending
    <2>8. \A p \in 1 .. Len(buf) + 1 :
            db.seq < buf'[p].id /\ buf'[p].id <= work.seq + 1
      BY <1>1, <2>1, <2>4, <2>6
    <2> QED
      BY <1>1, <2>1, <2>2, <2>4, <2>7, <2>8 DEF BufGood, BufBetween
  <1>6. CASE EndInsert
    <2>1. /\ db' = work /\ pc' = "append" /\ temp' = temp /\ buf' = buf
          /\ valid' = valid
      BY <1>6 DEF NoSqliteErrors, EndInsert, Commit, CommitFails, disk, call
    <2>2. /\ k > Len(valid) /\ k \in 1 .. Len(valid) + 1 /\ Len(buf) = k - 1
          /\ Good(temp, db.seq) /\ BufBetween(db.seq, work.seq)
      BY <1>6 DEF TypeInv, Room, CopyInv, BufGood, TempGood, CopyPcs, EndInsert
    <2>3. Len(buf) = Len(valid)
      BY <1>1, <2>2
    <2> QED
      BY <1>1, <2>1, <2>2, <2>3 DEF BufGood, BufBetween
  <1> QED
    BY <1>2, <1>3, <1>4, <1>5, <1>6, BufSteps

LEMMA ScanStaysGood ==
  ASSUME TypeInv, NumberInv, CopyInv, [Next]_vars
  PROVE  ScanGood'
  <1>1. CASE pc' # "scan"
    BY <1>1 DEF ScanGood
  <1>2. CASE /\ pc' = "scan" /\ k' = 1
             /\ temp' = [count |-> main.count, recs |-> <<>>]
             /\ hdr' = main.count
    <2>1. main.count \in Nat /\ Len(<<>>) = 0
      BY TypeFacts, EmptySeq DEF TypeInv
    <2> QED
      BY <1>2, <2>1 DEF ScanGood, AscendingIn
  <1>3. CASE UNCHANGED <<main, temp, db, pc, k, hdr>>
    BY <1>3 DEF CopyInv, ScanGood
  <1>4. CASE ScanRecord
    <2>1. /\ main.recs \in Seq(Rec) /\ k \in Nat /\ k >= 1 /\ k <= hdr
          /\ hdr = Len(main.recs) /\ temp \in Image /\ temp.recs \in Seq(Rec)
          /\ k' = k + 1 /\ hdr' = hdr /\ main' = main /\ db' = db /\ db.seq \in Nat
      BY <1>4, TypeFacts DEF TypeInv, TypeOK, CallType, TempReady, Image, CopyInv,
         MainGood, Good, ScanRecord, disk, sqlite
    <2>2. /\ AscendingIn(temp.recs, Len(temp.recs))
          /\ \A q \in 1 .. Len(temp.recs) :
               /\ temp.recs[q].id <= db.seq
               /\ \A j \in k .. Len(main.recs) : temp.recs[q].id < main.recs[j].id
      BY <1>4 DEF CopyInv, ScanGood, ScanRecord
    <2>3. /\ k \in 1 .. Len(main.recs) /\ main.recs[k] \in Rec
          /\ main.recs[k].id <= db.seq
          /\ \A j \in k + 1 .. Len(main.recs) : main.recs[k].id < main.recs[j].id
      <3>1. k \in 1 .. Len(main.recs) /\ Len(main.recs) \in Nat
        BY <2>1, IdsAreNumbers
      <3>2. main.recs[k] \in Rec
        BY <2>1, <3>1, ElementOfSeq
      <3> QED
        BY <2>1, <3>1, <3>2 DEF CopyInv, MainGood, Good, AscendingIn
    <2>4. CASE temp' = temp
      BY <1>4, <2>1, <2>2, <2>4 DEF ScanGood
    <2>5. CASE temp' = [temp EXCEPT !.recs = Append(@, main.recs[k])]
      <3> DEFINE s == Append(temp.recs, main.recs[k])
      <3>1. temp'.recs = s
        BY <2>1, <2>5 DEF Image
      <3>2. /\ Len(s) = Len(temp.recs) + 1 /\ s[Len(temp.recs) + 1] = main.recs[k]
            /\ \A q \in 1 .. Len(temp.recs) : s[q] = temp.recs[q]
        BY <2>1, <2>3, AppendProperties
      <3>3. Len(temp.recs) \in Nat
        BY <2>1, IdsAreNumbers
      <3>4. \A q \in 1 .. Len(temp.recs) : temp.recs[q].id < main.recs[k].id
        BY <2>1, <2>2, <2>3
      <3>5. AscendingIn(s, Len(s))
        BY <2>1, <2>2, <2>3, <3>4, AppendAscending
      <3> HIDE DEF s
      <3>6. \A q \in 1 .. Len(s) :
              /\ s[q].id <= db.seq
              /\ \A j \in k + 1 .. Len(main.recs) : s[q].id < main.recs[j].id
        <4> SUFFICES ASSUME NEW q \in 1 .. Len(s)
                     PROVE  /\ s[q].id <= db.seq
                            /\ \A j \in k + 1 .. Len(main.recs) :
                                 s[q].id < main.recs[j].id
          OBVIOUS
        <4>1. CASE q = Len(temp.recs) + 1
          BY <2>3, <3>2, <4>1
        <4>2. CASE q \in 1 .. Len(temp.recs)
          <5>1. \A j \in k + 1 .. Len(main.recs) : j \in k .. Len(main.recs)
            BY <2>1
          <5> QED
            BY <2>2, <3>2, <4>2, <5>1
        <4> QED
          BY <3>2, <3>3, <4>1, <4>2
      <3> QED
        BY <2>1, <3>1, <3>5, <3>6 DEF ScanGood
    <2> QED
      BY <1>4, <2>4, <2>5 DEF ScanRecord
  <1> QED
    BY <1>1, <1>2, <1>3, <1>4, ScanSteps

LEMMA CopyInvariant ==
  ASSUME NoSqliteErrors
  PROVE  Spec => []CopyInv
  <1>1. Init => CopyInv
    <2>1. Len(<<>>) = 0
      BY EmptySeq
    <2> QED
      BY <2>1 DEF Init, CopyInv, MainGood, Good, AscendingIn, TempGood, CopyPcs,
         BufGood, ScanGood
  <1>2. TypeInv /\ NumberInv /\ CopyInv /\ [Next]_vars => CopyInv'
    BY MainStaysGood, TempStaysGood, BufStaysGood, ScanStaysGood DEF CopyInv
  <1> QED
    BY <1>1, <1>2, TypeInvariant, NumberInvariant, PTL DEF Spec

\* While SQLite reports no error the header counts the records, wherever the
\* process dies: in the middle of an insertion, of a deletion, or between the
\* commit of the rows and the rename of the file.
THEOREM HeaderIsExact ==
  ASSUME NoSqliteErrors
  PROVE  Spec => []HeaderCountsRecords
  <1>1. CopyInv => HeaderCountsRecords
    BY DEF CopyInv, MainGood, Good, HeaderCountsRecords
  <1> QED
    BY <1>1, CopyInvariant, PTL

\* While SQLite reports no error the ids in the vector file ascend, which the
\* binary search of an update and the filtered search rely on.
THEOREM IdsAscend ==
  ASSUME NoSqliteErrors
  PROVE  Spec => []AscendingIds
  <1>1. CopyInv => AscendingIds
    BY DEF CopyInv, MainGood, Good, AscendingIds
  <1> QED
    BY <1>1, CopyInvariant, PTL

\* While SQLite reports no error no record has an id that AUTOINCREMENT could
\* hand out again: a crash before the rename leaves rows without records, never
\* a record whose number is free.
THEOREM RecordsStayBelowSequence ==
  ASSUME NoSqliteErrors
  PROVE  Spec => []IdsBelowSequence
  <1>1. CopyInv => IdsBelowSequence
    BY DEF CopyInv, MainGood, Good, IdsBelowSequence, IdsOf
  <1> QED
    BY <1>1, CopyInvariant, PTL

-----------------------------------------------------------------------------
(* The two stores together: which rows and which records may come and go,  *)
(* that a record keeps the metadata it was inserted with, and that rows    *)
(* and records agree between two operations.                               *)

(* Committed rows go with a deletion only, for every kind of fault         *)

\* Only a deletion's transaction holds fewer rows than are committed, and it
\* has lost none but those it is asked to delete.
RowInv ==
  /\ \A i \in DOMAIN db.rows \ DOMAIN work.rows : pc = "rows" /\ i \in ids
  /\ pc \in {"scan", "rows"} => todo \subseteq ids

LEMMA UpdateKeepsRows ==
  ASSUME TypeInv, pc = "update", k <= Len(batch), work' = WithMeta
  PROVE  DOMAIN work'.rows = DOMAIN work.rows
  <1>1. work = [rows |-> work.rows, seq |-> work.seq]
    BY DEF TypeInv, TypeOK, SqliteType, IsTable
  <1>2. CASE RowHit
    <2>1. work' = [rows |-> WithRow(work.rows, Item.id, Item.meta),
                   seq |-> work.seq]
      BY <1>1, <1>2 DEF WithMeta
    <2>2. Item.id \in DOMAIN work.rows
      BY <1>2 DEF RowHit
    <2> QED
      BY <2>1, <2>2 DEF WithRow
  <1>3. CASE ~RowHit
    BY <1>3 DEF WithMeta
  <1> QED
    BY <1>2, <1>3

LEMMA InsertAddsRow ==
  ASSUME InsertRow
  PROVE  /\ db' = db /\ pc' = pc /\ ids' = ids /\ todo' = todo
         /\ work'.seq = work.seq + 1
         /\ work'.rows = WithRow(work.rows, work.seq + 1, BoundMeta)
         /\ DOMAIN work'.rows = DOMAIN work.rows \cup {work.seq + 1}
  <1>1. work' = [rows |-> WithRow(work.rows, work.seq + 1, BoundMeta),
                 seq |-> work.seq + 1]
    BY DEF InsertRow, NextRowId
  <1> QED
    BY <1>1 DEF InsertRow, WithRow

LEMMA DeleteTakesRows ==
  ASSUME TypeInv, DeleteRows
  PROVE  \/ UNCHANGED work /\ "step" \in Faults
         \/ /\ work'.seq = work.seq
            /\ DOMAIN work'.rows = DOMAIN work.rows \ NextBatch
            /\ \A i \in DOMAIN work'.rows : work'.rows[i] = work.rows[i]
  <1>1. work = [rows |-> work.rows, seq |-> work.seq]
    BY DEF TypeInv, TypeOK, SqliteType, IsTable
  <1>2. CASE work' = [work EXCEPT !.rows = WithoutRows(@, NextBatch)]
    <2>1. work' = [rows |-> WithoutRows(work.rows, NextBatch), seq |-> work.seq]
      BY <1>1, <1>2
    <2> QED
      BY <2>1 DEF WithoutRows
  <1> QED
    BY <1>2 DEF DeleteRows

LEMMA RowSteps ==
  ASSUME TypeInv, [Next]_vars
  PROVE  \/ DeleteRows
         \/ CommitDelete
         \/ pc # "rows" /\ db' = db /\ DOMAIN work.rows \subseteq DOMAIN work'.rows
         \/ pc # "rows" /\ TxnCommitted
         \/ pc' # "rows" /\ TxnUndone
         \/ UNCHANGED <<pc, ids, todo, db, work>>
  <1>1. CASE Insert
    <2>1. CASE InsertRow
      BY <2>1, InsertAddsRow DEF InsertRow
    <2> QED
      BY <1>1, <2>1 DEF Insert, StartInsert, FilterItem, NothingValid,
         CopyToTemp, OpenInsert, InsertRowFails, EndInsert, RollbackInsert,
         AppendRecords, InsertNothing, sqlite, Begin, Commit, CommitFails,
         Rollback, TxnCommitted, TxnUndone
  <1>2. CASE Delete
    BY <1>2 DEF Delete, StartDeleteByIds, StartDeleteByFilter, BeginDelete,
       DeleteByFilterNoMatch, ScanRecord, SealTemp, sqlite, Begin
  <1>3. CASE UpdateById
    <2>1. CASE UpdateMetaOnly \/ UpdateVector \/ UpdateNotFound
      BY <2>1, UpdateKeepsRows DEF UpdateMetaOnly, UpdateVector, UpdateNotFound
    <2> QED
      BY <1>3, <2>1 DEF UpdateById, StartUpdate, UpdateRowFails, CommitUpdate,
         FlushUpdate, AnswerUpdate, UndoUpdate, sqlite, Begin, Commit,
         CommitFails, Rollback, TxnCommitted, TxnUndone
  <1> QED
    BY <1>1, <1>2, <1>3
       DEF Next, RenameTemp, Reopen, Read, StatsOnClosedFile, Crash, Connect,
       Die, sqlite, call, vars, TxnUndone

LEMMA TodoSteps ==
  ASSUME [Next]_vars
  PROVE  \/ pc' \notin {"scan", "rows"}
         \/ todo' = ids'
         \/ pc \in {"scan", "rows"} /\ todo' \subseteq todo /\ ids' = ids
         \/ UNCHANGED <<pc, ids, todo>>
  <1>1. CASE Insert
    BY <1>1 DEF Insert, StartInsert, FilterItem, NothingValid, CopyToTemp,
       OpenInsert, InsertRow, InsertRowFails, EndInsert, RollbackInsert,
       AppendRecords, InsertNothing
  <1>2. CASE Delete
    BY <1>2 DEF Delete, StartDeleteByIds, StartDeleteByFilter, BeginDelete,
       DeleteByFilterNoMatch, ScanRecord, SealTemp, DeleteRows, CommitDelete,
       call
  <1>3. CASE UpdateById
    BY <1>3 DEF UpdateById, StartUpdate, UpdateMetaOnly, UpdateVector,
       UpdateNotFound, UpdateRowFails, CommitUpdate, FlushUpdate, AnswerUpdate,
       UndoUpdate
  <1> QED
    BY <1>1, <1>2, <1>3
       DEF Next, RenameTemp, Reopen, Read, StatsOnClosedFile, Crash, Connect,
       Die, call, vars

LEMMA RowsPreserved ==
  ASSUME TypeInv, RowInv, [Next]_vars
  PROVE  /\ RowInv'
         /\ \A i \in DOMAIN db.rows \ DOMAIN db'.rows : pc = "rows" /\ i \in ids
  <1>1. pc' \in {"scan", "rows"} => todo' \subseteq ids'
    BY TodoSteps DEF RowInv
  <1>2. CASE DeleteRows
    <2>1. pc = "rows" /\ UNCHANGED <<pc, ids, db>> /\ todo \subseteq ids
      BY <1>2 DEF DeleteRows, RowInv
    <2>2. NextBatch \subseteq ids
      BY <2>1 DEF NextBatch
    <2> QED
      BY <1>1, <1>2, <2>1, <2>2, DeleteTakesRows DEF RowInv
  <1>3. CASE CommitDelete
    BY <1>1, <1>3 DEF CommitDelete, Commit, Rollback, RowInv
  <1>4. CASE pc # "rows" /\ db' = db /\ DOMAIN work.rows \subseteq DOMAIN work'.rows
    BY <1>1, <1>4 DEF RowInv
  <1>5. CASE pc # "rows" /\ TxnCommitted
    BY <1>1, <1>5 DEF RowInv, TxnCommitted
  <1>6. CASE pc' # "rows" /\ TxnUndone
    BY <1>1, <1>6 DEF RowInv, TxnUndone
  <1>7. CASE UNCHANGED <<pc, ids, todo, db, work>>
    BY <1>1, <1>7 DEF RowInv
  <1> QED
    BY <1>2, <1>3, <1>4, <1>5, <1>6, <1>7, RowSteps

LEMMA RowInvariant == Spec => []RowInv
  <1>1. Init => RowInv
    BY DEF Init, RowInv
  <1>2. TypeInv /\ RowInv /\ [Next]_vars => RowInv'
    BY RowsPreserved
  <1> QED
    BY <1>1, <1>2, TypeInvariant, PTL DEF Spec

\* A committed row goes only with the deletion that names it, whatever SQLite
\* refuses: neither an insertion that ran inside a transaction left open nor a
\* rolled back deletion takes one with it.
THEOREM CommittedRowsStay == Spec => RowsGoOnlyWhenDeleted
  <1>1. TypeInv /\ RowInv /\ [Next]_vars =>
          [\A i \in DOMAIN db.rows \ DOMAIN db.rows' :
             pc = "rows" /\ i \in ids]_vars
    BY RowsPreserved
  <1> QED
    BY <1>1, TypeInvariant, RowInvariant, PTL DEF Spec, RowsGoOnlyWhenDeleted

-----------------------------------------------------------------------------
(* The ids of a sequence of records                                        *)

IdsIn(s) == {s[p].id : p \in 1 .. Len(s)}

LEMMA IdsOfAppend ==
  ASSUME NEW s \in Seq(Rec), NEW r \in Rec
  PROVE  IdsIn(Append(s, r)) = IdsIn(s) \cup {r.id}
  <1> DEFINE a == Append(s, r)
  <1>1. /\ Len(a) = Len(s) + 1 /\ a[Len(s) + 1] = r
        /\ \A p \in 1 .. Len(s) : a[p] = s[p]
        /\ Len(s) \in Nat
    BY AppendProperties, IdsAreNumbers
  <1> HIDE DEF a
  <1>2. 1 .. Len(a) = (1 .. Len(s)) \cup {Len(s) + 1}
    BY <1>1
  <1>3. IdsIn(a) = {a[p].id : p \in 1 .. Len(s)} \cup {a[Len(s) + 1].id}
    BY <1>2 DEF IdsIn
  <1>4. {a[p].id : p \in 1 .. Len(s)} = IdsIn(s)
    BY <1>1 DEF IdsIn
  <1>5. IdsIn(a) = IdsIn(s) \cup {r.id}
    BY <1>1, <1>3, <1>4
  <1> QED
    BY <1>5 DEF a

LEMMA IdsOfConcat ==
  ASSUME NEW s \in Seq(Rec), NEW t \in Seq(Rec)
  PROVE  IdsIn(s \o t) = IdsIn(s) \cup IdsIn(t)
  <1> DEFINE c == s \o t
  <1>1. /\ Len(c) = Len(s) + Len(t) /\ Len(s) \in Nat /\ Len(t) \in Nat
        /\ \A p \in 1 .. Len(s) + Len(t) :
             c[p] = IF p <= Len(s) THEN s[p] ELSE t[p - Len(s)]
    BY ConcatProperties, IdsAreNumbers
  <1> HIDE DEF c
  <1>2. ASSUME NEW p \in 1 .. Len(c)
        PROVE  c[p].id \in IdsIn(s) \/ c[p].id \in IdsIn(t)
    <2>1. CASE p <= Len(s)
      <3>1. p \in 1 .. Len(s) /\ c[p] = s[p]
        BY <1>1, <1>2, <2>1
      <3> QED
        BY <3>1 DEF IdsIn
    <2>2. CASE p > Len(s)
      <3>1. p - Len(s) \in 1 .. Len(t) /\ c[p] = t[p - Len(s)]
        BY <1>1, <1>2, <2>2
      <3> QED
        BY <3>1 DEF IdsIn
    <2> QED
      BY <1>1, <1>2, <2>1, <2>2
  <1>3. ASSUME NEW p \in 1 .. Len(s)
        PROVE  s[p].id \in IdsIn(c)
    <2>1. p \in 1 .. Len(c) /\ c[p] = s[p]
      BY <1>1, <1>3
    <2> QED
      BY <2>1 DEF IdsIn
  <1>4. ASSUME NEW p \in 1 .. Len(t)
        PROVE  t[p].id \in IdsIn(c)
    <2>1. /\ Len(s) + p \in 1 .. Len(c) /\ ~(Len(s) + p <= Len(s))
          /\ Len(s) + p - Len(s) = p
      BY <1>1, <1>4
    <2>2. c[Len(s) + p] = t[p]
      BY <1>1, <2>1
    <2> QED
      BY <2>1, <2>2 DEF IdsIn
  <1>5. IdsIn(c) = IdsIn(s) \cup IdsIn(t)
    <2>1. IdsIn(c) \subseteq IdsIn(s) \cup IdsIn(t)
      BY <1>2 DEF IdsIn
    <2>2. IdsIn(s) \subseteq IdsIn(c)
      BY <1>3 DEF IdsIn
    <2>3. IdsIn(t) \subseteq IdsIn(c)
      BY <1>4 DEF IdsIn
    <2> QED
      BY <2>1, <2>2, <2>3
  <1> QED
    BY <1>5 DEF c

LEMMA IdsOfEmpty == IdsIn(<<>>) = {}
  <1>1. Len(<<>>) = 0
    BY EmptySeq
  <1> QED
    BY <1>1 DEF IdsIn

\* Stdio writes vectors, never ids: only the rename changes which records the
\* vector file holds.
LEMMA FlushKeepsIds ==
  ASSUME TypeInv
  PROVE  IdsOf(Flushed(main)) = IdsOf(main)
  BY FlushedImage DEF TypeInv, IdsOf

LEMMA RecordsSteps ==
  ASSUME TypeInv, [Next]_vars
  PROVE  \/ RenameTemp /\ IdsOf(main') = IdsOf(temp)
         \/ ~RenameTemp /\ IdsOf(main') = IdsOf(main)
  BY MainSteps, FlushKeepsIds DEF RenameTemp

-----------------------------------------------------------------------------
(* Records and the copy that replaces them, when SQLite reports no error   *)
(* and the process may die anywhere                                        *)

\* The records an insertion is going to append, and those a deletion has seen.
Pending == IdsIn(buf)
Scanned == {main.recs[p].id : p \in 1 .. k - 1}

\* What the copy holds beside the records of the vector file, at each point.
FollowInv ==
  /\ pc \in {"open", "item", "append"} => IdsOf(temp) = IdsOf(main)
  /\ pc = "item" => Pending \subseteq DOMAIN work.rows
  /\ pc = "append" => /\ Pending \subseteq DOMAIN db.rows
                      /\ \A i \in IdsOf(main), j \in Pending : i < j
  /\ pc = "scan" => IdsOf(temp) = Scanned \ ids
  /\ pc = "rows" => IdsOf(temp) = IdsOf(main) \ ids
  /\ pc = "rename" =>
       /\ IdsOf(main) \ IdsOf(temp) \subseteq ids
       /\ \A i \in IdsOf(temp) \ IdsOf(main) :
            i \in DOMAIN db.rows /\ \A j \in IdsOf(main) : j < i

LEMMA FollowSteps ==
  ASSUME NoSqliteErrors, [Next]_vars
  PROVE  \/ pc' \notin {"open", "item", "append", "scan", "rows", "rename"}
         \/ CopyToTemp \/ OpenInsert \/ InsertRow \/ EndInsert \/ AppendRecords
         \/ /\ pc' = "scan" /\ k' = 1
            /\ temp' = [count |-> main.count, recs |-> <<>>]
         \/ ScanRecord \/ SealTemp \/ DeleteRows \/ CommitDelete
         \/ UNCHANGED <<main, temp, pc, ids, k, buf, db, work>>
  <1>0. "step" \notin Faults
    BY DEF NoSqliteErrors
  <1>1. CASE Insert
    BY <1>0, <1>1 DEF Insert, StartInsert, FilterItem, NothingValid,
       InsertRowFails, RollbackInsert, InsertNothing
  <1>2. CASE Delete
    BY <1>2 DEF Delete, StartDeleteByIds, StartDeleteByFilter, BeginDelete,
       DeleteByFilterNoMatch, disk, sqlite, call
  <1>3. CASE UpdateById
    BY <1>3 DEF UpdateById, StartUpdate, UpdateMetaOnly, UpdateVector,
       UpdateNotFound, UpdateRowFails, CommitUpdate, FlushUpdate, AnswerUpdate,
       UndoUpdate
  <1> QED
    BY <1>1, <1>2, <1>3
       DEF Next, RenameTemp, Reopen, Read, StatsOnClosedFile, Crash, Connect,
       Die, vars

\* The records of an image whose header and numbering are sound.
LEMMA GoodIds ==
  ASSUME NEW img, NEW n, Good(img, n)
  PROVE  \A i \in IdsOf(img) : i <= n
  BY DEF Good, IdsOf

LEMMA ImageIds ==
  ASSUME NEW img \in Image
  PROVE  /\ IdsOf(img) = IdsIn(img.recs)
         /\ IdsOf(img) \subseteq Nat
  BY IdsAreNumbers DEF IdsOf, IdsIn, Image

LEMMA OpenFollows ==
  ASSUME TypeInv, FollowInv, OpenInsert
  PROVE  FollowInv'
  <1>1. ~RenameTemp /\ UNCHANGED <<temp, buf>> /\ pc' \in {"item", "nothing"}
    BY DEF OpenInsert, RenameTemp
  <1>2. IdsOf(temp) = IdsOf(main) /\ Pending = {}
    BY IdsOfEmpty DEF FollowInv, TypeInv, Room, OpenInsert, Pending
  <1>3. IdsOf(main)' = IdsOf(main) /\ IdsOf(temp)' = IdsOf(temp) /\ Pending' = Pending
    BY <1>1, FlushKeepsIds DEF OpenInsert, Flush, IdsOf, Pending
  <1> QED
    BY <1>1, <1>2, <1>3 DEF FollowInv

LEMMA InsertFollows ==
  ASSUME TypeInv, FollowInv, InsertRow
  PROVE  FollowInv'
  <1> DEFINE r == [id |-> work.seq + 1, vec |-> valid[k].vec]
  <1>1. /\ pc = "item" /\ pc' = "item" /\ main' = main /\ temp' = temp
        /\ buf' = Append(buf, r)
    BY DEF InsertRow, NextRowId, disk
  <1>2. buf \in Seq(Rec) /\ r \in Rec
    <2>1. valid[k] \in [vec : Vectors, meta : Metas]
      <3> DEFINE V == [vec : Vectors, meta : Metas]
      <3>1. k \in 1 .. Len(valid) /\ valid \in Seq(V)
        BY TypeFacts DEF TypeInv, TypeOK, CallType, Room, InsertRow
      <3> HIDE DEF V
      <3>2. valid[k] \in V
        BY <3>1, ElementOfSeq
      <3> QED
        BY <3>2 DEF V
    <2>2. work.seq + 1 \in Nat
      BY TypeFacts DEF TypeInv
    <2> QED
      BY <2>1, <2>2, BufType DEF Rec
  <1>3. Pending' = Pending \cup {work.seq + 1}
    BY <1>1, <1>2, IdsOfAppend DEF Pending
  <1>4. Pending' \subseteq DOMAIN work'.rows
    BY <1>1, <1>3, InsertAddsRow DEF FollowInv
  <1>5. IdsOf(temp') = IdsOf(main')
    BY <1>1 DEF FollowInv
  <1> QED
    BY <1>1, <1>4, <1>5 DEF FollowInv

LEMMA EndInsertFollows ==
  ASSUME NoSqliteErrors, TypeInv, CopyInv, FollowInv, EndInsert
  PROVE  FollowInv'
  <1>1. /\ pc = "item" /\ pc' = "append" /\ main' = main /\ temp' = temp
        /\ buf' = buf /\ db' = work
    BY DEF NoSqliteErrors, EndInsert, Commit, CommitFails, disk, call
  <1>2. IdsOf(temp) = IdsOf(main) /\ Pending \subseteq DOMAIN work.rows
    BY <1>1 DEF FollowInv
  <1>3. ASSUME NEW i \in IdsOf(main), NEW j \in Pending
        PROVE  i < j
    <2>1. i <= db.seq /\ i \in Nat
      BY <1>3, GoodIds, ImageIds DEF CopyInv, MainGood, TypeInv, TypeOK, DiskType
    <2>2. db.seq < j
      BY <1>1, <1>3 DEF CopyInv, BufGood, BufBetween, Pending, IdsIn
    <2>3. j \in Nat /\ db.seq \in Nat
      BY <1>3, BufType, TypeFacts, IdsAreNumbers DEF Pending, IdsIn, TypeInv
    <2> QED
      BY <2>1, <2>2, <2>3
  <1>4. Pending' = Pending
    BY <1>1 DEF Pending
  <1> QED
    BY <1>1, <1>2, <1>3, <1>4 DEF FollowInv

LEMMA AppendAddsBuffer ==
  ASSUME TypeInv, CopyInv, AppendRecords
  PROVE  /\ temp \in Image /\ temp.count = Len(temp.recs)
         /\ hdr = temp.count
         /\ temp' = [count |-> hdr + Len(buf), recs |-> temp.recs \o buf]
         /\ IdsOf(temp') = IdsOf(temp) \cup Pending
  <1>1. /\ temp \in Image /\ temp.recs \in Seq(Rec)
        /\ buf \in Seq(Rec) /\ Len(buf) \in Nat /\ Len(buf) = Len(valid)
        /\ temp.count = Len(temp.recs) /\ hdr = temp.count
    BY BufType, TypeFacts DEF TypeInv, TempReady, Image, CopyInv, BufGood,
       TempGood, CopyPcs, Good, AppendRecords
  <1>2. PICK junk \in [1 .. Len(valid) - Len(buf) -> [id : 0 .. MaxId, vec : Vectors]] :
          temp' = [count |-> hdr + Len(buf), recs |-> temp.recs \o buf \o junk]
    BY DEF AppendRecords
  <1>3. junk = <<>>
    <2>1. 1 .. Len(valid) - Len(buf) = 1 .. 0
      BY <1>1
    <2> DEFINE R == [id : 0 .. MaxId, vec : Vectors]
    <2>2. junk \in [1 .. 0 -> R]
      BY <1>2, <2>1
    <2> HIDE DEF R
    <2>3. junk \in Seq(R)
      BY <2>2
    <2>4. Len(junk) = 0
      BY <2>2, <2>3, LenProperties
    <2> QED
      BY <2>3, <2>4, EmptySeq
  <1>4. temp.recs \o buf \in Seq(Rec)
    BY <1>1, ConcatProperties
  <1>5. temp.recs \o buf \o junk = temp.recs \o buf
    BY <1>3, <1>4, ConcatEmptySeq
  <1>6. temp'.recs = temp.recs \o buf
    BY <1>2, <1>5
  <1>7. IdsOf(temp') = IdsIn(temp.recs) \cup IdsIn(buf)
    <2>1. IdsOf(temp') = IdsIn(temp.recs \o buf)
      BY <1>6 DEF IdsOf, IdsIn
    <2> QED
      BY <1>1, <2>1, IdsOfConcat
  <1> QED
    BY <1>1, <1>2, <1>5, <1>7, ImageIds DEF Pending

LEMMA AppendFollows ==
  ASSUME TypeInv, CopyInv, FollowInv, AppendRecords
  PROVE  FollowInv'
  <1>1. /\ pc = "append" /\ pc' = "rename" /\ main' = main /\ db' = db
    BY DEF AppendRecords, sqlite
  <1>2. IdsOf(temp') = IdsOf(main) \cup Pending
    BY <1>1, AppendAddsBuffer DEF FollowInv
  <1> QED
    BY <1>1, <1>2 DEF FollowInv

LEMMA ScanReadsRecord ==
  ASSUME TypeInv, CopyInv, pc = "scan", k <= hdr
  PROVE  /\ main.recs \in Seq(Rec) /\ k \in 1 .. Len(main.recs)
         /\ hdr = Len(main.recs) /\ main.recs[k] \in Rec
         /\ ChunkRead(k)
         /\ temp = [count |-> temp.count, recs |-> temp.recs]
         /\ temp.recs \in Seq(Rec)
  <1>1. /\ main.recs \in Seq(Rec) /\ k \in Nat /\ k >= 1
        /\ hdr = Len(main.recs) /\ Len(main.recs) \in Nat
        /\ temp = [count |-> temp.count, recs |-> temp.recs]
        /\ temp.recs \in Seq(Rec)
    BY TypeFacts DEF TypeInv, TypeOK, CallType, TempReady, Image, CopyInv,
       MainGood, Good
  <1>2. k \in 1 .. Len(main.recs)
    BY <1>1
  <1>3. main.recs[k] \in Rec
    BY <1>1, <1>2, ElementOfSeq
  <1>4. ChunkRead(k)
    <2>1. (k - 1) \div BufferSize \in Int /\ BufferSize \in Int
      BY <1>1, ConstantsAssumption
    <2>2. ((k - 1) \div BufferSize + 1) * BufferSize \in Int
      BY <2>1
    <2>3. \A a \in Int : Smaller(a, hdr) <= Len(main.recs)
      BY <1>1 DEF Smaller
    <2> QED
      BY <2>2, <2>3 DEF ChunkRead
  <1> QED
    BY <1>1, <1>2, <1>3, <1>4

\* One turn of the copying loop keeps the record it has come to or leaves it out.
LEMMA ScanKeepsOrDrops ==
  ASSUME TypeInv, CopyInv, ScanRecord
  PROVE  /\ main' = main /\ ids' = ids /\ pc' = pc /\ k' = k + 1 /\ hdr' = hdr
         /\ Scanned' = Scanned \cup {main.recs[k].id}
         /\ \/ /\ main.recs[k].id \in ids /\ temp' = temp
            \/ /\ main.recs[k].id \notin ids
               /\ temp' = [count |-> temp.count,
                           recs  |-> Append(temp.recs, main.recs[k])]
               /\ IdsOf(temp') = IdsOf(temp) \cup {main.recs[k].id}
  <1>1. /\ pc = "scan" /\ k <= hdr /\ main' = main /\ ids' = ids /\ pc' = pc
        /\ k' = k + 1 /\ hdr' = hdr
        /\ temp' = IF ChunkRead(k) /\ main.recs[k].id \notin ids
                   THEN [temp EXCEPT !.recs = Append(@, main.recs[k])]
                   ELSE temp
    BY DEF ScanRecord
  <1>2. /\ k \in 1 .. Len(main.recs) /\ main.recs[k] \in Rec /\ ChunkRead(k)
        /\ temp = [count |-> temp.count, recs |-> temp.recs]
        /\ temp.recs \in Seq(Rec)
    BY <1>1, ScanReadsRecord
  <1>3. Scanned' = Scanned \cup {main.recs[k].id}
    <2>1. 1 .. k' - 1 = (1 .. k - 1) \cup {k}
      BY <1>1, <1>2
    <2>2. Scanned' = {main.recs[p].id : p \in (1 .. k - 1) \cup {k}}
      BY <1>1, <2>1 DEF Scanned
    <2> QED
      BY <2>2 DEF Scanned
  <1>4. CASE main.recs[k].id \in ids
    BY <1>1, <1>3, <1>4
  <1>5. CASE main.recs[k].id \notin ids
    <2>1. temp' = [count |-> temp.count, recs |-> Append(temp.recs, main.recs[k])]
      BY <1>1, <1>2, <1>5
    <2>2. IdsOf(temp') = IdsIn(Append(temp.recs, main.recs[k]))
      BY <2>1 DEF IdsOf, IdsIn
    <2>3. IdsOf(temp') = IdsOf(temp) \cup {main.recs[k].id}
      BY <1>2, <2>2, IdsOfAppend DEF IdsOf, IdsIn
    <2> QED
      BY <1>1, <1>3, <1>5, <2>1, <2>3
  <1> QED
    BY <1>4, <1>5

LEMMA ScanFollows ==
  ASSUME TypeInv, CopyInv, FollowInv, ScanRecord
  PROVE  FollowInv'
  <1>1. pc = "scan" /\ pc' = "scan" /\ IdsOf(temp) = Scanned \ ids
    BY DEF ScanRecord, FollowInv
  <1>2. IdsOf(temp)' = Scanned' \ ids
    <2>1. IdsOf(temp)' = IdsOf(temp')
      OBVIOUS
    <2> QED
      BY <1>1, <2>1, ScanKeepsOrDrops
  <1> QED
    BY <1>1, <1>2, ScanKeepsOrDrops DEF FollowInv

\* When the loop ends it has seen every record, and the copy holds those the
\* deletion does not name.
LEMMA ScanIsComplete ==
  ASSUME TypeInv, CopyInv, FollowInv, pc = "scan", k > hdr
  PROVE  /\ Scanned = IdsOf(main) /\ IdsOf(temp) = IdsOf(main) \ ids
         /\ k = Len(main.recs) + 1 /\ hdr = Len(main.recs)
  <1>1. hdr = Len(main.recs) /\ k <= hdr + 1 /\ k \in Nat /\ hdr \in Nat
    BY DEF TypeInv, TempReady, TypeOK, CallType, CopyInv, MainGood, Good, ScanGood
  <1>2. k - 1 = Len(main.recs) /\ k = Len(main.recs) + 1
    BY <1>1
  <1> QED
    BY <1>1, <1>2 DEF FollowInv, Scanned, IdsOf

LEMMA SealFollows ==
  ASSUME TypeInv, CopyInv, FollowInv, SealTemp
  PROVE  FollowInv'
  <1>1. /\ pc = "scan" /\ k > hdr /\ pc' \in {"rows", "rename", "reopen"}
        /\ temp'.recs = temp.recs /\ ids' = ids /\ main' = Flushed(main)
    BY DEF TypeInv, TempReady, Image, SealTemp, call, Flush
  <1>2. IdsOf(temp)' = IdsOf(main)' \ ids
    BY <1>1, ScanIsComplete, FlushKeepsIds DEF IdsOf
  <1> QED
    BY <1>1, <1>2 DEF FollowInv

LEMMA BeginScanFollows ==
  ASSUME pc' = "scan", k' = 1, temp' = [count |-> main.count, recs |-> <<>>]
  PROVE  FollowInv'
  <1>1. IdsOf(temp)' = {}
    BY IdsOfEmpty DEF IdsOf, IdsIn
  <1>2. Scanned' = {}
    BY DEF Scanned
  <1> QED
    BY <1>1, <1>2 DEF FollowInv

LEMMA FollowsPreserved ==
  ASSUME NoSqliteErrors, TypeInv, CopyInv, FollowInv, [Next]_vars
  PROVE  FollowInv'
  <1>1. CASE pc' \notin {"open", "item", "append", "scan", "rows", "rename"}
    BY <1>1 DEF FollowInv
  <1>2. CASE CopyToTemp
    BY <1>2 DEF CopyToTemp, FollowInv
  <1>3. CASE DeleteRows
    BY <1>3 DEF DeleteRows, FollowInv, disk, IdsOf
  <1>4. CASE CommitDelete
    <2>1. /\ pc = "rows" /\ pc' \in {"rename", "reopen"} /\ main' = main
          /\ temp' = temp /\ ids' = ids
      BY <1>4 DEF CommitDelete, disk, call
    <2>2. IdsOf(temp)' = IdsOf(main)' \ ids'
      BY <2>1 DEF FollowInv, IdsOf
    <2> QED
      BY <2>1, <2>2 DEF FollowInv
  <1>5. CASE UNCHANGED <<main, temp, pc, ids, k, buf, db, work>>
    <2>1. /\ IdsOf(temp)' = IdsOf(temp) /\ IdsOf(main)' = IdsOf(main)
          /\ Pending' = Pending /\ Scanned' = Scanned
      BY <1>5 DEF IdsOf, Pending, IdsIn, Scanned
    <2> QED
      BY <1>5, <2>1 DEF FollowInv
  <1> QED
    BY <1>1, <1>2, <1>3, <1>4, <1>5, FollowSteps, OpenFollows, InsertFollows,
       EndInsertFollows, AppendFollows, BeginScanFollows, ScanFollows, SealFollows

LEMMA FollowInvariant ==
  ASSUME NoSqliteErrors
  PROVE  Spec => []FollowInv
  <1>1. Init => FollowInv
    BY DEF Init, FollowInv
  <1>2. TypeInv /\ CopyInv /\ FollowInv /\ [Next]_vars => FollowInv'
    BY FollowsPreserved
  <1> QED
    BY <1>1, <1>2, TypeInvariant, CopyInvariant, PTL DEF Spec

\* While SQLite reports no error a record leaves the vector file only with a
\* deletion that names it: an insertion's copy, made before its transaction and
\* renamed over the file after it, loses none, nor does a crash between the two.
THEOREM RecordsGoWithTheirDeletion ==
  ASSUME NoSqliteErrors
  PROVE  Spec => OnlyDeletedRecordsGo
  <1>1. TypeInv /\ FollowInv /\ [Next]_vars =>
          [\A i \in IdsOf(main) \ IdsOf(main)' : pc = "rename" /\ i \in ids]_vars
    BY RecordsSteps DEF FollowInv, RenameTemp
  <1> QED
    BY <1>1, TypeInvariant, FollowInvariant, PTL DEF Spec, OnlyDeletedRecordsGo

\* While SQLite reports no error a record appears only after its row is
\* committed and above every record there was, wherever the process dies: the
\* two stores can differ by rows without records, never by the opposite.
THEOREM RowsComeBeforeRecords ==
  ASSUME NoSqliteErrors
  PROVE  Spec => RecordsFollowTheirRows
  <1>1. TypeInv /\ FollowInv /\ [Next]_vars =>
          [\A i \in IdsOf(main)' \ IdsOf(main) :
             i \in DOMAIN db.rows /\ \A j \in IdsOf(main) : j < i]_vars
    BY RecordsSteps DEF FollowInv, RenameTemp
  <1> QED
    BY <1>1, TypeInvariant, FollowInvariant, PTL DEF Spec, RecordsFollowTheirRows

-----------------------------------------------------------------------------
(* A vector keeps its metadata through an insertion                        *)

\* No statement is left bound, and the j-th record collected is the j-th valid
\* item, whose row holds its metadata.
MetaInv ==
  /\ stale = NoMeta
  /\ pc \in {"item", "append"} =>
       \A j \in 1 .. Len(buf) :
         /\ buf[j].vec = valid[j].vec
         /\ buf[j].id \in DOMAIN work.rows
         /\ work.rows[buf[j].id] = valid[j].meta

LEMMA StaleSteps ==
  ASSUME NoSqliteErrors, [Next]_vars
  PROVE  stale' = stale \/ stale' = NoMeta
  <1>0. "step" \notin Faults
    BY DEF NoSqliteErrors
  <1>1. CASE Insert
    BY <1>0, <1>1 DEF Insert, StartInsert, FilterItem, NothingValid, CopyToTemp,
       OpenInsert, InsertRow, InsertRowFails, EndInsert, RollbackInsert,
       AppendRecords, InsertNothing, Forget, call
  <1>2. CASE Delete
    BY <1>2 DEF Delete, StartDeleteByIds, StartDeleteByFilter, BeginDelete,
       DeleteByFilterNoMatch, ScanRecord, SealTemp, DeleteRows, CommitDelete,
       call
  <1>3. CASE UpdateById
    BY <1>3 DEF UpdateById, StartUpdate, UpdateMetaOnly, UpdateVector,
       UpdateNotFound, UpdateRowFails, CommitUpdate, FlushUpdate, AnswerUpdate,
       UndoUpdate, Forget, call
  <1> QED
    BY <1>1, <1>2, <1>3
       DEF Next, RenameTemp, Reopen, Read, StatsOnClosedFile, Crash, Connect,
       Die, Forget, call, vars

LEMMA InsertPairs ==
  ASSUME TypeInv, CopyInv, MetaInv, InsertRow
  PROVE  \A j \in 1 .. Len(buf') :
           /\ buf'[j].vec = valid[j].vec
           /\ buf'[j].id \in DOMAIN work'.rows
           /\ work'.rows[buf'[j].id] = valid[j].meta
  <1> DEFINE n  == work.seq + 1
             r  == [id |-> n, vec |-> valid[k].vec]
             rs == WithRow(work.rows, n, valid[k].meta)
  <1>1. /\ pc = "item" /\ buf' = Append(buf, r)
        /\ Len(buf) = k - 1 /\ k \in Nat /\ BufBetween(db.seq, work.seq)
        /\ work.seq \in Nat
    BY TypeFacts DEF InsertRow, NextRowId, TypeInv, TypeOK, CallType, CopyInv, BufGood
  <1>2. work'.rows = rs
    BY InsertAddsRow DEF MetaInv, BoundMeta
  <1>3. /\ Len(buf') = Len(buf) + 1 /\ buf'[Len(buf) + 1] = r
        /\ \A j \in 1 .. Len(buf) : buf'[j] = buf[j]
        /\ Len(buf) \in Nat
    BY <1>1, BufType, AppendProperties, IdsAreNumbers
  <1>4. /\ DOMAIN rs = DOMAIN work.rows \cup {n} /\ rs[n] = valid[k].meta
        /\ \A i \in DOMAIN work.rows : i # n => rs[i] = work.rows[i]
    BY DEF WithRow
  <1> HIDE DEF rs
  <1> TAKE j \in 1 .. Len(buf')
  <1>5. CASE j = Len(buf) + 1
    <2>1. j = k /\ buf'[j] = r
      BY <1>1, <1>3, <1>5
    <2> QED
      BY <1>2, <1>4, <2>1
  <1>6. CASE j \in 1 .. Len(buf)
    <2>1. /\ buf[j].vec = valid[j].vec /\ buf[j].id \in DOMAIN work.rows
          /\ work.rows[buf[j].id] = valid[j].meta
      BY <1>1, <1>6 DEF MetaInv
    <2>2. buf[j].id # n
      BY <1>1, <1>6, BufType, IdsAreNumbers DEF BufBetween
    <2> QED
      BY <1>2, <1>3, <1>4, <1>6, <2>1, <2>2
  <1> QED
    BY <1>3, <1>5, <1>6

LEMMA MetaPreserved ==
  ASSUME NoSqliteErrors, TypeInv, CopyInv, MetaInv, [Next]_vars
  PROVE  MetaInv'
  <1>0. stale' = NoMeta
    BY StaleSteps DEF MetaInv
  <1>1. CASE pc' \notin {"item", "append"}
    BY <1>0, <1>1 DEF MetaInv
  <1>2. CASE OpenInsert
    <2>1. buf' = <<>> /\ Len(<<>>) = 0
      BY <1>2, EmptySeq DEF TypeInv, Room, OpenInsert
    <2>2. 1 .. Len(buf') = {}
      BY <2>1
    <2> QED
      BY <1>0, <2>2 DEF MetaInv
  <1>3. CASE InsertRow
    <2>1. valid' = valid
      BY <1>3 DEF InsertRow
    <2> QED
      BY <1>0, <1>3, <2>1, InsertPairs DEF MetaInv
  <1>4. CASE EndInsert
    <2>1. pc = "item" /\ buf' = buf /\ valid' = valid /\ work' = work
      BY <1>4 DEF NoSqliteErrors, EndInsert, Commit, CommitFails, call
    <2> QED
      BY <1>0, <2>1 DEF MetaInv
  <1>5. CASE UNCHANGED <<temp, db, work, pc, valid, k, buf>>
    BY <1>0, <1>5 DEF MetaInv
  <1> QED
    BY <1>1, <1>2, <1>3, <1>4, <1>5, BufSteps

LEMMA MetaInvariant ==
  ASSUME NoSqliteErrors
  PROVE  Spec => []MetaInv
  <1>1. Init => MetaInv
    BY DEF Init, MetaInv
  <1>2. TypeInv /\ CopyInv /\ MetaInv /\ [Next]_vars => MetaInv'
    BY MetaPreserved
  <1> QED
    BY <1>1, <1>2, TypeInvariant, CopyInvariant, PTL DEF Spec

\* While SQLite reports no error an insertion appends every vector under the id
\* of the row that holds its metadata: items of the wrong dimensions, which the
\* client leaves out, shift neither the vectors nor the metadata.
THEOREM MetadataStaysWithItsVector ==
  ASSUME NoSqliteErrors
  PROVE  Spec => []VectorsKeepTheirMetadata
  <1>1. TypeInv /\ CopyInv /\ MetaInv => VectorsKeepTheirMetadata
    <2> SUFFICES ASSUME TypeInv, CopyInv, MetaInv, pc = "append",
                        NEW j \in 1 .. Len(buf)
                 PROVE  \E i \in 1 .. Len(valid) :
                          /\ buf[j].vec = valid[i].vec
                          /\ work.rows[buf[j].id] = valid[i].meta
      BY DEF VectorsKeepTheirMetadata
    <2>1. j \in 1 .. Len(valid)
      BY DEF CopyInv, BufGood
    <2> QED
      BY <2>1 DEF MetaInv
  <1> QED
    BY <1>1, TypeInvariant, CopyInvariant, MetaInvariant, PTL

-----------------------------------------------------------------------------
(* Rows and records between two operations, when nothing fails             *)

NoFaults == Faults = {}

\* The FILE and the transaction are open exactly where the code has them so.
Orderly ==
  /\ pc \notin {"down", "nothing"}
  /\ handle = "closed" => pc \in {"item", "append", "rows", "rename", "reopen"}
  /\ inTxn <=> pc \in {"item", "rows", "update", "undo"}
  /\ ~inTxn => work = db
  /\ pc \in {"open", "item"} => valid # <<>>

\* The rows each operation has written, and where rows and records part.
Agree ==
  /\ pc \notin {"item", "rows"} => DOMAIN work.rows = DOMAIN db.rows
  /\ pc = "item" => DOMAIN work.rows = DOMAIN db.rows \cup Pending
  /\ pc = "rows" => DOMAIN work.rows = DOMAIN db.rows \ (ids \ todo)
  /\ pc \notin {"append", "rename"} => DOMAIN db.rows = IdsOf(main)
  /\ pc = "append" => DOMAIN db.rows = IdsOf(main) \cup Pending
  /\ pc = "rename" => DOMAIN db.rows = IdsOf(temp)

\* A deletion counts the records it leaves out.
Counted ==
  /\ pc \in {"scan", "rows"} /\ byFilter => ids # {} /\ ids \subseteq IdsOf(main)
  /\ pc = "scan" => /\ todo = ids
                    /\ Len(temp.recs) = k - 1 - Cardinality(Scanned \cap ids)
  /\ pc = "rows" => ret = Cardinality(IdsOf(main) \cap ids)

SoundInv == Orderly /\ Agree /\ Counted

LEMMA NoFaultsNoErrors ==
  ASSUME NoFaults
  PROVE  /\ NoSqliteErrors
         /\ "step" \notin Faults /\ "commit" \notin Faults /\ "crash" \notin Faults
  BY DEF NoFaults, NoSqliteErrors

\* The steps an index is spared when nothing fails.
LEMMA ImpossibleSteps ==
  ASSUME NoFaults, TypeInv, CopyInv, Orderly
  PROVE  /\ ~InsertRowFails /\ ~UpdateRowFails /\ ~Crash /\ ~Connect
         /\ ~StatsOnClosedFile /\ ~InsertNothing /\ ~RollbackInsert
  <1>1. ~InsertRowFails /\ ~UpdateRowFails /\ ~Crash
    BY NoFaultsNoErrors DEF InsertRowFails, UpdateRowFails, Crash
  <1>2. ~Connect /\ ~StatsOnClosedFile /\ ~InsertNothing
    BY DEF Orderly, Connect, StatsOnClosedFile, InsertNothing
  <1>3. ~RollbackInsert
    <2> SUFFICES ASSUME RollbackInsert PROVE FALSE
      OBVIOUS
    <2>1. /\ pc = "item" /\ k > Len(valid) /\ buf = <<>> /\ valid # <<>>
          /\ Len(buf) = k - 1 /\ k \in Nat
      BY DEF RollbackInsert, Orderly, CopyInv, BufGood, TypeInv, TypeOK, CallType
    <2>2. Len(<<>>) = 0 /\ Len(valid) \in Nat
      BY EmptySeq, TypeFacts DEF TypeInv
    <2>3. Len(valid) = 0
      BY <2>1, <2>2
    <2> QED
      BY <2>1, <2>3, EmptySeq DEF TypeInv, TypeOK, CallType
  <1> QED
    BY <1>1, <1>2, <1>3

LEMMA OrderlyPreserved ==
  ASSUME NoFaults, TypeInv, CopyInv, Orderly, [Next]_vars
  PROVE  Orderly'
  <1>0. "step" \notin Faults /\ "commit" \notin Faults /\ inTxn \in BOOLEAN
    BY NoFaultsNoErrors DEF TypeInv, TypeOK, SqliteType
  <1>1. CASE Insert
    <2>1. CASE StartInsert \/ FilterItem \/ NothingValid \/ CopyToTemp
      BY <2>1 DEF Orderly, StartInsert, FilterItem, NothingValid, CopyToTemp,
         sqlite, call
    <2>2. CASE OpenInsert
      BY <2>2 DEF Orderly, OpenInsert, sqlite, Begin
    <2>3. CASE InsertRow \/ EndInsert \/ AppendRecords
      BY <1>0, <2>3 DEF Orderly, InsertRow, EndInsert, AppendRecords, Commit,
         CommitFails, sqlite, call
    <2> QED
      BY <1>1, <2>1, <2>2, <2>3, ImpossibleSteps DEF Insert
  <1>2. CASE Delete
    <2>1. CASE StartDeleteByIds \/ StartDeleteByFilter \/ DeleteByFilterNoMatch
      BY <2>1 DEF Orderly, StartDeleteByIds, StartDeleteByFilter, BeginDelete,
         DeleteByFilterNoMatch, sqlite
    <2>2. CASE ScanRecord \/ SealTemp
      BY <2>2 DEF Orderly, ScanRecord, SealTemp, Begin, sqlite
    <2>3. CASE DeleteRows \/ CommitDelete
      BY <1>0, <2>3 DEF Orderly, DeleteRows, CommitDelete, Commit
    <2> QED
      BY <1>2, <2>1, <2>2, <2>3 DEF Delete
  <1>3. CASE UpdateById
    <2>1. CASE StartUpdate \/ UpdateMetaOnly \/ UpdateVector \/ UpdateNotFound
      BY <2>1 DEF Orderly, StartUpdate, UpdateMetaOnly, UpdateVector,
         UpdateNotFound, Begin
    <2>2. CASE CommitUpdate \/ FlushUpdate \/ AnswerUpdate \/ UndoUpdate
      BY <1>0, <2>2 DEF Orderly, CommitUpdate, FlushUpdate, AnswerUpdate,
         UndoUpdate, Commit, CommitFails, Rollback, sqlite
    <2> QED
      BY <1>3, <2>1, <2>2, ImpossibleSteps DEF UpdateById
  <1>4. CASE RenameTemp \/ Reopen \/ Read \/ UNCHANGED vars
    BY <1>4 DEF Orderly, RenameTemp, Reopen, Read, sqlite, vars
  <1> QED
    BY <1>1, <1>2, <1>3, <1>4, ImpossibleSteps DEF Next

LEMMA AgreeSteps ==
  ASSUME NoFaults, TypeInv, CopyInv, Orderly, [Next]_vars
  PROVE  \/ OpenInsert \/ InsertRow \/ EndInsert \/ AppendRecords \/ RenameTemp
         \/ SealTemp \/ DeleteRows \/ CommitDelete
         \/ /\ pc \notin {"item", "append", "rename", "rows"}
            /\ pc' \notin {"item", "append", "rename", "rows"}
            /\ \/ db' = db /\ DOMAIN work'.rows = DOMAIN work.rows
               \/ TxnCommitted
               \/ TxnUndone
         \/ UNCHANGED vars
  <1>0. "commit" \notin Faults
    BY NoFaultsNoErrors
  <1>1. CASE Insert
    BY <1>1, ImpossibleSteps DEF Insert, StartInsert, FilterItem, NothingValid,
       CopyToTemp, sqlite
  <1>2. CASE Delete
    BY <1>2 DEF Delete, StartDeleteByIds, StartDeleteByFilter, BeginDelete,
       DeleteByFilterNoMatch, ScanRecord, sqlite
  <1>3. CASE UpdateById
    <2>1. CASE UpdateMetaOnly \/ UpdateVector \/ UpdateNotFound
      BY <2>1, UpdateKeepsRows DEF UpdateMetaOnly, UpdateVector, UpdateNotFound
    <2>2. CASE UndoUpdate
      BY <2>2 DEF UndoUpdate, Rollback, TxnUndone
    <2> QED
      BY <1>0, <1>3, <2>1, <2>2, ImpossibleSteps DEF UpdateById, StartUpdate,
         CommitUpdate, FlushUpdate, AnswerUpdate, Begin, Commit, CommitFails,
         TxnCommitted, sqlite
  <1> QED
    BY <1>1, <1>2, <1>3, ImpossibleSteps DEF Next, Reopen, Read, sqlite

LEMMA OpenAgrees ==
  ASSUME TypeInv, Orderly, Agree, OpenInsert
  PROVE  Agree'
  <1>1. /\ pc = "open" /\ pc' = "item" /\ UNCHANGED <<db, work, buf, temp>>
        /\ main' = Flushed(main)
    BY DEF Orderly, OpenInsert, Begin, Flush
  <1>2. Pending' = {}
    BY <1>1, IdsOfEmpty DEF TypeInv, Room, Pending
  <1>3. IdsOf(main)' = IdsOf(main)
    BY <1>1, FlushKeepsIds
  <1> QED
    BY <1>1, <1>2, <1>3 DEF Agree

LEMMA InsertAgrees ==
  ASSUME TypeInv, Agree, InsertRow
  PROVE  Agree'
  <1> DEFINE r == [id |-> work.seq + 1, vec |-> valid[k].vec]
  <1>1. /\ pc = "item" /\ pc' = "item" /\ main' = main /\ db' = db
        /\ buf' = Append(buf, r)
    BY DEF InsertRow, NextRowId, disk
  <1>2. r \in Rec
    <2> DEFINE V == [vec : Vectors, meta : Metas]
    <2>1. k \in 1 .. Len(valid) /\ valid \in Seq(V)
      BY TypeFacts DEF TypeInv, TypeOK, CallType, Room, InsertRow
    <2> HIDE DEF V
    <2>2. valid[k] \in V
      BY <2>1, ElementOfSeq
    <2> QED
      BY <2>2, TypeFacts DEF V, Rec, TypeInv
  <1>3. Pending' = Pending \cup {work.seq + 1}
    BY <1>1, <1>2, BufType, IdsOfAppend DEF Pending
  <1>4. DOMAIN work'.rows = DOMAIN work.rows \cup {work.seq + 1}
    BY InsertAddsRow
  <1>5. IdsOf(main)' = IdsOf(main)
    BY <1>1
  <1> QED
    BY <1>1, <1>3, <1>4, <1>5 DEF Agree

LEMMA EndInsertAgrees ==
  ASSUME NoFaults, Agree, EndInsert
  PROVE  Agree'
  <1>1. /\ pc = "item" /\ pc' = "append" /\ main' = main /\ buf' = buf
        /\ db' = work /\ work' = work
    BY NoFaultsNoErrors DEF EndInsert, Commit, CommitFails, disk, call
  <1>2. IdsOf(main)' = IdsOf(main) /\ Pending' = Pending
    BY <1>1 DEF Pending
  <1>3. DOMAIN work.rows = IdsOf(main) \cup Pending
    BY <1>1 DEF Agree
  <1> QED
    BY <1>1, <1>2, <1>3 DEF Agree

LEMMA AppendAgrees ==
  ASSUME TypeInv, CopyInv, FollowInv, Agree, AppendRecords
  PROVE  Agree'
  <1>1. pc = "append" /\ pc' = "rename" /\ UNCHANGED <<db, work>>
    BY DEF AppendRecords, sqlite
  <1>2. IdsOf(temp)' = IdsOf(main) \cup Pending
    BY <1>1, AppendAddsBuffer DEF FollowInv
  <1> QED
    BY <1>1, <1>2 DEF Agree

LEMMA RenameAgrees ==
  ASSUME Agree, RenameTemp
  PROVE  Agree'
  <1>1. pc = "rename" /\ pc' = "reopen" /\ UNCHANGED <<db, work>> /\ main' = temp
    BY DEF RenameTemp, sqlite
  <1>2. IdsOf(main)' = IdsOf(temp)
    BY <1>1
  <1> QED
    BY <1>1, <1>2 DEF Agree

LEMMA SealAgrees ==
  ASSUME TypeInv, Orderly, Agree, Counted, SealTemp
  PROVE  Agree'
  <1>1. /\ pc = "scan" /\ pc' = "rows" /\ UNCHANGED <<db, work, ids, todo>>
        /\ main' = Flushed(main)
    BY DEF Orderly, SealTemp, Begin, Flush, call
  <1>2. IdsOf(main)' = IdsOf(main)
    BY <1>1, FlushKeepsIds
  <1> QED
    BY <1>1, <1>2 DEF Agree, Counted

LEMMA DeleteAgrees ==
  ASSUME NoFaults, TypeInv, RowInv, Agree, DeleteRows
  PROVE  Agree'
  <1>1. /\ pc = "rows" /\ pc' = "rows" /\ db' = db /\ main' = main /\ ids' = ids
        /\ todo' = todo \ NextBatch /\ todo \subseteq ids
        /\ DOMAIN work'.rows = DOMAIN work.rows \ NextBatch
    BY DeleteTakesRows, NoFaultsNoErrors DEF DeleteRows, RowInv, disk
  <1>2. NextBatch \subseteq ids
    BY <1>1 DEF NextBatch
  <1>3. IdsOf(main)' = IdsOf(main)
    BY <1>1
  <1> QED
    BY <1>1, <1>2, <1>3 DEF Agree

\* A deletion by a filter finds a record for each row it found, so it never
\* keeps the old file.
LEMMA CommitDeleteRenames ==
  ASSUME NoFaults, TypeInv, Agree, Counted, CommitDelete
  PROVE  /\ pc = "rows" /\ pc' = "rename" /\ UNCHANGED <<main, temp, ids>>
         /\ db' = work /\ work' = work
         /\ DOMAIN db'.rows = DOMAIN db.rows \ ids
         /\ ret = Cardinality(DOMAIN db.rows \cap ids)
  <1>1. /\ pc = "rows" /\ UNCHANGED <<main, temp, ids>> /\ todo = {}
        /\ db' = work /\ work' = work
        /\ pc' = IF byFilter /\ ret = 0 THEN "reopen" ELSE "rename"
    BY NoFaultsNoErrors DEF CommitDelete, Commit, disk, call
  <1>2. /\ DOMAIN db'.rows = DOMAIN db.rows \ ids
        /\ ret = Cardinality(DOMAIN db.rows \cap ids)
    BY <1>1 DEF Agree, Counted
  <1>3. IsFiniteSet(DOMAIN db.rows)
    <2>1. DOMAIN db.rows \subseteq 1 .. MaxId /\ MaxId \in Int
      BY ConstantsAssumption DEF TypeInv, TypeOK, SqliteType, IsTable, Ids
    <2>2. IsFiniteSet(1 .. MaxId)
      BY <2>1, FS_Interval
    <2> QED
      BY <2>1, <2>2, FS_Subset
  <1>4. ASSUME byFilter, ret = 0
        PROVE  FALSE
    <2>1. ids # {} /\ ids \subseteq DOMAIN db.rows
      BY <1>1, <1>4 DEF Agree, Counted
    <2>2. IsFiniteSet(ids) /\ Cardinality(ids) = 0
      <3>1. DOMAIN db.rows \cap ids = ids
        BY <2>1
      <3> QED
        BY <1>2, <1>3, <1>4, <2>1, <3>1, FS_Subset
    <2> QED
      BY <2>1, <2>2, FS_EmptySet
  <1> QED
    BY <1>1, <1>2, <1>4

LEMMA CommitDeleteAgrees ==
  ASSUME NoFaults, TypeInv, FollowInv, Agree, Counted, CommitDelete
  PROVE  Agree'
  <1>1. IdsOf(temp)' = IdsOf(main) \ ids
    BY CommitDeleteRenames DEF FollowInv
  <1>2. DOMAIN db.rows = IdsOf(main)
    BY CommitDeleteRenames DEF Agree
  <1> QED
    BY <1>1, <1>2, CommitDeleteRenames DEF Agree

LEMMA AgreePreserved ==
  ASSUME NoFaults, TypeInv, CopyInv, FollowInv, RowInv, SoundInv, [Next]_vars
  PROVE  Agree'
  <1> USE DEF SoundInv
  <1>1. CASE /\ pc \notin {"item", "append", "rename", "rows"}
             /\ pc' \notin {"item", "append", "rename", "rows"}
             /\ \/ db' = db /\ DOMAIN work'.rows = DOMAIN work.rows
                \/ TxnCommitted
                \/ TxnUndone
    <2>1. DOMAIN work.rows = DOMAIN db.rows /\ DOMAIN db.rows = IdsOf(main)
      BY <1>1 DEF Agree
    <2>2. IdsOf(main)' = IdsOf(main)
      BY <1>1, RecordsSteps DEF RenameTemp
    <2>3. DOMAIN work'.rows = DOMAIN work.rows /\ DOMAIN db'.rows = DOMAIN db.rows
      BY <1>1, <2>1 DEF TxnCommitted, TxnUndone
    <2> QED
      BY <1>1, <2>1, <2>2, <2>3 DEF Agree
  <1>2. CASE UNCHANGED vars
    <2>1. /\ IdsOf(main)' = IdsOf(main) /\ IdsOf(temp)' = IdsOf(temp)
          /\ Pending' = Pending
      BY <1>2 DEF vars, Pending
    <2> QED
      BY <1>2, <2>1 DEF Agree, vars
  <1> QED
    BY <1>1, <1>2, AgreeSteps, OpenAgrees, InsertAgrees, EndInsertAgrees,
       AppendAgrees, RenameAgrees, SealAgrees, DeleteAgrees, CommitDeleteAgrees

LEMMA CountedSteps ==
  ASSUME [Next]_vars
  PROVE  \/ pc' \notin {"scan", "rows"}
         \/ StartDeleteByIds \/ StartDeleteByFilter \/ ScanRecord \/ SealTemp
         \/ DeleteRows
         \/ UNCHANGED <<main, temp, pc, ids, todo, byFilter, k, ret>>
  <1>1. CASE Insert
    BY <1>1 DEF Insert, StartInsert, FilterItem, NothingValid, CopyToTemp,
       OpenInsert, InsertRow, InsertRowFails, EndInsert, RollbackInsert,
       AppendRecords, InsertNothing
  <1>2. CASE Delete
    BY <1>2 DEF Delete, DeleteByFilterNoMatch, CommitDelete
  <1>3. CASE UpdateById
    BY <1>3 DEF UpdateById, StartUpdate, UpdateMetaOnly, UpdateVector,
       UpdateNotFound, UpdateRowFails, CommitUpdate, FlushUpdate, AnswerUpdate,
       UndoUpdate
  <1> QED
    BY <1>1, <1>2, <1>3
       DEF Next, RenameTemp, Reopen, Read, StatsOnClosedFile, Crash, Connect,
       Die, vars

LEMMA BeginCounts ==
  ASSUME TypeInv, Agree, StartDeleteByIds \/ StartDeleteByFilter
  PROVE  Counted'
  <1>1. /\ pc = "idle" /\ pc' = "scan" /\ todo' = ids' /\ k' = 1
        /\ temp' = [count |-> main.count, recs |-> <<>>]
        /\ main' = Flushed(main)
    BY DEF StartDeleteByIds, StartDeleteByFilter, BeginDelete, Flush
  <1>2. Len(temp'.recs) = k' - 1 - Cardinality((Scanned \cap ids)')
    <2>1. (Scanned \cap ids)' = {}
      BY <1>1 DEF Scanned
    <2>2. Cardinality((Scanned \cap ids)') = 0
      BY <2>1, FS_EmptySet
    <2>3. temp'.recs = <<>> /\ Len(<<>>) = 0
      BY <1>1, EmptySeq
    <2> QED
      BY <1>1, <2>2, <2>3
  <1>3. byFilter' => ids' # {} /\ ids' \subseteq IdsOf(main')
    <2>1. CASE StartDeleteByIds
      BY <2>1 DEF StartDeleteByIds, BeginDelete
    <2>2. CASE StartDeleteByFilter
      <3>1. PICK f \in Filters : Matching(f) # {} /\ ids' = Matching(f)
        BY <2>2 DEF StartDeleteByFilter, BeginDelete
      <3>2. Matching(f) \subseteq DOMAIN work.rows
        BY DEF Matching
      <3>3. DOMAIN work.rows = IdsOf(main)
        BY <1>1 DEF Agree
      <3> QED
        BY <1>1, <3>1, <3>2, <3>3, FlushKeepsIds
    <2> QED
      BY <2>1, <2>2
  <1> QED
    BY <1>1, <1>2, <1>3 DEF Counted

LEMMA ScanCounts ==
  ASSUME TypeInv, CopyInv, Counted, ScanRecord
  PROVE  Counted'
  <1> DEFINE i == main.recs[k].id
             S == Scanned \cap ids
  <1>1. /\ pc = "scan" /\ pc' = "scan" /\ k \in 1 .. Len(main.recs)
        /\ main.recs \in Seq(Rec) /\ temp.recs \in Seq(Rec) /\ main.recs[k] \in Rec
        /\ todo' = todo /\ byFilter' = byFilter /\ Len(main.recs) \in Nat
    BY ScanReadsRecord, TypeFacts DEF ScanRecord, TypeInv
  <1>2. i \notin Scanned
    <2>1. \A p \in 1 .. k - 1 :
            main.recs[p].id \in Nat /\ i \in Nat /\ main.recs[p].id < i
      <3>1. AscendingIn(main.recs, Len(main.recs))
        BY DEF CopyInv, MainGood, Good
      <3>2. \A p \in 1 .. k - 1 : p \in 1 .. Len(main.recs) /\ p < k
        BY <1>1
      <3> QED
        BY <1>1, <3>1, <3>2, IdsAreNumbers DEF AscendingIn
    <2> HIDE DEF i
    <2> QED
      BY <2>1 DEF Scanned
  <1>3. IsFiniteSet(S)
    <2>1. \A p \in 1 .. k - 1 : p \in 1 .. Len(main.recs)
      BY <1>1
    <2>2. S \in SUBSET Nat /\ \A s \in S : s <= db.seq
      BY <1>1, <2>1, IdsAreNumbers DEF CopyInv, MainGood, Good, Scanned
    <2> QED
      BY <2>2, TypeFacts, FS_BoundedSetOfNaturals DEF TypeInv
  <1>4. (Scanned \cap ids)' = IF i \in ids THEN S \cup {i} ELSE S
    <2>1. (Scanned \cap ids)' = Scanned' \cap ids'
      OBVIOUS
    <2> QED
      BY <2>1, ScanKeepsOrDrops
  <1>5. Cardinality((Scanned \cap ids)') =
          IF i \in ids THEN Cardinality(S) + 1 ELSE Cardinality(S)
    BY <1>2, <1>3, <1>4, FS_AddElement
  <1>6. Len(temp'.recs) = IF i \in ids THEN Len(temp.recs) ELSE Len(temp.recs) + 1
    BY <1>1, ScanKeepsOrDrops, AppendProperties
  <1>7. Len(temp.recs) = k - 1 - Cardinality(S) /\ Cardinality(S) \in Nat /\ k \in Nat
    BY <1>1, <1>3, FS_CardinalityType DEF Counted
  <1>8. Len(temp'.recs) = k' - 1 - Cardinality((Scanned \cap ids)')
    <2>1. k' = k + 1
      BY ScanKeepsOrDrops
    <2> HIDE DEF S, i
    <2> QED
      BY <1>5, <1>6, <1>7, <2>1
  <1>9. /\ todo' = ids'
        /\ byFilter' => ids' # {} /\ ids' \subseteq IdsOf(main')
    BY <1>1, ScanKeepsOrDrops DEF Counted
  <1> QED
    BY <1>1, <1>8, <1>9 DEF Counted

LEMMA SealCounts ==
  ASSUME TypeInv, CopyInv, FollowInv, Orderly, Counted, SealTemp
  PROVE  Counted'
  <1>1. /\ pc = "scan" /\ k > hdr /\ pc' = "rows" /\ UNCHANGED <<ids, byFilter>>
        /\ ret' = hdr - Len(temp.recs) /\ main' = Flushed(main)
    BY DEF Orderly, SealTemp, Begin, Flush, call
  <1>2. IdsOf(main)' = IdsOf(main)
    BY <1>1, FlushKeepsIds
  <1>3. /\ Scanned = IdsOf(main) /\ hdr = k - 1 /\ hdr \in Nat
        /\ Len(temp.recs) = k - 1 - Cardinality(Scanned \cap ids)
    BY <1>1, ScanIsComplete, TypeFacts DEF Counted, TypeInv, TypeOK, CallType
  <1>4. Cardinality(IdsOf(main) \cap ids) \in Nat
    <2>1. \A i \in IdsOf(main) : i \in Nat /\ i <= db.seq
      BY GoodIds, ImageIds DEF CopyInv, MainGood, TypeInv, TypeOK, DiskType
    <2>2. IsFiniteSet(IdsOf(main) \cap ids)
      BY <2>1, TypeFacts, FS_BoundedSetOfNaturals DEF TypeInv
    <2> QED
      BY <2>2, FS_CardinalityType
  <1>5. ret' = Cardinality(IdsOf(main) \cap ids)
    BY <1>1, <1>3, <1>4
  <1> QED
    BY <1>1, <1>2, <1>5 DEF Counted

LEMMA CountedPreserved ==
  ASSUME NoFaults, TypeInv, CopyInv, FollowInv, SoundInv, [Next]_vars
  PROVE  Counted'
  <1>1. CASE pc' \notin {"scan", "rows"}
    BY <1>1 DEF Counted
  <1>2. CASE DeleteRows
    <2>1. pc = "rows" /\ pc' = "rows" /\ UNCHANGED <<main, ids, byFilter, ret>>
      BY <1>2 DEF DeleteRows, disk
    <2>2. IdsOf(main)' = IdsOf(main)
      BY <2>1
    <2> QED
      BY <2>1, <2>2 DEF SoundInv, Counted
  <1>3. CASE UNCHANGED <<main, temp, pc, ids, todo, byFilter, k, ret>>
    <2>1. IdsOf(main)' = IdsOf(main) /\ Scanned' = Scanned
      BY <1>3 DEF Scanned
    <2> QED
      BY <1>3, <2>1 DEF SoundInv, Counted
  <1> QED
    BY <1>1, <1>2, <1>3, CountedSteps, BeginCounts, ScanCounts, SealCounts
       DEF SoundInv

LEMMA RowsLeadToRename ==
  ASSUME [Next]_vars, pc = "rows", pc' \in {"rename", "reopen"}
  PROVE  CommitDelete
  <1>1. CASE Insert
    BY <1>1 DEF Insert, StartInsert, FilterItem, NothingValid, CopyToTemp,
       OpenInsert, InsertRow, InsertRowFails, EndInsert, RollbackInsert,
       AppendRecords, InsertNothing
  <1>2. CASE Delete
    BY <1>2 DEF Delete, StartDeleteByIds, StartDeleteByFilter,
       DeleteByFilterNoMatch, ScanRecord, SealTemp, DeleteRows
  <1>3. CASE UpdateById
    BY <1>3 DEF UpdateById, StartUpdate, UpdateMetaOnly, UpdateVector,
       UpdateNotFound, UpdateRowFails, CommitUpdate, FlushUpdate, AnswerUpdate,
       UndoUpdate
  <1> QED
    BY <1>1, <1>2, <1>3
       DEF Next, RenameTemp, Reopen, Read, StatsOnClosedFile, Crash, Connect,
       Die, vars

LEMMA SoundInvariant ==
  ASSUME NoFaults
  PROVE  Spec => []SoundInv
  <1>1. Init => SoundInv
    <2> SUFFICES ASSUME Init PROVE SoundInv
      OBVIOUS
    <2>1. IdsOf(main) = {} /\ DOMAIN db.rows = {} /\ work = db
      BY IdsOfEmpty DEF Init, IdsOf, IdsIn
    <2> QED
      BY <2>1 DEF Init, SoundInv, Orderly, Agree, Counted
  <1>2. TypeInv /\ CopyInv /\ FollowInv /\ RowInv /\ SoundInv /\ [Next]_vars
          => SoundInv'
    BY OrderlyPreserved, AgreePreserved, CountedPreserved DEF SoundInv
  <1>3. NoSqliteErrors
    BY NoFaultsNoErrors
  <1> QED
    BY <1>1, <1>2, <1>3, TypeInvariant, CopyInvariant, FollowInvariant,
       RowInvariant, PTL DEF Spec

\* When nothing fails every operation leaves the index, on each of its ways out,
\* with a row for every record and a record for every row, and with a FILE that
\* the next read may use.
THEOREM SoundBetweenOperations ==
  ASSUME NoFaults
  PROVE  Spec => []SoundWhenIdle
  <1>1. TypeInv /\ SoundInv => SoundWhenIdle
    BY DEF TypeInv, TypeOK, DiskType, SoundInv, Orderly, Agree, SoundWhenIdle
  <1> QED
    BY <1>1, TypeInvariant, SoundInvariant, PTL

\* When nothing fails the count of vectors a deletion returns, taken from the
\* records it left out of the copy, is the number of rows it deletes, although
\* it may be asked for ids that are not there.
THEOREM DeletionsCountTheirRows ==
  ASSUME NoFaults
  PROVE  Spec => DeletionCountAgrees
  <1>1. TypeInv /\ SoundInv /\ [Next]_vars =>
          [pc = "rows" /\ pc' \in {"rename", "reopen"} =>
             ret = Cardinality(DOMAIN db.rows \ DOMAIN db.rows')]_vars
    <2> SUFFICES ASSUME TypeInv, SoundInv, [Next]_vars, pc = "rows",
                        pc' \in {"rename", "reopen"}
                 PROVE  ret = Cardinality(DOMAIN db.rows \ DOMAIN db'.rows)
      OBVIOUS
    <2>1. CommitDelete
      BY RowsLeadToRename
    <2>2. /\ DOMAIN db'.rows = DOMAIN db.rows \ ids
          /\ ret = Cardinality(DOMAIN db.rows \cap ids)
      BY <2>1, CommitDeleteRenames DEF SoundInv
    <2>3. DOMAIN db.rows \ DOMAIN db'.rows = DOMAIN db.rows \cap ids
      BY <2>2
    <2> QED
      BY <2>2, <2>3
  <1> QED
    BY <1>1, TypeInvariant, SoundInvariant, PTL DEF Spec, DeletionCountAgrees

-----------------------------------------------------------------------------
(* No operation goes on for ever. Places follow each other in one direction *)
(* only, and where an operation loops there is less left at each turn.      *)

Stage ==
  CASE pc \in {"filter", "scan", "update"} -> 1
    [] pc \in {"open", "rows", "flush"} -> 2
    [] pc = "item" -> 3
    [] pc = "append" -> 4
    [] pc = "rename" -> 5
    [] pc \in {"reopen", "nothing", "answer", "undo"} -> 6
    [] pc \in {"idle", "down"} -> 7

\* Items, records or ids that a loop has still to look at
Left ==
  CASE pc \in {"filter", "update"} -> Len(batch) + 1 - k
    [] pc = "item" -> Len(valid) + 1 - k
    [] pc = "scan" -> hdr + 1 - k
    [] pc = "rows" -> Cardinality(todo)
    [] OTHER -> 0

OperationsGoOn ==
  [][pc \notin {"idle", "down"} =>
       \/ Stage < Stage'
       \/ Stage' = Stage /\ Left \in Nat /\ Left' \in Nat /\ Left' < Left]_vars

\* The ids a caller lists are finitely many.
FiniteLists == \A S \in IdLists : IsFiniteSet(S)

TodoFinite == IsFiniteSet(todo)

LEMMA TodoIsFinite ==
  ASSUME FiniteLists
  PROVE  Spec => []TodoFinite
  <1>1. Init => TodoFinite
    BY FS_EmptySet DEF Init, TodoFinite
  <1>2. TypeInv /\ TodoFinite /\ [Next]_vars => TodoFinite'
    <2> USE DEF TodoFinite
    <2> SUFFICES ASSUME TypeInv, IsFiniteSet(todo), [Next]_vars
                 PROVE  IsFiniteSet(todo')
      OBVIOUS
    <2>1. todo' \subseteq todo => IsFiniteSet(todo')
      BY FS_Subset
    <2>2. ASSUME NEW f \in Filters PROVE IsFiniteSet(Matching(f))
      <3>1. Matching(f) \subseteq 1 .. MaxId
        BY DEF Matching, TypeInv, TypeOK, SqliteType, IsTable, Ids
      <3>2. IsFiniteSet(1 .. MaxId)
        BY ConstantsAssumption, FS_Interval
      <3> QED
        BY <3>1, <3>2, FS_Subset
    <2>3. CASE Insert
      <3>1. todo' \subseteq todo
        BY <2>3 DEF Insert, StartInsert, FilterItem, NothingValid, CopyToTemp,
           OpenInsert, InsertRow, InsertRowFails, EndInsert, RollbackInsert,
           AppendRecords, InsertNothing, Forget, call
      <3> QED
        BY <2>1, <3>1
    <2>4. CASE Delete
      <3>1. CASE StartDeleteByIds
        BY <3>1 DEF StartDeleteByIds, BeginDelete, FiniteLists
      <3>2. CASE StartDeleteByFilter
        BY <2>2, <3>2 DEF StartDeleteByFilter, BeginDelete
      <3>3. CASE DeleteRows
        <4>1. todo' \subseteq todo
          BY <3>3 DEF DeleteRows
        <4> QED
          BY <2>1, <4>1
      <3>4. CASE DeleteByFilterNoMatch \/ ScanRecord \/ SealTemp \/ CommitDelete
        BY <3>4 DEF DeleteByFilterNoMatch, ScanRecord, SealTemp, CommitDelete, call
      <3> QED
        BY <2>4, <3>1, <3>2, <3>3, <3>4 DEF Delete
    <2>5. CASE UpdateById
      <3>1. todo' \subseteq todo
        BY <2>5 DEF UpdateById, StartUpdate, UpdateMetaOnly, UpdateVector,
           UpdateNotFound, UpdateRowFails, CommitUpdate, FlushUpdate, AnswerUpdate,
           UndoUpdate, Forget, call
      <3> QED
        BY <2>1, <3>1
    <2>6. CASE RenameTemp \/ Reopen \/ Read \/ StatsOnClosedFile \/ Crash \/ Connect
      <3>1. todo' \subseteq todo
        BY <2>6 DEF RenameTemp, Reopen, Read, StatsOnClosedFile, Crash, Connect,
           Die, Forget, call
      <3> QED
        BY <2>1, <3>1
    <2>7. CASE UNCHANGED vars
      BY <2>7 DEF vars
    <2> QED
      BY <2>3, <2>4, <2>5, <2>6, <2>7 DEF Next
  <1> QED
    BY <1>1, <1>2, TypeInvariant, PTL DEF Spec

\* Induction on the numbers, as the prover can use it.
LEMMA LeastElement ==
  ASSUME NEW T, T \subseteq Nat, T # {}
  PROVE  \E x \in T : \A y \in T : x <= y
  <1> DEFINE R == OpToRel(<, Nat)
  <1>1. IsWellFoundedOn(R, Nat)
    BY NatLessThanWellFounded
  <1>2. \A x, y \in Nat : x < y => <<x, y>> \in R
    BY DEF OpToRel
  <1> HIDE DEF R
  <1>3. PICK x \in T : \A y \in T : ~(<<y, x>> \in R)
    BY <1>1, WFMin
  <1>4. \A y \in T : ~(y < x)
    BY <1>2, <1>3
  <1>5. x \in Nat /\ \A y \in T : y \in Nat
    OBVIOUS
  <1> QED
    BY <1>4, <1>5

\* A batch of a deletion has an id: the least of those left.
LEMMA BatchHasAnId ==
  ASSUME TypeInv, IsFiniteSet(todo), todo # {}
  PROVE  /\ NextBatch \subseteq todo /\ NextBatch # {}
         /\ Cardinality(todo) \in Nat
         /\ Cardinality(todo \ NextBatch) \in Nat
         /\ Cardinality(todo \ NextBatch) < Cardinality(todo)
  <1>1. todo \subseteq Nat
    BY DEF TypeInv, TypeOK, CallType
  <1>2. PICK i \in todo : \A j \in todo : i <= j
    BY <1>1, LeastElement
  <1>3. {j \in todo : j < i} = {}
    <2>1. i \in Nat /\ \A j \in todo : j \in Nat /\ i <= j
      BY <1>1, <1>2
    <2>2. \A j \in todo : ~(j < i)
      BY <2>1
    <2> QED
      BY <2>2
  <1>4. Cardinality({j \in todo : j < i}) < BatchSize
    <2>1. Cardinality({}) = 0 /\ BatchSize \in Nat \ {0}
      BY FS_EmptySet, ConstantsAssumption
    <2>2. Cardinality({j \in todo : j < i}) = 0
      BY <1>3, <2>1
    <2> QED
      BY <2>1, <2>2
  <1>5. NextBatch \subseteq todo /\ NextBatch # {}
    BY <1>2, <1>4 DEF NextBatch
  <1>6. todo \ NextBatch \subseteq todo /\ todo \ NextBatch # todo
    BY <1>5
  <1>7. IsFiniteSet(todo \ NextBatch)
    BY <1>6, FS_Subset
  <1>8. Cardinality(todo \ NextBatch) <= Cardinality(todo)
        /\ Cardinality(todo \ NextBatch) # Cardinality(todo)
    BY <1>6, FS_Subset
  <1>9. Cardinality(todo) \in Nat /\ Cardinality(todo \ NextBatch) \in Nat
    BY <1>7, FS_CardinalityType
  <1> QED
    BY <1>5, <1>8, <1>9

LEMMA TurnsAreFewer ==
  ASSUME TypeInv, IsFiniteSet(todo), pc' = pc,
         \/ FilterItem \/ InsertRow \/ InsertRowFails \/ ScanRecord
         \/ DeleteRows \/ UpdateMetaOnly \/ UpdateVector
  PROVE  Left \in Nat /\ Left' \in Nat /\ Left' < Left
  <1>1. Len(batch) \in Nat /\ Len(valid) \in Nat /\ hdr \in Nat /\ k \in Nat
    BY TypeFacts DEF TypeInv, TypeOK, CallType
  <1>2. CASE FilterItem \/ UpdateMetaOnly \/ UpdateVector
    <2>1. /\ pc \in {"filter", "update"} /\ k <= Len(batch)
          /\ k' = k + 1 /\ batch' = batch
      BY <1>2 DEF FilterItem, UpdateMetaOnly, UpdateVector
    <2>2. Left = Len(batch) + 1 - k /\ Left' = Len(batch) + 1 - (k + 1)
      BY <2>1 DEF Left
    <2> QED
      BY <1>1, <2>1, <2>2
  <1>3. CASE InsertRow \/ InsertRowFails
    <2>1. pc = "item" /\ k <= Len(valid) /\ k' = k + 1 /\ valid' = valid
      BY <1>3 DEF InsertRow, InsertRowFails
    <2>2. Left = Len(valid) + 1 - k /\ Left' = Len(valid) + 1 - (k + 1)
      BY <2>1 DEF Left
    <2> QED
      BY <1>1, <2>1, <2>2
  <1>4. CASE ScanRecord
    <2>1. pc = "scan" /\ k <= hdr /\ k' = k + 1 /\ hdr' = hdr
      BY <1>4 DEF ScanRecord
    <2>2. Left = hdr + 1 - k /\ Left' = hdr + 1 - (k + 1)
      BY <2>1 DEF Left
    <2> QED
      BY <1>1, <2>1, <2>2
  <1>5. CASE DeleteRows
    <2>1. pc = "rows" /\ todo # {} /\ todo' = todo \ NextBatch
      BY <1>5 DEF DeleteRows
    <2>2. Left = Cardinality(todo) /\ Left' = Cardinality(todo \ NextBatch)
      BY <2>1 DEF Left
    <2> QED
      BY <2>1, <2>2, BatchHasAnId
  <1> QED
    BY <1>2, <1>3, <1>4, <1>5

\* An operation that has begun comes nearer to its end with every step, whatever
\* SQLite refuses: none of its loops, over items, records or statements, can turn
\* for ever. What is left of OperationsReturn is that there always is a step.
THEOREM OperationsComeToAnEnd ==
  ASSUME FiniteLists
  PROVE  Spec => OperationsGoOn
  <1>1. TypeInv /\ TodoFinite /\ [Next]_vars =>
          [pc \notin {"idle", "down"} =>
             \/ Stage < Stage'
             \/ Stage' = Stage /\ Left \in Nat /\ Left' \in Nat /\ Left' < Left]_vars
    <2> SUFFICES ASSUME TypeInv, TodoFinite, Next, pc \notin {"idle", "down"}
                 PROVE  \/ Stage < Stage'
                        \/ Stage' = Stage /\ Left \in Nat /\ Left' \in Nat /\ Left' < Left
      OBVIOUS
    <2>1. pc' = pc => Stage' = Stage
      BY DEF Stage
    <2>2. ASSUME \/ FilterItem \/ InsertRow \/ InsertRowFails \/ ScanRecord
                 \/ DeleteRows \/ UpdateMetaOnly \/ UpdateVector
          PROVE  pc' = pc
      BY <2>2 DEF FilterItem, InsertRow, InsertRowFails, ScanRecord, DeleteRows,
         UpdateMetaOnly, UpdateVector
    <2>3. CASE \/ FilterItem \/ InsertRow \/ InsertRowFails \/ ScanRecord
               \/ DeleteRows \/ UpdateMetaOnly \/ UpdateVector
      BY <2>1, <2>2, <2>3, TurnsAreFewer DEF TodoFinite
    <2>4. CASE NothingValid \/ CopyToTemp \/ OpenInsert \/ EndInsert \/ RollbackInsert
               \/ AppendRecords \/ InsertNothing \/ RenameTemp \/ Reopen
      BY <2>4 DEF NothingValid, CopyToTemp, OpenInsert, EndInsert, RollbackInsert,
         AppendRecords, InsertNothing, RenameTemp, Reopen, Stage
    <2>5. CASE SealTemp \/ CommitDelete
      BY <2>5 DEF SealTemp, CommitDelete, Stage
    <2>6. CASE UpdateNotFound \/ UpdateRowFails \/ CommitUpdate \/ FlushUpdate
               \/ AnswerUpdate \/ UndoUpdate
      BY <2>6 DEF UpdateNotFound, UpdateRowFails, CommitUpdate, FlushUpdate,
         AnswerUpdate, UndoUpdate, Stage
    <2>7. CASE StartInsert \/ StartDeleteByIds \/ StartDeleteByFilter
               \/ DeleteByFilterNoMatch \/ StartUpdate \/ Read \/ StatsOnClosedFile
               \/ Connect
      BY <2>7 DEF StartInsert, StartDeleteByIds, StartDeleteByFilter,
         DeleteByFilterNoMatch, StartUpdate, Read, StatsOnClosedFile, Connect
    <2>8. CASE Crash
      <3>1. pc' = "down" /\ pc \in {"filter", "open", "item", "append", "nothing",
               "rename", "reopen", "scan", "rows", "update", "flush", "answer", "undo"}
        BY <2>8 DEF Crash, Die, TypeInv, TypeOK, PlaceType
      <3> QED
        BY <3>1 DEF Stage
    <2> QED
      BY <2>3, <2>4, <2>5, <2>6, <2>7, <2>8 DEF Next, Insert, Delete, UpdateById
  <1> QED
    BY <1>1, TypeInvariant, TodoIsFinite, PTL DEF Spec, OperationsGoOn
=============================================================================

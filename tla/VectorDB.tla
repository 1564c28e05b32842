------------------------------ MODULE VectorDB ------------------------------
(***************************************************************************)
(* What an index promises the program that calls it, one call at a time: a *)
(* map from ids to a vector and its metadata, changed only as the call in  *)
(* progress asks.  An insertion and a deletion happen entirely or, when    *)
(* the process dies, not at all; an update replaces vectors one by one and *)
(* all metadata at once, and gives up when it names an unknown id.         *)
(***************************************************************************)
EXTENDS Integers, Sequences, FiniteSetsExt

CONSTANTS
  Vectors, Metas, NoMeta,                         \* as in VecStore
  MaxId,                                          \* bound on the ids
  InsertBatches, UpdateBatches, IdLists, Filters  \* arguments of the calls

VARIABLES
  vectors,  \* the vector of each id that is in the index
  metas,    \* its metadata
  last,     \* the highest id ever reserved
  request,  \* the call in progress: its kind, its items, the ids it names
  phase     \* "idle", "asked", "done" (it took effect), "down"

None == [kind |-> "none", items |-> <<>>, ids |-> {}]

Init == /\ vectors = <<>> /\ metas = <<>> /\ last = 0
        /\ request = None /\ phase = "idle"

Ask(kind, items, ids) ==
  /\ phase = "idle" /\ phase' = "asked"
  /\ request' = [kind |-> kind, items |-> items, ids |-> ids]
  /\ UNCHANGED <<vectors, metas, last>>

AskInsert == \E b \in InsertBatches : Ask("insert", b, {})
AskUpdate == \E b \in UpdateBatches : Ask("update", b, {})
AskDelete == \E S \in IdLists : Ask("delete", <<>>, S)

\* A filter stands for the ids whose metadata satisfies it.
AskDeleteByFilter ==
  \E f \in Filters, S \in SUBSET (1 .. MaxId) :
    /\ S \cap DOMAIN metas = {i \in DOMAIN metas : metas[i] \in f}
    /\ Ask("delete", <<>>, S)

Asked(kind) == phase = "asked" /\ request.kind = kind

\* The items of the call that have the index's dimensions, in their order
Fitting == {j \in 1 .. Len(request.items) : request.items[j].vec \in Vectors}
Rank(j) == Cardinality({i \in Fitting : i <= j})
Accepted == [n \in 1 .. Cardinality(Fitting) |->
               request.items[CHOOSE j \in Fitting : Rank(j) = n]]

\* Ids are reserved before anything is stored under them.
Reserve ==
  /\ Asked("insert")
  /\ last' \in last .. MaxId
  /\ UNCHANGED <<vectors, metas, request, phase>>

\* The accepted items appear together, in order, under consecutive ids above
\* every id of the index.
Add ==
  /\ Asked("insert") /\ Accepted # <<>>
  /\ \E base \in 0 .. last - Len(Accepted) :
       LET new == base + 1 .. base + Len(Accepted) IN
       /\ \A i \in DOMAIN vectors : i <= base
       /\ vectors' = [i \in DOMAIN vectors \cup new |->
            IF i \in new THEN Accepted[i - base].vec ELSE vectors[i]]
       /\ metas' = [i \in DOMAIN metas \cup new |->
            IF i \in new THEN Accepted[i - base].meta ELSE metas[i]]
  /\ phase' = "done"
  /\ UNCHANGED <<last, request>>

Remove ==
  /\ Asked("delete")
  /\ vectors' = [i \in DOMAIN vectors \ request.ids |-> vectors[i]]
  /\ metas' = [i \in DOMAIN metas \ request.ids |-> metas[i]]
  /\ phase' = "done"
  /\ UNCHANGED <<last, request>>

SetVector ==
  /\ request.kind = "update"
  /\ \E j \in 1 .. Len(request.items) :
       LET u == request.items[j] IN
       /\ u.vec \in Vectors /\ u.id \in DOMAIN vectors
       /\ vectors' = [vectors EXCEPT ![u.id] = u.vec]
  /\ UNCHANGED <<metas, last, request, phase>>

\* Of several items for one id the last decides.
MetaItems(i) ==
  {j \in 1 .. Len(request.items) :
     request.items[j].id = i /\ request.items[j].meta # NoMeta}

SetMetas ==
  /\ Asked("update")
  /\ metas' = [i \in DOMAIN metas |->
       IF MetaItems(i) = {} THEN metas[i]
                            ELSE request.items[Max(MetaItems(i))].meta]
  /\ phase' = "done"
  /\ UNCHANGED <<vectors, last, request>>

\* A call returns when it took effect, when it was an insertion of nothing,
\* or when it was an update that names an unknown id.
MayReturn ==
  \/ phase = "done"
  \/ Asked("insert") /\ Accepted = <<>>
  \/ Asked("update") /\ \E j \in 1 .. Len(request.items) :
                          /\ request.items[j].vec \in Vectors
                          /\ request.items[j].id \notin DOMAIN vectors

Return ==
  /\ MayReturn
  /\ phase' = "idle" /\ request' = None
  /\ UNCHANGED <<vectors, metas, last>>

Die == /\ phase' = "down" /\ request' = None
       /\ UNCHANGED <<vectors, metas, last>>

Connect == /\ phase = "down" /\ phase' = "idle"
           /\ UNCHANGED <<vectors, metas, last, request>>

Next == \/ AskInsert \/ AskUpdate \/ AskDelete \/ AskDeleteByFilter
        \/ Reserve \/ Add \/ Remove \/ SetVector \/ SetMetas
        \/ Return \/ Die \/ Connect

vars == <<vectors, metas, last, request, phase>>
Spec == Init /\ [][Next]_vars
=============================================================================

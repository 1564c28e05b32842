--------------------------- MODULE MCQueryConvert ---------------------------
(* Filters and tables of metadata for TLC: fields a and b, b nested in n.     *)
EXTENDS QueryConvert

One(key, v) == Object([k \in {key} |-> v])

Three == Number(3)
Six == Number(6)

Tests ==
  {One(op, v) : op \in Comparisons, v \in {Three, String(1)}} \union
  {One(op, Array(s)) : op \in {"$in", "$nin"},
     s \in {<<>>, <<Three>>, <<Three, Six>>, <<String(1)>>, <<String(1), Three>>, <<Null>>,
           <<Three, Array(<<Three>>)>>}} \union
  {One("$in", Three), One("$nin", Three)} \union
  {One("$exists", v) : v \in {Bool(1), Bool(0), Three}} \union
  {One("$other", Three), One("$eq", Number(4)), One("$eq", Null),
   Object([k \in {"$gt", "$lte"} |-> Three]),
   Object([k \in {"$gte", "$lt"} |-> IF k = "$gte" THEN Three ELSE Six]),
   Object([k \in {"$ne", "b"} |-> Three])}

Bare == {Three, Bool(1), Null, Array(<<Three>>), Object(<<>>), One("b", Three)}

MCFilters ==
  {Unparsed, Object(<<>>), One("$gt", One("b", Three)), One("$eq", Array(<<Three>>))} \union
  {One("a", t) : t \in Tests \union Bare} \union
  {One("n", One("b", t)) : t \in Tests \union Bare} \union
  {Object([k \in {"a", "b"} |-> IF k = "a" THEN t ELSE u]) :
     t \in {One("$gt", Three), One("$in", Array(<<Three>>))},
     u \in {Six, One("$exists", Bool(0)), One("$nin", Array(<<String(1)>>)),
           One("$in", Array(<<>>)), One("$nin", Array(<<>>))}}

Values == {Three, Six, Number(4), String(1), String(2), Bool(1), Null,
           Array(<<Three, Number(4)>>), Array(<<String(1)>>), One("b", Three)}

MCDocuments ==
  {Blank, Object(<<>>)} \union {One("a", v) : v \in Values} \union
  {One("n", v) : v \in {Three, One("b", Three), One("b", String(1))}} \union
  {Object([k \in {"a", "b"} |-> IF k = "a" THEN Six ELSE v]) : v \in {Six, String(2)}}

\* Every value above and, in four steps down, their parts
Parts(v) ==
  CASE v.type = "array" -> Items(v)
    [] v.type = "object" -> {v.fields[key] : key \in DOMAIN v.fields}
    [] OTHER -> {}

MCJson ==
  LET down[n \in 0 .. 4] ==
        IF n = 0 THEN (MCFilters \ {Unparsed}) \union (MCDocuments \ {Blank})
        ELSE UNION {Parts(v) : v \in down[n - 1]}
  IN  UNION {down[n] : n \in 0 .. 4}

MCTables == UNION {[1 .. n -> MCDocuments] : n \in 1 .. 2}
=============================================================================

---------------------------- MODULE QueryConvert ----------------------------
(* A filter from its JSON to the ids it selects: json_query_to_sql            *)
(* (query_convert.c) turns it into a conjunction of SQL conditions, and       *)
(* get_filtered_ids (db.c) runs "SELECT id FROM metadata WHERE ..." and       *)
(* collects ids until sqlite3_step answers anything but a row.                *)
EXTENDS Integers, Sequences

CONSTANTS Json,      \* JSON values, and with each of them its parts
          Filters,   \* what a caller passes as filters: JSON objects, Unparsed
          Tables,    \* sequences of metadata: JSON values, or Blank
          Nesting,   \* how deep objects nest in a filter that parses
          Grain      \* numbers are counted in steps of 1/Grain of the last
                     \* decimal that "%f" prints

ASSUME NumbersAssumption == Grain \in Nat \ {0} /\ Nesting \in Nat \ {0}

VARIABLES filter, table,
          scan,      \* "prepare", "step", "ended"; "failed": no statement
          ids        \* [at |-> rows read, found |-> ids collected]

vars == <<filter, table, scan, ids>>

-----------------------------------------------------------------------------
(* JSON values. Strings are lower-case words that are not JSON themselves,    *)
(* numbered in their order; true is 1, false is 0.                            *)

Number(n) == [type |-> "number", is |-> n]
String(n) == [type |-> "string", is |-> n]
Bool(b) == [type |-> "bool", is |-> b]
Null == [type |-> "null", is |-> 0]
Array(s) == [type |-> "array", items |-> s]
Object(f) == [type |-> "object", fields |-> f]
Missing == [type |-> "missing", is |-> 0]

\* The Python client stores "" when an insertion has no metadata.
Blank == [type |-> "blank", is |-> 0]

ASSUME JsonAssumption ==
  \A v \in Json :
    \/ v \in [type : {"number"}, is : Int] \union [type : {"string"}, is : 0 .. 999]
    \/ v \in {Bool(0), Bool(1), Null}
    \/ v.type = "array" /\ v = Array(v.items) /\ v.items \in Seq(Json)
    \/ v.type = "object" /\ v = Object(v.fields)
         /\ v.fields \in [DOMAIN v.fields -> Json]

\* A filter whose text cJSON_Parse refuses: the NaN and Infinity that json.dumps
\* writes, or objects and lists nested deeper than cJSON's limit.
Unparsed == [type |-> "unparsed", is |-> 0]

IsObject(v) == v.type = "object"
Items(v) == {v.items[i] : i \in DOMAIN v.items}
Comparisons == {"$eq", "$ne", "$gt", "$lt", "$gte", "$lte"}
Operators == Comparisons \union {"$in", "$nin", "$exists", "$other"}

Field(v, key) ==
  IF IsObject(v) /\ key \in DOMAIN v.fields THEN v.fields[key] ELSE Missing

-----------------------------------------------------------------------------
(* The conversion: a set of conditions, joined by AND. An empty set is the    *)
(* "1=1" every WHERE clause starts with.                                      *)

Condition(path, op, arg) == [path |-> path, op |-> op, arg |-> arg]

\* The fields of an object, each with the path that leads to it.
ProcessObject(v, prefix) ==
  {[path |-> Append(prefix, key), value |-> v.fields[key]] : key \in DOMAIN v.fields}

\* A field's own conditions. An object with any key that starts with $ is read
\* for its operators alone; one without is left to ProcessObject.
ProcessField(path, v) ==
  IF ~IsObject(v) \/ DOMAIN v.fields = {}
  THEN {Condition(path, "$eq", v)}
  ELSE {Condition(path, op, v.fields[op]) : op \in DOMAIN v.fields \intersect Operators}

IsNested(v) == IsObject(v) /\ DOMAIN v.fields \intersect Operators = {}

\* The fields the conversion comes to, depth by depth where the code takes the
\* objects one after the other: AND does not mind.
Fields(f) ==
  LET depth[d \in 1 .. Nesting] ==
        IF d = 1 THEN ProcessObject(f, <<>>)
        ELSE UNION {ProcessObject(x.value, x.path) :
                      x \in {y \in depth[d - 1] : IsNested(y.value)}}
  IN  UNION {depth[d] : d \in 1 .. Nesting}

ASSUME ArgumentsAssumption ==
  /\ \A f \in Filters \ {Unparsed} :
       /\ f \in Json /\ IsObject(f)
       /\ \A x \in Fields(f) : Len(x.path) = Nesting => ProcessField(x.path, x.value) # {}
  /\ \A t \in Tables : t \in Seq(Json \union {Blank})

\* json_query_to_sql: text that does not parse becomes "1=1", too.
Conditions ==
  IF filter = Unparsed THEN {}
  ELSE UNION {ProcessField(x.path, x.value) : x \in Fields(filter)}

-----------------------------------------------------------------------------
(* What SQLite makes of it. An SQL value is a number, a text or NULL, and     *)
(* numbers come before texts. No condition negates an unknown result, so a    *)
(* comparison with NULL is as good as false.                                  *)

NoValue == [class |-> "null", is |-> 0]

\* json_extract gives arrays and objects as their text, which starts with [ or
\* {: before, and after, every word.
Extracted(v) ==
  CASE v.type \in {"number", "bool"} -> [class |-> "number", is |-> v.is]
    [] v.type = "string" -> [class |-> "text", is |-> v.is]
    [] v.type = "array" -> [class |-> "text", is |-> -1]
    [] v.type = "object" -> [class |-> "text", is |-> 1000]
    [] OTHER -> NoValue

At(v, path) ==
  LET f[i \in 0 .. Len(path)] ==
        IF i = 0 THEN v ELSE Field(f[i - 1], path[i])
  IN  f[Len(path)]

\* append_json_value: "%f" rounds; arrays and objects are not printed at all.
Printed(n) == Grain * ((n + Grain \div 2) \div Grain)
Literal(v) ==
  IF v.type = "number" THEN [class |-> "number", is |-> Printed(v.is)]
  ELSE Extracted(v)
Prints(v) == v.type \notin {"array", "object"}

Before(x, y) ==
  \/ x.class = "number" /\ y.class = "text"
  \/ x.class = y.class /\ x.is < y.is

Compare(op, x, y) ==
  /\ NoValue \notin {x, y}
  /\ \/ op = "$eq" /\ x = y
     \/ op = "$ne" /\ x # y
     \/ op = "$gt" /\ Before(y, x)
     \/ op = "$lt" /\ Before(x, y)
     \/ op = "$gte" /\ ~Before(x, y)
     \/ op = "$lte" /\ ~Before(y, x)

Listed(v) == v.type = "array" /\ v.items # <<>>
OfStrings(v) == v.items[1].type = "string"

\* The rows of json_each over the extracted value.
Each(v) ==
  CASE v.type = "array" -> Items(v)
    [] v.type = "object" -> {v.fields[key] : key \in DOMAIN v.fields}
    [] OTHER -> {v}

InList(v, item, list) ==
  IF OfStrings(list) THEN Compare("$eq", Extracted(v), Literal(item))
  ELSE \E e \in Each(v) : Compare("$eq", Extracted(e), Literal(item))

\* Mutant: $nin of strings as the negation of $in, NULL as any other value.
HoldsNinNegated(v, c) ==
  \/ c.op \in Comparisons /\ Compare(c.op, Extracted(v), Literal(c.arg))
  \/ c.op = "$in" /\ Listed(c.arg) /\ \E item \in Items(c.arg) : InList(v, item, c.arg)
  \/ c.op = "$nin" /\ ~(Listed(c.arg) /\ \E item \in Items(c.arg) : InList(v, item, c.arg))

\* process_comparison, evaluated on the value v of the condition's field.
Holds(v, c) ==
  \/ /\ c.op \in Comparisons
     /\ Compare(c.op, Extracted(v), Literal(c.arg))
  \/ /\ c.op = "$in" /\ Listed(c.arg)
     /\ \E item \in Items(c.arg) : InList(v, item, c.arg)
  \/ /\ c.op = "$nin"
     /\ Listed(c.arg) => \A item \in Items(c.arg) :
          IF OfStrings(c.arg)
          THEN Compare("$ne", Extracted(v), Literal(item))
          ELSE ~InList(v, item, c.arg)
  \/ /\ c.op = "$exists"
     /\ (c.arg = Bool(1)) = (Extracted(v) # NoValue)
  \/ /\ c.op = "$other"   \* the bare value as a condition
     /\ Extracted(v).class = "number" /\ Extracted(v).is # 0

\* $in and $nin without a list, or with an empty one, are the constants 0 and 1:
\* every other condition looks at the metadata.
Extracts(c) == c.op \in {"$in", "$nin"} => Listed(c.arg)

\* Mutant: json_each refuses a field that is not there, too.
RaisesOnMissing(row, c) ==
  \/ row = Blank /\ Extracts(c)
  \/ /\ c.op \in {"$in", "$nin"} /\ Listed(c.arg) /\ ~OfStrings(c.arg)
     /\ At(row, c.path).type \in {"string", "missing"}

\* json_extract refuses metadata that is no JSON, json_each a plain word.
Raises(row, c) ==
  \/ row = Blank /\ Extracts(c)
  \/ /\ c.op \in {"$in", "$nin"} /\ Listed(c.arg) /\ ~OfStrings(c.arg)
     /\ At(row, c.path).type = "string"

\* Whether the statement can be prepared: "= " must be followed by a literal.
Prepares(c) ==
  /\ c.op \in Comparisons => Prints(c.arg)
  /\ c.op \in {"$in", "$nin"} /\ Listed(c.arg) => \A v \in Items(c.arg) : Prints(v)

-----------------------------------------------------------------------------
(* get_filtered_ids.                                                          *)

Init == /\ filter \in Filters
        /\ table \in Tables
        /\ scan = "prepare"
        /\ ids = [at |-> 0, found |-> {}]

\* Mutant: an array or object is printed as its text.
PrepareAnything == scan' = "step"

Prepare ==
  scan' = IF \A c \in Conditions : Prepares(c) THEN "step" ELSE "failed"

PrepareStatement == scan = "prepare" /\ Prepare /\ UNCHANGED <<filter, table, ids>>

Row == table[ids.at + 1]
Stepping == scan = "step" /\ ids.at < Len(table)

\* The row after those read joins the ids; AUTOINCREMENT begins at 1.
Collect == [at |-> ids.at + 1, found |-> ids.found \union {ids.at + 1}]

RowSelected ==
  /\ Stepping
  /\ \A c \in Conditions : ~Raises(Row, c) /\ Holds(At(Row, c.path), c)
  /\ ids' = Collect
  /\ UNCHANGED <<filter, table, scan>>

\* SQLite evaluates the terms of a conjunction in an order of its own choice.
RowPassed ==
  /\ Stepping
  /\ \E c \in Conditions : ~Raises(Row, c) /\ ~Holds(At(Row, c.path), c)
  /\ ids' = [ids EXCEPT !.at = @ + 1]
  /\ UNCHANGED <<filter, table, scan>>

\* sqlite3_step answers with an error: to the loop, as good as the end.
EndScan == scan' = "ended" /\ UNCHANGED ids

RowRaises ==
  /\ Stepping
  /\ \E c \in Conditions : Raises(Row, c)
  /\ EndScan
  /\ UNCHANGED <<filter, table>>

NoMoreRows ==
  /\ scan = "step" /\ ids.at = Len(table)
  /\ scan' = "ended"
  /\ UNCHANGED <<filter, table, ids>>

Next == PrepareStatement \/ RowSelected \/ RowPassed \/ RowRaises \/ NoMoreRows

Spec == Init /\ [][Next]_vars

-----------------------------------------------------------------------------
(* The filters' meaning, as the documentation of SearchOptions gives it, read *)
(* from the filter's tree and the document's, not from a list of conditions.  *)

Means(op, v, arg) ==
  \/ op = "$eq" /\ v = arg
  \/ op = "$ne" /\ v # Missing /\ v # arg
  \/ op \in {"$gt", "$gte", "$lt", "$lte"} /\ v.type = arg.type
       /\ \/ op \in {"$gt", "$gte"} /\ v.is > arg.is
          \/ op \in {"$lt", "$lte"} /\ v.is < arg.is
          \/ op \in {"$gte", "$lte"} /\ v.is = arg.is
  \/ op = "$in" /\ Each(v) \intersect Items(arg) # {}
  \/ op = "$nin" /\ v # Missing /\ Each(v) \intersect Items(arg) = {}
  \/ op = "$exists" /\ (arg = Bool(1)) = (v # Missing)

\* What the filter wants and what the document has, side by side at every field,
\* the two trees walked down together.
Sides(want, have) ==
  {[want |-> want.fields[key], have |-> Field(have, key)] : key \in DOMAIN want.fields}

Demands(f, v) ==
  LET depth[d \in 1 .. Nesting] ==
        IF d = 1 THEN Sides(f, v)
        ELSE UNION {Sides(p.want, p.have) : p \in {q \in depth[d - 1] : IsNested(q.want)}}
  IN  UNION {depth[d] : d \in 1 .. Nesting}

Meets(have, want) ==
  IF ~IsObject(want) THEN have = want
  ELSE \A op \in DOMAIN want.fields \intersect Operators :
         Means(op, have, want.fields[op])

Matches(v, f) == \A p \in Demands(f, v) : Meets(p.have, p.want)

\* A condition on numbers or words of few decimals, lists of one type included.
Plain(v) == v.type = "string" \/ (v.type = "number" /\ Printed(v.is) = v.is)
PlainCondition(c) ==
  \/ c.op \in Comparisons /\ Plain(c.arg)
  \/ c.op \in {"$in", "$nin"} /\ Listed(c.arg)
       /\ \A v \in Items(c.arg) : Plain(v) /\ v.type = c.arg.items[1].type
  \/ c.op = "$exists" /\ c.arg.type = "bool"

\* The field a condition is about is of the condition's type; it may be missing,
\* except that $nin of numbers then selects, and be an array of numbers.
Fits(v, c) ==
  \/ c.op = "$exists" /\ v.type # "null"
  \/ v = Missing /\ (c.op = "$nin" => OfStrings(c.arg))
  \/ c.op \in Comparisons /\ v.type = c.arg.type
  \/ c.op \in {"$in", "$nin"} /\ v.type = c.arg.items[1].type
  \/ c.op \in {"$in", "$nin"} /\ ~OfStrings(c.arg) /\ v.type = "array"
       /\ \A e \in Items(v) : e.type = "number"

-----------------------------------------------------------------------------
(* Properties.                                                                *)

\* Of the rows the scan has read, it reports exactly those whose metadata the
\* filter describes, as long as field and condition are of one type: whatever
\* the nesting and the number of operators, and whether the field is there.
SelectsWhatIsDescribed ==
  (filter # Unparsed /\ \A c \in Conditions : PlainCondition(c)) =>
    \A i \in 1 .. ids.at :
      (table[i] # Blank /\ \A c \in Conditions : Fits(At(table[i], c.path), c)) =>
        (i \in ids.found <=> Matches(table[i], filter))

\* A selection that is reported as complete but ends before the last row has met
\* a row without JSON metadata, under a condition that looks at it, or a word
\* where a list of numbers was asked for: no other row costs the rows after it
\* their place in a result or a deletion. And a row without JSON does cost them
\* that whenever a condition looks at metadata, whatever else the filter asks:
\* none from there on is selected.
CutShortByUnreadableRow ==
  /\ scan = "ended" /\ ids.at < Len(table) =>
       \/ Row = Blank /\ \E c \in Conditions : Extracts(c)
       \/ \E c \in Conditions : c.op \in {"$in", "$nin"} /\ At(Row, c.path).type = "string"
  /\ (\E c \in Conditions : Extracts(c)) =>
       \A i \in ids.found, j \in 1 .. Len(table) : table[j] = Blank => i < j

\* Whether the filter asks, anywhere in its tree, for what cannot be said in the
\* clause: an array or an object as a value to compare with or as one of a list,
\* or null. Fields beside an operator are not part of the filter.
Unsayable(f) ==
  \E want \in {p.want : p \in Demands(f, Missing)} :
    \/ want.type \in {"array", "null"}
    \/ /\ IsObject(want)
       /\ \/ DOMAIN want.fields = {}
          \/ \E op \in DOMAIN want.fields \intersect Comparisons :
               want.fields[op].type \in {"array", "object", "null"}
          \/ \E op \in DOMAIN want.fields \intersect {"$in", "$nin"} :
               /\ want.fields[op].type = "array"
               /\ \E item \in Items(want.fields[op]) : item.type \in {"array", "object"}

\* A filter that parses but cannot be said selects nothing. The danger is the
\* other way: a condition that is dropped makes a deletion by filter delete more,
\* or all. That is what becomes of a filter that does not parse: it selects every
\* row that is read, those without JSON metadata included.
UnsayableSelectsNothing ==
  /\ filter # Unparsed /\ Unsayable(filter) => ids.found = {}
  /\ filter = Unparsed => ids.found = 1 .. ids.at

\* $in selects a document whose field is an array with one of the values listed:
\* the README's example {"tags": {"$in": ["premium", "featured", "new"]}} is to
\* "find vectors with any of the specified tags".
InReachesIntoArrays ==
  \A i \in 1 .. ids.at : \A c \in Conditions :
    (Conditions = {c} /\ c.op = "$in" /\ Listed(c.arg) /\ At(table[i], c.path).type = "array"
       /\ Items(At(table[i], c.path)) \intersect Items(c.arg) # {})
    => i \in ids.found
=============================================================================

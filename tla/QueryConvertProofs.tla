------------------------- MODULE QueryConvertProofs -------------------------
(***************************************************************************)
(* Proofs about what a filter selects, for all filters, tables of metadata *)
(* and depths of nesting.                                                  *)
(***************************************************************************)
EXTENDS QueryConvert, SequenceTheorems, NaturalsInduction,
        WellFoundedInduction, TLAPS

-----------------------------------------------------------------------------
(* JSON values                                                             *)

IsNumber(v) == v = [type |-> "number", is |-> v.is] /\ v.is \in Int
IsString(v) == v = [type |-> "string", is |-> v.is] /\ v.is \in Int

\* The kinds of JSON values, told apart by their type.
LEMMA JsonKinds ==
  ASSUME NEW v \in Json
  PROVE  /\ v.type \in {"number", "string", "bool", "null", "array", "object"}
         /\ v.type = "number" => IsNumber(v)
         /\ v.type = "string" => IsString(v)
         /\ v.type = "bool" => v \in {Bool(0), Bool(1)}
         /\ v.type = "null" => v = Null
         /\ v.type = "array" => v.items \in Seq(Json)
         /\ v.type = "object" => v.fields \in [DOMAIN v.fields -> Json]
  <1>1. CASE v \in [type : {"number"}, is : Int]
    BY <1>1 DEF IsNumber
  <1>2. CASE v \in [type : {"string"}, is : 0 .. 999]
    <2>1. v.type = "string" /\ v.is \in 0 .. 999 /\ v = [type |-> "string", is |-> v.is]
      BY <1>2
    <2>2. IsString(v)
      BY <2>1 DEF IsString
    <2> QED
      BY <2>1, <2>2
  <1>3. CASE v \in {Bool(0), Bool(1), Null}
    BY <1>3 DEF Bool, Null
  <1>4. CASE v.type = "array" /\ v = Array(v.items) /\ v.items \in Seq(Json)
    BY <1>4
  <1>5. CASE v.type = "object" /\ v = Object(v.fields) /\ v.fields \in [DOMAIN v.fields -> Json]
    BY <1>5
  <1> QED
    BY <1>1, <1>2, <1>3, <1>4, <1>5, JsonAssumption

LEMMA JsonIsThere ==
  /\ Missing \notin Json /\ Blank \notin Json /\ Missing # Blank
  /\ \A v \in Json : v.type \notin {"missing", "blank"}
  <1>1. \A v \in Json : v.type \notin {"missing", "blank"}
    BY JsonKinds
  <1>2. Missing.type = "missing" /\ Blank.type = "blank"
    BY DEF Missing, Blank
  <1> QED
    BY <1>1, <1>2

LEMMA ItemsAreJson ==
  ASSUME NEW v \in Json, v.type = "array"
  PROVE  /\ Items(v) \subseteq Json
         /\ Listed(v) => v.items[1] \in Items(v)
  <1>1. v.items \in Seq(Json)
    BY JsonKinds
  <1>2. Items(v) \subseteq Json
    BY <1>1 DEF Items
  <1>3. ASSUME Listed(v) PROVE v.items[1] \in Items(v)
    <2>1. 1 \in DOMAIN v.items
      BY <1>1, <1>3 DEF Listed
    <2> QED
      BY <2>1 DEF Items
  <1> QED
    BY <1>2, <1>3

\* A step into a JSON value, or beside one, is a JSON value or Missing.
LEMMA FieldIsJson ==
  ASSUME NEW v \in Json \union {Missing, Blank}, NEW key
  PROVE  Field(v, key) \in Json \union {Missing}
  <1>1. CASE v \in Json
    BY <1>1, JsonKinds DEF Field, IsObject
  <1>2. CASE v \in {Missing, Blank}
    BY <1>2 DEF Field, IsObject, Missing, Blank
  <1> QED
    BY <1>1, <1>2

-----------------------------------------------------------------------------
(* Recursive functions. What holds at depth 1 and from each depth to the   *)
(* next holds at every depth: were there a depth where it does not, there  *)
(* would be a least one.                                                   *)

LEMMA LeastElement ==
  ASSUME NEW T, T \subseteq Nat, T # {}
  PROVE  \E x \in T : \A y \in T : x <= y
  <1> DEFINE R == OpToRel(<, Nat)
  <1>1. IsWellFoundedOn(R, Nat)
    BY NatLessThanWellFounded
  <1>2. \A x, y \in Nat : x < y => <<x, y>> \in R
    BY DEF OpToRel
  <1> HIDE DEF R
  <1>3. PICK x \in T : \A y \in T : ~(<<y, x>> \in R)
    BY <1>1, WFMin
  <1>4. \A y \in T : ~(y < x)
    BY <1>2, <1>3
  <1>5. x \in Nat /\ \A y \in T : y \in Nat
    OBVIOUS
  <1> QED
    BY <1>4, <1>5

LEMMA UpFrom ==
  ASSUME NEW S, NEW a \in Nat, a \in S,
         \A n \in Nat : n >= a /\ n \in S => n + 1 \in S
  PROVE  \A n \in Nat : n >= a => n \in S
  <1> DEFINE T == {n \in Nat : n >= a /\ n \notin S}
  <1> SUFFICES ASSUME T # {} PROVE FALSE
    OBVIOUS
  <1>1. PICK n \in T : \A l \in T : n <= l
    BY LeastElement
  <1>2. n \in Nat /\ n > a /\ n - 1 \in Nat /\ n - 1 >= a /\ n - 1 \notin T
    BY <1>1
  <1>3. n - 1 \in S /\ (n - 1) + 1 = n
    BY <1>2
  <1> QED
    BY <1>1, <1>2, <1>3

\* The recursive function in Fields, down to depth n
ByDepth(g, f, n) ==
  g = [d \in 1 .. n |->
         IF d = 1 THEN ProcessObject(f, <<>>)
         ELSE UNION {ProcessObject(x.value, x.path) :
                       x \in {y \in g[d - 1] : IsNested(y.value)}}]

LEMMA ByDepthExists ==
  ASSUME NEW f, NEW n \in Nat, n >= 1
  PROVE  \E g : ByDepth(g, f, n)
  <1> DEFINE S == {m \in Nat : \E g : ByDepth(g, f, m)}
  <1>1. 1 \in S
    <2> DEFINE g == [d \in 1 .. 1 |-> ProcessObject(f, <<>>)]
    <2>1. ByDepth(g, f, 1)
      BY DEF ByDepth
    <2> QED
      BY <2>1
  <1>2. ASSUME NEW m \in Nat, m >= 1, m \in S PROVE m + 1 \in S
    <2>1. PICK g : ByDepth(g, f, m)
      BY <1>2
    <2> DEFINE next(G) == UNION {ProcessObject(x.value, x.path) :
                                   x \in {y \in G : IsNested(y.value)}}
    <2> DEFINE h == [d \in 1 .. m + 1 |-> IF d <= m THEN g[d] ELSE next(g[m])]
    <2>2. \A d \in 1 .. m : g[d] = IF d = 1 THEN ProcessObject(f, <<>>) ELSE next(g[d - 1])
      BY <2>1, Zenon DEF ByDepth
    <2> HIDE DEF next
    <2>3. \A d \in 1 .. m + 1 :
            h[d] = IF d = 1 THEN ProcessObject(f, <<>>) ELSE next(h[d - 1])
      BY <1>2, <2>2
    <2>4. h = [d \in 1 .. m + 1 |->
                 IF d = 1 THEN ProcessObject(f, <<>>) ELSE next(h[d - 1])]
      BY <2>3
    <2>5. ByDepth(h, f, m + 1)
      BY <2>4 DEF ByDepth, next
    <2> QED
      BY <2>5
  <1> HIDE DEF S
  <1>3. n \in S
    BY <1>1, <1>2, UpFrom
  <1> QED
    BY <1>3 DEF S

LEMMA FieldsByDepth ==
  ASSUME NEW f
  PROVE  \E g : /\ Fields(f) = UNION {g[d] : d \in 1 .. Nesting}
                /\ g[1] = ProcessObject(f, <<>>)
                /\ \A d \in 2 .. Nesting :
                     g[d] = UNION {ProcessObject(x.value, x.path) :
                                     x \in {y \in g[d - 1] : IsNested(y.value)}}
  <1> DEFINE g == CHOOSE h : ByDepth(h, f, Nesting)
  <1>1. Nesting \in Nat /\ Nesting >= 1
    BY NumbersAssumption
  <1>2. ByDepth(g, f, Nesting)
    BY <1>1, ByDepthExists, Zenon
  <1>3. Fields(f) = UNION {g[d] : d \in 1 .. Nesting}
    BY DEF Fields, ByDepth
  <1> HIDE DEF g
  <1>4. \A d \in 1 .. Nesting :
          g[d] = IF d = 1 THEN ProcessObject(f, <<>>)
                 ELSE UNION {ProcessObject(x.value, x.path) :
                               x \in {y \in g[d - 1] : IsNested(y.value)}}
    BY <1>2, Zenon DEF ByDepth
  <1>5. 1 \in 1 .. Nesting /\ \A d \in 2 .. Nesting : d \in 1 .. Nesting /\ d # 1
    BY <1>1
  <1>6. g[1] = ProcessObject(f, <<>>)
    BY <1>4, <1>5
  <1>7. \A d \in 2 .. Nesting :
          g[d] = UNION {ProcessObject(x.value, x.path) :
                          x \in {y \in g[d - 1] : IsNested(y.value)}}
    BY <1>4, <1>5, Zenon
  <1> QED
    BY <1>3, <1>6, <1>7, Zenon

\* The recursive function in Demands, down to depth n
SidesByDepth(g, f, v, n) ==
  g = [d \in 1 .. n |->
         IF d = 1 THEN Sides(f, v)
         ELSE UNION {Sides(p.want, p.have) : p \in {q \in g[d - 1] : IsNested(q.want)}}]

LEMMA SidesByDepthExists ==
  ASSUME NEW f, NEW v, NEW n \in Nat, n >= 1
  PROVE  \E g : SidesByDepth(g, f, v, n)
  <1> DEFINE S == {m \in Nat : \E g : SidesByDepth(g, f, v, m)}
  <1>1. 1 \in S
    <2> DEFINE g == [d \in 1 .. 1 |-> Sides(f, v)]
    <2>1. SidesByDepth(g, f, v, 1)
      BY DEF SidesByDepth
    <2> QED
      BY <2>1
  <1>2. ASSUME NEW m \in Nat, m >= 1, m \in S PROVE m + 1 \in S
    <2>1. PICK g : SidesByDepth(g, f, v, m)
      BY <1>2
    <2> DEFINE next(G) == UNION {Sides(p.want, p.have) : p \in {q \in G : IsNested(q.want)}}
    <2> DEFINE h == [d \in 1 .. m + 1 |-> IF d <= m THEN g[d] ELSE next(g[m])]
    <2>2. \A d \in 1 .. m : g[d] = IF d = 1 THEN Sides(f, v) ELSE next(g[d - 1])
      BY <2>1, Zenon DEF SidesByDepth
    <2> HIDE DEF next
    <2>3. \A d \in 1 .. m + 1 : h[d] = IF d = 1 THEN Sides(f, v) ELSE next(h[d - 1])
      BY <1>2, <2>2
    <2>4. h = [d \in 1 .. m + 1 |-> IF d = 1 THEN Sides(f, v) ELSE next(h[d - 1])]
      BY <2>3
    <2>5. SidesByDepth(h, f, v, m + 1)
      BY <2>4 DEF SidesByDepth, next
    <2> QED
      BY <2>5
  <1> HIDE DEF S
  <1>3. n \in S
    BY <1>1, <1>2, UpFrom
  <1> QED
    BY <1>3 DEF S

LEMMA DemandsByDepth ==
  ASSUME NEW f, NEW v
  PROVE  \E g : /\ Demands(f, v) = UNION {g[d] : d \in 1 .. Nesting}
                /\ g[1] = Sides(f, v)
                /\ \A d \in 2 .. Nesting :
                     g[d] = UNION {Sides(p.want, p.have) :
                                     p \in {q \in g[d - 1] : IsNested(q.want)}}
  <1> DEFINE g == CHOOSE h : SidesByDepth(h, f, v, Nesting)
  <1>1. Nesting \in Nat /\ Nesting >= 1
    BY NumbersAssumption
  <1>2. SidesByDepth(g, f, v, Nesting)
    BY <1>1, SidesByDepthExists, Zenon
  <1>3. Demands(f, v) = UNION {g[d] : d \in 1 .. Nesting}
    BY DEF Demands, SidesByDepth
  <1> HIDE DEF g
  <1>4. \A d \in 1 .. Nesting :
          g[d] = IF d = 1 THEN Sides(f, v)
                 ELSE UNION {Sides(p.want, p.have) :
                               p \in {q \in g[d - 1] : IsNested(q.want)}}
    BY <1>2, Zenon DEF SidesByDepth
  <1>5. 1 \in 1 .. Nesting /\ \A d \in 2 .. Nesting : d \in 1 .. Nesting /\ d # 1
    BY <1>1
  <1>6. g[1] = Sides(f, v)
    BY <1>4, <1>5
  <1>7. \A d \in 2 .. Nesting :
          g[d] = UNION {Sides(p.want, p.have) : p \in {q \in g[d - 1] : IsNested(q.want)}}
    BY <1>4, <1>5, Zenon
  <1> QED
    BY <1>3, <1>6, <1>7, Zenon

\* The recursive function in At, n steps along a path
Along(g, v, path, n) ==
  g = [i \in 0 .. n |-> IF i = 0 THEN v ELSE Field(g[i - 1], path[i])]

LEMMA AlongExists ==
  ASSUME NEW v, NEW path, NEW n \in Nat
  PROVE  \E g : Along(g, v, path, n)
  <1> DEFINE S == {m \in Nat : \E g : Along(g, v, path, m)}
  <1>1. 0 \in S
    <2> DEFINE g == [i \in 0 .. 0 |-> v]
    <2>1. Along(g, v, path, 0)
      BY DEF Along
    <2> QED
      BY <2>1
  <1>2. ASSUME NEW m \in Nat, m >= 0, m \in S PROVE m + 1 \in S
    <2>1. PICK g : Along(g, v, path, m)
      BY <1>2
    <2> DEFINE h == [i \in 0 .. m + 1 |-> IF i <= m THEN g[i] ELSE Field(g[m], path[m + 1])]
    <2>2. \A i \in 0 .. m : g[i] = IF i = 0 THEN v ELSE Field(g[i - 1], path[i])
      BY <2>1, Zenon DEF Along
    <2>3. \A i \in 0 .. m + 1 : h[i] = IF i = 0 THEN v ELSE Field(h[i - 1], path[i])
      BY <1>2, <2>2
    <2>4. Along(h, v, path, m + 1)
      BY <2>3 DEF Along
    <2> QED
      BY <2>4
  <1> HIDE DEF S
  <1>3. n \in S
    BY <1>1, <1>2, UpFrom
  <1> QED
    BY <1>3 DEF S

LEMMA AtAlong ==
  ASSUME NEW v, NEW path, Len(path) \in Nat
  PROVE  \E g : /\ At(v, path) = g[Len(path)]
                /\ g[0] = v
                /\ \A i \in 1 .. Len(path) : g[i] = Field(g[i - 1], path[i])
  <1> DEFINE g == CHOOSE h : Along(h, v, path, Len(path))
  <1>1. Along(g, v, path, Len(path))
    BY AlongExists, Zenon
  <1>2. At(v, path) = g[Len(path)]
    BY DEF At, Along
  <1> HIDE DEF g
  <1>3. \A i \in 0 .. Len(path) : g[i] = IF i = 0 THEN v ELSE Field(g[i - 1], path[i])
    BY <1>1, Zenon DEF Along
  <1>4. g[0] = v /\ \A i \in 1 .. Len(path) : g[i] = Field(g[i - 1], path[i])
    BY <1>3
  <1> QED
    BY <1>2, <1>4

-----------------------------------------------------------------------------
(* Paths                                                                   *)

\* What keys there are.
Keys == UNION {DOMAIN v.fields : v \in {w \in Json : IsObject(w)}}

LEMMA AtRoot ==
  ASSUME NEW v
  PROVE  At(v, <<>>) = v
  <1>1. Len(<<>>) = 0
    OBVIOUS
  <1> QED
    BY <1>1, AtAlong

LEMMA AtNext ==
  ASSUME NEW v, NEW path \in Seq(Keys), NEW key \in Keys
  PROVE  At(v, Append(path, key)) = Field(At(v, path), key)
  <1> DEFINE n == Len(path)
             longer == Append(path, key)
  <1>1. /\ n \in Nat /\ Len(longer) = n + 1 /\ longer[n + 1] = key
        /\ \A i \in 1 .. n : longer[i] = path[i]
    OBVIOUS
  <1>2. PICK g : /\ At(v, path) = g[n] /\ g[0] = v
                 /\ \A i \in 1 .. n : g[i] = Field(g[i - 1], path[i])
    BY <1>1, AtAlong
  <1>3. PICK h : /\ At(v, longer) = h[n + 1] /\ h[0] = v
                 /\ \A i \in 1 .. n + 1 : h[i] = Field(h[i - 1], longer[i])
    <2>1. Len(longer) \in Nat
      BY <1>1
    <2> HIDE DEF longer
    <2> QED
      BY <1>1, <2>1, AtAlong
  <1> HIDE DEF n, longer
  <1> DEFINE S == {i \in Nat : i <= n => g[i] = h[i]}
  <1>4. 0 \in S
    BY <1>2, <1>3
  <1>5. ASSUME NEW i \in Nat, i >= 0, i \in S PROVE i + 1 \in S
    <2> SUFFICES ASSUME i + 1 <= n PROVE g[i + 1] = h[i + 1]
      OBVIOUS
    <2>1. i + 1 \in 1 .. n /\ i + 1 \in 1 .. n + 1 /\ (i + 1) - 1 = i /\ g[i] = h[i]
      BY <1>1, <1>5
    <2>2. g[i + 1] = Field(g[i], path[i + 1]) /\ h[i + 1] = Field(h[i], longer[i + 1])
      BY <1>2, <1>3, <2>1
    <2> QED
      BY <1>1, <2>1, <2>2
  <1>6. n \in S
    <2> HIDE DEF S
    <2> QED
      BY <1>1, <1>4, <1>5, UpFrom
  <1>7. g[n] = h[n]
    BY <1>1, <1>6
  <1>8. h[n + 1] = Field(h[n], longer[n + 1])
    <2>1. n + 1 \in 1 .. n + 1 /\ (n + 1) - 1 = n
      BY <1>1
    <2> QED
      BY <1>3, <2>1
  <1> QED
    BY <1>1, <1>2, <1>3, <1>7, <1>8 DEF longer

LEMMA AtIsJson ==
  ASSUME NEW v \in Json, NEW path, Len(path) \in Nat
  PROVE  At(v, path) \in Json \union {Missing}
  <1>1. PICK g : /\ At(v, path) = g[Len(path)] /\ g[0] = v
                 /\ \A i \in 1 .. Len(path) : g[i] = Field(g[i - 1], path[i])
    BY AtAlong
  <1> DEFINE S == {i \in Nat : i <= Len(path) => g[i] \in Json \union {Missing}}
  <1>2. 0 \in S
    BY <1>1
  <1>3. ASSUME NEW i \in Nat, i >= 0, i \in S PROVE i + 1 \in S
    <2> SUFFICES ASSUME i + 1 <= Len(path) PROVE g[i + 1] \in Json \union {Missing}
      OBVIOUS
    <2>1. g[i] \in Json \union {Missing}
      BY <1>3
    <2>2. g[i + 1] = Field(g[i], path[i + 1])
      BY <1>1
    <2> QED
      BY <2>1, <2>2, FieldIsJson
  <1>4. Len(path) \in S
    <2> HIDE DEF S
    <2> QED
      BY <1>2, <1>3, UpFrom
  <1> QED
    BY <1>1, <1>4

-----------------------------------------------------------------------------
(* The two walks through a filter: that of the conversion, which keeps the *)
(* path, and that of the meaning, which takes the document along.          *)

ReachedField(x) == x.value \in Json /\ x.path \in Seq(Keys)

SideOf(v, x) == [want |-> x.value, have |-> At(v, x.path)]

\* One object, with the path that led to it
LEMMA OneObject ==
  ASSUME NEW v, NEW w \in Json, IsObject(w), NEW path \in Seq(Keys)
  PROVE  /\ \A x \in ProcessObject(w, path) : ReachedField(x)
         /\ Sides(w, At(v, path)) = {SideOf(v, x) : x \in ProcessObject(w, path)}
  <1>1. w.fields \in [DOMAIN w.fields -> Json] /\ DOMAIN w.fields \subseteq Keys
    BY JsonKinds DEF IsObject, Keys
  <1> DEFINE Reached(key) == [path |-> Append(path, key), value |-> w.fields[key]]
  <1>2. \A key \in DOMAIN w.fields :
          /\ Append(path, key) \in Seq(Keys)
          /\ At(v, Append(path, key)) = Field(At(v, path), key)
    BY <1>1, AtNext
  <1>3. ProcessObject(w, path) = {Reached(key) : key \in DOMAIN w.fields}
    BY DEF ProcessObject
  <1>4. \A key \in DOMAIN w.fields : ReachedField(Reached(key))
    BY <1>1, <1>2 DEF ReachedField
  <1>5. \A key \in DOMAIN w.fields :
          SideOf(v, Reached(key))
            = [want |-> w.fields[key], have |-> Field(At(v, path), key)]
    BY <1>2 DEF SideOf
  <1> HIDE DEF Reached
  <1>6. {SideOf(v, x) : x \in ProcessObject(w, path)}
          = {SideOf(v, Reached(key)) : key \in DOMAIN w.fields}
    BY <1>3
  <1>7. {SideOf(v, Reached(key)) : key \in DOMAIN w.fields} = Sides(w, At(v, path))
    BY <1>5 DEF Sides
  <1> QED
    BY <1>3, <1>4, <1>6, <1>7

\* One depth, with the two walks together so far
LEMMA OneDepth ==
  ASSUME NEW v, NEW G, \A x \in G : ReachedField(x),
         NEW H, H = {SideOf(v, x) : x \in G}
  PROVE  LET deeper == UNION {ProcessObject(x.value, x.path) :
                                x \in {y \in G : IsNested(y.value)}}
         IN  /\ \A x \in deeper : ReachedField(x)
             /\ UNION {Sides(p.want, p.have) : p \in {q \in H : IsNested(q.want)}}
                  = {SideOf(v, x) : x \in deeper}
  <1> DEFINE nested == {y \in G : IsNested(y.value)}
             deeper == UNION {ProcessObject(x.value, x.path) : x \in nested}
             sides == UNION {Sides(p.want, p.have) : p \in {q \in H : IsNested(q.want)}}
  <1>1. \A y \in nested :
          /\ y.value \in Json /\ IsObject(y.value) /\ y.path \in Seq(Keys)
          /\ SideOf(v, y).want = y.value /\ SideOf(v, y).have = At(v, y.path)
    BY DEF ReachedField, IsNested, SideOf
  <1>2. \A y \in nested :
          /\ \A x \in ProcessObject(y.value, y.path) : ReachedField(x)
          /\ Sides(y.value, At(v, y.path))
               = {SideOf(v, x) : x \in ProcessObject(y.value, y.path)}
    BY <1>1, OneObject
  <1>3. {q \in H : IsNested(q.want)} = {SideOf(v, y) : y \in nested}
    BY DEF SideOf
  <1>4. \A x \in deeper : ReachedField(x)
    BY <1>2
  <1> HIDE DEF nested
  <1>5. ASSUME NEW s \in sides PROVE s \in {SideOf(v, x) : x \in deeper}
    <2>1. PICK y \in nested : s \in Sides(SideOf(v, y).want, SideOf(v, y).have)
      BY <1>3, <1>5
    <2>2. s \in {SideOf(v, x) : x \in ProcessObject(y.value, y.path)}
      BY <1>1, <1>2, <2>1
    <2> QED
      BY <2>2
  <1>6. ASSUME NEW x \in deeper PROVE SideOf(v, x) \in sides
    <2>1. PICK y \in nested : x \in ProcessObject(y.value, y.path)
      BY <1>6
    <2>2. SideOf(v, x) \in Sides(SideOf(v, y).want, SideOf(v, y).have)
      BY <1>1, <1>2, <2>1
    <2>3. SideOf(v, y) \in {q \in H : IsNested(q.want)}
      BY <1>3
    <2> QED
      BY <2>2, <2>3
  <1>7. sides = {SideOf(v, x) : x \in deeper}
    BY <1>5, <1>6
  <1> QED
    BY <1>4, <1>7 DEF nested

\* What the meaning sets side by side is, for each field the conversion comes
\* to, its value and what is at its path.
LEMMA WalksAgree ==
  ASSUME NEW v, NEW f \in Json, IsObject(f)
  PROVE  /\ \A x \in Fields(f) : ReachedField(x)
         /\ Demands(f, v) = {SideOf(v, x) : x \in Fields(f)}
  <1>1. PICK g : /\ Fields(f) = UNION {g[d] : d \in 1 .. Nesting}
                 /\ g[1] = ProcessObject(f, <<>>)
                 /\ \A d \in 2 .. Nesting :
                      g[d] = UNION {ProcessObject(x.value, x.path) :
                                      x \in {y \in g[d - 1] : IsNested(y.value)}}
    BY FieldsByDepth
  <1>2. PICK h : /\ Demands(f, v) = UNION {h[d] : d \in 1 .. Nesting}
                 /\ h[1] = Sides(f, v)
                 /\ \A d \in 2 .. Nesting :
                      h[d] = UNION {Sides(p.want, p.have) :
                                      p \in {q \in h[d - 1] : IsNested(q.want)}}
    BY DemandsByDepth
  <1> DEFINE Agree(d) == /\ \A x \in g[d] : ReachedField(x)
                         /\ h[d] = {SideOf(v, x) : x \in g[d]}
             S == {d \in Nat : d <= Nesting => Agree(d)}
  <1>3. Agree(1)
    <2>1. <<>> \in Seq(Keys) /\ At(v, <<>>) = v
      BY AtRoot
    <2>2. /\ \A x \in ProcessObject(f, <<>>) : ReachedField(x)
          /\ Sides(f, At(v, <<>>)) = {SideOf(v, x) : x \in ProcessObject(f, <<>>)}
      BY <2>1, OneObject
    <2> QED
      BY <1>1, <1>2, <2>1, <2>2
  <1>4. ASSUME NEW d \in Nat, d >= 1, d + 1 <= Nesting, Agree(d) PROVE Agree(d + 1)
    <2>1. d + 1 \in 2 .. Nesting /\ (d + 1) - 1 = d
      BY <1>4, NumbersAssumption
    <2>2. /\ g[d + 1] = UNION {ProcessObject(x.value, x.path) :
                                 x \in {y \in g[d] : IsNested(y.value)}}
          /\ h[d + 1] = UNION {Sides(p.want, p.have) :
                                 p \in {q \in h[d] : IsNested(q.want)}}
      BY <1>1, <1>2, <2>1
    <2> QED
      BY <1>4, <2>2, OneDepth
  <1>5. ASSUME NEW d \in 1 .. Nesting PROVE Agree(d)
    <2> HIDE DEF Agree
    <2>1. 1 \in S /\ \A n \in Nat : n >= 1 /\ n \in S => n + 1 \in S
      BY <1>3, <1>4, NumbersAssumption
    <2>2. d \in S
      <3> HIDE DEF S
      <3> QED
        BY <2>1, UpFrom, NumbersAssumption
    <2> QED
      BY <2>2
  <1>6. \A x \in Fields(f) : ReachedField(x)
    BY <1>1, <1>5
  <1>7. ASSUME NEW s \in Demands(f, v) PROVE s \in {SideOf(v, x) : x \in Fields(f)}
    BY <1>1, <1>2, <1>5, <1>7
  <1>8. ASSUME NEW x \in Fields(f) PROVE SideOf(v, x) \in Demands(f, v)
    BY <1>1, <1>2, <1>5, <1>8
  <1> QED
    BY <1>6, <1>7, <1>8

-----------------------------------------------------------------------------
(* One condition: what SQLite makes of it, and what it means               *)

\* A number of few decimals or a word is printed as what json_extract gives.
LEMMA PlainValues ==
  ASSUME NEW v \in Json, Plain(v)
  PROVE  /\ v.type \in {"number", "string"} /\ v.is \in Int
         /\ v = [type |-> v.type, is |-> v.is]
         /\ Literal(v) = Extracted(v)
  <1>1. CASE v.type = "string"
    <2>1. IsString(v)
      BY <1>1, JsonKinds
    <2> QED
      BY <1>1, <2>1 DEF IsString, Literal
  <1>2. CASE v.type = "number" /\ Printed(v.is) = v.is
    <2>1. IsNumber(v)
      BY <1>2, JsonKinds
    <2>2. Literal(v) = [class |-> "number", is |-> v.is]
      BY <1>2 DEF Literal
    <2>3. Extracted(v) = [class |-> "number", is |-> v.is]
      BY <1>2 DEF Extracted
    <2> QED
      BY <1>2, <2>1, <2>2, <2>3 DEF IsNumber
  <1> QED
    BY <1>1, <1>2 DEF Plain

\* Among numbers, and among words, SQLite compares as JSON does.
LEMMA ScalarsCompare ==
  ASSUME NEW v \in Json, NEW w \in Json, v.type = w.type,
         v.type \in {"number", "string"}
  PROVE  /\ NoValue \notin {Extracted(v), Extracted(w)}
         /\ Extracted(v) = Extracted(w) <=> v = w
         /\ Before(Extracted(v), Extracted(w)) <=> v.is < w.is
         /\ v.is \in Int /\ w.is \in Int /\ (v = w <=> v.is = w.is)
  <1>1. CASE v.type = "number"
    <2>1. IsNumber(v) /\ IsNumber(w)
      BY <1>1, JsonKinds
    <2>2. /\ Extracted(v) = [class |-> "number", is |-> v.is]
          /\ Extracted(w) = [class |-> "number", is |-> w.is]
      BY <1>1 DEF Extracted
    <2> QED
      BY <2>1, <2>2 DEF IsNumber, NoValue, Before
  <1>2. CASE v.type = "string"
    <2>1. IsString(v) /\ IsString(w)
      BY <1>2, JsonKinds
    <2>2. /\ Extracted(v) = [class |-> "text", is |-> v.is]
          /\ Extracted(w) = [class |-> "text", is |-> w.is]
      BY <1>2 DEF Extracted
    <2> QED
      BY <2>1, <2>2 DEF IsString, NoValue, Before
  <1> QED
    BY <1>1, <1>2

LEMMA MissingIsNull == Extracted(Missing) = NoValue /\ Missing.type = "missing"
  BY DEF Extracted, Missing, NoValue

LEMMA NullCompares ==
  ASSUME NEW op, NEW y
  PROVE  ~Compare(op, NoValue, y)
  BY DEF Compare

\* A comparison with a plain value, of a field of its type or of one missing
LEMMA ComparisonMeans ==
  ASSUME NEW v \in Json \union {Missing}, NEW op \in Comparisons, NEW arg \in Json,
         Plain(arg), v = Missing \/ v.type = arg.type
  PROVE  Compare(op, Extracted(v), Literal(arg)) <=> Means(op, v, arg)
  <1>1. arg.type \in {"number", "string"} /\ Literal(arg) = Extracted(arg)
    BY PlainValues
  <1>2. op \notin {"$in", "$nin", "$exists"}
    BY DEF Comparisons
  <1>3. CASE v = Missing
    <2>1. ~Compare(op, Extracted(v), Literal(arg))
      BY <1>3, MissingIsNull, NullCompares
    <2>2. v # arg /\ v.type # arg.type
      BY <1>1, <1>3, MissingIsNull
    <2>3. ~Means(op, v, arg)
      BY <1>2, <1>3, <2>2 DEF Means
    <2> QED
      BY <2>1, <2>3
  <1>4. CASE v # Missing
    <2>1. v \in Json /\ v.type = arg.type
      BY <1>4
    <2> DEFINE x == Extracted(v)
               y == Extracted(arg)
    <2>2. /\ NoValue \notin {x, y} /\ (x = y <=> v = arg)
          /\ Before(x, y) <=> v.is < arg.is
          /\ v.is \in Int /\ arg.is \in Int /\ (v = arg <=> v.is = arg.is)
      BY <1>1, <2>1, ScalarsCompare
    <2>3. Before(y, x) <=> arg.is < v.is
      BY <1>1, <2>1, ScalarsCompare
    <2> HIDE DEF x, y
    <2>4. Compare(op, x, y) <=>
            \/ op = "$eq" /\ v = arg
            \/ op = "$ne" /\ v # arg
            \/ op = "$gt" /\ arg.is < v.is
            \/ op = "$lt" /\ v.is < arg.is
            \/ op = "$gte" /\ ~(v.is < arg.is)
            \/ op = "$lte" /\ ~(arg.is < v.is)
      BY <2>2, <2>3, Zenon DEF Compare
    <2>5. Means(op, v, arg) <=>
            \/ op = "$eq" /\ v = arg
            \/ op = "$ne" /\ v # arg
            \/ op \in {"$gt", "$gte"} /\ v.is > arg.is
            \/ op \in {"$lt", "$lte"} /\ v.is < arg.is
            \/ op \in {"$gte", "$lte"} /\ v.is = arg.is
      BY <1>2, <1>4, <2>1 DEF Means
    <2>6. Compare(op, x, y) <=> Means(op, v, arg)
      BY <2>2, <2>4, <2>5
    <2> QED
      BY <1>1, <2>6 DEF x, y
  <1> QED
    BY <1>3, <1>4

\* A value is found equal to a plain one of its type if it is that value.
LEMMA EqualMeans ==
  ASSUME NEW v \in Json \union {Missing}, NEW item \in Json, Plain(item),
         v = Missing \/ v.type = item.type
  PROVE  Compare("$eq", Extracted(v), Literal(item)) <=> v = item
  <1>1. "$eq" \in Comparisons
    BY DEF Comparisons
  <1>2. Means("$eq", v, item) <=> v = item
    BY DEF Means
  <1> QED
    BY <1>1, <1>2, ComparisonMeans

\* A list of words, and a list of numbers
LEMMA InWords ==
  ASSUME NEW v \in Json \union {Missing}, NEW list \in Json, Listed(list),
         \A item \in Items(list) : Plain(item) /\ item.type = list.items[1].type,
         OfStrings(list), v = Missing \/ v.type = "string"
  PROVE  /\ \A item \in Items(list) :
              /\ InList(v, item, list) <=> v = item
              /\ Compare("$ne", Extracted(v), Literal(item)) <=> v # Missing /\ v # item
         /\ Each(v) = {v}
  <1>1. \A item \in Items(list) : item \in Json /\ item.type = "string" /\ Plain(item)
    BY ItemsAreJson DEF Listed, OfStrings
  <1>2. \A item \in Items(list) : InList(v, item, list) <=> v = item
    BY <1>1, EqualMeans DEF InList
  <1>3. ASSUME NEW item \in Items(list)
        PROVE  Compare("$ne", Extracted(v), Literal(item)) <=> v # Missing /\ v # item
    <2>1. "$ne" \in Comparisons /\ (Means("$ne", v, item) <=> v # Missing /\ v # item)
      BY DEF Comparisons, Means
    <2> QED
      BY <1>1, <2>1, ComparisonMeans
  <1>4. Each(v) = {v}
    BY MissingIsNull DEF Each
  <1> QED
    BY <1>2, <1>3, <1>4

LEMMA InNumbers ==
  ASSUME NEW v \in Json \union {Missing}, NEW list \in Json, Listed(list),
         \A item \in Items(list) : Plain(item) /\ item.type = list.items[1].type,
         ~OfStrings(list),
         \/ v = Missing
         \/ v.type = list.items[1].type
         \/ v.type = "array" /\ \A e \in Items(v) : e.type = "number"
  PROVE  \A item \in Items(list) : InList(v, item, list) <=> item \in Each(v)
  <1>1. \A item \in Items(list) : item \in Json /\ item.type = "number" /\ Plain(item)
    BY ItemsAreJson, PlainValues DEF Listed, OfStrings
  <1>2. list.items[1].type = "number"
    BY <1>1, ItemsAreJson DEF Listed
  <1>3. \A e \in Each(v) : e \in Json \union {Missing} /\ (e = Missing \/ e.type = "number")
    <2>1. CASE v = Missing
      BY <2>1, MissingIsNull DEF Each
    <2>2. CASE v \in Json /\ v.type = "number"
      BY <2>2 DEF Each
    <2>3. CASE v \in Json /\ v.type = "array" /\ \A e \in Items(v) : e.type = "number"
      BY <2>3, ItemsAreJson DEF Each
    <2> QED
      BY <1>2, <2>1, <2>2, <2>3
  <1>4. ASSUME NEW item \in Items(list) PROVE InList(v, item, list) <=> item \in Each(v)
    <2>1. InList(v, item, list)
            <=> \E e \in Each(v) : Compare("$eq", Extracted(e), Literal(item))
      BY DEF InList
    <2>2. \A e \in Each(v) : Compare("$eq", Extracted(e), Literal(item)) <=> e = item
      BY <1>1, <1>3, EqualMeans
    <2> QED
      BY <2>1, <2>2
  <1> QED
    BY <1>4

LEMMA ExistsMeans ==
  ASSUME NEW v \in Json \union {Missing}, v.type # "null"
  PROVE  Extracted(v) # NoValue <=> v # Missing
  <1>1. CASE v = Missing
    BY <1>1, MissingIsNull
  <1>2. CASE v \in Json
    <2>1. v.type \in {"number", "string", "bool", "array", "object"}
      BY <1>2, JsonKinds
    <2>2. Extracted(v).class \in {"number", "text"}
      BY <2>1 DEF Extracted
    <2> QED
      BY <1>2, <2>2, JsonIsThere DEF NoValue
  <1> QED
    BY <1>1, <1>2

\* SQLite selects by a condition what it means, where both are of one type.
LEMMA ConditionMeans ==
  ASSUME NEW v \in Json \union {Missing}, NEW c, c.arg \in Json,
         PlainCondition(c), Fits(v, c)
  PROVE  Holds(v, c) <=> Means(c.op, v, c.arg)
  <1>1. CASE c.op \in Comparisons
    <2>1. c.op \notin {"$in", "$nin", "$exists", "$other"}
      BY <1>1 DEF Comparisons
    <2>2. Plain(c.arg) /\ (v = Missing \/ v.type = c.arg.type)
      BY <2>1 DEF PlainCondition, Fits
    <2>3. Holds(v, c) <=> Compare(c.op, Extracted(v), Literal(c.arg))
      BY <1>1, <2>1 DEF Holds
    <2> QED
      BY <1>1, <2>2, <2>3, ComparisonMeans
  <1>2. CASE c.op = "$exists"
    <2>1. c.op \notin Comparisons
      BY <1>2 DEF Comparisons
    <2>2. v.type # "null"
      BY <1>2, <2>1, MissingIsNull DEF Fits
    <2>3. Holds(v, c) <=> (c.arg = Bool(1)) = (Extracted(v) # NoValue)
      BY <1>2, <2>1 DEF Holds
    <2>4. Means(c.op, v, c.arg) <=> (c.arg = Bool(1)) = (v # Missing)
      BY <1>2 DEF Means
    <2> QED
      BY <2>2, <2>3, <2>4, ExistsMeans
  <1>3. CASE c.op \in {"$in", "$nin"}
    <2>1. c.op \notin Comparisons
      BY <1>3 DEF Comparisons
    <2>2. /\ Listed(c.arg)
          /\ \A item \in Items(c.arg) : Plain(item) /\ item.type = c.arg.items[1].type
      BY <1>3, <2>1 DEF PlainCondition
    <2>3. /\ c.op = "$in" => (Holds(v, c) <=> \E item \in Items(c.arg) : InList(v, item, c.arg))
          /\ c.op = "$nin" => (Holds(v, c) <=>
               \A item \in Items(c.arg) :
                 IF OfStrings(c.arg) THEN Compare("$ne", Extracted(v), Literal(item))
                 ELSE ~InList(v, item, c.arg))
      BY <1>3, <2>1, <2>2 DEF Holds
    <2>4. /\ c.op = "$in" => (Means(c.op, v, c.arg) <=> Each(v) \intersect Items(c.arg) # {})
          /\ c.op = "$nin" => (Means(c.op, v, c.arg) <=>
                                 v # Missing /\ Each(v) \intersect Items(c.arg) = {})
      BY DEF Means
    <2>5. CASE OfStrings(c.arg)
      <3>1. v = Missing \/ v.type = "string"
        BY <1>3, <2>1, <2>5 DEF Fits, OfStrings
      <3>2. /\ \A item \in Items(c.arg) :
                 /\ InList(v, item, c.arg) <=> v = item
                 /\ Compare("$ne", Extracted(v), Literal(item)) <=> v # Missing /\ v # item
            /\ Each(v) = {v}
        BY <2>2, <2>5, <3>1, InWords
      <3>3. c.arg.items[1] \in Items(c.arg)
        BY <2>2, ItemsAreJson DEF Listed
      <3>4. CASE c.op = "$in"
        BY <2>3, <2>4, <3>2, <3>4
      <3>5. CASE c.op = "$nin"
        BY <2>3, <2>4, <2>5, <3>2, <3>3, <3>5
      <3> QED
        BY <1>3, <3>4, <3>5
    <2>6. CASE ~OfStrings(c.arg)
      <3>1. /\ \/ v = Missing
               \/ v.type = c.arg.items[1].type
               \/ v.type = "array" /\ \A e \in Items(v) : e.type = "number"
            /\ c.op = "$nin" => v # Missing \/ v.type = c.arg.items[1].type
        BY <1>3, <2>1, <2>6, MissingIsNull DEF Fits
      <3>2. \A item \in Items(c.arg) : InList(v, item, c.arg) <=> item \in Each(v)
        BY <2>2, <2>6, <3>1, InNumbers
      <3>3. c.op = "$nin" => v # Missing
        <4>1. c.arg.items[1].type # "missing"
          BY <2>2, ItemsAreJson, JsonIsThere DEF Listed
        <4> QED
          BY <3>1, <4>1, MissingIsNull
      <3>4. CASE c.op = "$in"
        BY <2>3, <2>4, <3>2, <3>4
      <3>5. CASE c.op = "$nin"
        BY <2>3, <2>4, <2>6, <3>2, <3>3, <3>5
      <3> QED
        BY <1>3, <3>4, <3>5
    <2> QED
      BY <2>5, <2>6
  <1> QED
    BY <1>1, <1>2, <1>3 DEF PlainCondition

-----------------------------------------------------------------------------
(* All conditions: a row is selected by them if the filter matches it      *)

LEMMA FieldConditions ==
  ASSUME NEW x, ReachedField(x), NEW c \in ProcessField(x.path, x.value)
  PROVE  c.path = x.path /\ c.arg \in Json
  <1>1. x.value \in Json
    BY DEF ReachedField
  <1>2. CASE ~IsObject(x.value) \/ DOMAIN x.value.fields = {}
    BY <1>1, <1>2 DEF ProcessField, Condition
  <1>3. CASE IsObject(x.value) /\ DOMAIN x.value.fields # {}
    <2>1. x.value.fields \in [DOMAIN x.value.fields -> Json]
      BY <1>1, <1>3, JsonKinds DEF IsObject
    <2>2. PICK op \in DOMAIN x.value.fields \intersect Operators :
            c = Condition(x.path, op, x.value.fields[op])
      BY <1>3 DEF ProcessField
    <2> QED
      BY <2>1, <2>2 DEF Condition
  <1> QED
    BY <1>2, <1>3

LEMMA FieldMeans ==
  ASSUME NEW x, ReachedField(x), NEW v \in Json,
         \A c \in ProcessField(x.path, x.value) :
           PlainCondition(c) /\ Fits(At(v, c.path), c)
  PROVE  (\A c \in ProcessField(x.path, x.value) : Holds(At(v, c.path), c))
           <=> Meets(At(v, x.path), x.value)
  <1> DEFINE have == At(v, x.path)
             want == x.value
  <1>1. have \in Json \union {Missing}
    BY AtIsJson DEF ReachedField
  <1>2. \A c \in ProcessField(x.path, want) :
          /\ At(v, c.path) = have
          /\ Holds(have, c) <=> Means(c.op, have, c.arg)
    BY <1>1, FieldConditions, ConditionMeans
  <1>3. (\A c \in ProcessField(x.path, want) : Holds(At(v, c.path), c))
          <=> \A c \in ProcessField(x.path, want) : Holds(have, c)
    BY <1>2
  <1>4. CASE ~IsObject(want)
    <2> DEFINE c == Condition(x.path, "$eq", want)
    <2>1. ProcessField(x.path, want) = {c}
      BY <1>4 DEF ProcessField
    <2>2. c.op = "$eq" /\ c.arg = want
      BY DEF Condition
    <2>3. Means(c.op, have, c.arg) <=> have = want
      BY <2>2 DEF Means
    <2>4. Holds(have, c) <=> have = want
      BY <1>2, <2>1, <2>3
    <2>5. Meets(have, want) <=> have = want
      BY <1>4 DEF Meets
    <2> HIDE DEF c, have
    <2>6. (\A d \in ProcessField(x.path, want) : Holds(have, d)) <=> Meets(have, want)
      BY <2>1, <2>4, <2>5
    <2> QED
      BY <1>3, <2>6 DEF have
  <1>5. CASE IsObject(want) /\ DOMAIN want.fields # {}
    <2>1. ProcessField(x.path, want)
            = {Condition(x.path, op, want.fields[op]) : op \in DOMAIN want.fields \intersect Operators}
      BY <1>5 DEF ProcessField
    <2>2. \A op : /\ Condition(x.path, op, want.fields[op]).op = op
                  /\ Condition(x.path, op, want.fields[op]).arg = want.fields[op]
      BY DEF Condition
    <2> HIDE DEF have
    <2>3. (\A c \in ProcessField(x.path, want) : Holds(have, c))
            <=> \A op \in DOMAIN want.fields \intersect Operators :
                  Means(op, have, want.fields[op])
      BY <1>2, <2>1, <2>2
    <2>4. (\A c \in ProcessField(x.path, want) : Holds(have, c)) <=> Meets(have, want)
      BY <1>5, <2>3 DEF Meets
    <2> QED
      BY <1>3, <2>4 DEF have
  <1>6. CASE IsObject(want) /\ DOMAIN want.fields = {}
    <2> DEFINE c == Condition(x.path, "$eq", want)
    <2>1. c \in ProcessField(x.path, want) /\ c.op = "$eq" /\ c.arg = want
      BY <1>6 DEF ProcessField, Condition
    <2>2. ~Plain(want)
      BY <1>6 DEF IsObject, Plain
    <2>3. ~PlainCondition(c)
      BY <2>1, <2>2 DEF PlainCondition
    <2> QED
      BY <2>1, <2>3
  <1> QED
    BY <1>4, <1>5, <1>6

LEMMA FiltersAreObjects ==
  ASSUME filter \in Filters, filter # Unparsed
  PROVE  filter \in Json /\ IsObject(filter)
  BY ArgumentsAssumption

LEMMA RowMeans ==
  ASSUME filter \in Filters, filter # Unparsed, NEW v \in Json,
         \A c \in Conditions : PlainCondition(c) /\ Fits(At(v, c.path), c)
  PROVE  (\A c \in Conditions : Holds(At(v, c.path), c)) <=> Matches(v, filter)
  <1>1. /\ \A x \in Fields(filter) : ReachedField(x)
        /\ Demands(filter, v) = {SideOf(v, x) : x \in Fields(filter)}
    BY FiltersAreObjects, WalksAgree
  <1>2. \A x \in Fields(filter) :
          (\A c \in ProcessField(x.path, x.value) : Holds(At(v, c.path), c))
            <=> Meets(At(v, x.path), x.value)
    <2> SUFFICES ASSUME NEW x \in Fields(filter)
                 PROVE  (\A c \in ProcessField(x.path, x.value) : Holds(At(v, c.path), c))
                          <=> Meets(At(v, x.path), x.value)
      OBVIOUS
    <2>1. \A c \in ProcessField(x.path, x.value) :
            PlainCondition(c) /\ Fits(At(v, c.path), c)
      BY DEF Conditions
    <2> QED
      BY <1>1, <2>1, FieldMeans
  <1>3. (\A c \in Conditions : Holds(At(v, c.path), c))
          <=> \A x \in Fields(filter) : Meets(At(v, x.path), x.value)
    BY <1>2 DEF Conditions
  <1>4. Matches(v, filter) <=> \A x \in Fields(filter) : Meets(At(v, x.path), x.value)
    <2>1. \A x : SideOf(v, x).want = x.value /\ SideOf(v, x).have = At(v, x.path)
      BY DEF SideOf
    <2>2. Matches(v, filter)
            <=> \A x \in Fields(filter) : Meets(SideOf(v, x).have, SideOf(v, x).want)
      BY <1>1, Zenon DEF Matches
    <2> QED
      BY <2>1, <2>2
  <1> QED
    BY <1>3, <1>4

\* What cannot be said in the clause keeps it from being prepared, or is a
\* condition no row meets.
LEMMA UnsayableIsCaught ==
  ASSUME filter \in Filters, filter # Unparsed, Unsayable(filter),
         \A c \in Conditions : Prepares(c)
  PROVE  \E c \in Conditions : \A v : ~Holds(v, c)
  <1>1. /\ \A x \in Fields(filter) : ReachedField(x)
        /\ Demands(filter, Missing) = {SideOf(Missing, x) : x \in Fields(filter)}
    BY FiltersAreObjects, WalksAgree
  <1>2. PICK x \in Fields(filter) :
          \/ x.value.type \in {"array", "null"}
          \/ /\ IsObject(x.value)
             /\ \/ DOMAIN x.value.fields = {}
                \/ \E op \in DOMAIN x.value.fields \intersect Comparisons :
                     x.value.fields[op].type \in {"array", "object", "null"}
                \/ \E op \in DOMAIN x.value.fields \intersect {"$in", "$nin"} :
                     /\ x.value.fields[op].type = "array"
                     /\ \E item \in Items(x.value.fields[op]) : item.type \in {"array", "object"}
    BY <1>1 DEF Unsayable, SideOf
  <1> DEFINE w == x.value
  <1>3. \A c \in ProcessField(x.path, w) : c \in Conditions
    BY DEF Conditions
  <1>4. ASSUME NEW c \in Conditions, c.op \in Comparisons,
               c.arg.type \in {"array", "object", "null"}
        PROVE  \A v : ~Holds(v, c)
    <2>1. c.arg.type = "null"
      BY <1>4 DEF Prepares, Prints
    <2>2. Literal(c.arg) = NoValue
      BY <2>1 DEF Literal, Extracted
    <2>3. \A v : ~Compare(c.op, Extracted(v), Literal(c.arg))
      BY <2>2 DEF Compare
    <2>4. c.op \notin {"$in", "$nin", "$exists", "$other"}
      BY <1>4 DEF Comparisons
    <2> QED
      BY <2>3, <2>4 DEF Holds
  <1>5. CASE ~IsObject(w) \/ DOMAIN w.fields = {}
    <2> DEFINE c == Condition(x.path, "$eq", w)
    <2>1. c \in Conditions
      BY <1>3, <1>5 DEF ProcessField
    <2>2. c.op = "$eq" /\ c.arg = w /\ "$eq" \in Comparisons
      BY DEF Condition, Comparisons
    <2>3. w.type \in {"array", "object", "null"}
      BY <1>2, <1>5 DEF IsObject
    <2> HIDE DEF c, w
    <2> QED
      BY <1>4, <2>1, <2>2, <2>3
  <1>6. CASE IsObject(w) /\ DOMAIN w.fields # {}
    <2>1. \A op \in DOMAIN w.fields \intersect Operators :
            Condition(x.path, op, w.fields[op]) \in Conditions
      BY <1>3, <1>6 DEF ProcessField
    <2>2. \A op : /\ Condition(x.path, op, w.fields[op]).op = op
                  /\ Condition(x.path, op, w.fields[op]).arg = w.fields[op]
      BY DEF Condition
    <2>3. Comparisons \subseteq Operators /\ {"$in", "$nin"} \subseteq Operators
      BY DEF Operators
    <2>4. ASSUME NEW op \in DOMAIN w.fields \intersect {"$in", "$nin"},
                 w.fields[op].type = "array",
                 NEW item \in Items(w.fields[op]), item.type \in {"array", "object"}
          PROVE  FALSE
      <3> DEFINE c == Condition(x.path, op, w.fields[op])
      <3>1. c \in Conditions /\ c.op \in {"$in", "$nin"} /\ c.arg = w.fields[op]
        BY <2>1, <2>2, <2>3
      <3>2. Listed(c.arg)
        <4>1. DOMAIN w.fields[op].items # {}
          BY <2>4 DEF Items
        <4>2. w.fields[op].items # <<>>
          BY <4>1
        <4> QED
          BY <2>4, <3>1, <4>2 DEF Listed
      <3>3. Prints(item)
        BY <3>1, <3>2 DEF Prepares
      <3> QED
        BY <2>4, <3>3 DEF Prints
    <2>5. PICK op \in DOMAIN w.fields \intersect Comparisons :
            w.fields[op].type \in {"array", "object", "null"}
      BY <1>2, <1>6, <2>4 DEF IsObject
    <2>6. Condition(x.path, op, w.fields[op]) \in Conditions
      BY <2>1, <2>3, <2>5
    <2> HIDE DEF w
    <2> QED
      BY <1>4, <2>2, <2>5, <2>6
  <1> QED
    BY <1>5, <1>6

-----------------------------------------------------------------------------
(* The scan                                                                *)

Selected(row) == \A c \in Conditions : ~Raises(row, c) /\ Holds(At(row, c.path), c)
Passed(row) == \E c \in Conditions : ~Raises(row, c) /\ ~Holds(At(row, c.path), c)

\* Of the rows read, those found have met every condition and the others have
\* failed one that did not raise; the scan is at the end or before a row that
\* raises.
ScanInv ==
  /\ filter \in Filters /\ table \in Tables
  /\ scan \in {"prepare", "step", "ended", "failed"}
  /\ ids \in [at : 0 .. Len(table), found : SUBSET (1 .. Len(table))]
  /\ ids.found \subseteq 1 .. ids.at
  /\ scan \in {"prepare", "failed"} => ids.at = 0
  /\ scan \in {"step", "ended"} => \A c \in Conditions : Prepares(c)
  /\ \A i \in ids.found : Selected(table[i])
  /\ \A i \in 1 .. ids.at : i \notin ids.found => Passed(table[i])
  /\ scan = "ended" /\ ids.at < Len(table) => \E c \in Conditions : Raises(Row, c)

LEMMA InitScan == Init => ScanInv
  <1> SUFFICES ASSUME Init PROVE ScanInv
    OBVIOUS
  <1>1. table \in Seq(Json \union {Blank})
    BY ArgumentsAssumption DEF Init
  <1>2. Len(table) \in Nat
    BY <1>1
  <1>3. ids = [at |-> 0, found |-> {}] /\ ids.at = 0 /\ ids.found = {}
    BY DEF Init
  <1> QED
    BY <1>2, <1>3 DEF Init, ScanInv

\* One more row read.
LEMMA OneMoreRow ==
  ASSUME ScanInv, Stepping, UNCHANGED <<filter, table, scan>>,
         ids'.at = ids.at + 1, ids' = [at |-> ids'.at, found |-> ids'.found],
         \/ ids'.found = ids.found \union {ids.at + 1} /\ Selected(Row)
         \/ ids'.found = ids.found /\ Passed(Row)
  PROVE  ScanInv'
  <1> DEFINE n == ids.at + 1
  <1>1. /\ table \in Seq(Json \union {Blank}) /\ Len(table) \in Nat
        /\ ids.at \in Nat /\ ids.found \subseteq 1 .. ids.at /\ scan = "step"
        /\ ids.at < Len(table)
    BY ArgumentsAssumption DEF ScanInv, Stepping
  <1>2. n \in 1 .. Len(table) /\ 1 .. n = 1 .. ids.at \union {n} /\ Row = table[n]
    BY <1>1 DEF Row
  <1>3. /\ Conditions' = Conditions /\ table' = table /\ filter' = filter /\ scan' = scan
        /\ \A row : (Selected(row)' <=> Selected(row)) /\ (Passed(row)' <=> Passed(row))
    BY DEF Conditions, Selected, Passed
  <1>4. ids'.at = n /\ ids'.found \in {ids.found, ids.found \union {n}}
    OBVIOUS
  <1> HIDE DEF n
  <1>5. /\ ids' \in [at : 0 .. Len(table), found : SUBSET (1 .. Len(table))]
        /\ ids'.found \subseteq 1 .. ids'.at
    BY <1>1, <1>2, <1>4
  <1>6. \A i \in ids'.found : Selected(table[i])
    <2>1. \A i \in ids.found : Selected(table[i])
      BY DEF ScanInv
    <2> QED
      BY <1>2, <2>1 DEF n
  <1>7. \A i \in 1 .. ids'.at : i \notin ids'.found => Passed(table[i])
    <2>1. \A i \in 1 .. ids.at : i \notin ids.found => Passed(table[i])
      BY DEF ScanInv
    <2> QED
      BY <1>2, <1>4, <2>1 DEF n
  <1>8. scan = "step" /\ \A c \in Conditions : Prepares(c)
    BY <1>1 DEF ScanInv
  <1> QED
    BY <1>3, <1>5, <1>6, <1>7, <1>8 DEF ScanInv

LEMMA NextScan == ScanInv /\ [Next]_vars => ScanInv'
  <1> SUFFICES ASSUME ScanInv, [Next]_vars PROVE ScanInv'
    OBVIOUS
  <1>1. ASSUME UNCHANGED <<filter, table>> PROVE Conditions' = Conditions
    BY <1>1 DEF Conditions
  <1>2. ids = [at |-> ids.at, found |-> ids.found]
    BY DEF ScanInv
  <1>3. ASSUME UNCHANGED <<filter, table, ids>>, scan' \in {"prepare", "step", "ended", "failed"},
               scan' \in {"prepare", "failed"} => ids.at = 0,
               scan' \in {"step", "ended"} => \A c \in Conditions : Prepares(c),
               scan' = "ended" /\ ids.at < Len(table) => \E c \in Conditions : Raises(Row, c)
        PROVE  ScanInv'
    <2>1. Conditions' = Conditions
      BY <1>1, <1>3
    <2>2. \A row : (Selected(row)' <=> Selected(row)) /\ (Passed(row)' <=> Passed(row))
      BY <2>1 DEF Selected, Passed
    <2>3. Row' = Row
      BY <1>3 DEF Row
    <2> QED
      BY <1>3, <2>1, <2>2, <2>3 DEF ScanInv
  <1>4. CASE PrepareStatement
    <2>1. scan' = IF \A c \in Conditions : Prepares(c) THEN "step" ELSE "failed"
      BY <1>4 DEF PrepareStatement, Prepare
    <2>2. ids.at = 0
      BY <1>4 DEF PrepareStatement, ScanInv
    <2> QED
      BY <1>3, <1>4, <2>1, <2>2 DEF PrepareStatement
  <1>5. CASE RowSelected
    <2>1. Selected(Row)
      BY <1>5 DEF RowSelected, Selected
    <2>2. ids' = [at |-> ids.at + 1, found |-> ids.found \union {ids.at + 1}]
      BY <1>5 DEF RowSelected, Collect
    <2> QED
      BY <1>5, <2>1, <2>2, OneMoreRow DEF RowSelected
  <1>6. CASE RowPassed
    <2>1. Passed(Row)
      BY <1>6 DEF RowPassed, Passed
    <2>2. ids' = [at |-> ids.at + 1, found |-> ids.found]
      BY <1>2, <1>6 DEF RowPassed
    <2> QED
      BY <1>6, <2>1, <2>2, OneMoreRow DEF RowPassed
  <1>7. CASE RowRaises
    BY <1>3, <1>7 DEF RowRaises, EndScan, Stepping, ScanInv
  <1>8. CASE NoMoreRows
    <2>1. ~(ids.at < Len(table))
      <3>1. table \in Seq(Json \union {Blank})
        BY ArgumentsAssumption DEF ScanInv
      <3>2. Len(table) \in Nat
        BY <3>1
      <3> QED
        BY <1>8, <3>2 DEF NoMoreRows
    <2> QED
      BY <1>3, <1>8, <2>1 DEF NoMoreRows, ScanInv
  <1>9. CASE UNCHANGED vars
    BY <1>3, <1>9 DEF vars, ScanInv
  <1> QED
    BY <1>4, <1>5, <1>6, <1>7, <1>8, <1>9 DEF Next

LEMMA ScanInvariant == Spec => []ScanInv
  BY InitScan, NextScan, PTL DEF Spec

-----------------------------------------------------------------------------
(* Theorems                                                                *)

LEMMA InvSelects ==
  ASSUME ScanInv
  PROVE  SelectsWhatIsDescribed
  <1> SUFFICES ASSUME filter # Unparsed, \A c \in Conditions : PlainCondition(c),
                      NEW i \in 1 .. ids.at, table[i] # Blank,
                      \A c \in Conditions : Fits(At(table[i], c.path), c)
               PROVE  i \in ids.found <=> Matches(table[i], filter)
    BY DEF SelectsWhatIsDescribed
  <1>1. table[i] \in Json
    <2>1. table \in Seq(Json \union {Blank}) /\ ids.at \in 0 .. Len(table)
      BY ArgumentsAssumption DEF ScanInv
    <2> QED
      BY <2>1
  <1>2. (\A c \in Conditions : Holds(At(table[i], c.path), c)) <=> Matches(table[i], filter)
    BY <1>1, RowMeans DEF ScanInv
  <1>3. i \in ids.found => \A c \in Conditions : Holds(At(table[i], c.path), c)
    BY DEF ScanInv, Selected
  <1>4. i \notin ids.found => \E c \in Conditions : ~Holds(At(table[i], c.path), c)
    BY DEF ScanInv, Passed
  <1> QED
    BY <1>2, <1>3, <1>4

\* A condition that does not look at the metadata answers every row alike.
LEMMA ConstantConditions ==
  ASSUME NEW c, ~Extracts(c), NEW v, NEW w
  PROVE  Holds(v, c) <=> Holds(w, c)
  <1>1. c.op \in {"$in", "$nin"} /\ ~Listed(c.arg) /\ c.op \notin Comparisons
    BY DEF Extracts, Comparisons
  <1> QED
    BY <1>1 DEF Holds

LEMMA InvCutShort ==
  ASSUME ScanInv
  PROVE  CutShortByUnreadableRow
  <1>1. ASSUME scan = "ended", ids.at < Len(table)
        PROVE  \/ Row = Blank /\ \E c \in Conditions : Extracts(c)
               \/ \E c \in Conditions : c.op \in {"$in", "$nin"} /\ At(Row, c.path).type = "string"
    <2>1. PICK c \in Conditions : Raises(Row, c)
      BY <1>1 DEF ScanInv
    <2> QED
      BY <2>1 DEF Raises
  <1>2. ASSUME NEW e \in Conditions, Extracts(e), NEW i \in ids.found,
               NEW j \in 1 .. Len(table), table[j] = Blank
        PROVE  i < j
    <2>1. /\ ids.at \in Nat /\ i \in 1 .. ids.at /\ i \in Nat /\ j \in Nat
      <3>1. table \in Seq(Json \union {Blank}) /\ ids.at \in 0 .. Len(table)
        BY ArgumentsAssumption DEF ScanInv
      <3>2. Len(table) \in Nat
        BY <3>1
      <3> QED
        BY <3>1, <3>2 DEF ScanInv
    <2> SUFFICES ASSUME j <= i PROVE FALSE
      BY <2>1
    <2>2. j \in 1 .. ids.at
      BY <2>1
    <2>3. Raises(table[j], e)
      BY <1>2 DEF Raises
    <2>4. Passed(table[j])
      BY <2>2, <2>3 DEF ScanInv, Selected
    <2>5. PICK c \in Conditions : ~Raises(table[j], c) /\ ~Holds(At(table[j], c.path), c)
      BY <2>4 DEF Passed
    <2>6. ~Extracts(c)
      BY <1>2, <2>5 DEF Raises
    <2>7. ~Holds(At(table[i], c.path), c)
      BY <2>5, <2>6, ConstantConditions
    <2> QED
      BY <1>2, <2>7 DEF ScanInv, Selected
  <1> QED
    BY <1>1, <1>2 DEF CutShortByUnreadableRow

LEMMA InvUnsayable ==
  ASSUME ScanInv
  PROVE  UnsayableSelectsNothing
  <1>1. ASSUME filter # Unparsed, Unsayable(filter), NEW i \in ids.found PROVE FALSE
    <2>1. Selected(table[i])
      BY DEF ScanInv
    <2>2. ids.at # 0
      <3>1. i \in 1 .. ids.at
        BY DEF ScanInv
      <3> QED
        BY <3>1
    <2>3. \A c \in Conditions : Prepares(c)
      BY <2>2 DEF ScanInv
    <2>4. PICK c \in Conditions : \A v : ~Holds(v, c)
      BY <1>1, <2>3, UnsayableIsCaught DEF ScanInv
    <2> QED
      BY <2>1, <2>4 DEF Selected
  <1>2. ASSUME filter = Unparsed PROVE ids.found = 1 .. ids.at
    <2>1. Conditions = {}
      BY <1>2 DEF Conditions
    <2>2. \A i \in 1 .. ids.at : i \in ids.found
      BY <2>1 DEF ScanInv, Passed
    <2> QED
      BY <2>2 DEF ScanInv
  <1> QED
    BY <1>1, <1>2 DEF UnsayableSelectsNothing

\* A scan reports, of the rows it has read, those whose metadata the filter
\* describes, as long as field and condition are of one type: for every filter,
\* however deep its objects nest, every table and every length of it.
THEOREM SelectionIsAsDescribed == Spec => []SelectsWhatIsDescribed
  BY ScanInvariant, InvSelects, PTL

\* Only a word where json_each is to find a list, or metadata that is no JSON
\* under a condition that looks at metadata, keeps get_filtered_ids from the rows
\* behind it; the latter does so whatever other conditions there are.
THEOREM OnlyUnreadableRowsCutShort == Spec => []CutShortByUnreadableRow
  BY ScanInvariant, InvCutShort, PTL

\* A filter that json_query_to_sql can parse, with a value anywhere in it that
\* append_json_value does not print or prints as NULL, selects nothing; one that
\* cannot be parsed selects every row get_filtered_ids reads.
THEOREM UnsayableNeverSelects == Spec => []UnsayableSelectsNothing
  BY ScanInvariant, InvUnsayable, PTL
=============================================================================

---------------------------- MODULE VecFileProofs ----------------------------
(* The vector file word by word, for one thread that reads, as a Python       *)
(* process has: any number of records of any length, in buffers, batches and  *)
(* pages of any size.                                                         *)
EXTENDS VecFile, FiniteSetTheorems, SequenceTheorems, TLAPS

-----------------------------------------------------------------------------
(* Lemmas about blocks.                                                       *)

\* Multiplication by a positive number keeps the order.
LEMMA TimesKeepsOrder ==
  ASSUME NEW a \in Nat, NEW b \in Nat, NEW m \in Nat, a <= b
  PROVE  a * m <= b * m /\ a * m \in Nat /\ b * m \in Nat
<1>1. PICK c \in Nat : b = a + c
  <2>1. b - a \in Nat /\ b = a + (b - a)  OBVIOUS
  <2>. QED  BY <2>1
<1>2. b * m = a * m + c * m  BY <1>1
<1>3. c * m \in Nat /\ a * m \in Nat /\ b * m \in Nat  OBVIOUS
<1>. QED  BY <1>2, <1>3

\* Where a position falls among blocks of m words.
LEMMA Division ==
  ASSUME NEW m \in Nat \ {0}, NEW q \in Nat, NEW r \in 0 .. m - 1
  PROVE  (q * m + r) \div m = q /\ (q * m + r) % m = r
<1>. DEFINE a == q * m + r  D == a \div m  R == a % m
<1>1. a \in Nat  OBVIOUS
<1>2. D \in Int /\ R \in 0 .. m - 1 /\ a = D * m + R  BY <1>1
<1>3. D \in Nat
  <2>. SUFFICES ASSUME D <= -1 PROVE FALSE  BY <1>2
  <2>. DEFINE E == - D
  <2>1. E \in Nat /\ 1 <= E  BY <1>2
  <2>2. m <= E * m  BY <2>1, TimesKeepsOrder
  <2>3. D * m = - (E * m)  BY <2>1, <1>2
  <2>. QED  BY <1>1, <1>2, <2>2, <2>3
<1>4. ~ (D < q)
  <2>. SUFFICES ASSUME D < q PROVE FALSE  OBVIOUS
  <2>1. (D + 1) * m <= q * m  BY <1>3, TimesKeepsOrder
  <2>2. (D + 1) * m = D * m + m  BY <1>3
  <2>. QED  BY <1>2, <2>1, <2>2, <1>3
<1>5. ~ (q < D)
  <2>. SUFFICES ASSUME q < D PROVE FALSE  OBVIOUS
  <2>1. (q + 1) * m <= D * m  BY <1>3, TimesKeepsOrder
  <2>2. (q + 1) * m = q * m + m  OBVIOUS
  <2>. QED  BY <1>2, <2>1, <2>2, <1>3
<1>6. D = q  BY <1>3, <1>4, <1>5
<1>. QED  BY <1>2, <1>6

\* Every number is a number of blocks and a rest.
LEMMA Split ==
  ASSUME NEW m \in Nat \ {0}, NEW n \in Nat, NEW p \in 0 .. n * m - 1
  PROVE  \E q \in 0 .. n - 1, r \in 0 .. m - 1 : p = q * m + r
<1>. DEFINE D == p \div m  R == p % m
<1>0. n * m \in Nat /\ p \in Nat  OBVIOUS
<1>1. D \in Int /\ R \in 0 .. m - 1 /\ p = D * m + R  BY <1>0
<1>2. D \in Nat
  <2>. SUFFICES ASSUME D <= -1 PROVE FALSE  BY <1>1
  <2>. DEFINE E == - D
  <2>1. E \in Nat /\ 1 <= E  BY <1>1
  <2>2. m <= E * m  BY <2>1, TimesKeepsOrder
  <2>3. D * m = - (E * m)  BY <2>1, <1>1
  <2>. QED  BY <1>0, <1>1, <2>2, <2>3
<1>3. D < n
  <2>. SUFFICES ASSUME n <= D PROVE FALSE  BY <1>2
  <2>1. n * m <= D * m  BY <1>2, TimesKeepsOrder
  <2>. QED  BY <1>0, <1>1, <2>1
<1>4. D \in 0 .. n - 1  BY <1>2, <1>3
<1>. HIDE DEF D, R
<1>. QED  BY <1>1, <1>4

\* A position among n blocks of m words lies inside them.
LEMMA Inside ==
  ASSUME NEW m \in Nat \ {0}, NEW n \in Nat, NEW q \in 0 .. n - 1, NEW r \in 0 .. m - 1
  PROVE  q * m \in Nat /\ q * m + r < n * m /\ n * m \in Nat
<1>1. (q + 1) * m <= n * m /\ n * m \in Nat  BY TimesKeepsOrder
<1>2. (q + 1) * m = q * m + m /\ q * m \in Nat  OBVIOUS
<1>. QED  BY <1>1, <1>2

-----------------------------------------------------------------------------
(* Lemmas about words.                                                        *)

\* The words of record number k, of length d, as id and components.
Word(s, k, i) == IF i = 0 THEN IdWord(s[k]) ELSE Component(s[k])

\* A file whose records are those of s, of length d.
Holds(f, s, d) ==
  /\ Len(f) = 2 + Len(s) * (d + 1)
  /\ \A k \in 1 .. Len(s), i \in 0 .. d : f[2 + (k - 1) * (d + 1) + i + 1] = Word(s, k, i)

Ids == Nat \ {0}

LEMMA WordTypes ==
  ASSUME NEW id \in Ids
  PROVE  IdWord(id) \in Int /\ Component(id) \in Int
<1>. Huge \in Nat /\ Exact \in Nat  BY VecFileAssumption
<1>1. Round(id) \in Nat  BY DEF Round, Ids
<1>. QED  BY <1>1 DEF IdWord, Component, Ids

\* Up to Exact, what is written as an id is read as that id.
LEMMA ExactWord ==
  ASSUME NEW id \in Ids, id <= Exact
  PROVE  AsId(IdWord(id)) = id
<1>. Huge \in Nat /\ Exact \in Nat  BY VecFileAssumption
<1>. QED  BY DEF AsId, IdWord, Round, Ids

\* fwrite of the dimensions changes that word and no other.
LEMMA PutDimensions ==
  ASSUME NEW f \in Seq(Int), Len(f) >= 2, NEW w \in Int
  PROVE  /\ Put(f, 1, w) \in Seq(Int) /\ Len(Put(f, 1, w)) = Len(f)
         /\ Put(f, 1, w)[2] = w
         /\ \A i \in 1 .. Len(f) : i # 2 => Put(f, 1, w)[i] = f[i]
<1>1. Put(f, 1, w) = [i \in 1 .. Len(f) |-> IF i = 2 THEN w ELSE f[i]]
  BY DEF Put
<1>2. \A i \in 1 .. Len(f) : (IF i = 2 THEN w ELSE f[i]) \in Int  OBVIOUS
<1>. QED  BY <1>1, <1>2

\* The words of a record.
LEMMA RecordWords ==
  ASSUME NEW id \in Ids, NEW d \in Nat
  PROVE  /\ Record(id, d) \in Seq(Int) /\ Len(Record(id, d)) = d + 1
         /\ \A i \in 0 .. d : Record(id, d)[i + 1] = IF i = 0 THEN IdWord(id) ELSE Component(id)
<1>. IdWord(id) \in Int /\ Component(id) \in Int  BY WordTypes
<1>. HIDE DEF IdWord, Component
<1>. QED  BY DEF Record

\* The words of a run of records.
LEMMA BlocksWords ==
  ASSUME NEW s \in Seq(Ids), NEW d \in Nat
  PROVE  /\ Blocks(s, d) \in Seq(Int) /\ Len(Blocks(s, d)) = Len(s) * (d + 1)
         /\ \A k \in 1 .. Len(s), i \in 0 .. d :
              Blocks(s, d)[(k - 1) * (d + 1) + i + 1] = Word(s, k, i)
<1>. DEFINE n == Len(s)  m == d + 1
            at_(p) == Record(s[((p - 1) \div m) + 1], d)[((p - 1) % m) + 1]
<1>0. n \in Nat /\ m \in Nat \ {0} /\ n * m \in Nat  OBVIOUS
<1>1. ASSUME NEW k \in 1 .. n, NEW i \in 0 .. d
      PROVE  /\ (k - 1) * m + i + 1 \in 1 .. n * m
             /\ at_((k - 1) * m + i + 1) = Word(s, k, i)
  <2>. DEFINE q == k - 1
  <2>1. q \in 0 .. n - 1 /\ i \in 0 .. m - 1 /\ q \in Nat  OBVIOUS
  <2>2. q * m \in Nat /\ q * m + i < n * m  BY <1>0, <2>1, Inside
  <2>3. (q * m + i) \div m = q /\ (q * m + i) % m = i  BY <1>0, <2>1, Division
  <2>4. q * m + i + 1 - 1 = q * m + i  BY <2>1, <2>2
  <2>5. s[k] \in Ids  OBVIOUS
  <2>6. at_(q * m + i + 1) = Record(s[q + 1], d)[i + 1]  BY <2>3, <2>4
  <2>7. q + 1 = k  OBVIOUS
  <2>8. Record(s[k], d)[i + 1] = Word(s, k, i)  BY <2>5, RecordWords DEF Word
  <2>. HIDE DEF at_
  <2>. QED  BY <1>0, <2>1, <2>2, <2>6, <2>7, <2>8
<1>2. ASSUME NEW p \in 1 .. n * m PROVE at_(p) \in Int
  <2>1. p - 1 \in 0 .. n * m - 1  BY <1>0
  <2>2. PICK q \in 0 .. n - 1, i \in 0 .. m - 1 : p - 1 = q * m + i  BY <1>0, <2>1, Split
  <2>3. q + 1 \in 1 .. n /\ i \in 0 .. d /\ q * m \in Nat  BY <1>0, <2>2
  <2>4. p = q * m + i + 1  BY <2>2, <2>3
  <2>5. at_((q + 1 - 1) * m + i + 1) = Word(s, q + 1, i)  BY <1>1, <2>3
  <2>6. q + 1 - 1 = q  OBVIOUS
  <2>7. Word(s, q + 1, i) \in Int
    <3>1. s[q + 1] \in Ids  BY <2>3
    <3>. QED  BY <3>1, WordTypes DEF Word
  <2>. HIDE DEF at_
  <2>. QED  BY <2>4, <2>5, <2>6, <2>7
<1>3. Blocks(s, d) = [p \in 1 .. n * m |-> at_(p)]  BY DEF Blocks
<1>. HIDE DEF at_, n, m
<1>4. [p \in 1 .. n * m |-> at_(p)] \in Seq(Int)  BY <1>0, <1>2, IsASeq
<1>5. Len(Blocks(s, d)) = n * m  BY <1>0, <1>3
<1>. QED  BY <1>1, <1>3, <1>4, <1>5 DEF n, m

\* A file that holds records has the form the property gives it.
LEMMA HoldsIsBlocks ==
  ASSUME NEW f \in Seq(Int), NEW s \in Seq(Ids), NEW d \in Nat, Holds(f, s, d)
  PROVE  f = <<f[1], f[2]>> \o Blocks(s, d)
<1>. DEFINE g == Blocks(s, d)  h == <<f[1], f[2]>>  m == d + 1  n == Len(s)
<1>0. m \in Nat \ {0} /\ n \in Nat /\ n * m \in Nat /\ Len(f) = 2 + n * m  BY DEF Holds
<1>1. g \in Seq(Int) /\ Len(g) = n * m  BY BlocksWords
<1>2. \A k \in 1 .. n, i \in 0 .. d : g[(k - 1) * m + i + 1] = Word(s, k, i)  BY BlocksWords
<1>3. h \in Seq(Int) /\ Len(h) = 2 /\ h[1] = f[1] /\ h[2] = f[2]  BY <1>0
<1>4. ASSUME NEW p \in 1 .. n * m PROVE f[2 + p] = g[p]
  <2>1. p - 1 \in 0 .. n * m - 1  BY <1>0
  <2>2. PICK q \in 0 .. n - 1, i \in 0 .. m - 1 : p - 1 = q * m + i  BY <1>0, <2>1, Split
  <2>3. q + 1 \in 1 .. n /\ i \in 0 .. d /\ q * m \in Nat /\ q + 1 - 1 = q  BY <1>0, <2>2
  <2>4. g[(q + 1 - 1) * m + i + 1] = Word(s, q + 1, i)  BY <1>2, <2>3
  <2>5. f[2 + (q + 1 - 1) * m + i + 1] = Word(s, q + 1, i)  BY <2>3 DEF Holds
  <2>6. p = q * m + i + 1 /\ 2 + p = 2 + q * m + i + 1  BY <2>2, <2>3
  <2>. QED  BY <2>3, <2>4, <2>5, <2>6
<1>. HIDE DEF g, h
<1>5. h \o g \in Seq(Int) /\ Len(h \o g) = 2 + n * m
  <2>1. h \o g \in Seq(Int) /\ Len(h \o g) = Len(h) + Len(g)
    <3>. HIDE DEF n, m
    <3>. QED  BY ONLY <1>1, <1>3, ConcatProperties
  <2>. QED  BY <2>1, <1>0, <1>1, <1>3
<1>6. ASSUME NEW p \in 1 .. Len(f) PROVE f[p] = (h \o g)[p]
  <2>0. p \in 1 .. Len(h) + Len(g)  BY <1>0, <1>1, <1>3
  <2>1. (h \o g)[p] = IF p <= Len(h) THEN h[p] ELSE g[p - Len(h)]
    BY <2>0, <1>1, <1>3, ConcatProperties
  <2>2. CASE p <= 2
    <3>1. p = 1 \/ p = 2  BY <2>2, <2>0
    <3>. QED  BY <3>1, <2>1, <1>3
  <2>3. CASE p > 2
    <3>. DEFINE u == p - 2
    <3>1. u \in 1 .. n * m /\ 2 + u = p  BY <2>3, <1>0
    <3>2. f[2 + u] = g[u]  BY <3>1, <1>4
    <3>. HIDE DEF u
    <3>3. (h \o g)[p] = g[u]  BY <2>1, <2>3, <1>3 DEF u
    <3>. QED  BY <3>1, <3>2, <3>3
  <2>. QED  BY <2>2, <2>3, <2>0
<1>. QED  BY <1>0, <1>5, <1>6, SeqEqual DEF h, g

\* And a file of that form holds them.
LEMMA BlocksHold ==
  ASSUME NEW c \in Int, NEW d \in Nat, NEW s \in Seq(Ids)
  PROVE  LET f == <<c, d>> \o Blocks(s, d) IN
         f \in Seq(Int) /\ Len(f) >= 2 /\ f[1] = c /\ f[2] = d /\ Holds(f, s, d)
<1>. DEFINE g == Blocks(s, d)  h == <<c, d>>  m == d + 1  n == Len(s)  f == h \o g
<1>0. m \in Nat \ {0} /\ n \in Nat /\ n * m \in Nat  OBVIOUS
<1>1. g \in Seq(Int) /\ Len(g) = n * m  BY BlocksWords
<1>2. \A k \in 1 .. n, i \in 0 .. d : g[(k - 1) * m + i + 1] = Word(s, k, i)  BY BlocksWords
<1>3. h \in Seq(Int) /\ Len(h) = 2 /\ h[1] = c /\ h[2] = d  OBVIOUS
<1>. HIDE DEF g, h
<1>. HIDE DEF n, m
<1>a. f \in Seq(Int) /\ Len(f) = Len(h) + Len(g)
  BY ONLY <1>1, <1>3, ConcatProperties
<1>5. \A p \in 1 .. Len(h) + Len(g) : f[p] = IF p <= Len(h) THEN h[p] ELSE g[p - Len(h)]
  BY ONLY <1>1, <1>3, ConcatProperties
<1>. HIDE DEF f
<1>. USE DEF n, m
<1>4. f \in Seq(Int) /\ Len(f) = 2 + n * m  BY <1>a, <1>0, <1>1, <1>3
<1>6. f[1] = c /\ f[2] = d  BY <1>0, <1>1, <1>3, <1>5
<1>7. ASSUME NEW k \in 1 .. n, NEW i \in 0 .. d
      PROVE  f[2 + (k - 1) * m + i + 1] = Word(s, k, i)
  <2>. DEFINE q == k - 1  p == q * m + i + 1
  <2>1. q \in 0 .. n - 1 /\ i \in 0 .. m - 1 /\ q \in Nat  OBVIOUS
  <2>2. q * m \in Nat /\ q * m + i < n * m  BY <1>0, <2>1, Inside
  <2>3. p \in 1 .. n * m /\ 2 + q * m + i + 1 = 2 + p  BY <2>1, <2>2, <1>0
  <2>4. g[p] = Word(s, k, i)  BY <1>2
  <2>. HIDE DEF p
  <2>5. f[2 + p] = g[p]
    <3>. HIDE DEF n, m
    <3>. DEFINE z == 2 + p
    <3>1. z \in 1 .. Len(h) + Len(g) /\ ~ (z <= Len(h)) /\ z - Len(h) = p
      BY <2>3, <1>1, <1>3, <1>0
    <3>2. \A x \in 1 .. Len(h) + Len(g) : ~ (x <= Len(h)) => f[x] = g[x - Len(h)]
      BY ONLY <1>5
    <3>3. f[z] = g[z - Len(h)]
      <4>. HIDE DEF z
      <4>. QED  BY ONLY <3>1, <3>2
    <3>. QED  BY ONLY <3>1, <3>3
  <2>. QED  BY <2>3, <2>4, <2>5
<1>8. Holds(f, s, d)
  <2>. HIDE DEF f
  <2>. QED  BY <1>4, <1>7 DEF Holds
<1>. HIDE DEF f
<1>. QED  BY <1>4, <1>6, <1>8 DEF f, g, h

\* The ids of the records a process finds can be put in order: each goes where
\* the number of ids up to it says.
LEMMA AscendingExists ==
  ASSUME NEW S \in SUBSET Ids, IsFiniteSet(S)
  PROVE  /\ Ascending(S) \in [1 .. Cardinality(S) -> S]
         /\ \A i, j \in DOMAIN Ascending(S) : i < j => Ascending(S)[i] < Ascending(S)[j]
<1>. DEFINE n == Cardinality(S)
            Upto(x) == {y \in S : y <= x}
            rank == [x \in S |-> Cardinality(Upto(x))]
            s == [i \in 1 .. n |-> CHOOSE x \in S : rank[x] = i]
<1>0. n \in Nat  BY FS_CardinalityType
<1>a. \A x \in S : x \in Int  BY DEF Ids
<1>1. ASSUME NEW x \in S
      PROVE  /\ IsFiniteSet(Upto(x)) /\ rank[x] \in 1 .. n
  <2>1. Upto(x) \subseteq S /\ x \in Upto(x)  BY <1>a
  <2>2. IsFiniteSet(Upto(x)) /\ Cardinality(Upto(x)) <= n  BY <2>1, FS_Subset
  <2>3. Cardinality(Upto(x)) \in Nat  BY <2>2, FS_CardinalityType
  <2>4. Cardinality(Upto(x)) # 0  BY <2>1, <2>2, FS_EmptySet
  <2>. QED  BY <2>2, <2>3, <2>4, <1>0
<1>2. ASSUME NEW x \in S, NEW y \in S, x <= y PROVE rank[x] <= rank[y]
  <2>1. Upto(x) \subseteq Upto(y)  BY <1>2, <1>a
  <2>2. IsFiniteSet(Upto(y))  BY <1>1
  <2>3. Cardinality(Upto(x)) <= Cardinality(Upto(y))  BY <2>1, <2>2, FS_Subset
  <2>. QED  BY <2>3
<1>3. ASSUME NEW x \in S, NEW y \in S, x < y PROVE rank[x] # rank[y]
  <2>1. Upto(x) \subseteq Upto(y) /\ y \in Upto(y) /\ y \notin Upto(x)  BY <1>3, <1>a
  <2>2. IsFiniteSet(Upto(y))  BY <1>1
  <2>3. Cardinality(Upto(x)) = Cardinality(Upto(y)) => Upto(x) = Upto(y)
    BY <2>1, <2>2, FS_Subset
  <2>. QED  BY <2>1, <2>3
<1>. HIDE DEF rank, Upto, n
<1>4. rank \in [S -> 1 .. n]  BY <1>1 DEF rank
<1>5. rank \in Injection(S, 1 .. n)
  <2>1. ASSUME NEW x \in S, NEW y \in S, rank[x] = rank[y] PROVE x = y
    <3>1. x < y \/ y < x \/ x = y  BY <1>a
    <3>. QED  BY <2>1, <3>1, <1>3
  <2>. QED  BY <1>4, <2>1, Zenon DEF Injection, IsInjective
<1>6. IsFiniteSet(1 .. n) /\ Cardinality(1 .. n) = n
  <2>1. IsFiniteSet(1 .. n) /\ Cardinality(1 .. n) = IF 1 > n THEN 0 ELSE n - 1 + 1
    BY <1>0, FS_Interval
  <2>. QED  BY <2>1, <1>0
<1>7. rank \in Surjection(S, 1 .. n)  BY <1>5, <1>6, FS_Injection DEF n
<1>8. \A i \in 1 .. n : \E x \in S : rank[x] = i  BY <1>7, Zenon DEF Surjection
<1>9. \A i \in 1 .. n : s[i] \in S /\ rank[s[i]] = i
  <2>. TAKE i \in 1 .. n
  <2>1. s[i] = CHOOSE x \in S : rank[x] = i  OBVIOUS
  <2>. QED  BY <2>1, <1>8, Zenon
<1>10. s \in [1 .. n -> S]
  <2>1. s = [i \in 1 .. n |-> s[i]]  OBVIOUS
  <2>. HIDE DEF s
  <2>. QED  BY <2>1, <1>9, Zenon
<1>11. \A i, j \in 1 .. n : i < j => s[i] < s[j]
  <2>. SUFFICES ASSUME NEW i \in 1 .. n, NEW j \in 1 .. n, i < j PROVE s[i] < s[j]  OBVIOUS
  <2>. HIDE DEF s
  <2>1. s[i] \in S /\ s[j] \in S /\ rank[s[i]] = i /\ rank[s[j]] = j  BY <1>9
  <2>2. s[j] <= s[i] => rank[s[j]] <= rank[s[i]]  BY <2>1, <1>2
  <2>3. ~ (s[j] <= s[i])  BY <2>1, <2>2, <1>0
  <2>. QED  BY <2>1, <2>3, <1>a
<1>. HIDE DEF s
<1>12. \E a \in [1 .. n -> S] : \A i, j \in DOMAIN a : i < j => a[i] < a[j]
  <2>1. DOMAIN s = 1 .. n  BY <1>10
  <2>. QED  BY <2>1, <1>10, <1>11, Zenon
<1>. QED  BY <1>12, Zenon DEF Ascending, n

LEMMA Quotient ==
  ASSUME NEW m \in Nat \ {0}, NEW a \in Nat
  PROVE  a \div m \in Nat /\ a % m \in 0 .. m - 1
<1>. DEFINE n == a + 1
<1>1. n \in Nat /\ 1 <= m /\ n * 1 = n  OBVIOUS
<1>2. n * 1 <= n * m
  <2>1. 1 * n <= m * n  BY <1>1, TimesKeepsOrder
  <2>. QED  BY <2>1
<1>3. n * m \in Nat /\ a \in 0 .. n * m - 1  BY <1>1, <1>2
<1>4. PICK q \in 0 .. n - 1, r \in 0 .. m - 1 : a = q * m + r  BY <1>1, <1>3, Split
<1>5. q \in Nat  BY <1>4
<1>6. a \div m = q /\ a % m = r  BY <1>4, <1>5, Division
<1>. QED  BY <1>4, <1>5, <1>6

\* insert_data's buffer is of words, whatever fitted.
LEMMA BufferType ==
  ASSUME NEW first \in Ids, NEW n \in Nat, NEW d \in Nat, NEW h \in Nat, NEW done \in Nat
  PROVE  Buffer(first, n, d, h, done) \in Seq(Int) /\ Len(Buffer(first, n, d, h, done)) = n * (d + 1)
<1>. DEFINE k_(i) == (i - 1) \div (h + 1)  j_(i) == (i - 1) % (h + 1)
            at_(i) == IF j_(i) = 0 /\ (k_(i) < done \/ (k_(i) = done /\ done < n))
                      THEN IdWord(first + k_(i))
                      ELSE IF k_(i) < done /\ j_(i) \in 1 .. d THEN Component(first + k_(i))
                      ELSE Junk
<1>0. n * (d + 1) \in Nat /\ h + 1 \in Nat \ {0}  OBVIOUS
<1>1. ASSUME NEW i \in 1 .. n * (d + 1) PROVE at_(i) \in Int
  <2>1. k_(i) \in Nat
    <3>1. i - 1 \in Nat  BY <1>0
    <3>. QED  BY <3>1, <1>0, Quotient
  <2>2. first + k_(i) \in Ids  BY <2>1 DEF Ids
  <2>3. Junk \in Int  BY VecFileAssumption DEF Junk
  <2>. HIDE DEF k_, j_
  <2>. QED  BY <2>2, <2>3, WordTypes
<1>2. Buffer(first, n, d, h, done) = [i \in 1 .. n * (d + 1) |-> at_(i)]  BY DEF Buffer
<1>. HIDE DEF at_
<1>3. [i \in 1 .. n * (d + 1) |-> at_(i)] \in Seq(Int)  BY <1>0, <1>1, IsASeq
<1>. QED  BY <1>0, <1>2, <1>3

\* Of vectors with as many components as the header says, all fit.
LEMMA BufferWords ==
  ASSUME NEW first \in Ids, NEW n \in Nat, NEW d \in Nat,
         NEW k \in 1 .. n, NEW i \in 0 .. d
  PROVE  Buffer(first, n, d, d, n)[(k - 1) * (d + 1) + i + 1] =
           IF i = 0 THEN IdWord(first + (k - 1)) ELSE Component(first + (k - 1))
<1>. DEFINE m == d + 1  q == k - 1  p == q * m + i + 1
<1>1. q \in 0 .. n - 1 /\ i \in 0 .. m - 1 /\ q \in Nat /\ m \in Nat \ {0}  OBVIOUS
<1>2. q * m \in Nat /\ q * m + i < n * m /\ n * m \in Nat  BY <1>1, Inside
<1>3. (q * m + i) \div m = q /\ (q * m + i) % m = i  BY <1>1, Division
<1>4. p \in 1 .. n * m /\ p - 1 = q * m + i  BY <1>1, <1>2
<1>5. (p - 1) \div m = q /\ (p - 1) % m = i  BY <1>3, <1>4
<1>. HIDE DEF p, q
<1>6. Buffer(first, n, d, d, n)[p] =
        LET kk == (p - 1) \div m  j == (p - 1) % m IN
        IF j = 0 /\ (kk < n \/ (kk = n /\ n < n)) THEN IdWord(first + kk)
        ELSE IF kk < n /\ j \in 1 .. d THEN Component(first + kk) ELSE Junk
  BY <1>4 DEF Buffer
<1>7. Buffer(first, n, d, d, n)[p] = IF i = 0 THEN IdWord(first + q) ELSE Component(first + q)
  BY <1>1, <1>5, <1>6
<1>. QED  BY <1>7 DEF p, q

\* How many vectors fit.
Fits(n, d, h) == Smaller(n, (n * (d + 1)) \div (h + 1))

LEMMA FitsNumber ==
  ASSUME NEW n \in Nat, NEW d \in Nat, NEW h \in Nat
  PROVE  Fits(n, d, h) \in 0 .. n /\ (h = d => Fits(n, d, h) = n)
<1>1. n * (d + 1) \in Nat /\ h + 1 \in Nat \ {0}  OBVIOUS
<1>2. (n * (d + 1)) \div (h + 1) \in Nat  BY <1>1, Quotient
<1>3. Fits(n, d, h) \in 0 .. n  BY <1>2 DEF Fits, Smaller
<1>4. ASSUME h = d PROVE (n * (d + 1)) \div (h + 1) = n
  <2>1. (n * (d + 1) + 0) \div (d + 1) = n  BY Division
  <2>2. n * (d + 1) + 0 = n * (d + 1)  BY <1>1
  <2>. QED  BY <1>4, <2>1, <2>2
<1>. QED  BY <1>3, <1>4 DEF Fits, Smaller

\* Two runs of words, end to end.
LEMMA Joined ==
  ASSUME NEW S, NEW s \in Seq(S), NEW g \in Seq(S)
  PROVE  /\ s \o g \in Seq(S) /\ Len(s \o g) = Len(s) + Len(g)
         /\ \A i \in 1 .. Len(s) : (s \o g)[i] = s[i]
         /\ \A p \in 1 .. Len(g) : (s \o g)[Len(s) + p] = g[p]
<1>0. Len(s) \in Nat /\ Len(g) \in Nat  OBVIOUS
<1>1. /\ s \o g \in Seq(S) /\ Len(s \o g) = Len(s) + Len(g)
      /\ \A i \in 1 .. Len(s) + Len(g) : (s \o g)[i] = IF i <= Len(s) THEN s[i] ELSE g[i - Len(s)]
  BY ConcatProperties
<1>2. ASSUME NEW i \in 1 .. Len(s) PROVE (s \o g)[i] = s[i]
  <2>1. i \in 1 .. Len(s) + Len(g) /\ i <= Len(s)  BY <1>0
  <2>. QED  BY <2>1, <1>1
<1>3. ASSUME NEW p \in 1 .. Len(g) PROVE (s \o g)[Len(s) + p] = g[p]
  <2>. DEFINE u == Len(s) + p
  <2>1. u \in 1 .. Len(s) + Len(g) /\ ~ (u <= Len(s)) /\ u - Len(s) = p  BY <1>0
  <2>. HIDE DEF u
  <2>2. (s \o g)[u] = g[u - Len(s)]  BY <1>1, <2>1
  <2>. QED  BY <2>1, <2>2 DEF u
<1>. QED  BY <1>1, <1>2, <1>3

LEMMA JoinedWords ==
  ASSUME NEW s \in Seq(Int), NEW g \in Seq(Int)
  PROVE  /\ s \o g \in Seq(Int) /\ Len(s \o g) = Len(s) + Len(g)
         /\ \A i \in 1 .. Len(s) : (s \o g)[i] = s[i]
         /\ \A p \in 1 .. Len(g) : (s \o g)[Len(s) + p] = g[p]
BY Joined

LEMMA JoinedIds ==
  ASSUME NEW s \in Seq(Nat \ {0}), NEW g \in Seq(Nat \ {0})
  PROVE  /\ s \o g \in Seq(Nat \ {0}) /\ Len(s \o g) = Len(s) + Len(g)
         /\ \A i \in 1 .. Len(s) : (s \o g)[i] = s[i]
         /\ \A p \in 1 .. Len(g) : (s \o g)[Len(s) + p] = g[p]
BY Joined

\* What is behind the header.
LEMMA Behind ==
  ASSUME NEW f \in Seq(Int), Len(f) >= 2
  PROVE  /\ SubSeq(f, 3, Len(f)) \in Seq(Int) /\ Len(SubSeq(f, 3, Len(f))) = Len(f) - 2
         /\ \A i \in 1 .. Len(f) - 2 : SubSeq(f, 3, Len(f))[i] = f[i + 2]
<1>. DEFINE n == Len(f)
<1>0. n \in Int /\ n >= 2 /\ \A i \in 3 .. n : f[i] \in Int  OBVIOUS
<1>. HIDE DEF n
<1>1. /\ SubSeq(f, 3, n) \in Seq(Int)
      /\ Len(SubSeq(f, 3, n)) = IF 3 <= n THEN n - 3 + 1 ELSE 0
      /\ \A i \in 1 .. n - 3 + 1 : SubSeq(f, 3, n)[i] = f[3 + i - 1]
  BY ONLY <1>0, SubSeqProperties
<1>2. Len(SubSeq(f, 3, n)) = n - 2
  <2>1. (IF 3 <= n THEN n - 3 + 1 ELSE 0) = n - 2  BY <1>0
  <2>. QED  BY <1>1, <2>1
<1>3. ASSUME NEW i \in 1 .. n - 2 PROVE SubSeq(f, 3, n)[i] = f[i + 2]
  <2>1. i \in 1 .. n - 3 + 1 /\ 3 + i - 1 = i + 2  BY <1>0
  <2>2. SubSeq(f, 3, n)[i] = f[3 + i - 1]  BY <1>1, <2>1
  <2>. QED  BY <2>1, <2>2
<1>. QED  BY <1>1, <1>2, <1>3 DEF n

\* The header rewritten.
LEMMA Rewritten ==
  ASSUME NEW f \in Seq(Int), Len(f) >= 2, NEW c \in Int, NEW h \in Int,
         NEW r, r = <<c, h>> \o SubSeq(f, 3, Len(f))
  PROVE  /\ r \in Seq(Int) /\ Len(r) = Len(f) /\ r[1] = c /\ r[2] = h
         /\ \A i \in 3 .. Len(f) : r[i] = f[i]
<1>. DEFINE a == <<c, h>>  b == SubSeq(f, 3, Len(f))
<1>0. Len(f) \in Nat  OBVIOUS
<1>1. a \in Seq(Int) /\ Len(a) = 2 /\ a[1] = c /\ a[2] = h  OBVIOUS
<1>2. b \in Seq(Int) /\ Len(b) = Len(f) - 2 /\ \A i \in 1 .. Len(f) - 2 : b[i] = f[i + 2]
  BY Behind
<1>3. r = a \o b  OBVIOUS
<1>. HIDE DEF a, b
<1>4. /\ a \o b \in Seq(Int) /\ Len(a \o b) = Len(a) + Len(b)
      /\ \A i \in 1 .. Len(a) : (a \o b)[i] = a[i]
      /\ \A i \in 1 .. Len(b) : (a \o b)[Len(a) + i] = b[i]
  BY <1>1, <1>2, JoinedWords
<1>5. r \in Seq(Int) /\ Len(r) = Len(f)
  <2>1. r \in Seq(Int) /\ Len(r) = Len(a) + Len(b)  BY ONLY <1>3, <1>4
  <2>. QED  BY <2>1, <1>0, <1>1, <1>2
<1>6. r[1] = c /\ r[2] = h
  <2>1. 1 \in 1 .. Len(a) /\ 2 \in 1 .. Len(a)  BY <1>1
  <2>. QED  BY <1>1, <1>3, <1>4, <2>1
<1>7. ASSUME NEW i \in 3 .. Len(f) PROVE r[i] = f[i]
  <2>. DEFINE u == i - 2
  <2>1. u \in 1 .. Len(b) /\ Len(a) + u = i /\ u + 2 = i /\ u \in 1 .. Len(f) - 2
    BY <1>0, <1>1, <1>2
  <2>. HIDE DEF u
  <2>2. (a \o b)[Len(a) + u] = b[u]  BY <2>1, <1>4
  <2>3. b[u] = f[u + 2]  BY <2>1, <1>2
  <2>. QED  BY <1>3, <2>1, <2>2, <2>3
<1>. QED  BY <1>5, <1>6, <1>7

-----------------------------------------------------------------------------
(* The first inductive invariant: types, the count, and where the FILE stands *)
(* while a thread reads the header.                                           *)

OneThread == \E t : Threads = {t}

Places == {"idle", "seek", "tell", "count", "dims", "settle", "resume", "read",
           "attach", "answer"}

Jobs(got) == [what : {"none", "stats", "search", "page"}, base : {0}, count : Nat,
              dims : Nat, read : Nat, got : {got}, asked : Nat, seen : Nat]

FileType ==
  /\ words \in Seq(Int) /\ Len(words) >= 2 /\ words[2] \in Lengths \union {0}
  /\ conn \in [dims : Lengths \union {0}, file : BOOLEAN]
  /\ client \in Lengths \union {-1, 0}
  /\ kept \in Seq(Ids) /\ seq \in Nat /\ rows \subseteq Nat
  /\ page \in [skip : Nat, limit : Ids]
  /\ pc \in [Threads -> Places] /\ DOMAIN job = Threads
  /\ \A t \in Threads : job[t] \in Jobs(job[t].got)

\* A process that is not connected has no FILE and no call under way.
Resting == ~Connected => ~conn.file /\ \A t \in Threads : pc[t] = "idle"

\* Nobody else moves the FILE between a thread's seek and what it reads.
Positioned ==
  \A t \in Threads : /\ pc[t] \in {"tell", "count"} => at = 0
                     /\ pc[t] = "dims" => at = 1

Counted == words[1] = Len(kept) /\ Len(kept) <= MaxRecords

FileInv == FileType /\ Resting /\ Positioned /\ Counted

LEMMA FileInit == Init => FileInv
<1>. SUFFICES ASSUME Init PROVE FileInv  OBVIOUS
<1>1. PICK S \in SUBSET OldIds, d \in Lengths \union {0} :
        /\ S # {} => d # 0
        /\ kept = Ascending(S)
        /\ words = <<Len(kept), d>> \o Blocks(kept, d)
        /\ rows = S
        /\ seq \in {n \in {0} \union OldIds : \A id \in S : id <= n}
  BY DEF Init
<1>2. S \in SUBSET Ids /\ IsFiniteSet(S) /\ Cardinality(S) \in Nat /\ Cardinality(S) <= MaxRecords
  <2>1. IsFiniteSet(OldIds) /\ S \subseteq OldIds /\ OldIds \subseteq Ids /\ MaxRecords \in Nat
        /\ Cardinality(OldIds) <= MaxRecords
    BY <1>1, VecFileAssumption DEF Ids
  <2>2. IsFiniteSet(S) /\ Cardinality(S) <= Cardinality(OldIds)  BY <2>1, FS_Subset
  <2>3. Cardinality(S) \in Nat /\ Cardinality(OldIds) \in Nat  BY <2>1, <2>2, FS_CardinalityType
  <2>. QED  BY <2>1, <2>2, <2>3
<1>3. kept \in [1 .. Cardinality(S) -> S]  BY <1>1, <1>2, AscendingExists
<1>4. kept \in Seq(Ids) /\ Len(kept) = Cardinality(S)
  <2>1. kept \in [1 .. Cardinality(S) -> Ids]  BY <1>2, <1>3
  <2>. QED  BY <2>1, <1>2
<1>5. d \in Nat  BY <1>1, VecFileAssumption
<1>6. words \in Seq(Int) /\ Len(words) >= 2 /\ words[1] = Len(kept) /\ words[2] = d
  BY <1>1, <1>4, <1>5, BlocksHold
<1>7. FileType
  <2>1. seq \in Nat /\ rows \subseteq Nat  BY <1>1, <1>2, VecFileAssumption DEF Ids
  <2>2. words[2] \in Lengths \union {0}  BY <1>6
  <2>3. /\ conn \in [dims : Lengths \union {0}, file : BOOLEAN]
        /\ client \in Lengths \union {-1, 0}
        /\ page \in [skip : Nat, limit : Ids]
        /\ pc \in [Threads -> Places] /\ DOMAIN job = Threads
    BY DEF Init, Places, Ids
  <2>4. \A t \in Threads : job[t] \in Jobs(job[t].got)  BY DEF Init, Jobs, Idle
  <2>. QED  BY <1>4, <1>6, <2>1, <2>2, <2>3, <2>4 DEF FileType
<1>8. Resting /\ Positioned  BY DEF Init, Resting, Positioned
<1>. QED  BY <1>2, <1>4, <1>6, <1>7, <1>8 DEF FileInv, Counted

LEMMA JobStep ==
  ASSUME FileType, NEW t \in Threads, NEW g, NEW j \in Jobs(g), job' = [job EXCEPT ![t] = j]
  PROVE  /\ DOMAIN job' = Threads /\ job'[t] = j
         /\ \A u \in Threads : u # t => job'[u] = job[u]
         /\ \A u \in Threads : job'[u] \in Jobs(job'[u].got)
<1>1. DOMAIN job = Threads /\ \A u \in Threads : job[u] \in Jobs(job[u].got)
  BY DEF FileType
<1>2. DOMAIN job' = Threads /\ job'[t] = j /\ \A u \in Threads : u # t => job'[u] = job[u]
  BY <1>1
<1>3. j.got = g  BY DEF Jobs
<1>4. ASSUME NEW u \in Threads PROVE job'[u] \in Jobs(job'[u].got)
  <2>1. CASE u = t  BY <2>1, <1>2, <1>3
  <2>2. CASE u # t  BY <2>2, <1>1, <1>2
  <2>. QED  BY <2>1, <2>2
<1>. QED  BY <1>2, <1>4

LEMMA GoStep ==
  ASSUME FileType, NEW t \in Threads, NEW where \in Places, Go(t, where)
  PROVE  /\ pc' \in [Threads -> Places] /\ pc'[t] = where
         /\ \A u \in Threads : u # t => pc'[u] = pc[u]
BY DEF FileType, Go

\* The dimensions an insertion leaves are those of the header, or the vectors'.
LEMMA HeaderType ==
  ASSUME FileType, NEW d \in Lengths
  PROVE  HeaderDimensions(d) \in Lengths /\ Lengths \subseteq Nat \ {0}
BY VecFileAssumption DEF FileType, HeaderDimensions

\* What an insertion that reports n vectors, done of them, makes of the file.
LEMMA Inserted ==
  ASSUME FileInv, NEW d \in Lengths, NEW n \in 1 .. 2,
         Insert(d, n), Fits(n, d, HeaderDimensions(d)) > 0
  PROVE  LET h == HeaderDimensions(d)
             done == Fits(n, d, h)
             buffer == Buffer(seq + 1, n, d, h, done)
         IN  /\ done \in 1 .. n
             /\ words' \in Seq(Int) /\ Len(words') = Len(words) + n * (d + 1)
             /\ words'[1] = words[1] + done /\ words'[2] = IF h # d THEN d ELSE h
             /\ \A i \in 3 .. Len(words) : words'[i] = words[i]
             /\ \A p \in 1 .. n * (d + 1) : words'[Len(words) + p] = buffer[p]
             /\ kept' \in Seq(Ids) /\ Len(kept') = Len(kept) + done
             /\ \A k \in 1 .. Len(kept) : kept'[k] = kept[k]
             /\ \A k \in 1 .. done : kept'[Len(kept) + k] = seq + k
             /\ seq' = seq + Smaller(n, done + 1) /\ seq' \in Nat
             /\ rows' = rows \union (seq + 1 .. seq')
<1>. DEFINE h == HeaderDimensions(d)
            done == Fits(n, d, h)
            buffer == Buffer(seq + 1, n, d, h, done)
            w == IF h # d THEN d ELSE h
<1>1. h \in Nat /\ d \in Nat /\ w \in Int  BY HeaderType DEF FileInv
<1>b. done > 0 /\ n \in Nat  OBVIOUS
<1>. HIDE DEF h
<1>2. done \in 0 .. n /\ done > 0 /\ done = Smaller(n, (n * (d + 1)) \div (h + 1))
  <2>1. done \in 0 .. n  BY <1>1, <1>b, FitsNumber
  <2>. QED  BY <1>b, <2>1 DEF Fits
<1>3. done \in 1 .. n /\ n \in Nat  BY <1>2
<1>4. /\ words' = <<NewCount(n, done), w>> \o SubSeq(words, 3, Len(words)) \o buffer
      /\ kept' = kept \o [i \in 1 .. done |-> seq + i]
      /\ seq' = seq + Smaller(n, done + 1)
      /\ rows' = rows \union (seq + 1 .. seq')
  <2>. HIDE DEF buffer, done
  <2>. QED  BY <1>2 DEF Insert, h, w, buffer, done, Fits
<1>. HIDE DEF done
<1>5. /\ words \in Seq(Int) /\ Len(words) >= 2 /\ words[1] = Len(kept) /\ kept \in Seq(Ids)
      /\ seq \in Nat /\ rows \subseteq Nat
  BY DEF FileInv, FileType, Counted
<1>6. buffer \in Seq(Int) /\ Len(buffer) = n * (d + 1)
  <2>. DEFINE first == seq + 1
  <2>1. first \in Ids /\ done \in Nat /\ n \in Nat /\ d \in Nat /\ h \in Nat
    BY <1>1, <1>3, <1>5 DEF Ids
  <2>. HIDE DEF first
  <2>2. Buffer(first, n, d, h, done) \in Seq(Int)  BY ONLY <2>1, BufferType
  <2>3. Len(Buffer(first, n, d, h, done)) = n * (d + 1)  BY ONLY <2>1, BufferType
  <2>. QED  BY <2>2, <2>3 DEF first
<1>. HIDE DEF buffer, w
<1>7. NewCount(n, done) = words[1] + done /\ words[1] + done \in Int
  BY <1>3, <1>5 DEF NewCount
<1>8. /\ words' \in Seq(Int) /\ Len(words') = Len(words) + Len(buffer)
      /\ words'[1] = words[1] + done /\ words'[2] = w
      /\ \A i \in 3 .. Len(words) : words'[i] = words[i]
      /\ \A p \in 1 .. Len(buffer) : words'[Len(words) + p] = buffer[p]
  <2>. DEFINE c == NewCount(n, done)  r == <<c, w>> \o SubSeq(words, 3, Len(words))
  <2>1. c \in Int /\ c = words[1] + done /\ w \in Int /\ buffer \in Seq(Int)  BY <1>1, <1>6, <1>7
  <2>2. words' = r \o buffer  BY <1>4
  <2>3. words \in Seq(Int) /\ Len(words) >= 2  BY <1>5
  <2>. HIDE DEF c
  <2>4. r = <<c, w>> \o SubSeq(words, 3, Len(words))  OBVIOUS
  <2>. HIDE DEF r
  <2>5. /\ r \in Seq(Int) /\ Len(r) = Len(words) /\ r[1] = c /\ r[2] = w
        /\ \A i \in 3 .. Len(words) : r[i] = words[i]
    BY ONLY <2>1, <2>3, <2>4, Rewritten
  <2>6. /\ r \o buffer \in Seq(Int) /\ Len(r \o buffer) = Len(r) + Len(buffer)
        /\ \A i \in 1 .. Len(r) : (r \o buffer)[i] = r[i]
        /\ \A p \in 1 .. Len(buffer) : (r \o buffer)[Len(r) + p] = buffer[p]
    BY ONLY <2>1, <2>5, JoinedWords
  <2>7. \A i \in 1 .. Len(words) : words'[i] = r[i]  BY <2>2, <2>5, <2>6
  <2>8. 1 \in 1 .. Len(words) /\ 2 \in 1 .. Len(words)  BY <2>3
  <2>9. \A i \in 3 .. Len(words) : words'[i] = words[i]  BY <2>3, <2>5, <2>7
  <2>10. \A p \in 1 .. Len(buffer) : words'[Len(words) + p] = buffer[p]  BY <2>2, <2>5, <2>6
  <2>11. words' \in Seq(Int) /\ Len(words') = Len(words) + Len(buffer)  BY <2>2, <2>5, <2>6
  <2>. QED  BY <2>1, <2>5, <2>7, <2>8, <2>9, <2>10, <2>11
<1>. DEFINE new == [i \in 1 .. done |-> seq + i]
<1>9. new \in Seq(Ids) /\ Len(new) = done /\ \A k \in 1 .. done : new[k] = seq + k
  <2>1. \A i \in 1 .. done : seq + i \in Ids  BY <1>3, <1>5 DEF Ids
  <2>. QED  BY <1>3, <2>1
<1>. HIDE DEF new
<1>10. kept' = kept \o new  BY <1>4 DEF new
<1>11. /\ kept' \in Seq(Ids) /\ Len(kept') = Len(kept) + Len(new)
       /\ \A k \in 1 .. Len(kept) : kept'[k] = kept[k]
       /\ \A k \in 1 .. Len(new) : kept'[Len(kept) + k] = new[k]
  BY <1>5, <1>9, <1>10, JoinedIds DEF Ids
<1>14. seq' \in Nat  BY <1>3, <1>4, <1>5 DEF Smaller
<1>. QED
  BY <1>3, <1>4, <1>6, <1>8, <1>9, <1>11, <1>14 DEF h, done, buffer, w

\* The first invariant is kept: by a connection or a restart, by an insertion,
\* and by each step of the thread that reads.
LEMMA FileStepWriters ==
  ASSUME FileInv,
         \/ \E d \in Lengths \union {0} : Connect(d)
         \/ ConnectAgain \/ Restart
         \/ \E d \in Lengths, n \in 1 .. 2 : Insert(d, n)
  PROVE  FileInv'
<1>0. /\ words \in Seq(Int) /\ Len(words) >= 2 /\ words[2] \in Lengths \union {0}
      /\ conn \in [dims : Lengths \union {0}, file : BOOLEAN]
      /\ client \in Lengths \union {-1, 0} /\ kept \in Seq(Ids) /\ seq \in Nat /\ rows \subseteq Nat
      /\ page \in [skip : Nat, limit : Ids]
      /\ pc \in [Threads -> Places] /\ DOMAIN job = Threads
      /\ \A t \in Threads : job[t] \in Jobs(job[t].got)
      /\ words[1] = Len(kept) /\ Len(kept) <= MaxRecords
  BY DEF FileInv, FileType, Counted
<1>a. Lengths \subseteq Nat \ {0} /\ MaxRecords \in Nat  BY VecFileAssumption
<1>1. ASSUME NEW d \in Lengths \union {0}, Connect(d) PROVE FileInv'
  <2>1. \A t \in Threads : pc[t] = "idle"  BY <1>1 DEF Connect, FileInv, Resting
  <2>2. /\ words' \in Seq(Int) /\ Len(words') >= 2 /\ words'[1] = words[1]
        /\ words'[2] \in Lengths \union {0}
    <3>1. CASE d \notin {0, words[2]}
      <4>1. words' = Put(words, 1, d)  BY <3>1, <1>1 DEF Connect
      <4>2. d \in Int  BY <1>a
      <4>3. Put(words, 1, d) \in Seq(Int)  BY <4>2, <1>0, PutDimensions
      <4>4. Len(Put(words, 1, d)) = Len(words)  BY <4>2, <1>0, PutDimensions
      <4>5. Put(words, 1, d)[2] = d  BY <4>2, <1>0, PutDimensions
      <4>6. Put(words, 1, d)[1] = words[1]
        <5>1. 1 \in 1 .. Len(words) /\ 1 # 2  BY <1>0
        <5>. QED  BY <5>1, <4>2, <1>0, PutDimensions
      <4>. QED  BY <4>1, <4>3, <4>4, <4>5, <4>6, <1>0
    <3>2. CASE d \in {0, words[2]}
      <4>1. words' = words  BY <3>2, <1>1 DEF Connect
      <4>. QED  BY <4>1, <1>0
    <3>. QED  BY <3>1, <3>2
  <2>3. /\ conn' \in [dims : Lengths \union {0}, file : BOOLEAN]
        /\ client' \in Lengths \union {-1, 0}
        /\ UNCHANGED <<rows, seq, page, pc, job, kept>>
    BY <1>0, <1>1 DEF Connect
  <2>4. FileType'  BY <1>0, <2>2, <2>3 DEF FileType
  <2>5. Resting'
    <3>1. client' = words[2]  BY <1>1 DEF Connect
    <3>2. words[2] # -1  BY <1>0, <1>a
    <3>. QED  BY <3>1, <3>2 DEF Resting, Connected
  <2>6. Positioned'  BY <2>1, <2>3 DEF Positioned
  <2>7. Counted'  BY <1>0, <2>2, <2>3 DEF Counted
  <2>. QED  BY <2>4, <2>5, <2>6, <2>7 DEF FileInv
<1>2. ASSUME ConnectAgain PROVE FileInv'
  <2>1. /\ client' \in Lengths \union {-1, 0} /\ client' # -1
        /\ UNCHANGED <<words, conn, at, rows, seq, page, pc, job, kept>>
    BY <1>0, <1>2, <1>a DEF ConnectAgain
  <2>. QED  BY <2>1 DEF FileInv, FileType, Resting, Positioned, Counted, Connected
<1>3. ASSUME Restart PROVE FileInv'
  <2>1. /\ client' = -1 /\ conn' = [dims |-> 0, file |-> FALSE]
        /\ \A t \in Threads : pc[t] = "idle"
        /\ UNCHANGED <<words, rows, seq, page, pc, job, kept>>
    BY <1>3 DEF Restart
  <2>. QED  BY <2>1 DEF FileInv, FileType, Resting, Positioned, Counted, Connected
<1>4. ASSUME NEW d \in Lengths, NEW n \in 1 .. 2, Insert(d, n) PROVE FileInv'
  <2>. DEFINE h == HeaderDimensions(d)  done == Fits(n, d, h)
  <2>1. \A t \in Threads : pc[t] \in {"idle", "resume"}  BY <1>4 DEF Insert, Quiet
  <2>2. /\ Connected /\ client' = (IF words[2] = 0 THEN d ELSE client)
        /\ UNCHANGED <<page, pc, job>> /\ Len(kept) + n <= MaxRecords
    BY <1>4 DEF Insert
  <2>3. h \in Lengths  BY HeaderType DEF FileInv
  <2>4. client' \in Lengths \union {-1, 0} /\ client' # -1
    <3>1. d # -1 /\ client # -1  BY <1>a, <2>2 DEF Connected
    <3>. QED  BY <3>1, <1>0, <2>2
  <2>5. done \in 0 .. n
    <3>1. d \in Nat /\ n \in Nat  BY <1>a
    <3>. HIDE DEF h
    <3>2. h \in Nat  BY <1>a, <2>3
    <3>. QED  BY <3>1, <3>2, FitsNumber
  <2>6. CASE done > 0
    <3>1. /\ done \in 1 .. n
          /\ words' \in Seq(Int) /\ Len(words') = Len(words) + n * (d + 1)
          /\ words'[1] = words[1] + done /\ words'[2] = IF h # d THEN d ELSE h
          /\ kept' \in Seq(Ids) /\ Len(kept') = Len(kept) + done
          /\ seq' \in Nat /\ rows' = rows \union (seq + 1 .. seq')
      BY <1>4, <2>6, Inserted
    <3>2. conn' = [conn EXCEPT !.file = TRUE]  BY <1>4, <2>6 DEF Insert, Fits
    <3>. HIDE DEF h, done
    <3>3. Len(words') >= 2
      <4>1. n * (d + 1) \in Nat  BY <1>a
      <4>. QED  BY <4>1, <3>1, <1>0
    <3>4. words'[2] \in Lengths \union {0} /\ rows' \subseteq Nat  BY <1>0, <2>3, <3>1
    <3>5. FileType'  BY <1>0, <2>2, <2>4, <3>1, <3>2, <3>3, <3>4 DEF FileType
    <3>6. Resting' /\ Positioned'  BY <2>1, <2>2, <2>4 DEF Resting, Positioned, Connected
    <3>7. Counted'  BY <1>0, <1>a, <2>2, <3>1 DEF Counted
    <3>. QED  BY <3>5, <3>6, <3>7 DEF FileInv
  <2>7. CASE ~ (done > 0)
    <3>1. /\ words' = [words EXCEPT ![2] = h] /\ conn' = [conn EXCEPT !.file = FALSE]
          /\ UNCHANGED <<kept, seq, rows>>
      BY <1>4, <2>7 DEF Insert, Fits
    <3>. HIDE DEF h, done
    <3>2. /\ words' \in Seq(Int) /\ Len(words') >= 2 /\ words'[1] = words[1]
          /\ words'[2] \in Lengths \union {0}
      BY <1>0, <1>a, <2>3, <3>1
    <3>3. FileType'  BY <1>0, <2>2, <2>4, <3>1, <3>2 DEF FileType
    <3>4. Resting' /\ Positioned'  BY <2>1, <2>2, <2>4 DEF Resting, Positioned, Connected
    <3>5. Counted'  BY <1>0, <3>1, <3>2 DEF Counted
    <3>. QED  BY <3>3, <3>4, <3>5 DEF FileInv
  <2>. QED  BY <2>6, <2>7
<1>. QED  BY <1>1, <1>2, <1>3, <1>4

LEMMA ReaderKeeps ==
  ASSUME NEW t \in Threads, Reader(t)
  PROVE  UNCHANGED <<conn, client, rows, seq, kept, agreed>>
BY DEF Reader, Search, Page, Seek, Tell, ReadCount, ReadDims, Settle, Resume, ReadChunk,
       ReadAll, ReadPage, Attach, Return, index, Header

\* The header is there to read, and read at its place.
LEMMA CountRead ==
  ASSUME FileInv, NEW t \in Threads, ReadCount(t)
  PROVE  /\ job' = [job EXCEPT ![t] = [job[t] EXCEPT !.count = Len(kept)]]
         /\ at' = 1 /\ words' = words
<1>1. /\ at = 0 /\ Len(words) >= 2 /\ words \in Seq(Int)
      /\ words[1] = Len(kept) /\ Len(kept) <= MaxRecords /\ kept \in Seq(Ids)
  BY DEF FileInv, FileType, Positioned, Counted, ReadCount
<1>2. at < Len(words) /\ at + 1 = 1  BY <1>1
<1>3. AsInt(words[1]) = Len(kept)
  <2>1. Len(kept) \in 0 .. Huge - 1  BY <1>1, VecFileAssumption
  <2>. QED  BY <1>1, <2>1 DEF AsInt
<1>4. /\ job' = [job EXCEPT ![t].count = AsInt(words[1])]
      /\ at' = 1 /\ words' = words
  BY <1>2 DEF ReadCount
<1>. QED  BY <1>3, <1>4

LEMMA DimsRead ==
  ASSUME FileInv, NEW t \in Threads, ReadDims(t)
  PROVE  /\ job' = [job EXCEPT ![t] = [job[t] EXCEPT !.dims = words[2]]]
         /\ at' = 2
         /\ words' = IF Rewrites(words[2]) THEN Put(words, 1, conn.dims) ELSE words
<1>1. /\ at = 1 /\ Len(words) >= 2 /\ words \in Seq(Int) /\ words[2] \in Lengths \union {0}
      /\ job[t].base = 0
  BY DEF FileInv, FileType, Positioned, ReadDims, Jobs
<1>2. ~ (at >= Len(words)) /\ at + 1 = 2 /\ job[t].base + 1 = 1 /\ job[t].base + 2 = 2  BY <1>1
<1>3. AsInt(words[2]) = words[2]
  <2>1. words[2] \in 0 .. Huge - 1  BY <1>1, VecFileAssumption
  <2>. QED  BY <2>1 DEF AsInt
<1>4. Smaller(1, Len(words)) = 1  BY <1>1 DEF Smaller
<1>5. /\ job' = [job EXCEPT ![t].dims = words[2]]
      /\ IF Rewrites(words[2]) THEN words' = Put(words, 1, conn.dims) /\ at' = 2
         ELSE at' = 2 /\ words' = words
  BY <1>2, <1>3, <1>4 DEF ReadDims
<1>. QED  BY <1>5

LEMMA FileStepReader ==
  ASSUME OneThread, FileInv, NEW t \in Threads, Reader(t)
  PROVE  FileInv'
<1>0. /\ words \in Seq(Int) /\ Len(words) >= 2 /\ words[2] \in Lengths \union {0}
      /\ conn \in [dims : Lengths \union {0}, file : BOOLEAN]
      /\ client \in Lengths \union {-1, 0} /\ kept \in Seq(Ids) /\ seq \in Nat /\ rows \subseteq Nat
      /\ page \in [skip : Nat, limit : Ids]
      /\ pc \in [Threads -> Places] /\ DOMAIN job = Threads
      /\ \A u \in Threads : job[u] \in Jobs(job[u].got)
      /\ words[1] = Len(kept) /\ Len(kept) <= MaxRecords
  BY DEF FileInv, FileType, Counted
<1>a. Lengths \subseteq Nat \ {0} /\ MaxRecords \in Nat  BY VecFileAssumption
<1>b. FileType  BY DEF FileInv
<1>c. \A u \in Threads : u = t  BY DEF OneThread
<1>d. UNCHANGED <<conn, client, rows, seq, kept, agreed>>  BY ReaderKeeps
\* Who has a call under way, or begins one, is connected.
<1>e. Resting'
  <2>1. pc[t] # "idle" \/ conn.file
    BY DEF Reader, Search, Page, Seek, Tell, ReadCount, ReadDims, Settle, Resume, ReadChunk,
           ReadAll, ReadPage, Attach, Return
  <2>2. Connected  BY <2>1 DEF FileInv, Resting
  <2>. QED  BY <1>d, <2>2 DEF Resting, Connected
\* What is left to show of an action that leaves the words alone.
<1>f. ASSUME NEW where \in Places, Go(t, where), words' = words,
             page' \in [skip : Nat, limit : Ids],
             where \in {"tell", "count"} => at' = 0, where = "dims" => at' = 1,
             DOMAIN job' = Threads, \A u \in Threads : job'[u] \in Jobs(job'[u].got)
      PROVE  FileInv'
  <2>1. pc' \in [Threads -> Places] /\ pc'[t] = where  BY <1>b, <1>f, GoStep
  <2>2. FileType'  BY <1>0, <1>d, <1>f, <2>1 DEF FileType
  <2>3. Positioned'  BY <1>c, <1>f, <2>1 DEF Positioned
  <2>4. Counted'  BY <1>0, <1>d, <1>f DEF Counted
  <2>. QED  BY <1>e, <2>2, <2>3, <2>4 DEF FileInv
<1>g. job[t] \in Jobs(job[t].got)  BY <1>0
<1>h. ASSUME NEW j, NEW g, j \in Jobs(g), job' = [job EXCEPT ![t] = j]
      PROVE  DOMAIN job' = Threads /\ \A u \in Threads : job'[u] \in Jobs(job'[u].got)
  BY <1>b, <1>h, JobStep
<1>1. ASSUME Search(t) PROVE FileInv'
  <2>. DEFINE j == [job[t] EXCEPT !.what = "search"]
  <2>1. j \in Jobs(job[t].got)  BY <1>g DEF Jobs
  <2>2. job' = [job EXCEPT ![t] = j]  BY <1>1 DEF Search
  <2>. HIDE DEF j
  <2>3. DOMAIN job' = Threads /\ \A u \in Threads : job'[u] \in Jobs(job'[u].got)
    BY <2>1, <2>2, <1>h
  <2>4. Go(t, "seek") /\ words' = words /\ page' = page /\ "seek" \in Places
    BY <1>1 DEF Search, index, Places
  <2>. QED  BY <1>0, <1>f, <2>3, <2>4
<1>2. ASSUME NEW config \in Configs, Page(t, config) PROVE FileInv'
  <2>. DEFINE j == [job[t] EXCEPT !.what = "stats", !.asked = config.limit]
  <2>0. config \in [skip : Nat, limit : Ids]  BY VecFileAssumption DEF Configs, Ids
  <2>1. j \in Jobs(job[t].got)  BY <1>g, <2>0 DEF Jobs, Ids
  <2>2. job' = [job EXCEPT ![t] = j]  BY <1>2 DEF Page
  <2>. HIDE DEF j
  <2>3. DOMAIN job' = Threads /\ \A u \in Threads : job'[u] \in Jobs(job'[u].got)
    BY <2>1, <2>2, <1>h
  <2>4. Go(t, "seek") /\ words' = words /\ page' = config /\ "seek" \in Places
    BY <1>2 DEF Page, index, Places
  <2>. QED  BY <2>0, <1>f, <2>3, <2>4
<1>3. ASSUME Seek(t) PROVE FileInv'
  <2>1. Go(t, "tell") /\ words' = words /\ page' = page /\ "tell" \in Places /\ job' = job /\ at' = 0
    BY <1>3 DEF Seek, index, Places
  <2>. QED  BY <1>0, <1>f, <2>1
<1>4. ASSUME Tell(t) PROVE FileInv'
  <2>. DEFINE j == [job[t] EXCEPT !.base = at]
  <2>0. at = 0  BY <1>4 DEF Tell, FileInv, Positioned
  <2>1. j \in Jobs(job[t].got)  BY <1>g, <2>0 DEF Jobs
  <2>2. job' = [job EXCEPT ![t] = j]  BY <1>4 DEF Tell
  <2>. HIDE DEF j
  <2>3. DOMAIN job' = Threads /\ \A u \in Threads : job'[u] \in Jobs(job'[u].got)
    BY <2>1, <2>2, <1>h
  <2>4. Go(t, "count") /\ words' = words /\ page' = page /\ "count" \in Places /\ at' = 0
    BY <1>4, <2>0 DEF Tell, index, Places
  <2>. QED  BY <1>0, <1>f, <2>3, <2>4
<1>5. ASSUME ReadCount(t) PROVE FileInv'
  <2>. DEFINE j == [job[t] EXCEPT !.count = Len(kept)]
  <2>1. j \in Jobs(job[t].got)
    <3>1. Len(kept) \in Nat  BY <1>0
    <3>. QED  BY <1>g, <3>1 DEF Jobs
  <2>2. job' = [job EXCEPT ![t] = j] /\ at' = 1 /\ words' = words  BY <1>5, CountRead
  <2>. HIDE DEF j
  <2>3. DOMAIN job' = Threads /\ \A u \in Threads : job'[u] \in Jobs(job'[u].got)
    BY <2>1, <2>2, <1>h
  <2>4. Go(t, "dims") /\ page' = page /\ "dims" \in Places
    BY <1>5 DEF ReadCount, Places
  <2>. QED  BY <1>0, <1>f, <2>2, <2>3, <2>4
<1>6. ASSUME ReadDims(t) PROVE FileInv'
  <2>. DEFINE j == [job[t] EXCEPT !.dims = words[2]]
  <2>1. j \in Jobs(job[t].got)
    <3>1. words[2] \in Nat  BY <1>0, <1>a
    <3>. QED  BY <1>g, <3>1 DEF Jobs
  <2>2. /\ job' = [job EXCEPT ![t] = j] /\ at' = 2
        /\ words' = IF Rewrites(words[2]) THEN Put(words, 1, conn.dims) ELSE words
    BY <1>6, DimsRead
  <2>. HIDE DEF j
  <2>3. DOMAIN job' = Threads /\ \A u \in Threads : job'[u] \in Jobs(job'[u].got)
    BY <2>1, <2>2, <1>h
  <2>4. Go(t, "settle") /\ page' = page /\ "settle" \in Places
    BY <1>6 DEF ReadDims, Places
  <2>5. pc' \in [Threads -> Places] /\ pc'[t] = "settle"  BY <1>b, <2>4, GoStep
  <2>6. /\ words' \in Seq(Int) /\ Len(words') >= 2 /\ words'[1] = words[1]
        /\ words'[2] \in Lengths \union {0}
    <3>1. CASE Rewrites(words[2])
      <4>1. words' = Put(words, 1, conn.dims)  BY <3>1, <2>2
      <4>2. conn.dims \in Lengths \union {0} /\ conn.dims \in Int
        <5>1. conn.dims \in Lengths \union {0}  BY <1>0
        <5>2. \A x \in Lengths \union {0} : x \in Int  BY <1>a
        <5>. QED  BY <5>1, <5>2
      <4>3. Put(words, 1, conn.dims) \in Seq(Int)  BY <4>2, <1>0, PutDimensions
      <4>4. Len(Put(words, 1, conn.dims)) = Len(words)  BY <4>2, <1>0, PutDimensions
      <4>5. Put(words, 1, conn.dims)[2] = conn.dims  BY <4>2, <1>0, PutDimensions
      <4>6. Put(words, 1, conn.dims)[1] = words[1]
        <5>1. 1 \in 1 .. Len(words) /\ 1 # 2  BY <1>0
        <5>. QED  BY <5>1, <4>2, <1>0, PutDimensions
      <4>. QED  BY <4>1, <4>2, <4>3, <4>4, <4>5, <4>6, <1>0
    <3>2. CASE ~ Rewrites(words[2])  BY <3>2, <2>2, <1>0
    <3>. QED  BY <3>1, <3>2
  <2>7. FileType'  BY <1>0, <1>d, <2>3, <2>4, <2>5, <2>6 DEF FileType
  <2>8. Positioned'  BY <1>c, <2>5 DEF Positioned
  <2>9. Counted'  BY <1>0, <1>d, <2>6 DEF Counted
  <2>. QED  BY <1>e, <2>7, <2>8, <2>9 DEF FileInv
<1>7. ASSUME Settle(t) PROVE FileInv'
  <2>1. /\ words' = words /\ page' = page /\ job' = job
        /\ Go(t, "resume") \/ Go(t, "answer") \/ Go(t, "read")
    BY <1>7 DEF Settle, index
  <2>2. "resume" \in Places /\ "answer" \in Places /\ "read" \in Places  BY DEF Places
  <2>. QED  BY <1>0, <1>f, <2>1, <2>2
<1>8. ASSUME Resume(t) PROVE FileInv'
  <2>. DEFINE count == job[t].count
  <2>1. words' = words  BY <1>8 DEF Resume, index
  <2>2. CASE count = 0 \/ page.skip > count
    <3>1. Go(t, "answer") /\ page' = page /\ job' = job /\ "answer" \in Places
      BY <1>8, <2>2 DEF Resume, Places
    <3>. QED  BY <1>0, <1>f, <2>1, <3>1
  <2>3. CASE ~ (count = 0 \/ page.skip > count)
    <3>. DEFINE j == [job[t] EXCEPT !.what = "page", !.seen = count]
    <3>0. count \in Nat /\ count # 0 /\ page \in [skip : Nat, limit : Ids]
      BY <1>0, <1>g, <2>3 DEF Jobs
    <3>1. j \in Jobs(job[t].got)  BY <1>g, <3>0 DEF Jobs
    <3>2. /\ job' = [job EXCEPT ![t] = j] /\ Go(t, "seek") /\ "seek" \in Places
          /\ page' = [page EXCEPT !.limit = Clamped(count)]
      BY <1>8, <2>3 DEF Resume, Places
    <3>. HIDE DEF j, count
    <3>3. DOMAIN job' = Threads /\ \A u \in Threads : job'[u] \in Jobs(job'[u].got)
      BY <3>1, <3>2, <1>h
    <3>4. Clamped(count) \in Ids  BY <3>0 DEF Clamped, Smaller, Ids
    <3>5. page' \in [skip : Nat, limit : Ids]  BY <3>0, <3>2, <3>4
    <3>. QED  BY <1>f, <2>1, <3>2, <3>3, <3>5
  <2>. QED  BY <2>2, <2>3
<1>9. ASSUME ReadChunk(t) PROVE FileInv'
  <2>. DEFINE n == Chunk(job[t].count - job[t].read)  d == job[t].dims
              got == IF Reaches(at, n, d) THEN job[t].got \o RecordsAt(at, n, d) ELSE job[t].got
              read == job[t].read + BufferSize
              j == [job[t] EXCEPT !.read = read, !.got = got]
  <2>0. pc[t] = "read" /\ words' = words /\ page' = page /\ pc' = pc
        /\ job' = [job EXCEPT ![t] = j]
    BY <1>9 DEF ReadChunk, index
  <2>. HIDE DEF got
  <2>1. read \in Nat  BY <1>g, VecFileAssumption DEF Jobs
  <2>. HIDE DEF read
  <2>2. j \in Jobs(got)  BY <1>g, <2>1 DEF Jobs
  <2>. HIDE DEF j
  <2>3. DOMAIN job' = Threads /\ \A u \in Threads : job'[u] \in Jobs(job'[u].got)
    BY <2>0, <2>2, <1>h
  <2>4. FileType'  BY <1>0, <1>d, <2>0, <2>3 DEF FileType
  <2>5. Positioned'  BY <1>c, <2>0 DEF Positioned
  <2>6. Counted'  BY <1>0, <1>d, <2>0 DEF Counted
  <2>. QED  BY <1>e, <2>4, <2>5, <2>6 DEF FileInv
<1>10. ASSUME ReadAll(t) PROVE FileInv'
  <2>1. Go(t, "attach") /\ words' = words /\ page' = page /\ job' = job /\ "attach" \in Places
    BY <1>10 DEF ReadAll, index, Places
  <2>. QED  BY <1>0, <1>f, <2>1
\* An answer that only puts what was read into the locals.
<1>i. ASSUME NEW got, NEW where \in {"attach", "answer"}, Go(t, where),
             words' = words, page' = page, job' = [job EXCEPT ![t].got = got]
      PROVE  FileInv'
  <2>. DEFINE j == [job[t] EXCEPT !.got = got]
  <2>1. j \in Jobs(got)  BY <1>g DEF Jobs
  <2>2. job' = [job EXCEPT ![t] = j] /\ where \in Places  BY <1>i DEF Places
  <2>. HIDE DEF j
  <2>3. DOMAIN job' = Threads /\ \A u \in Threads : job'[u] \in Jobs(job'[u].got)
    BY <2>1, <2>2, <1>h
  <2>. QED  BY <1>0, <1>f, <1>i, <2>2, <2>3
<1>11. ASSUME ReadPage(t) PROVE FileInv'
  <2>. DEFINE d == job[t].dims  n == Smaller(page.limit, job[t].count - page.skip)
              got == RecordsAt(PageStart(d), n, d)
  <2>1. words' = words /\ page' = page  BY <1>11 DEF ReadPage, index
  <2>2. CASE Reaches(PageStart(d), n, d)
    <3>1. Go(t, "attach") /\ job' = [job EXCEPT ![t].got = got]  BY <1>11, <2>2 DEF ReadPage
    <3>. HIDE DEF got
    <3>. QED  BY <2>1, <3>1, <1>i
  <2>3. CASE ~ Reaches(PageStart(d), n, d)
    <3>1. Go(t, "answer") /\ job' = job /\ "answer" \in Places
      BY <1>11, <2>3 DEF ReadPage, Places
    <3>. QED  BY <1>0, <1>f, <2>1, <3>1
  <2>. QED  BY <2>2, <2>3
<1>12. ASSUME Attach(t) PROVE FileInv'
  <2>1. words' = words /\ page' = page /\ Go(t, "answer")
        /\ \E got : job' = [job EXCEPT ![t].got = got]
    BY <1>12 DEF Attach, index, Answer
  <2>. QED  BY <2>1, <1>i
<1>13. ASSUME Return(t) PROVE FileInv'
  <2>1. Idle \in Jobs(<<>>)  BY DEF Idle, Jobs
  <2>2. job' = [job EXCEPT ![t] = Idle] /\ Go(t, "idle") /\ words' = words /\ page' = page
        /\ "idle" \in Places
    BY <1>13 DEF Return, index, Places
  <2>3. DOMAIN job' = Threads /\ \A u \in Threads : job'[u] \in Jobs(job'[u].got)
    BY <2>1, <2>2, <1>h
  <2>. QED  BY <1>0, <1>f, <2>2, <2>3
<1>. QED
  BY <1>1, <1>2, <1>3, <1>4, <1>5, <1>6, <1>7, <1>8, <1>9, <1>10, <1>11, <1>12, <1>13 DEF Reader

LEMMA FileStep == ASSUME OneThread, FileInv, [Next]_vars PROVE FileInv'
<1>1. CASE UNCHANGED vars
  BY <1>1 DEF vars, FileInv, FileType, Resting, Positioned, Counted, Connected
<1>2. CASE \E t \in Threads : Reader(t)  BY <1>2, FileStepReader
<1>3. CASE ~ \E t \in Threads : Reader(t)  BY <1>3, <1>1, FileStepWriters DEF Next
<1>. QED  BY <1>1, <1>2, <1>3

LEMMA FileAlways == ASSUME OneThread PROVE Spec => []FileInv
<1>1. FileInv /\ [Next]_vars => FileInv'  BY FileStep
<1>. QED  BY <1>1, FileInit, PTL DEF Spec

-----------------------------------------------------------------------------
(* The count.                                                                 *)

\* Even insertions and connects with other lengths of vectors leave a count of
\* the records that insertions have reported (insert_data's header, and the
\* repairs of get_vec_file_header_info), for any lengths and numbers of records,
\* as long as one thread reads.
THEOREM CountStays == ASSUME OneThread PROVE Spec => []CountSurvives
<1>1. FileInv => CountSurvives  BY DEF FileInv, Counted, CountSurvives
<1>. QED  BY <1>1, FileAlways, PTL

-----------------------------------------------------------------------------
(* The second inductive invariant: as long as all lengths agree, the file     *)
(* holds the records inserted, with ids that ascend and have their rows.      *)

Recorded ==
  agreed => /\ Holds(words, kept, words[2])
            /\ kept # <<>> => words[2] # 0
            /\ conn.dims \in {0, words[2]}

Ordered ==
  /\ \A i \in 1 .. Len(kept) : kept[i] <= seq /\ kept[i] \in rows
  /\ \A i, j \in 1 .. Len(kept) : i < j => kept[i] < kept[j]

RecordInv == Recorded /\ Ordered

LEMMA RecordInit == Init => RecordInv
<1>. SUFFICES ASSUME Init PROVE RecordInv  OBVIOUS
<1>1. PICK S \in SUBSET OldIds, d \in Lengths \union {0} :
        /\ S # {} => d # 0
        /\ kept = Ascending(S)
        /\ words = <<Len(kept), d>> \o Blocks(kept, d)
        /\ rows = S
        /\ seq \in {n \in {0} \union OldIds : \A id \in S : id <= n}
  BY DEF Init
<1>2. S \in SUBSET Ids /\ IsFiniteSet(S) /\ Cardinality(S) \in Nat
  <2>1. IsFiniteSet(OldIds) /\ S \subseteq OldIds /\ OldIds \subseteq Ids
    BY <1>1, VecFileAssumption DEF Ids
  <2>2. IsFiniteSet(S)  BY <2>1, FS_Subset
  <2>. QED  BY <2>1, <2>2, FS_CardinalityType
<1>3. /\ kept \in [1 .. Cardinality(S) -> S]
      /\ \A i, j \in DOMAIN kept : i < j => kept[i] < kept[j]
  BY <1>1, <1>2, AscendingExists
<1>4. kept \in Seq(Ids) /\ Len(kept) = Cardinality(S)
  <2>1. kept \in [1 .. Cardinality(S) -> Ids]  BY <1>2, <1>3
  <2>. QED  BY <2>1, <1>2
<1>5. d \in Nat  BY <1>1, VecFileAssumption
<1>6. Len(kept) \in Int  BY <1>4
<1>7. words[2] = d  BY <1>1, <1>4, <1>5, <1>6, BlocksHold
<1>8. Holds(words, kept, d)  BY <1>1, <1>4, <1>5, <1>6, BlocksHold
<1>9. kept # <<>> => d # 0
  <2>. SUFFICES ASSUME kept # <<>>, S = {} PROVE FALSE  BY <1>1
  <2>1. Cardinality(S) = 0  BY FS_EmptySet
  <2>. QED  BY <2>1, <1>3, <1>4
<1>10. Recorded  BY <1>7, <1>8, <1>9 DEF Recorded, Init
<1>11. Ordered
  <2>1. \A i \in 1 .. Len(kept) : kept[i] \in S  BY <1>3, <1>4
  <2>. QED  BY <2>1, <1>1, <1>3, <1>4 DEF Ordered
<1>. QED  BY <1>10, <1>11 DEF RecordInv

\* Records of the old length and of the words that were there, with those added.
LEMMA HoldsMore ==
  ASSUME NEW f \in Seq(Int), NEW s \in Seq(Ids), NEW d \in Nat, Holds(f, s, d),
         NEW n \in Nat, NEW first \in Ids,
         NEW g \in Seq(Int), NEW r \in Seq(Ids),
         Len(g) = Len(f) + n * (d + 1), Len(r) = Len(s) + n,
         \A i \in 3 .. Len(f) : g[i] = f[i],
         \A p \in 1 .. n * (d + 1) : g[Len(f) + p] = Buffer(first, n, d, d, n)[p],
         \A k \in 1 .. Len(s) : r[k] = s[k],
         \A k \in 1 .. n : r[Len(s) + k] = first + (k - 1)
  PROVE  Holds(g, r, d)
<1>. DEFINE m == d + 1  L == Len(s)
<1>0. m \in Nat \ {0} /\ L \in Nat /\ L * m \in Nat /\ n * m \in Nat  OBVIOUS
<1>1. Len(f) = 2 + L * m  BY DEF Holds
<1>2. Len(g) = 2 + Len(r) * m
  <2>1. (L + n) * m = L * m + n * m  BY <1>0
  <2>. QED  BY <1>0, <1>1, <2>1
<1>3. ASSUME NEW k \in 1 .. L, NEW i \in 0 .. d
      PROVE  g[2 + (k - 1) * m + i + 1] = Word(r, k, i)
  <2>. DEFINE q == k - 1  p == 2 + q * m + i + 1
  <2>1. q \in 0 .. L - 1 /\ i \in 0 .. m - 1 /\ q \in Nat  BY <1>0
  <2>2. q * m \in Nat /\ q * m + i < L * m  BY <1>0, <2>1, Inside
  <2>3. p \in 3 .. Len(f)  BY <1>0, <1>1, <2>1, <2>2
  <2>4. f[p] = Word(s, k, i)  BY DEF Holds
  <2>5. Word(s, k, i) = Word(r, k, i)  BY DEF Word
  <2>. HIDE DEF p
  <2>6. g[p] = Word(r, k, i)  BY <2>3, <2>4, <2>5
  <2>. QED  BY <2>6 DEF p
<1>4. ASSUME NEW k \in L + 1 .. L + n, NEW i \in 0 .. d
      PROVE  g[2 + (k - 1) * m + i + 1] = Word(r, k, i)
  <2>. DEFINE u == k - L  q == u - 1  p == q * m + i + 1
  <2>0. u \in 1 .. n /\ L + u = k  BY <1>0
  <2>1. q \in 0 .. n - 1 /\ i \in 0 .. m - 1 /\ q \in Nat  BY <1>0
  <2>2. q * m \in Nat /\ q * m + i < n * m  BY <1>0, <2>1, Inside
  <2>3. p \in 1 .. n * m  BY <1>0, <2>1, <2>2
  <2>4. 2 + (k - 1) * m + i + 1 = Len(f) + p
    <3>1. (L + q) * m = L * m + q * m /\ k - 1 = L + q  BY <1>0, <2>1
    <3>. QED  BY <1>0, <1>1, <2>1, <2>2, <3>1
  <2>5. Buffer(first, n, d, d, n)[p] =
          IF i = 0 THEN IdWord(first + q) ELSE Component(first + q)
    <3>. HIDE DEF u
    <3>. QED  BY <2>0, BufferWords
  <2>. HIDE DEF u
  <2>6. r[L + u] = first + q  BY <2>0
  <2>7. r[k] = first + q  BY <2>0, <2>6
  <2>. HIDE DEF p, q
  <2>8. g[Len(f) + p] = Buffer(first, n, d, d, n)[p]  BY <2>3
  <2>. HIDE DEF L
  <2>. QED  BY <2>4, <2>5, <2>7, <2>8 DEF Word
<1>5. ASSUME NEW k \in 1 .. Len(r), NEW i \in 0 .. d
      PROVE  g[2 + (k - 1) * m + i + 1] = Word(r, k, i)
  <2>1. CASE k \in 1 .. L  BY <2>1, <1>3
  <2>2. CASE k \in L + 1 .. L + n  BY <2>2, <1>4
  <2>. QED  BY <2>1, <2>2, <1>0
<1>. QED  BY <1>2, <1>5 DEF Holds

\* A file without records is its header, whatever the length of vectors.
LEMMA HoldsNone ==
  ASSUME NEW f \in Seq(Int), NEW s, s = <<>>, NEW d \in Nat, NEW e \in Nat
  PROVE  Holds(f, s, d) <=> Holds(f, s, e)
<1>. DEFINE x == Len(s) * (d + 1)  y == Len(s) * (e + 1)
<1>1. Len(s) = 0 /\ x = 0 /\ y = 0  OBVIOUS
<1>2. 1 .. Len(s) = {}  BY <1>1
<1>3. (Holds(f, s, d) <=> Len(f) = 2 + x) /\ (Holds(f, s, e) <=> Len(f) = 2 + y)
  BY <1>2, Zenon DEF Holds
<1>. HIDE DEF x, y
<1>. QED  BY <1>1, <1>3

\* Readers leave the file alone: they find what they expect in the header.
LEMMA ReadersLeaveWords ==
  ASSUME FileInv, RecordInv, NEW t \in Threads, Reader(t), agreed
  PROVE  words' = words
<1>1. CASE ReadCount(t)  BY <1>1, CountRead
<1>2. CASE ReadDims(t)
  <2>1. conn.dims \in {0, words[2]}  BY DEF RecordInv, Recorded
  <2>2. ~ Rewrites(words[2])  BY <2>1 DEF Rewrites
  <2>. QED  BY <1>2, <2>2, DimsRead
<1>3. CASE ~ (ReadCount(t) \/ ReadDims(t))
  BY <1>3 DEF Reader, Search, Page, Seek, Tell, Settle, Resume, ReadChunk, ReadAll, ReadPage,
              Attach, Return, index
<1>. QED  BY <1>1, <1>2, <1>3

LEMMA RecordStep == ASSUME FileInv, RecordInv, [Next]_vars PROVE RecordInv'
<1>0. /\ words \in Seq(Int) /\ Len(words) >= 2 /\ words[2] \in Lengths \union {0}
      /\ conn \in [dims : Lengths \union {0}, file : BOOLEAN]
      /\ kept \in Seq(Ids) /\ seq \in Nat /\ rows \subseteq Nat
  BY DEF FileInv, FileType
<1>a. Lengths \subseteq Nat \ {0}  BY VecFileAssumption
<1>b. words[2] \in Nat
  <2>1. \A x \in Lengths \union {0} : x \in Nat  BY <1>a
  <2>. QED  BY <1>0, <2>1
<1>1. CASE UNCHANGED vars  BY <1>1 DEF vars, RecordInv, Recorded, Ordered
<1>2. CASE \E t \in Threads : Reader(t)
  <2>1. PICK t \in Threads : Reader(t)  BY <1>2
  <2>2. UNCHANGED <<conn, rows, seq, kept, agreed>>  BY <2>1, ReaderKeeps
  <2>3. agreed => words' = words  BY <2>1, ReadersLeaveWords
  <2>4. Recorded'  BY <2>2, <2>3 DEF RecordInv, Recorded
  <2>5. Ordered'  BY <2>2 DEF RecordInv, Ordered
  <2>. QED  BY <2>4, <2>5 DEF RecordInv
<1>3. CASE ConnectAgain  BY <1>3 DEF ConnectAgain, RecordInv, Recorded, Ordered
<1>4. CASE Restart
  <2>1. conn'.dims = 0 /\ UNCHANGED <<words, rows, seq, kept, agreed>>  BY <1>4 DEF Restart
  <2>. QED  BY <2>1 DEF RecordInv, Recorded, Ordered
<1>5. ASSUME NEW d \in Lengths \union {0}, Connect(d) PROVE RecordInv'
  <2>1. conn'.dims = words[2] /\ UNCHANGED <<rows, seq, kept>>  BY <1>5 DEF Connect
  <2>2. Ordered'  BY <2>1 DEF RecordInv, Ordered
  <2>3. ASSUME agreed' PROVE Recorded'
    <3>1. agreed /\ (d \in {0, words[2]} \/ words[2] = 0)  BY <1>5, <2>3 DEF Connect
    <3>2. CASE d \in {0, words[2]}
      <4>1. words' = words  BY <1>5, <3>2 DEF Connect
      <4>. QED  BY <2>1, <3>1, <4>1 DEF RecordInv, Recorded
    <3>3. CASE d \notin {0, words[2]}
      <4>1. words[2] = 0 /\ words' = Put(words, 1, d)  BY <1>5, <3>1, <3>3 DEF Connect
      <4>2. d \in Nat  BY <1>a
      <4>3. d \in Int  BY <4>2
      <4>4. Put(words, 1, d) \in Seq(Int)  BY <4>3, <1>0, PutDimensions
      <4>5. Len(Put(words, 1, d)) = Len(words)  BY <4>3, <1>0, PutDimensions
      <4>6. Put(words, 1, d)[2] = d  BY <4>3, <1>0, PutDimensions
      <4>7. kept = <<>> /\ Holds(words, kept, 0)  BY <3>1, <4>1 DEF RecordInv, Recorded
      <4>8. Len(words) = 2  BY <4>7 DEF Holds
      <4>9. Holds(words', kept, d)
        <5>1. 1 .. Len(kept) = {} /\ Len(kept) * (d + 1) = 0  BY <4>7, <4>2
        <5>2. Len(words') = 2  BY <4>1, <4>5, <4>8
        <5>. QED  BY <5>1, <5>2 DEF Holds
      <4>10. words'[2] = d  BY <4>1, <4>6
      <4>. QED  BY <2>1, <4>1, <4>7, <4>9, <4>10 DEF Recorded
    <3>. QED  BY <3>2, <3>3
  <2>4. ~ agreed' => Recorded'  BY DEF Recorded
  <2>. QED  BY <2>2, <2>3, <2>4 DEF RecordInv
<1>6. ASSUME NEW d \in Lengths, NEW n \in 1 .. 2, Insert(d, n) PROVE RecordInv'
  <2>. DEFINE h == HeaderDimensions(d)  done == Fits(n, d, h)
  <2>0. d \in Nat /\ d # 0 /\ n \in Nat  BY <1>a
  <2>1. agreed' = (agreed /\ d = h)  BY <1>6 DEF Insert
  <2>2. CASE ~ (done > 0)
    <3>1. UNCHANGED <<kept, seq, rows>>  BY <1>6, <2>2 DEF Insert, Fits
    <3>2. Ordered'  BY <3>1 DEF RecordInv, Ordered
    <3>3. ~ agreed'
      <4>1. d = h => done = n  BY <2>0, FitsNumber
      <4>. HIDE DEF h, done
      <4>2. n > 0  OBVIOUS
      <4>3. d # h  BY <2>2, <4>1, <4>2
      <4>. QED  BY <2>1, <4>3
    <3>. QED  BY <3>2, <3>3 DEF RecordInv, Recorded
  <2>3. CASE done > 0
    <3>1. /\ done \in 1 .. n
          /\ words' \in Seq(Int) /\ Len(words') = Len(words) + n * (d + 1)
          /\ words'[2] = IF h # d THEN d ELSE h
          /\ \A i \in 3 .. Len(words) : words'[i] = words[i]
          /\ \A p \in 1 .. n * (d + 1) :
               words'[Len(words) + p] = Buffer(seq + 1, n, d, h, done)[p]
          /\ kept' \in Seq(Ids) /\ Len(kept') = Len(kept) + done
          /\ \A k \in 1 .. Len(kept) : kept'[k] = kept[k]
          /\ \A k \in 1 .. done : kept'[Len(kept) + k] = seq + k
          /\ seq' = seq + Smaller(n, done + 1) /\ seq' \in Nat
          /\ rows' = rows \union (seq + 1 .. seq')
      BY <1>6, <2>3, Inserted
    <3>2. conn' = [conn EXCEPT !.file = TRUE]  BY <1>6, <2>3 DEF Insert, Fits
    <3>3. ASSUME agreed' PROVE Recorded'
      <4>1. agreed /\ h = d  BY <2>1, <3>3
      <4>2. done = n  BY <2>0, <4>1, FitsNumber
      <4>3. words[2] = 0 \/ words[2] = d  BY <4>1 DEF HeaderDimensions
      <4>4. Holds(words, kept, d)
        <5>1. Holds(words, kept, words[2])  BY <4>1 DEF RecordInv, Recorded
        <5>2. CASE words[2] = d  BY <5>1, <5>2
        <5>3. CASE words[2] = 0
          <6>1. kept = <<>>  BY <4>1, <5>3 DEF RecordInv, Recorded
          <6>. QED  BY <5>1, <5>3, <6>1, <1>0, <2>0, HoldsNone
        <5>. QED  BY <4>3, <5>2, <5>3
      <4>. DEFINE first == seq + 1
      <4>5. first \in Ids  BY <1>0 DEF Ids
      <4>6. \A k \in 1 .. n : kept'[Len(kept) + k] = first + (k - 1)
        <5>. TAKE k \in 1 .. n
        <5>1. kept'[Len(kept) + k] = seq + k  BY <3>1, <4>2
        <5>. QED  BY <5>1, <1>0
      <4>7. \A p \in 1 .. n * (d + 1) : words'[Len(words) + p] = Buffer(first, n, d, d, n)[p]
        BY <3>1, <4>1, <4>2
      <4>. HIDE DEF first, h, done
      <4>8. Holds(words', kept', d)
        <5>1. /\ words \in Seq(Int) /\ kept \in Seq(Ids) /\ d \in Nat /\ n \in Nat
              /\ words' \in Seq(Int) /\ kept' \in Seq(Ids)
          BY <1>0, <2>0, <3>1
        <5>2. /\ Len(words') = Len(words) + n * (d + 1)
              /\ \A i \in 3 .. Len(words) : words'[i] = words[i]
              /\ \A k \in 1 .. Len(kept) : kept'[k] = kept[k]
          BY ONLY <3>1
        <5>3. Len(kept') = Len(kept) + n  BY <3>1, <4>2
        <5>. DEFINE f == words  g == words'  s == kept  r == kept'
        <5>. HIDE DEF f, g, s, r
        <5>4. Holds(g, r, d)
          BY ONLY <5>1, <5>2, <5>3, <4>4, <4>5, <4>6, <4>7, HoldsMore DEF f, g, s, r
        <5>. QED  BY <5>4 DEF g, r
      <4>9. words'[2] = d  BY <3>1, <4>1
      <4>10. conn'.dims \in {0, d}
        <5>1. conn.dims \in {0, words[2]}  BY <4>1 DEF RecordInv, Recorded
        <5>2. conn'.dims = conn.dims  BY <1>0, <3>2
        <5>. QED  BY <4>3, <5>1, <5>2
      <4>. QED  BY <2>0, <4>8, <4>9, <4>10 DEF Recorded
    <3>4. Ordered'
      <4>. HIDE DEF h, done
      <4>1. done <= Smaller(n, done + 1)  BY <2>0, <3>1 DEF Smaller
      <4>2. /\ \A i \in 1 .. Len(kept) : kept[i] <= seq /\ kept[i] \in rows
            /\ \A i, j \in 1 .. Len(kept) : i < j => kept[i] < kept[j]
        BY DEF RecordInv, Ordered
      <4>. DEFINE L == Len(kept)
      <4>3. L \in Nat /\ \A i \in 1 .. L : kept[i] \in Nat  BY <1>0 DEF Ids
      <4>4. ASSUME NEW i \in 1 .. L + done
            PROVE  \/ i \in 1 .. L /\ kept'[i] = kept[i]
                   \/ i \notin 1 .. L /\ kept'[i] = seq + (i - L) /\ i - L \in 1 .. done
        <5>1. CASE i \in 1 .. L  BY <5>1, <3>1
        <5>2. CASE i \notin 1 .. L
          <6>. DEFINE k == i - L
          <6>1. k \in 1 .. done /\ L + k = i  BY <4>3, <5>2, <3>1
          <6>. HIDE DEF k, L
          <6>2. kept'[L + k] = seq + k  BY <3>1, <6>1 DEF L
          <6>3. kept'[i] = seq + k  BY <6>1, <6>2
          <6>. QED  BY <5>2, <6>1, <6>3 DEF k
        <5>. QED  BY <5>1, <5>2
      <4>. HIDE DEF L
      <4>5. ASSUME NEW i \in 1 .. L + done PROVE kept'[i] <= seq' /\ kept'[i] \in rows'
        <5>0. seq' \in Nat /\ seq + done <= seq' /\ done \in 1 .. n
          <6>. DEFINE more == Smaller(n, done + 1)
          <6>1. more \in Nat  BY <2>0, <3>1 DEF Smaller
          <6>. HIDE DEF more
          <6>. QED  BY <6>1, <1>0, <2>0, <3>1, <4>1 DEF more
        <5>a. rows' = rows \union (seq + 1 .. seq')  BY <3>1
        <5>1. CASE i \in 1 .. L /\ kept'[i] = kept[i]
          <6>1. kept[i] <= seq /\ kept[i] \in rows  BY <5>1, <4>2 DEF L
          <6>2. kept[i] \in Nat  BY <5>1, <4>3
          <6>3. kept'[i] <= seq'  BY <5>0, <5>1, <6>1, <6>2, <1>0, <2>0
          <6>. QED  BY <5>1, <5>a, <6>1, <6>3
        <5>2. CASE kept'[i] = seq + (i - L) /\ i - L \in 1 .. done
          <6>. DEFINE k == i - L
          <6>1. kept'[i] = seq + k /\ k \in 1 .. done  BY <5>2
          <6>. HIDE DEF k
          <6>2. seq + k <= seq' /\ seq + k \in seq + 1 .. seq'  BY <5>0, <6>1, <1>0, <2>0
          <6>. QED  BY <5>a, <6>1, <6>2
        <5>. QED  BY <5>1, <5>2, <4>4
      <4>6. ASSUME NEW i \in 1 .. L + done, NEW j \in 1 .. L + done, i < j
            PROVE  kept'[i] < kept'[j]
        <5>1. CASE i \in 1 .. L /\ j \in 1 .. L
          <6>1. kept'[i] = kept[i] /\ kept'[j] = kept[j]  BY <5>1, <4>4
          <6>. QED  BY <5>1, <6>1, <4>2, <4>6 DEF L
        <5>2. CASE i \in 1 .. L /\ j \notin 1 .. L
          <6>1. kept'[i] = kept[i] /\ kept'[j] = seq + (j - L) /\ j - L \in 1 .. done
            BY <5>2, <4>4
          <6>2. kept[i] <= seq  BY <5>2, <4>2 DEF L
          <6>3. kept[i] \in Nat  BY <5>2, <4>3
          <6>. QED  BY <6>1, <6>2, <6>3, <1>0
        <5>3. CASE i \notin 1 .. L
          <6>1. j \notin 1 .. L  BY <5>3, <4>6, <4>3
          <6>2. kept'[i] = seq + (i - L) /\ kept'[j] = seq + (j - L)  BY <5>3, <6>1, <4>4
          <6>. QED  BY <6>2, <4>6, <4>3, <1>0, <3>1
        <5>. QED  BY <5>1, <5>2, <5>3
      <4>7. Len(kept') = L + done  BY <3>1 DEF L
      <4>. QED  BY <4>5, <4>6, <4>7 DEF Ordered
    <3>5. ~ agreed' => Recorded'  BY DEF Recorded
    <3>. QED  BY <3>3, <3>4, <3>5 DEF RecordInv
  <2>. QED  BY <2>2, <2>3
<1>. QED  BY <1>1, <1>2, <1>3, <1>4, <1>5, <1>6 DEF Next

LEMMA RecordAlways == ASSUME OneThread PROVE Spec => []RecordInv
<1>1. FileInv /\ RecordInv /\ [Next]_vars => RecordInv'  BY RecordStep
<1>. QED  BY <1>1, RecordInit, FileAlways, PTL DEF Spec

\* As long as nobody uses another length of vectors, the header and the blocks
\* of the file are those of the records inserted (insert_data, and
\* create_tiny_vec_connection's header), for any length and number of records,
\* connects and restarts, as long as one thread reads.
THEOREM HeaderStaysTrue == ASSUME OneThread PROVE Spec => []HeaderDescribesRecords
<1>1. ASSUME FileInv, RecordInv PROVE HeaderDescribesRecords
  <2>. SUFFICES ASSUME agreed PROVE /\ words[1] = Len(kept)
                                    /\ words = <<Len(kept), words[2]>> \o Blocks(kept, words[2])
    BY DEF HeaderDescribesRecords
  <2>1. words \in Seq(Int) /\ words[2] \in Lengths \union {0} /\ kept \in Seq(Ids)
        /\ words[1] = Len(kept)
    BY <1>1 DEF FileInv, FileType, Counted
  <2>2. words[2] \in Nat
    <3>1. \A x \in Lengths \union {0} : x \in Nat  BY VecFileAssumption
    <3>. QED  BY <2>1, <3>1
  <2>3. Holds(words, kept, words[2])  BY <1>1 DEF RecordInv, Recorded
  <2>4. words = <<words[1], words[2]>> \o Blocks(kept, words[2])
    BY <2>1, <2>2, <2>3, HoldsIsBlocks
  <2>. QED  BY <2>1, <2>4
<1>. QED  BY <1>1, FileAlways, RecordAlways, PTL

\* Statistics, searches and pages leave the vector file as it is
\* (get_vec_file_header_info, which can write): the count is always there to
\* read, and the dimensions are those of the connection, as long as one thread
\* reads; with two the run of VecFileShared refutes it.
THEOREM ReadersOnlyRead == ASSUME OneThread PROVE Spec => ReadersChangeNothing
<1>1. ASSUME FileInv, RecordInv, [Next]_vars PROVE agreed /\ pc' # pc => UNCHANGED words
  <2>. SUFFICES ASSUME agreed, pc' # pc PROVE words' = words  OBVIOUS
  <2>1. \E t \in Threads : Reader(t)
    BY <1>1 DEF Next, vars, Connect, ConnectAgain, Restart, Insert
  <2>. QED  BY <1>1, <2>1, ReadersLeaveWords
<1>2. FileInv /\ RecordInv /\ [Next]_vars => [agreed /\ pc' # pc => UNCHANGED words]_vars
  BY <1>1
<1>. QED  BY <1>2, FileAlways, RecordAlways, PTL DEF Spec, ReadersChangeNothing

-----------------------------------------------------------------------------
(* Lemmas about reading records.                                              *)

\* A stretch of words inside a sequence.
LEMMA Stretch ==
  ASSUME NEW f \in Seq(Int), NEW o \in Nat, NEW d \in Nat, o + d <= Len(f)
  PROVE  /\ SubSeq(f, o + 1, o + d) \in Seq(Int) /\ Len(SubSeq(f, o + 1, o + d)) = d
         /\ \A x \in 1 .. d : SubSeq(f, o + 1, o + d)[x] = f[o + x]
<1>. DEFINE a == o + 1  b == o + d
<1>0. a \in Int /\ b \in Int /\ b - a + 1 = d /\ Len(f) \in Nat  OBVIOUS
<1>a. \A p \in a .. b : f[p] \in Int
  <2>. TAKE p \in a .. b
  <2>1. p \in 1 .. Len(f)  OBVIOUS
  <2>. QED  BY <2>1
<1>b. (IF a <= b THEN b - a + 1 ELSE 0) = d /\ \A x \in 1 .. d : a + x - 1 = o + x  OBVIOUS
<1>. HIDE DEF a, b
<1>1. SubSeq(f, a, b) \in Seq(Int)  BY ONLY <1>0, <1>a, SubSeqProperties
<1>2. Len(SubSeq(f, a, b)) = IF a <= b THEN b - a + 1 ELSE 0
  BY ONLY <1>0, <1>a, SubSeqProperties
<1>3. \A i \in 1 .. b - a + 1 : SubSeq(f, a, b)[i] = f[a + i - 1]
  BY ONLY <1>0, <1>a, SubSeqProperties
<1>4. Len(SubSeq(f, a, b)) = d  BY ONLY <1>2, <1>b
<1>5. ASSUME NEW x \in 1 .. d PROVE SubSeq(f, a, b)[x] = f[o + x]
  <2>1. SubSeq(f, a, b)[x] = f[a + x - 1]  BY <1>0, <1>3
  <2>2. a + x - 1 = o + x  BY <1>b
  <2>. QED  BY ONLY <2>1, <2>2
<1>. QED  BY <1>1, <1>4, <1>5 DEF a, b

\* The record a reader finds at its place, without its metadata.
Raw(s, k, d) == [id |-> s[k], vector |-> SubSeq(Record(s[k], d), 2, d + 1), meta |-> 0]

LEMMA RawRecord ==
  ASSUME words \in Seq(Int), kept \in Seq(Ids), ExactIds,
         NEW d \in Nat, Holds(words, kept, d),
         NEW k \in Nat, NEW n \in Nat, k + n <= Len(kept), NEW i \in 1 .. n
  PROVE  RecordsAt(2 + k * (d + 1), n, d)[i] = Raw(kept, k + i, d)
<1>. DEFINE m == d + 1  L == Len(kept)  q == k + i - 1  o == 2 + q * m  id == kept[k + i]
<1>0. m \in Nat \ {0} /\ L \in Nat /\ k + i \in 1 .. L /\ q \in 0 .. L - 1 /\ q \in Nat  OBVIOUS
<1>1. q * m \in Nat /\ q * m + d < L * m /\ L * m \in Nat
  <2>1. d \in 0 .. m - 1  OBVIOUS
  <2>. HIDE DEF q, m
  <2>. QED  BY <1>0, <2>1, Inside
<1>2. Len(words) = 2 + L * m  BY DEF Holds
<1>3. 2 + k * m + (i - 1) * m = o
  <2>1. (k + (i - 1)) * m = k * m + (i - 1) * m  OBVIOUS
  <2>2. k + (i - 1) = q  OBVIOUS
  <2>. QED  BY <2>1, <2>2
<1>4. RecordsAt(2 + k * m, n, d)[i] =
        [id |-> AsId(words[o + 1]), vector |-> SubSeq(words, o + 2, o + d + 1), meta |-> 0]
  <2>. DEFINE from == 2 + k * m
  <2>1. from + (i - 1) * m = o  BY <1>3
  <2>. HIDE DEF from, o
  <2>2. RecordsAt(from, n, d)[i] =
          LET oo == from + (i - 1) * (d + 1) IN
          [id |-> AsId(words[oo + 1]), vector |-> SubSeq(words, oo + 2, oo + d + 1), meta |-> 0]
    BY DEF RecordsAt
  <2>. QED  BY <2>1, <2>2 DEF from
<1>5. ASSUME NEW x \in 0 .. d PROVE words[o + x + 1] = Word(kept, k + i, x)
  <2>1. words[2 + (k + i - 1) * (d + 1) + x + 1] = Word(kept, k + i, x)  BY <1>0 DEF Holds
  <2>. QED  BY <2>1
<1>. HIDE DEF o, q, L
<1>6. id \in Ids /\ id <= Exact
  <2>1. k + i \in DOMAIN kept  BY <1>0 DEF L
  <2>. QED  BY <2>1 DEF ExactIds
<1>7. o \in Nat /\ o + 1 + d <= Len(words)  BY <1>1, <1>2, <1>0 DEF o
<1>8. AsId(words[o + 1]) = id
  <2>1. 0 \in 0 .. d /\ o + 0 + 1 = o + 1  BY <1>7
  <2>2. words[o + 1] = IdWord(id)  BY <2>1, <1>5 DEF Word
  <2>. QED  BY <1>6, <2>2, ExactWord
<1>. HIDE DEF id
<1>. DEFINE u == SubSeq(words, o + 2, o + d + 1)  v == SubSeq(Record(id, d), 2, d + 1)
<1>9. u \in Seq(Int) /\ Len(u) = d /\ \A x \in 1 .. d : u[x] = Component(id)
  <2>. DEFINE a == o + 1
  <2>1. a \in Nat /\ a + d <= Len(words) /\ a + 1 = o + 2 /\ a + d = o + d + 1  BY <1>7
  <2>. HIDE DEF a
  <2>2. u = SubSeq(words, a + 1, a + d)  BY <2>1
  <2>3. u \in Seq(Int)  BY <2>1, <2>2, Stretch
  <2>4. Len(u) = d  BY <2>1, <2>2, Stretch
  <2>5. \A x \in 1 .. d : SubSeq(words, a + 1, a + d)[x] = words[a + x]  BY <2>1, Stretch
  <2>6. ASSUME NEW x \in 1 .. d PROVE u[x] = Component(id)
    <3>1. u[x] = words[a + x]  BY <2>2, <2>5
    <3>2. a + x = o + x + 1  BY <1>7 DEF a
    <3>3. words[o + x + 1] = Word(kept, k + i, x)  BY <1>5
    <3>4. Word(kept, k + i, x) = Component(id)  BY DEF Word, id
    <3>. HIDE DEF u
    <3>. QED  BY <3>1, <3>2, <3>3, <3>4
  <2>. HIDE DEF u
  <2>. QED  BY <2>3, <2>4, <2>6
<1>10. v \in Seq(Int) /\ Len(v) = d /\ \A x \in 1 .. d : v[x] = Component(id)
  <2>. DEFINE r == Record(id, d)
  <2>1. r \in Seq(Int) /\ Len(r) = d + 1  BY <1>6, RecordWords
  <2>2. \A x \in 0 .. d : r[x + 1] = IF x = 0 THEN IdWord(id) ELSE Component(id)
    BY <1>6, RecordWords
  <2>. HIDE DEF r
  <2>3. 1 + 1 = 2 /\ 1 + d = d + 1 /\ 1 + d <= Len(r) /\ 1 \in Nat  BY <2>1
  <2>4. SubSeq(r, 1 + 1, 1 + d) \in Seq(Int)  BY <2>1, <2>3, Stretch
  <2>5. Len(SubSeq(r, 1 + 1, 1 + d)) = d  BY <2>1, <2>3, Stretch
  <2>6. \A x \in 1 .. d : SubSeq(r, 1 + 1, 1 + d)[x] = r[1 + x]  BY <2>1, <2>3, Stretch
  <2>7. v = SubSeq(r, 1 + 1, 1 + d)  BY <2>3 DEF r
  <2>8. ASSUME NEW x \in 1 .. d PROVE v[x] = Component(id)
    <3>. HIDE DEF v
    <3>a. 1 + x = x + 1  OBVIOUS
    <3>b. v[x] = r[1 + x]  BY <2>6, <2>7
    <3>1. v[x] = r[x + 1]  BY ONLY <3>a, <3>b
    <3>2. r[x + 1] = Component(id)  BY <2>2
    <3>. QED  BY <3>1, <3>2
  <2>. HIDE DEF v
  <2>. QED  BY <2>4, <2>5, <2>7, <2>8
<1>11. u = v
  <2>. HIDE DEF u, v
  <2>1. \A x \in 1 .. Len(u) : u[x] = v[x]  BY <1>9, <1>10
  <2>. QED  BY <1>9, <1>10, <2>1, SeqEqual
<1>. QED  BY <1>4, <1>8, <1>11 DEF Raw, id

\* Records behind records are records.
LEMMA RecordsJoin ==
  ASSUME NEW d \in Nat, NEW k \in Nat, NEW n \in Nat
  PROVE  RecordsAt(2, k, d) \o RecordsAt(2 + k * (d + 1), n, d) = RecordsAt(2, k + n, d)
<1>. DEFINE m == d + 1
            at_(o) == [id |-> AsId(words[o + 1]), vector |-> SubSeq(words, o + 2, o + d + 1),
                       meta |-> 0]
            rec(i) == at_(2 + (i - 1) * m)
            S == {rec(i) : i \in 1 .. k + n}
            a == RecordsAt(2, k, d)  b == RecordsAt(2 + k * m, n, d)  c == RecordsAt(2, k + n, d)
<1>. HIDE DEF at_
<1>1. a = [i \in 1 .. k |-> rec(i)]  BY DEF RecordsAt, at_
<1>2. c = [i \in 1 .. k + n |-> rec(i)]  BY DEF RecordsAt, at_
<1>3. b = [i \in 1 .. n |-> rec(k + i)]
  <2>1. b = [i \in 1 .. n |-> at_(2 + k * m + (i - 1) * m)]  BY DEF RecordsAt, at_
  <2>2. \A i \in 1 .. n : 2 + k * m + (i - 1) * m = 2 + (k + i - 1) * m
    <3>. TAKE i \in 1 .. n
    <3>1. (k + (i - 1)) * m = k * m + (i - 1) * m /\ k + (i - 1) = k + i - 1  OBVIOUS
    <3>2. k * m \in Nat /\ (i - 1) * m \in Nat  OBVIOUS
    <3>. QED  BY <3>1, <3>2
  <2>. HIDE DEF b, m
  <2>3. \A i \in 1 .. n : at_(2 + k * m + (i - 1) * m) = at_(2 + (k + i - 1) * m)  BY <2>2
  <2>. QED  BY <2>1, <2>3
<1>. HIDE DEF rec, a, b, c
<1>4. a \in Seq(S) /\ Len(a) = k
  <2>1. \A i \in 1 .. k : rec(i) \in S
    <3>1. \A i \in 1 .. k : i \in 1 .. k + n  OBVIOUS
    <3>. QED  BY <3>1
  <2>. HIDE DEF S
  <2>2. a \in [1 .. k -> S]  BY <1>1, <2>1
  <2>. QED  BY <2>2
<1>5. b \in Seq(S) /\ Len(b) = n
  <2>1. \A i \in 1 .. n : rec(k + i) \in S
    <3>1. \A i \in 1 .. n : k + i \in 1 .. k + n  OBVIOUS
    <3>. QED  BY <3>1
  <2>. HIDE DEF S
  <2>2. b \in [1 .. n -> S]  BY <1>3, <2>1
  <2>. QED  BY <2>2
<1>6. c \in Seq(S) /\ Len(c) = k + n
  <2>1. \A i \in 1 .. k + n : rec(i) \in S  OBVIOUS
  <2>. HIDE DEF S
  <2>2. c \in [1 .. k + n -> S]  BY <1>2, <2>1
  <2>. QED  BY <2>2
<1>. HIDE DEF S
<1>7. a \o b \in Seq(S)  BY ONLY <1>4, <1>5, ConcatProperties
<1>8. Len(a \o b) = Len(a) + Len(b)  BY ONLY <1>4, <1>5, ConcatProperties
<1>9. \A i \in 1 .. Len(a) + Len(b) : (a \o b)[i] = IF i <= Len(a) THEN a[i] ELSE b[i - Len(a)]
  BY ONLY <1>4, <1>5, ConcatProperties
<1>10. ASSUME NEW i \in 1 .. Len(c) PROVE c[i] = (a \o b)[i]
  <2>0. c[i] = rec(i) /\ i \in 1 .. Len(a) + Len(b)  BY <1>2, <1>4, <1>5, <1>6
  <2>1. CASE i <= k
    <3>1. (a \o b)[i] = a[i]  BY <2>0, <2>1, <1>4, <1>9
    <3>2. a[i] = rec(i)  BY <2>0, <2>1, <1>1, <1>4, <1>5
    <3>. QED  BY <2>0, <3>1, <3>2
  <2>2. CASE ~ (i <= k)
    <3>. DEFINE u == i - k
    <3>1. u \in 1 .. n /\ k + u = i  BY <2>0, <2>2, <1>4, <1>5
    <3>2. (a \o b)[i] = b[u]  BY <2>0, <2>2, <1>4, <1>9
    <3>. HIDE DEF u
    <3>3. b[u] = rec(k + u)  BY <3>1, <1>3
    <3>. QED  BY <2>0, <3>1, <3>2, <3>3
  <2>. QED  BY <2>1, <2>2
<1>11. Len(c) = Len(a \o b)  BY <1>4, <1>5, <1>6, <1>8
<1>12. c = a \o b  BY ONLY <1>6, <1>7, <1>10, <1>11, SeqEqual
<1>. QED  BY <1>12 DEF a, b, c

\* What is counted is there.
LEMMA RecordsThere ==
  ASSUME words \in Seq(Int), kept \in Seq(Ids), NEW d \in Nat, Holds(words, kept, d),
         NEW k \in Nat, NEW n \in Nat, k + n <= Len(kept)
  PROVE  /\ Reaches(2 + k * (d + 1), n, d)
         /\ After(2 + k * (d + 1), n, d) = 2 + (k + n) * (d + 1)
<1>. DEFINE m == d + 1  L == Len(kept)
<1>1. Len(words) = 2 + L * m  BY DEF Holds
<1>2. (k + n) * m <= L * m /\ (k + n) * m \in Nat /\ L * m \in Nat
  <2>1. k + n \in Nat /\ L \in Nat /\ m \in Nat  OBVIOUS
  <2>. HIDE DEF m, L
  <2>. QED  BY <2>1, TimesKeepsOrder DEF L
<1>3. (k + n) * m = k * m + n * m /\ k * m \in Nat /\ n * m \in Nat  OBVIOUS
<1>4. 2 + k * m + n * m = 2 + (k + n) * m  BY <1>2, <1>3
<1>. DEFINE from == 2 + k * m
<1>5. from + n * m <= Len(words) /\ from + n * m = 2 + (k + n) * m  BY <1>1, <1>2, <1>3
<1>. HIDE DEF from
<1>6. Reaches(from, n, d)  BY <1>5 DEF Reaches
<1>7. After(from, n, d) = 2 + (k + n) * m  BY <1>5, <1>6 DEF After
<1>. QED  BY <1>6, <1>7 DEF from

\* Records with different ids that have rows all get their metadata.
LEMMA PairsAll ==
  ASSUME NEW n \in Nat, NEW got, DOMAIN got = 1 .. n, NEW size \in Nat \ {0},
         \A i \in 1 .. n : got[i].id \in rows,
         \A i, j \in 1 .. n : got[i].id = got[j].id => i = j,
         NEW has \in [1 .. n -> BOOLEAN], Pairs(got, size, has)
  PROVE  \A j \in 1 .. n : has[j]
<1>. SUFFICES ASSUME NEW j \in 1 .. n, ~ has[j] PROVE FALSE  OBVIOUS
<1>. DEFINE twins == {k \in DOMAIN got : /\ got[k].id = got[j].id
                                         /\ (k - 1) \div size = (j - 1) \div size}
<1>1. Cardinality({k \in twins : has[k]}) = IF got[j].id \in rows THEN 1 ELSE 0
  BY Zenon DEF Pairs
<1>2. \A k \in twins : k = j  OBVIOUS
<1>3. {k \in twins : has[k]} = {}  BY <1>2
<1>4. Cardinality({k \in twins : has[k]}) = 0
  <2>. HIDE DEF twins
  <2>. QED  BY <1>3, FS_EmptySet
<1>. QED  BY <1>1, <1>4

-----------------------------------------------------------------------------
(* The third inductive invariant: what a thread knows while its call is under *)
(* way. Insertions come between the statistics and the page, never between    *)
(* the header and the records behind it.                                      *)

RecordsIn(f, from, n, d) ==
  [i \in 1 .. n |-> LET o == from + (i - 1) * (d + 1) IN
     [id |-> AsId(f[o + 1]), vector |-> SubSeq(f, o + 2, o + d + 1), meta |-> 0]]

\* The record number k of s with its metadata.
Full(s, k, d) == [id |-> s[k], vector |-> SubSeq(Record(s[k], d), 2, d + 1), meta |-> s[k]]

Heading == {"seek", "tell", "count", "dims", "settle", "resume"}
Settled == {"settle", "read", "attach"}

\* The count is that of the records there, or was when the statistics were asked.
Knows(t) ==
  /\ pc[t] = "idle" => job[t] = Idle
  /\ pc[t] # "idle" => job[t].what # "none"
  /\ pc[t] \in Heading => job[t].got = <<>> /\ job[t].read = 0
  /\ pc[t] = "resume" => job[t].what = "stats" /\ job[t].count <= Len(kept)
  /\ pc[t] \in {"read", "attach"} => job[t].what # "stats"
  /\ pc[t] \in Settled \union {"dims"} => job[t].count = Len(kept)
  /\ pc[t] \in Settled /\ agreed => job[t].dims = words[2]

\* The clients have lowered the limit to the count they saw.
Lowered(t) ==
  /\ job[t].what = "stats" => page.limit = job[t].asked
  /\ job[t].what = "page" => /\ page.limit = Smaller(job[t].asked, job[t].seen)
                             /\ page.skip <= job[t].seen /\ job[t].seen <= Len(kept)
  /\ job[t].what = "page" /\ pc[t] \in {"read", "attach"} => page.skip < job[t].count

\* A search has read the records before the position of the FILE; a page is read
\* at once.
Scanned(t) ==
  LET count == job[t].count  d == job[t].dims  m == Smaller(job[t].read, count) IN
  /\ pc[t] = "read" /\ agreed /\ job[t].what = "search" =>
       at = 2 + m * (d + 1) /\ job[t].got = RecordsIn(words, 2, m, d)
  /\ pc[t] = "read" /\ agreed /\ job[t].what = "page" =>
       at = 2 /\ job[t].got = <<>>
  /\ pc[t] = "attach" /\ agreed /\ job[t].what = "search" =>
       job[t].got = RecordsIn(words, 2, count, d)
  /\ pc[t] = "attach" /\ agreed /\ job[t].what = "page" =>
       job[t].got = RecordsIn(words, 2 + page.skip * (d + 1),
                              Smaller(page.limit, count - page.skip), d)

Answered(t) ==
  pc[t] = "answer" /\ agreed /\ ExactIds =>
    /\ job[t].what = "search" /\ Len(kept) <= VarLimit =>
         job[t].got = [i \in 1 .. Len(kept) |-> Full(kept, i, words[2])]
    /\ job[t].what = "page" => \E n \in Nat :
         /\ job[t].got = [i \in 1 .. n |-> Full(kept, page.skip + i, words[2])]
         /\ n >= Smaller(job[t].asked, job[t].seen - page.skip) /\ n <= job[t].asked

ReadInv == \A t \in Threads : Knows(t) /\ Lowered(t) /\ Scanned(t) /\ Answered(t)

LEMMA ReadInit == Init => ReadInv
BY DEF Init, ReadInv, Knows, Lowered, Scanned, Answered, Idle, Heading, Settled

\* Nothing that writes comes while a thread reads.
LEMMA ReadStepWriters ==
  ASSUME FileInv, ReadInv,
         \/ \E d \in Lengths \union {0} : Connect(d)
         \/ ConnectAgain \/ Restart
         \/ \E d \in Lengths, n \in 1 .. 2 : Insert(d, n)
  PROVE  ReadInv'
<1>0. kept \in Seq(Ids) /\ \A t \in Threads : job[t] \in Jobs(job[t].got)
  BY DEF FileInv, FileType
<1>1. CASE ConnectAgain
  BY <1>1 DEF ConnectAgain, ReadInv, Knows, Lowered, Scanned, Answered, ExactIds
<1>2. CASE ~ ConnectAgain
  <2>1. \A t \in Threads : pc[t] \in {"idle", "resume"}
    BY <1>2 DEF Connect, Restart, Insert, Quiet, FileInv, Resting
  <2>2. pc' = pc /\ job' = job /\ page' = page  BY <1>2 DEF Connect, Restart, Insert
  <2>3. Len(kept') \in Nat /\ Len(kept) \in Nat /\ Len(kept) <= Len(kept')
    <3>1. CASE kept' = kept  BY <3>1, <1>0
    <3>2. CASE kept' # kept
      <4>1. PICK d \in Lengths, n \in 1 .. 2 : Insert(d, n)
        BY <1>2, <3>2 DEF Connect, Restart
      <4>2. Fits(n, d, HeaderDimensions(d)) > 0  BY <3>2, <4>1 DEF Insert, Fits
      <4>. DEFINE done == Fits(n, d, HeaderDimensions(d))
      <4>3. done \in 1 .. n /\ Len(kept') = Len(kept) + done  BY <4>1, <4>2, Inserted
      <4>. HIDE DEF done
      <4>. QED  BY <4>3, <1>0
    <3>. QED  BY <3>1, <3>2
  <2>. SUFFICES ASSUME NEW t \in Threads
                PROVE  Knows(t)' /\ Lowered(t)' /\ Scanned(t)' /\ Answered(t)'
    BY DEF ReadInv
  <2>4. Knows(t) /\ Lowered(t)  BY DEF ReadInv
  <2>5. pc'[t] \in {"idle", "resume"} /\ pc'[t] = pc[t] /\ job'[t] = job[t]  BY <2>1, <2>2
  <2>6. job[t].count \in Nat /\ job[t].seen \in Nat  BY <1>0 DEF Jobs
  <2>7. Knows(t)'  BY <2>3, <2>4, <2>5, <2>6 DEF Knows, Heading, Settled
  <2>8. Lowered(t)'  BY <2>2, <2>3, <2>4, <2>5, <2>6 DEF Lowered
  <2>9. Scanned(t)' /\ Answered(t)'  BY <2>5 DEF Scanned, Answered
  <2>. QED  BY <2>7, <2>8, <2>9
<1>. QED  BY <1>1, <1>2

\* What the calls before the records come to know.
LEMMA HeadingKnows ==
  ASSUME OneThread, FileInv, RecordInv, ReadInv, NEW t \in Threads,
         \/ Search(t) \/ \E config \in Configs : Page(t, config)
         \/ Seek(t) \/ Tell(t) \/ ReadCount(t) \/ ReadDims(t) \/ Resume(t) \/ Return(t)
  PROVE  ReadInv'
<1>0. /\ kept \in Seq(Ids) /\ Len(kept) \in Nat /\ DOMAIN job = Threads /\ FileType
      /\ page \in [skip : Nat, limit : Ids] /\ pc[t] \in Places
  BY DEF FileInv, FileType
<1>j. job[t] \in Jobs(job[t].got)  BY <1>0 DEF FileType
<1>c. \A u \in Threads : u = t  BY DEF OneThread
<1>r. Reader(t)  BY DEF Reader
<1>d. UNCHANGED <<conn, client, rows, seq, kept, agreed>>  BY <1>r, ReaderKeeps
<1>e. agreed => words' = words  BY <1>r, ReadersLeaveWords
<1>k. Knows(t) /\ Lowered(t)  BY DEF ReadInv
\* What is left to show of an action after which no records have been read.
<1>f. ASSUME NEW where \in Places, Go(t, where), where \notin {"read", "attach", "answer"},
             Knows(t)', Lowered(t)'
      PROVE  ReadInv'
  <2>1. pc'[t] = where  BY <1>0, <1>f, GoStep
  <2>2. Scanned(t)' /\ Answered(t)'  BY <1>f, <2>1 DEF Scanned, Answered
  <2>. QED  BY <1>c, <1>f, <2>2 DEF ReadInv
<1>g. \A where \in Places : Go(t, where) => pc'[t] = where  BY <1>0, GoStep
<1>h. \A j : job' = [job EXCEPT ![t] = j] => job'[t] = j  BY <1>0
<1>1. ASSUME Search(t) PROVE ReadInv'
  <2>1. pc[t] = "idle" /\ Go(t, "seek") /\ "seek" \in Places /\ page' = page
        /\ job' = [job EXCEPT ![t] = [job[t] EXCEPT !.what = "search"]]
    BY <1>1 DEF Search, Places
  <2>2. job[t] = Idle  BY <2>1, <1>k DEF Knows
  <2>3. job'[t] = [Idle EXCEPT !.what = "search"]  BY <2>1, <2>2, <1>h
  <2>4. pc'[t] = "seek"  BY <2>1, <1>g
  <2>5. Knows(t)'  BY <2>3, <2>4 DEF Knows, Idle, Heading, Settled
  <2>6. Lowered(t)'  BY <2>3, <2>4 DEF Lowered, Idle
  <2>. QED  BY <2>1, <2>5, <2>6, <1>f
<1>2. ASSUME NEW config \in Configs, Page(t, config) PROVE ReadInv'
  <2>1. pc[t] = "idle" /\ Go(t, "seek") /\ "seek" \in Places /\ page' = config
        /\ job' = [job EXCEPT ![t] = [job[t] EXCEPT !.what = "stats", !.asked = config.limit]]
    BY <1>2 DEF Page, Places
  <2>2. job[t] = Idle  BY <2>1, <1>k DEF Knows
  <2>3. job'[t] = [Idle EXCEPT !.what = "stats", !.asked = config.limit]  BY <2>1, <2>2, <1>h
  <2>4. pc'[t] = "seek"  BY <2>1, <1>g
  <2>5. Knows(t)'  BY <2>3, <2>4 DEF Knows, Idle, Heading, Settled
  <2>6. Lowered(t)'
    <3>1. job'[t].what = "stats" /\ job'[t].asked = config.limit  BY <2>3 DEF Idle
    <3>2. page'.limit = config.limit  BY <2>1
    <3>. QED  BY <3>1, <3>2 DEF Lowered
  <2>. QED  BY <2>1, <2>5, <2>6, <1>f
<1>3. ASSUME Seek(t) PROVE ReadInv'
  <2>1. pc[t] = "seek" /\ Go(t, "tell") /\ "tell" \in Places /\ page' = page /\ job' = job
    BY <1>3 DEF Seek, Places
  <2>4. pc'[t] = "tell"  BY <2>1, <1>g
  <2>5. Knows(t)'  BY <2>1, <2>4, <1>k DEF Knows, Heading, Settled
  <2>6. Lowered(t)'  BY <2>1, <2>4, <1>d, <1>k DEF Lowered
  <2>. QED  BY <2>1, <2>5, <2>6, <1>f
<1>4. ASSUME Tell(t) PROVE ReadInv'
  <2>1. pc[t] = "tell" /\ Go(t, "count") /\ "count" \in Places /\ page' = page
        /\ job' = [job EXCEPT ![t] = [job[t] EXCEPT !.base = at]]
    BY <1>4 DEF Tell, Places
  <2>3. job'[t] = [job[t] EXCEPT !.base = at]  BY <2>1, <1>h
  <2>4. pc'[t] = "count"  BY <2>1, <1>g
  <2>5. Knows(t)'  BY <2>1, <2>3, <2>4, <1>j, <1>k DEF Knows, Heading, Settled, Jobs
  <2>6. Lowered(t)'  BY <2>1, <2>3, <2>4, <1>d, <1>j, <1>k DEF Lowered, Jobs
  <2>. QED  BY <2>1, <2>5, <2>6, <1>f
<1>5. ASSUME ReadCount(t) PROVE ReadInv'
  <2>1. pc[t] = "count" /\ Go(t, "dims") /\ "dims" \in Places /\ page' = page
    BY <1>5 DEF ReadCount, Places
  <2>2. job' = [job EXCEPT ![t] = [job[t] EXCEPT !.count = Len(kept)]]  BY <1>5, CountRead
  <2>3. job'[t] = [job[t] EXCEPT !.count = Len(kept)]  BY <2>2, <1>h
  <2>4. pc'[t] = "dims"  BY <2>1, <1>g
  <2>5. Knows(t)'  BY <2>1, <2>3, <2>4, <1>d, <1>j, <1>k DEF Knows, Heading, Settled, Jobs
  <2>6. Lowered(t)'  BY <2>1, <2>3, <2>4, <1>d, <1>j, <1>k DEF Lowered, Jobs
  <2>. QED  BY <2>1, <2>5, <2>6, <1>f
<1>6. ASSUME ReadDims(t) PROVE ReadInv'
  <2>1. pc[t] = "dims" /\ Go(t, "settle") /\ "settle" \in Places /\ page' = page
    BY <1>6 DEF ReadDims, Places
  <2>2. job' = [job EXCEPT ![t] = [job[t] EXCEPT !.dims = words[2]]]  BY <1>6, DimsRead
  <2>3. job'[t] = [job[t] EXCEPT !.dims = words[2]]  BY <2>2, <1>h
  <2>4. pc'[t] = "settle"  BY <2>1, <1>g
  <2>5. Knows(t)'  BY <2>1, <2>3, <2>4, <1>d, <1>e, <1>j, <1>k DEF Knows, Heading, Settled, Jobs
  <2>6. Lowered(t)'  BY <2>1, <2>3, <2>4, <1>d, <1>j, <1>k DEF Lowered, Jobs
  <2>. QED  BY <2>1, <2>5, <2>6, <1>f
<1>7. ASSUME Resume(t) PROVE ReadInv'
  <2>. DEFINE count == job[t].count
  <2>0. /\ pc[t] = "resume" /\ job[t].what = "stats" /\ count \in Nat /\ count <= Len(kept)
        /\ page.limit = job[t].asked /\ job[t].got = <<>> /\ job[t].read = 0
    BY <1>7, <1>j, <1>k DEF Resume, Knows, Lowered, Jobs, Heading
  <2>1. CASE count = 0 \/ page.skip > count
    <3>1. Go(t, "answer") /\ "answer" \in Places /\ page' = page /\ job' = job
      BY <1>7, <2>1 DEF Resume, Places
    <3>2. pc'[t] = "answer"  BY <3>1, <1>g
    <3>3. Knows(t)'  BY <2>0, <3>1, <3>2 DEF Knows, Heading, Settled
    <3>4. Lowered(t)'  BY <2>0, <3>1, <3>2 DEF Lowered
    <3>5. Scanned(t)' /\ Answered(t)'  BY <2>0, <3>1, <3>2 DEF Scanned, Answered
    <3>. QED  BY <1>c, <3>3, <3>4, <3>5 DEF ReadInv
  <2>2. CASE ~ (count = 0 \/ page.skip > count)
    <3>1. /\ Go(t, "seek") /\ "seek" \in Places /\ page' = [page EXCEPT !.limit = Clamped(count)]
          /\ job' = [job EXCEPT ![t] = [job[t] EXCEPT !.what = "page", !.seen = count]]
      BY <1>7, <2>2 DEF Resume, Places
    <3>2. pc'[t] = "seek"  BY <3>1, <1>g
    <3>3. job'[t] = [job[t] EXCEPT !.what = "page", !.seen = count]  BY <3>1, <1>h
    <3>4. /\ job'[t].what = "page" /\ job'[t].seen = count /\ job'[t].asked = job[t].asked
          /\ job'[t].got = <<>> /\ job'[t].read = 0
      BY <2>0, <3>3, <1>j DEF Jobs
    <3>5. page'.skip = page.skip /\ page'.limit = Smaller(job[t].asked, count)
      BY <1>0, <2>0, <3>1 DEF Clamped
    <3>6. page.skip <= count  BY <1>0, <2>0, <2>2
    <3>7. Knows(t)'  BY <3>2, <3>4 DEF Knows, Heading, Settled
    <3>8. Lowered(t)'
      <4>. HIDE DEF count
      <4>. QED  BY <2>0, <3>2, <3>4, <3>5, <3>6, <1>d DEF Lowered
    <3>. QED  BY <3>1, <3>7, <3>8, <1>f
  <2>. QED  BY <2>1, <2>2
<1>8. ASSUME Return(t) PROVE ReadInv'
  <2>1. Go(t, "idle") /\ "idle" \in Places /\ job' = [job EXCEPT ![t] = Idle]
    BY <1>8 DEF Return, Places
  <2>3. job'[t] = Idle  BY <2>1, <1>h
  <2>4. pc'[t] = "idle"  BY <2>1, <1>g
  <2>5. Knows(t)'  BY <2>3, <2>4 DEF Knows, Heading, Settled
  <2>6. Lowered(t)'  BY <2>3, <2>4 DEF Lowered, Idle
  <2>. QED  BY <2>1, <2>5, <2>6, <1>f
<1>. QED  BY <1>1, <1>2, <1>3, <1>4, <1>5, <1>6, <1>7, <1>8

\* What a thread is told, once it is told all of the header.
LEMMA SettleKnows ==
  ASSUME OneThread, FileInv, RecordInv, ReadInv, NEW t \in Threads, Settle(t)
  PROVE  ReadInv'
<1>. DEFINE what == job[t].what  count == job[t].count  dims == job[t].dims
            empty == \/ dims = 0 \/ count = 0
                     \/ what = "page" /\ page.skip >= count
<1>0. /\ kept \in Seq(Ids) /\ Len(kept) \in Nat /\ FileType /\ pc[t] = "settle"
      /\ page \in [skip : Nat, limit : Ids] /\ page.skip \in Nat
  BY DEF FileInv, FileType, Settle
<1>j. job[t] \in Jobs(job[t].got)  BY <1>0 DEF FileType
<1>t. count \in Nat /\ dims \in Nat /\ job[t].base = 0 /\ job[t].seen \in Nat /\ job[t].asked \in Nat
  BY <1>j DEF Jobs
<1>c. \A u \in Threads : u = t  BY DEF OneThread
<1>r. Reader(t)  BY DEF Reader
<1>d. UNCHANGED <<conn, client, rows, seq, kept, agreed>>  BY <1>r, ReaderKeeps
<1>k. Knows(t) /\ Lowered(t)  BY DEF ReadInv
<1>1. /\ Go(t, IF what = "stats" THEN "resume" ELSE IF empty THEN "answer" ELSE "read")
      /\ words' = words /\ page' = page /\ job' = job /\ at' = job[t].base + 2
  BY DEF Settle, index
<1>2. at' = 2  BY <1>1, <1>t
<1>3. /\ count = Len(kept) /\ what # "none" /\ job[t].got = <<>> /\ job[t].read = 0
      /\ agreed => dims = words[2]
  BY <1>0, <1>k DEF Knows, Heading, Settled
<1>4. agreed /\ kept # <<>> => words[2] # 0  BY DEF RecordInv, Recorded
<1>. HIDE DEF empty
<1>5. pc'[t] = IF what = "stats" THEN "resume" ELSE IF empty THEN "answer" ELSE "read"
  <2>1. \A where \in Places : Go(t, where) => pc'[t] = where  BY <1>0, GoStep
  <2>2. {"resume", "answer", "read"} \subseteq Places  BY DEF Places
  <2>. QED  BY <1>1, <2>1, <2>2
<1>6. Knows(t)'  BY <1>0, <1>1, <1>3, <1>5, <1>d DEF Knows, Heading, Settled
<1>7. Lowered(t)'
  <2>1. ~ empty /\ what = "page" => page.skip < count  BY <1>0, <1>t DEF empty
  <2>. QED  BY <2>1, <1>1, <1>5, <1>d, <1>k DEF Lowered
<1>8. Scanned(t)'
  <2>1. CASE pc'[t] = "read"
    <3>1. Smaller(0, count) = 0  BY <1>t DEF Smaller
    <3>2. 2 + 0 * (dims + 1) = 2  BY <1>t
    <3>3. RecordsIn(words, 2, 0, dims) = <<>>  BY DEF RecordsIn
    <3>. QED  BY <2>1, <3>1, <3>2, <3>3, <1>1, <1>2, <1>3 DEF Scanned
  <2>2. CASE pc'[t] # "read"
    <3>1. pc'[t] # "attach"  BY <1>5
    <3>. QED  BY <2>2, <3>1 DEF Scanned
  <2>. QED  BY <2>1, <2>2
<1>9. Answered(t)'
  <2>. SUFFICES ASSUME pc'[t] = "answer", agreed, what \in {"search", "page"}
                PROVE  Answered(t)'
    BY <1>1, <1>d DEF Answered
  <2>1. empty  BY <1>5
  <2>2. CASE what = "search"
    <3>1. Len(kept) = 0  BY <2>1, <2>2, <1>0, <1>3, <1>4 DEF empty
    <3>2. [i \in 1 .. Len(kept) |-> Full(kept, i, words[2])] = <<>>  BY <3>1
    <3>. QED  BY <2>2, <3>2, <1>1, <1>3, <1>d DEF Answered
  <2>3. CASE what = "page"
    <3>1. job[t].seen <= Len(kept)  BY <2>3, <1>k DEF Lowered
    <3>2. job[t].seen - page.skip <= 0
      <4>1. CASE page.skip >= count  BY <4>1, <3>1, <1>0, <1>3, <1>t
      <4>2. CASE ~ (page.skip >= count)
        <5>1. Len(kept) = 0  BY <2>1, <4>2, <1>0, <1>3, <1>4 DEF empty
        <5>. QED  BY <5>1, <3>1, <1>0, <1>t
      <4>. QED  BY <4>1, <4>2
    <3>3. 0 >= Smaller(job[t].asked, job[t].seen - page.skip) /\ 0 <= job[t].asked
      BY <3>2, <1>0, <1>t DEF Smaller
    <3>4. [i \in 1 .. 0 |-> Full(kept, page.skip + i, words[2])] = <<>>  OBVIOUS
    <3>5. 0 \in Nat  OBVIOUS
    <3>. QED  BY <2>3, <3>3, <3>4, <3>5, <1>1, <1>3, <1>d DEF Answered
  <2>. QED  BY <2>2, <2>3
<1>. QED  BY <1>c, <1>6, <1>7, <1>8, <1>9 DEF ReadInv

\* A search takes the records chunk by chunk, and the last chunk is shorter.
LEMMA ScanKnows ==
  ASSUME OneThread, FileInv, RecordInv, ReadInv, NEW t \in Threads, ReadChunk(t) \/ ReadAll(t)
  PROVE  ReadInv'
<1>. DEFINE count == job[t].count  read == job[t].read  d == job[t].dims  got == job[t].got
<1>0. /\ kept \in Seq(Ids) /\ Len(kept) \in Nat /\ FileType /\ words \in Seq(Int)
      /\ pc[t] = "read" /\ job[t].what = "search" /\ DOMAIN job = Threads
  <2>1. kept \in Seq(Ids) /\ Len(kept) \in Nat /\ FileType /\ words \in Seq(Int) /\ DOMAIN job = Threads
    BY DEF FileInv, FileType
  <2>2. pc[t] = "read" /\ job[t].what = "search"  BY DEF ReadChunk, ReadAll
  <2>. QED  BY <2>1, <2>2
<1>j. job[t] \in Jobs(job[t].got)  BY <1>0 DEF FileType
<1>t. count \in Nat /\ d \in Nat /\ read \in Nat /\ BufferSize \in Nat \ {0}
  BY <1>j, VecFileAssumption DEF Jobs
<1>c. \A u \in Threads : u = t  BY DEF OneThread
<1>r. Reader(t)  BY DEF Reader
<1>d. UNCHANGED <<conn, client, rows, seq, kept, agreed>>  BY <1>r, ReaderKeeps
<1>k. Knows(t) /\ Lowered(t) /\ Scanned(t)  BY DEF ReadInv
<1>1. count = Len(kept)  BY <1>0, <1>k DEF Knows, Settled
<1>2. agreed => /\ at = 2 + Smaller(read, count) * (d + 1)
                /\ got = RecordsIn(words, 2, Smaller(read, count), d)
  BY <1>0, <1>k DEF Scanned
<1>3. words' = words /\ page' = page  BY DEF ReadChunk, ReadAll, index
<1>4. CASE ReadChunk(t)
  <2>. DEFINE n == Chunk(count - read)
              new == IF Reaches(at, n, d) THEN got \o RecordsAt(at, n, d) ELSE got
              j == [job[t] EXCEPT !.read = read + BufferSize, !.got = new]
  <2>1. /\ pc' = pc /\ read < count /\ at' = After(at, n, d)
        /\ job' = [job EXCEPT ![t] = j]
    BY <1>4 DEF ReadChunk
  <2>2. job'[t] = j  BY <2>1, <1>0
  <2>3. /\ job'[t].what = "search" /\ job'[t].count = count /\ job'[t].dims = d
        /\ job'[t].read = read + BufferSize /\ job'[t].got = new
        /\ job'[t].base = job[t].base
    <3>. HIDE DEF new
    <3>. QED  BY <2>2, <1>0, <1>j DEF Jobs
  <2>. HIDE DEF j, new, n
  <2>4. Knows(t)'
    <3>1. job'[t].dims = job[t].dims /\ job'[t].count = job[t].count  BY <2>3
    <3>. QED  BY <1>0, <1>3, <1>d, <1>k, <2>1, <2>3, <3>1 DEF Knows, Heading, Settled
  <2>5. Lowered(t)'  BY <2>3 DEF Lowered
  <2>6. Answered(t)'  BY <1>0, <2>1 DEF Answered
  <2>7. Scanned(t)'
    <3>. SUFFICES ASSUME agreed PROVE Scanned(t)'  BY <1>d DEF Scanned
    <3>1. d = words[2] /\ Holds(words, kept, d)
      BY <1>0, <1>k DEF Knows, Settled, RecordInv, Recorded
    <3>2. n \in Nat /\ read + n <= Len(kept) /\ Smaller(read + BufferSize, count) = read + n
          /\ Smaller(read, count) = read
      BY <2>1, <1>t, <1>1 DEF n, Chunk, Smaller
    <3>3. at = 2 + read * (d + 1) /\ got = RecordsAt(2, read, d)
      BY <1>2, <3>2 DEF RecordsIn, RecordsAt
    <3>4. Reaches(2 + read * (d + 1), n, d)  BY <1>0, <1>t, <3>1, <3>2, RecordsThere
    <3>5. After(2 + read * (d + 1), n, d) = 2 + (read + n) * (d + 1)
      BY <1>0, <1>t, <3>1, <3>2, RecordsThere
    <3>. DEFINE from == 2 + read * (d + 1)
    <3>6. RecordsAt(2, read, d) \o RecordsAt(from, n, d) = RecordsAt(2, read + n, d)
      BY <1>t, <3>2, RecordsJoin
    <3>. HIDE DEF from, count, d, got, read
    <3>7. new = RecordsAt(2, read + n, d)  BY <3>3, <3>4, <3>6 DEF new, from
    <3>8. RecordsAt(2, read + n, d) = RecordsIn(words, 2, read + n, d)
      BY DEF RecordsIn, RecordsAt
    <3>9. at' = 2 + (read + n) * (d + 1)  BY <2>1, <3>3, <3>5
    <3>. QED  BY <1>0, <1>3, <2>1, <2>3, <3>2, <3>7, <3>8, <3>9 DEF Scanned
  <2>. QED  BY <1>c, <2>4, <2>5, <2>6, <2>7 DEF ReadInv
<1>5. CASE ReadAll(t)
  <2>1. Go(t, "attach") /\ read >= count /\ at' = at /\ job' = job  BY <1>5 DEF ReadAll
  <2>2. pc'[t] = "attach"
    <3>1. "attach" \in Places  BY DEF Places
    <3>. QED  BY <1>0, <2>1, <3>1, GoStep
  <2>3. Knows(t)'  BY <1>0, <1>3, <1>d, <1>k, <2>1, <2>2 DEF Knows, Heading, Settled
  <2>4. Lowered(t)'  BY <1>0, <2>1 DEF Lowered
  <2>5. Answered(t)'  BY <2>2 DEF Answered
  <2>6. Scanned(t)'
    <3>1. Smaller(read, count) = count  BY <1>t, <2>1 DEF Smaller
    <3>. QED  BY <1>0, <1>2, <1>3, <1>d, <2>1, <2>2, <3>1 DEF Scanned
  <2>. QED  BY <1>c, <2>3, <2>4, <2>5, <2>6 DEF ReadInv
<1>. QED  BY <1>4, <1>5

\* Metadata joined to records that all have their rows.
LEMMA AttachAll ==
  ASSUME words \in Seq(Int), kept \in Seq(Ids), ExactIds, Ordered,
         NEW d \in Nat, Holds(words, kept, d),
         NEW k \in Nat, NEW n \in Nat, k + n <= Len(kept),
         NEW got, got = RecordsAt(2 + k * (d + 1), n, d),
         NEW size \in Nat \ {0}, NEW has \in [DOMAIN got -> BOOLEAN], Pairs(got, size, has)
  PROVE  [j \in DOMAIN got |-> [got[j] EXCEPT !.meta = IF has[j] THEN got[j].id ELSE 0]]
           = [i \in 1 .. n |-> Full(kept, k + i, d)]
<1>. DEFINE from == 2 + k * (d + 1)
<1>1. DOMAIN got = 1 .. n
  <2>. HIDE DEF from
  <2>1. DOMAIN RecordsAt(from, n, d) = 1 .. n  BY DEF RecordsAt
  <2>. QED  BY <2>1 DEF from
<1>2. ASSUME NEW i \in 1 .. n PROVE got[i] = Raw(kept, k + i, d)
  <2>1. RecordsAt(from, n, d)[i] = Raw(kept, k + i, d)  BY RawRecord
  <2>2. got = RecordsAt(from, n, d)  OBVIOUS
  <2>. HIDE DEF from
  <2>. QED  BY ONLY <2>1, <2>2
<1>3. ASSUME NEW i \in 1 .. n PROVE got[i].id = kept[k + i]
  <2>1. got[i] = Raw(kept, k + i, d)  BY <1>2
  <2>2. Raw(kept, k + i, d).id = kept[k + i]  BY DEF Raw
  <2>. QED  BY ONLY <2>1, <2>2
<1>4. \A i \in 1 .. n : k + i \in 1 .. Len(kept)
  <2>1. Len(kept) \in Nat  OBVIOUS
  <2>. QED  BY <2>1
<1>5. \A i \in 1 .. n : got[i].id \in rows  BY <1>3, <1>4 DEF Ordered
<1>6. \A i, j \in 1 .. n : got[i].id = got[j].id => i = j
  <2>. SUFFICES ASSUME NEW i \in 1 .. n, NEW j \in 1 .. n, got[i].id = got[j].id, i # j
                PROVE  FALSE
    OBVIOUS
  <2>1. kept[k + i] = kept[k + j] /\ kept[k + i] \in Int  BY <1>3, <1>4 DEF Ids
  <2>2. k + i < k + j \/ k + j < k + i  OBVIOUS
  <2>3. kept[k + i] < kept[k + j] \/ kept[k + j] < kept[k + i]  BY <2>2, <1>4 DEF Ordered
  <2>. QED  BY <2>1, <2>3
<1>7. \A j \in 1 .. n : has[j]
  <2>1. has \in [1 .. n -> BOOLEAN]  BY <1>1
  <2>. QED  BY ONLY <1>1, <1>5, <1>6, <2>1, n \in Nat, size \in Nat \ {0}, Pairs(got, size, has),
                    PairsAll
<1>8. ASSUME NEW i \in 1 .. n
      PROVE  [got[i] EXCEPT !.meta = IF has[i] THEN got[i].id ELSE 0] = Full(kept, k + i, d)
  <2>. DEFINE id == kept[k + i]  v == SubSeq(Record(id, d), 2, d + 1)
  <2>1. got[i] = [id |-> id, vector |-> v, meta |-> 0]  BY <1>2 DEF Raw
  <2>2. Full(kept, k + i, d) = [id |-> id, vector |-> v, meta |-> id]  BY DEF Full
  <2>3. (IF has[i] THEN got[i].id ELSE 0) = got[i].id  BY <1>7, Zenon
  <2>. HIDE DEF id, v
  <2>. QED  BY ONLY <2>1, <2>2, <2>3
<1>. HIDE DEF from
<1>. QED  BY <1>1, <1>8

\* A page is read at once: every record from its skip to its end is there.
LEMMA PageKnows ==
  ASSUME OneThread, FileInv, RecordInv, ReadInv, NEW t \in Threads, ReadPage(t)
  PROVE  ReadInv'
<1>. DEFINE count == job[t].count  d == job[t].dims  n == Smaller(page.limit, count - page.skip)
            got == RecordsAt(PageStart(d), n, d)
<1>0. /\ kept \in Seq(Ids) /\ Len(kept) \in Nat /\ FileType /\ words \in Seq(Int)
      /\ page \in [skip : Nat, limit : Ids] /\ DOMAIN job = Threads
  BY DEF FileInv, FileType
<1>p. pc[t] = "read" /\ job[t].what = "page"  BY DEF ReadPage
<1>j. job[t] \in Jobs(job[t].got)  BY <1>0 DEF FileType
<1>t. count \in Nat /\ d \in Nat /\ page.skip \in Nat /\ page.limit \in Nat \ {0}
  BY <1>0, <1>j DEF Jobs, Ids
<1>c. \A u \in Threads : u = t  BY DEF OneThread
<1>r. Reader(t)  BY DEF Reader
<1>d. UNCHANGED <<conn, client, rows, seq, kept, agreed>>  BY <1>r, ReaderKeeps
<1>k. Knows(t) /\ Lowered(t) /\ Scanned(t)  BY DEF ReadInv
<1>1. words' = words /\ page' = page  BY DEF ReadPage, index
<1>2. count = Len(kept) /\ page.skip < count  BY <1>p, <1>k DEF Knows, Settled, Lowered
<1>3. \/ /\ Reaches(PageStart(d), n, d)
         /\ pc'[t] = "attach" /\ job' = [job EXCEPT ![t] = [job[t] EXCEPT !.got = got]]
      \/ /\ ~ Reaches(PageStart(d), n, d)
         /\ pc'[t] = "answer" /\ job' = job
  <2>1. \A where \in Places : Go(t, where) => pc'[t] = where  BY <1>0, GoStep
  <2>2. "attach" \in Places /\ "answer" \in Places  BY DEF Places
  <2>. HIDE DEF got
  <2>3. CASE Reaches(PageStart(d), n, d)
    <3>1. Go(t, "attach") /\ job' = [job EXCEPT ![t].got = got]  BY <2>3 DEF ReadPage, got
    <3>. QED  BY <2>1, <2>2, <2>3, <3>1
  <2>4. CASE ~ Reaches(PageStart(d), n, d)
    <3>1. Go(t, "answer") /\ job' = job  BY <2>4 DEF ReadPage
    <3>. QED  BY <2>1, <2>2, <2>4, <3>1
  <2>. QED  BY <2>3, <2>4
<1>4. /\ job'[t].what = "page" /\ job'[t].count = count /\ job'[t].dims = d
      /\ job'[t].asked = job[t].asked /\ job'[t].seen = job[t].seen
  <2>. HIDE DEF got, n
  <2>1. job'[t] = job[t] \/ job'[t] = [job[t] EXCEPT !.got = got]  BY <1>0, <1>3
  <2>. QED  BY <2>1, <1>p, <1>j DEF Jobs
<1>5. Knows(t)'
  <2>1. pc'[t] \in {"attach", "answer"}  BY <1>3
  <2>. QED  BY <2>1, <1>p, <1>1, <1>4, <1>d, <1>k DEF Knows, Heading, Settled
<1>6. Lowered(t)'
  <2>1. pc'[t] \in {"attach", "answer"}  BY <1>3
  <2>. QED  BY <2>1, <1>p, <1>1, <1>4, <1>d, <1>k DEF Lowered
<1>7. Scanned(t)' /\ Answered(t)'
  <2>. SUFFICES ASSUME agreed PROVE Scanned(t)' /\ Answered(t)'
    BY <1>d DEF Scanned, Answered
  <2>1. d = words[2] /\ Holds(words, kept, d) /\ at = 2
    BY <1>p, <1>k DEF Knows, Settled, RecordInv, Recorded, Scanned
  <2>2. PageStart(d) = 2 + page.skip * (d + 1)  BY <2>1 DEF PageStart
  <2>3. n \in Nat /\ page.skip + n <= Len(kept)  BY <1>0, <1>t, <1>2 DEF Smaller
  <2>4. Reaches(2 + page.skip * (d + 1), n, d)  BY <2>1, <2>3, <1>0, <1>t, RecordsThere
  <2>5. pc'[t] = "attach" /\ job' = [job EXCEPT ![t] = [job[t] EXCEPT !.got = got]]
    <3>. HIDE DEF got
    <3>. QED  BY <2>2, <2>4, <1>3
  <2>6. job'[t].got = got
    <3>. HIDE DEF got
    <3>. QED  BY <2>5, <1>0, <1>j DEF Jobs
  <2>7. got = RecordsIn(words, 2 + page.skip * (d + 1), n, d)
    <3>. DEFINE from == 2 + page.skip * (d + 1)
    <3>. HIDE DEF from
    <3>1. RecordsAt(from, n, d) = RecordsIn(words, from, n, d)  BY DEF RecordsAt, RecordsIn
    <3>. QED  BY <2>2, <3>1 DEF from
  <2>. HIDE DEF got
  <2>8. Scanned(t)'  BY <2>5, <2>6, <2>7, <1>1, <1>4 DEF Scanned
  <2>9. Answered(t)'  BY <2>5 DEF Answered
  <2>. QED  BY <2>8, <2>9
<1>. QED  BY <1>c, <1>5, <1>6, <1>7 DEF ReadInv

\* Every record read gets its metadata.
LEMMA AttachKnows ==
  ASSUME OneThread, FileInv, RecordInv, ReadInv, NEW t \in Threads, Attach(t)
  PROVE  ReadInv'
<1>. DEFINE count == job[t].count  d == job[t].dims  got == job[t].got
            search == job[t].what = "search"
            full(has) == [j \in DOMAIN got |->
                            [got[j] EXCEPT !.meta = IF has[j] THEN got[j].id ELSE 0]]
<1>0. /\ kept \in Seq(Ids) /\ Len(kept) \in Nat /\ FileType /\ words \in Seq(Int)
      /\ page \in [skip : Nat, limit : Ids] /\ DOMAIN job = Threads
  BY DEF FileInv, FileType
<1>p. pc[t] = "attach"  BY DEF Attach
<1>j. job[t] \in Jobs(job[t].got)  BY <1>0 DEF FileType
<1>t. /\ count \in Nat /\ d \in Nat /\ page.skip \in Nat /\ page.limit \in Nat \ {0}
      /\ job[t].asked \in Nat /\ job[t].seen \in Nat
      /\ Batch \in Nat \ {0} /\ VarLimit \in Nat \ {0}
  BY <1>0, <1>j, VecFileAssumption DEF Jobs, Ids
<1>c. \A u \in Threads : u = t  BY DEF OneThread
<1>r. Reader(t)  BY DEF Reader
<1>d. UNCHANGED <<conn, client, rows, seq, kept, agreed>>  BY <1>r, ReaderKeeps
<1>k. Knows(t) /\ Lowered(t) /\ Scanned(t)  BY DEF ReadInv
<1>1. words' = words /\ page' = page  BY DEF Attach, index
<1>2. PICK has \in [DOMAIN got -> BOOLEAN] :
        /\ IF search /\ Len(got) > VarLimit THEN \A j \in DOMAIN got : ~has[j]
           ELSE Pairs(got, IF search THEN VarLimit ELSE Batch, has)
        /\ Answer(t, full(has))
  BY Zenon DEF Attach
<1>. HIDE DEF full
<1>3. pc'[t] = "answer" /\ job'[t] = [job[t] EXCEPT !.got = full(has)]
  <2>1. "answer" \in Places /\ Go(t, "answer") /\ job' = [job EXCEPT ![t].got = full(has)]
    BY <1>2 DEF Places, Answer
  <2>2. pc'[t] = "answer"  BY <2>1, <1>0, GoStep
  <2>. QED  BY <2>1, <2>2, <1>0
<1>4. /\ job'[t].what = job[t].what /\ job'[t].asked = job[t].asked
      /\ job'[t].seen = job[t].seen /\ job'[t].got = full(has)
  BY <1>3, <1>j DEF Jobs
<1>5. Knows(t)'  BY <1>p, <1>3, <1>4, <1>k DEF Knows, Heading, Settled
<1>6. Lowered(t)'  BY <1>p, <1>1, <1>3, <1>4, <1>d, <1>k DEF Lowered
<1>7. Scanned(t)'  BY <1>3 DEF Scanned
<1>8. count = Len(kept)  BY <1>p, <1>k DEF Knows, Settled
<1>9. Answered(t)'
  <2>. SUFFICES ASSUME agreed, ExactIds PROVE Answered(t)'
    BY <1>d DEF Answered, ExactIds
  <2>1. d = words[2] /\ Holds(words, kept, d) /\ Ordered
    BY <1>p, <1>k DEF Knows, Settled, RecordInv, Recorded
  <2>2. ASSUME search, Len(kept) <= VarLimit
        PROVE  full(has) = [i \in 1 .. Len(kept) |-> Full(kept, i, words[2])]
    <3>. DEFINE k == 0
    <3>1. got = RecordsAt(2 + k * (d + 1), Len(kept), d)
      <4>1. got = RecordsIn(words, 2, count, d)  BY <1>p, <1>k, <2>2 DEF Scanned
      <4>2. 2 + 0 * (d + 1) = 2  BY <1>t
      <4>3. RecordsIn(words, 2, count, d) = RecordsAt(2, count, d)  BY DEF RecordsIn, RecordsAt
      <4>. QED  BY <4>1, <4>2, <4>3, <1>8
    <3>2. Len(got) = Len(kept)
      <4>1. DOMAIN RecordsAt(2, Len(kept), d) = 1 .. Len(kept)  BY DEF RecordsAt
      <4>2. got = RecordsAt(2, Len(kept), d)  BY <3>1, <1>t
      <4>3. \A s : DOMAIN s = 1 .. Len(kept) => Len(s) = Len(kept)  BY <1>0
      <4>. QED  BY <4>1, <4>2, <4>3
    <3>3. Pairs(got, VarLimit, has)  BY <1>2, <2>2, <3>2, <1>0, <1>t
    <3>. DEFINE n == Len(kept)
    <3>4. k \in Nat /\ n \in Nat /\ k + n <= Len(kept)  BY <1>0
    <3>5. \A i \in 1 .. n : k + i = i  OBVIOUS
    <3>6. got = RecordsAt(2 + k * (d + 1), n, d)  BY <3>1
    <3>7. has \in [DOMAIN got -> BOOLEAN] /\ d \in Nat /\ VarLimit \in Nat \ {0}  BY <1>t
    <3>. HIDE DEF k, n, got, d
    <3>8. full(has) = [i \in 1 .. n |-> Full(kept, k + i, d)]
      BY <1>0, <2>1, <3>3, <3>4, <3>6, <3>7, AttachAll DEF full
    <3>. QED  BY <2>1, <3>5, <3>8 DEF n
  <2>3. ASSUME job[t].what = "page"
        PROVE  \E n \in Nat :
                 /\ full(has) = [i \in 1 .. n |-> Full(kept, page.skip + i, words[2])]
                 /\ n >= Smaller(job[t].asked, job[t].seen - page.skip) /\ n <= job[t].asked
    <3>. DEFINE n == Smaller(page.limit, count - page.skip)
    <3>1. /\ page.limit = Smaller(job[t].asked, job[t].seen)
          /\ job[t].seen <= Len(kept) /\ page.skip < count
      BY <1>p, <1>k, <2>3 DEF Lowered
    <3>2. n \in Nat /\ page.skip + n <= Len(kept) /\ n <= job[t].asked
          /\ n >= Smaller(job[t].asked, job[t].seen - page.skip)
      BY <3>1, <1>0, <1>8, <1>t DEF Smaller
    <3>3. got = RecordsAt(2 + page.skip * (d + 1), n, d)
      <4>. DEFINE from == 2 + page.skip * (d + 1)
      <4>1. got = RecordsIn(words, from, n, d)  BY <1>p, <1>k, <2>3 DEF Scanned
      <4>. HIDE DEF from, n
      <4>2. RecordsIn(words, from, n, d) = RecordsAt(from, n, d)  BY DEF RecordsIn, RecordsAt
      <4>. QED  BY <4>1, <4>2 DEF from
    <3>4. Pairs(got, Batch, has)  BY <1>2, <2>3
    <3>. HIDE DEF n
    <3>5. full(has) = [i \in 1 .. n |-> Full(kept, page.skip + i, d)]
      BY <1>0, <1>t, <2>1, <3>2, <3>3, <3>4, AttachAll DEF full
    <3>. QED  BY <2>1, <3>2, <3>5
  <2>. QED  BY <2>2, <2>3, <1>1, <1>3, <1>4, <1>d DEF Answered
<1>. QED  BY <1>c, <1>5, <1>6, <1>7, <1>9 DEF ReadInv

LEMMA ReadStep == ASSUME OneThread, FileInv, RecordInv, ReadInv, [Next]_vars PROVE ReadInv'
<1>1. CASE UNCHANGED vars
  BY <1>1 DEF vars, ReadInv, Knows, Lowered, Scanned, Answered, ExactIds
<1>2. CASE \E t \in Threads : Reader(t)
  BY <1>2, HeadingKnows, SettleKnows, ScanKnows, PageKnows, AttachKnows DEF Reader
<1>3. CASE ~ \E t \in Threads : Reader(t)  BY <1>3, <1>1, ReadStepWriters DEF Next
<1>. QED  BY <1>1, <1>2, <1>3

LEMMA ReadAlways == ASSUME OneThread PROVE Spec => []ReadInv
<1>1. FileInv /\ RecordInv /\ ReadInv /\ [Next]_vars => ReadInv'  BY ReadStep
<1>. QED  BY <1>1, FileAlways, RecordAlways, ReadInit, PTL DEF Spec

\* What a reader answers with is what the record and its row say.
LEMMA FullIsResult == \A k : Full(kept, k, words[2]) = Result(kept[k])
BY DEF Full, Result

\* A search scans every record, whatever the size of its chunks, and gives each
\* its own metadata (vector_query, get_metadata_batch).
THEOREM SearchesSeeAll == ASSUME OneThread PROVE Spec => []SearchSeesAll
<1>1. ReadInv => SearchSeesAll
  <2>. SUFFICES ASSUME ReadInv, NEW t \in Threads,
                       pc[t] = "answer", job[t].what = "search", agreed, ExactIds,
                       Len(kept) <= VarLimit
                PROVE  job[t].got = [i \in 1 .. Len(kept) |-> Result(kept[i])]
    BY DEF SearchSeesAll
  <2>1. job[t].got = [i \in 1 .. Len(kept) |-> Full(kept, i, words[2])]
    BY DEF ReadInv, Answered
  <2>. QED  BY <2>1, FullIsResult
<1>. QED  BY <1>1, ReadAlways, PTL

\* A page holds consecutive records from its skip on with their metadata, as many
\* as were asked for and there, across a limit the client lowers and insertions
\* between the statistics and the page (get_vectors_with_pagination, the clients).
THEOREM PagesStaySlices == ASSUME OneThread PROVE Spec => []PagesAreSlices
<1>1. ReadInv => PagesAreSlices
  <2>. SUFFICES ASSUME ReadInv, NEW t \in Threads,
                       pc[t] = "answer", job[t].what = "page", agreed, ExactIds
                PROVE  LET got == job[t].got IN
                       /\ got = [i \in 1 .. Len(got) |-> Result(kept[page.skip + i])]
                       /\ Len(got) >= Smaller(job[t].asked, job[t].seen - page.skip)
                       /\ Len(got) <= job[t].asked
    BY DEF PagesAreSlices
  <2>1. PICK n \in Nat :
          /\ job[t].got = [i \in 1 .. n |-> Full(kept, page.skip + i, words[2])]
          /\ n >= Smaller(job[t].asked, job[t].seen - page.skip) /\ n <= job[t].asked
    BY DEF ReadInv, Answered
  <2>2. Len(job[t].got) = n
    <3>1. DOMAIN job[t].got = 1 .. n  BY <2>1
    <3>2. \A s : DOMAIN s = 1 .. n => Len(s) = n  OBVIOUS
    <3>. QED  BY <3>1, <3>2
  <2>3. job[t].got = [i \in 1 .. n |-> Result(kept[page.skip + i])]  BY <2>1, FullIsResult
  <2>. QED  BY <2>1, <2>2, <2>3
<1>. QED  BY <1>1, ReadAlways, PTL

=============================================================================

--------------------------- MODULE ExplorerProofs ---------------------------
(***************************************************************************)
(* What holds of the explorer for every tree, every set of rows the trash  *)
(* refuses and every bound: each view keeps its type and its scan, no      *)
(* trashed directory stays in the cache, the program leaves no delete      *)
(* behind, every ticket can be undone, and until a scan meets a change the *)
(* views show the rows, the sizes and the totals of the disk.              *)
(*                                                                         *)
(* The folds the model uses are not recursive operators: the lemmas of the *)
(* first part bring what one fold computes down to a sequence of its       *)
(* values, and the least index at which a claim fails is then refuted.     *)
(***************************************************************************)
EXTENDS Explorer, FiniteSetTheorems, SequenceTheorems, WellFoundedInduction, TLAPS

-----------------------------------------------------------------------------
(* Least and greatest.                                                     *)

(* Of the numbers in a set, one is the least, and one the greatest if the  *)
(* set has a bound.                                                        *)
LEMMA Least ==
  ASSUME NEW S \in SUBSET Nat, S # {}
  PROVE  \E n \in S : \A m \in S : n <= m
<1>1. PICK n \in S : \A m \in S : ~ (<<m, n>> \in OpToRel(<, Nat))
  BY NatLessThanWellFounded, WFMin
<1>2. \A m \in S : ~ (m < n)
  BY <1>1 DEF OpToRel
<1> QED
  BY <1>2

LEMMA Greatest ==
  ASSUME NEW n \in Nat, NEW S \in SUBSET (1..n), S # {}
  PROVE  Max(S) \in S /\ \A m \in S : m <= Max(S)
<1> DEFINE N == {n - m : m \in S}
<1>1. PICK k \in N : \A j \in N : k <= j
  <2>0. \A m \in S : m \in Nat /\ n - m \in Nat
    OBVIOUS
  <2>1. N \in SUBSET Nat /\ N # {}
    BY <2>0
  <2> QED
    BY <2>1, Least
<1>2. PICK m \in S : k = n - m
  BY <1>1
<1>3. ASSUME NEW j \in S PROVE m >= j
  <2>1. n - j \in N /\ j \in Nat /\ m \in Nat
    OBVIOUS
  <2>2. k <= n - j
    BY <1>1, <2>1
  <2> QED
    BY <1>2, <2>1, <2>2
<1> QED
  BY <1>3 DEF Max

LEMMA OneLess ==
  ASSUME NEW S, NEW i \in S, IsFiniteSet(S)
  PROVE  /\ IsFiniteSet(S \ {i})
         /\ Cardinality(S) \in Nat /\ Cardinality(S \ {i}) \in Nat
         /\ Cardinality(S \ {i}) = Cardinality(S) - 1
<1>1. Cardinality(S) \in Nat
  BY FS_CardinalityType
<1>2. IsFiniteSet(S \ {i}) /\ Cardinality(S \ {i}) = Cardinality(S) - 1
  BY FS_RemoveElement
<1>3. Cardinality(S \ {i}) \in Nat
  BY <1>2, FS_CardinalityType
<1> QED
  BY <1>1, <1>2, <1>3

-----------------------------------------------------------------------------
(* The folds of the module: sizes added up, rows inserted, rows put back.  *)

Turn(k, s, x, v) ==
  IF k = "own" THEN Own[x] + v
  ELSE IF k = "disk" THEN x.disk + v
  ELSE IF k = "insert" THEN Insert(v, s[x])
  ELSE PutBack(v, s[x])
Pick(k, S) == IF k \in {"own", "disk"} THEN CHOOSE x \in S : TRUE ELSE Max(S)
Turned(k, s, base, f, S) == IF S = {} THEN base ELSE Turn(k, s, Pick(k, S), f[S \ {Pick(k, S)}])
Folds(k, s, base, f, S) == f = [T \in SUBSET S |-> Turned(k, s, base, f, T)]

LEMMA FoldExists ==
  ASSUME NEW k, NEW s, NEW base, NEW S, IsFiniteSet(S),
         \A T \in SUBSET S : T # {} => Pick(k, T) \in T
  PROVE  \E f : Folds(k, s, base, f, S)
<1> DEFINE UpTo(n, f) ==
             /\ f = [T \in SUBSET S |-> f[T]]
             /\ \A T \in SUBSET S : Cardinality(T) <= n => f[T] = Turned(k, s, base, f, T)
           Bad == {n \in Nat : ~ \E f : UpTo(n, f)}
<1>0. \A T \in SUBSET S : IsFiniteSet(T) /\ Cardinality(T) \in Nat /\ Cardinality(T) <= Cardinality(S)
  BY FS_Subset, FS_CardinalityType
<1>1. Bad = {}
  <2> SUFFICES ASSUME Bad # {} PROVE FALSE
    OBVIOUS
  <2>1. PICK n \in Bad : \A m \in Bad : n <= m
    BY Least
  <2>2. CASE n = 0
    <3> DEFINE f == [T \in SUBSET S |-> base]
    <3>1. \A T \in SUBSET S : Cardinality(T) <= 0 => T = {}
      BY <1>0, FS_EmptySet
    <3>2. UpTo(0, f)
      BY <3>1 DEF Turned
    <3> QED
      BY <2>1, <2>2, <3>2
  <2>3. CASE n # 0
    <3>0. n \in Nat
      BY <2>1
    <3> HIDE DEF Bad
    <3>1. n - 1 \in Nat /\ n - 1 \notin Bad
      BY <2>1, <2>3, <3>0
    <3> USE DEF Bad
    <3>2. PICK f : UpTo(n - 1, f)
      BY <3>1
    <3> DEFINE g == [T \in SUBSET S |-> Turned(k, s, base, f, T)]
    <3>3. ASSUME NEW T \in SUBSET S, Cardinality(T) <= n PROVE g[T] = Turned(k, s, base, g, T)
      <4>1. CASE T = {}
        BY <4>1 DEF Turned
      <4>2. CASE T # {}
        <5> DEFINE x == Pick(k, T)
        <5>1. x \in T
          BY <4>2
        <5> HIDE DEF x
        <5>2. T \ {x} \in SUBSET S /\ Cardinality(T \ {x}) <= n - 1
          <6>1. Cardinality(T \ {x}) = Cardinality(T) - 1 /\ Cardinality(T) \in Nat
            BY <1>0, <5>1, OneLess
          <6> QED
            BY <2>1, <3>3, <6>1
        <5>3. f[T \ {x}] = g[T \ {x}]
          BY <3>2, <5>2
        <5>4. /\ g[T] = Turn(k, s, x, f[T \ {x}])
              /\ Turned(k, s, base, g, T) = Turn(k, s, x, g[T \ {x}])
          BY <4>2 DEF Turned, x
        <5> QED
          BY <5>3, <5>4
      <4> QED
        BY <4>1, <4>2
    <3>4. UpTo(n, g)
      BY <3>3
    <3> QED
      BY <2>1, <3>4
  <2> QED
    BY <2>2, <2>3
<1>2. PICK f : UpTo(Cardinality(S), f)
  BY <1>0, <1>1, FS_CardinalityType
<1>3. Folds(k, s, base, f, S)
  <2>1. \A T \in SUBSET S : f[T] = Turned(k, s, base, f, T)
    BY <1>0, <1>2
  <2>2. f = [T \in SUBSET S |-> f[T]]
    BY <1>2
  <2> QED
    BY <2>1, <2>2 DEF Folds
<1> QED
  BY <1>3

(* A fold over a sequence goes through its elements from the first on.     *)
Unfolds(k, s, n, base, last) ==
  \E it : /\ it[0] = base /\ it[n] = last
          /\ \A m \in 1..n : it[m] = Turn(k, s, m, it[m - 1])

LEMMA SequenceFold ==
  ASSUME NEW k \in {"insert", "back"}, NEW s, NEW n \in Nat, NEW base, NEW f, Folds(k, s, base, f, 1..n)
  PROVE  Unfolds(k, s, n, base, f[1..n])
<1> DEFINE it == [m \in 0..n |-> f[1..m]]
<1>1. it[0] = base
  <2>1. 1..0 = {} /\ {} \in SUBSET (1..n)
    OBVIOUS
  <2>2. f[{}] = base
    BY <2>1 DEF Folds, Turned
  <2> QED
    BY <2>1, <2>2
<1>2. ASSUME NEW m \in 1..n PROVE it[m] = Turn(k, s, m, it[m - 1])
  <2>1. Max(1..m) = m
    BY DEF Max
  <2>2. Pick(k, 1..m) = m
    BY <2>1 DEF Pick
  <2>0. m \in Nat /\ 1 <= m /\ m <= n
    OBVIOUS
  <2>3. 1..m \in SUBSET (1..n) /\ 1..m # {}
    BY <2>0
  <2>5. (1..m) \ {m} = 1..(m - 1)
    BY <2>0
  <2>4. f[1..m] = Turn(k, s, m, f[1..(m - 1)])
    BY <2>2, <2>3, <2>5 DEF Folds, Turned
  <2> QED
    BY <2>4
<1>3. it[n] = f[1..n]
  OBVIOUS
<1> HIDE DEF it
<1> QED
  BY <1>1, <1>2, <1>3 DEF Unfolds

Inserted(base, s) == FoldLeft(Insert, base, s)
Returned(base, s) == FoldLeft(PutBack, base, s)

LEMMA InsertFolds ==
  ASSUME NEW T, NEW s \in Seq(T), NEW base
  PROVE  \E it : /\ it[0] = base /\ it[Len(s)] = Inserted(base, s)
                 /\ \A m \in 1..Len(s) : it[m] = Insert(it[m - 1], s[m])
<1> DEFINE S == DOMAIN s
           Is(f) == f = [U \in SUBSET S |-> IF U = {} THEN base ELSE Insert(f[U \ {Max(U)}], s[Max(U)])]
<1>0. Len(s) \in Nat /\ S = 1..Len(s) /\ IsFiniteSet(S)
  BY LenProperties, FS_Interval
<1>1. PICK f : Folds("insert", s, base, f, S)
  <2>1. \A U \in SUBSET S : U # {} => Pick("insert", U) \in U
    BY <1>0, Greatest DEF Pick
  <2> HIDE DEF S
  <2> QED
    BY <1>0, <2>1, FoldExists
<1>2. Is(f)
  BY <1>1 DEF Folds, Turned, Turn, Pick
<1>3. Inserted(base, s) = (CHOOSE g : Is(g))[S]
  BY DEF Inserted, FoldLeft, MapThenFoldSet
<1> DEFINE h == CHOOSE g : Is(g)
<1>4. Is(h)
  BY <1>2
<1> DEFINE n == Len(s)
           kind == "insert"
<1>5. n \in Nat /\ kind \in {"insert", "back"} /\ Folds(kind, s, base, h, 1..n)
  BY <1>0, <1>4 DEF Folds, Turned, Turn, Pick
<1> HIDE DEF h, n, S, kind
<1>6. Unfolds(kind, s, n, base, h[1..n])
  BY <1>5, SequenceFold
<1>7. PICK it : /\ it[0] = base /\ it[n] = h[1..n]
                /\ \A m \in 1..n : it[m] = Turn(kind, s, m, it[m - 1])
  BY <1>6 DEF Unfolds
<1> QED
  BY <1>0, <1>3, <1>7 DEF Turn, kind, h, n

LEMMA BackFolds ==
  ASSUME NEW T, NEW s \in Seq(T), NEW base
  PROVE  \E it : /\ it[0] = base /\ it[Len(s)] = Returned(base, s)
                 /\ \A m \in 1..Len(s) : it[m] = PutBack(it[m - 1], s[m])
<1> DEFINE S == DOMAIN s
           Is(f) == f = [U \in SUBSET S |-> IF U = {} THEN base ELSE PutBack(f[U \ {Max(U)}], s[Max(U)])]
<1>0. Len(s) \in Nat /\ S = 1..Len(s) /\ IsFiniteSet(S)
  BY LenProperties, FS_Interval
<1>1. PICK f : Folds("back", s, base, f, S)
  <2>1. \A U \in SUBSET S : U # {} => Pick("back", U) \in U
    BY <1>0, Greatest DEF Pick
  <2> HIDE DEF S
  <2> QED
    BY <1>0, <2>1, FoldExists
<1>2. Is(f)
  BY <1>1 DEF Folds, Turned, Turn, Pick
<1>3. Returned(base, s) = (CHOOSE g : Is(g))[S]
  BY DEF Returned, FoldLeft, MapThenFoldSet
<1> DEFINE h == CHOOSE g : Is(g)
<1>4. Is(h)
  BY <1>2
<1> DEFINE n == Len(s)
           kind == "back"
<1>5. n \in Nat /\ kind \in {"insert", "back"} /\ Folds(kind, s, base, h, 1..n)
  BY <1>0, <1>4 DEF Folds, Turned, Turn, Pick
<1> HIDE DEF h, n, S, kind
<1>6. Unfolds(kind, s, n, base, h[1..n])
  BY <1>5, SequenceFold
<1>7. PICK it : /\ it[0] = base /\ it[n] = h[1..n]
                /\ \A m \in 1..n : it[m] = Turn(kind, s, m, it[m - 1])
  BY <1>6 DEF Unfolds
<1> QED
  BY <1>0, <1>3, <1>7 DEF Turn, kind, h, n

(* A sum of numbers is a number.                                           *)
LEMMA FoldNat ==
  ASSUME NEW k, NEW S, NEW f, IsFiniteSet(S), Folds(k, <<>>, 0, f, S),
         \A T \in SUBSET S : T # {} => Pick(k, T) \in T,
         \A x \in S, v \in Nat : Turn(k, <<>>, x, v) \in Nat
  PROVE  f[S] \in Nat
<1> DEFINE Bad == {T \in SUBSET S : f[T] \notin Nat}
<1>0. \A T \in SUBSET S : IsFiniteSet(T) /\ Cardinality(T) \in Nat /\ f[T] = Turned(k, <<>>, 0, f, T)
  BY FS_Subset, FS_CardinalityType DEF Folds
<1>1. Bad = {}
  <2> SUFFICES ASSUME Bad # {} PROVE FALSE
    OBVIOUS
  <2> DEFINE N == {Cardinality(T) : T \in Bad}
  <2>1. N \in SUBSET Nat /\ N # {}
    BY <1>0
  <2>2. PICK T \in Bad : \A U \in Bad : Cardinality(T) <= Cardinality(U)
    <3>1. PICK n \in N : \A m \in N : n <= m
      BY <2>1, Least
    <3> QED
      BY <3>1
  <2>3. T # {}
    <3>1. f[T] = Turned(k, <<>>, 0, f, T) /\ f[T] \notin Nat
      BY <1>0
    <3> QED
      BY <3>1 DEF Turned
  <2> DEFINE x == Pick(k, T)
  <2>4. x \in T
    BY <2>3
  <2>5. f[T] = Turn(k, <<>>, x, f[T \ {x}])
    BY <1>0, <2>3 DEF Turned
  <2> HIDE DEF x
  <2>6. Cardinality(T \ {x}) = Cardinality(T) - 1 /\ Cardinality(T) \in Nat
    BY <1>0, <2>4, OneLess
  <2>7. T \ {x} \notin Bad /\ T \ {x} \in SUBSET S
    BY <2>2, <2>6
  <2> QED
    BY <2>4, <2>5, <2>7
<1> QED
  BY <1>1

LEMMA WeightNat ==
  ASSUME NEW S \in SUBSET Paths
  PROVE  Weight(S) \in Nat
<1> DEFINE Is(f) == f = [U \in SUBSET S |-> IF U = {} THEN 0
                          ELSE LET x == CHOOSE x \in U : TRUE IN Own[x] + f[U \ {x}]]
<1>0. IsFiniteSet(S) /\ \A U \in SUBSET S : U # {} => Pick("own", U) \in U
  BY TreeAssumption, FS_Subset DEF Pick
<1>1. PICK f : Folds("own", <<>>, 0, f, S)
  BY <1>0, FoldExists
<1>2. Is(f)
  BY <1>1 DEF Folds, Turned, Turn, Pick
<1>3. Weight(S) = (CHOOSE g : Is(g))[S]
  BY DEF Weight, MapThenSumSet, MapThenFoldSet
<1> DEFINE h == CHOOSE g : Is(g)
<1>4. Is(h)
  BY <1>2
<1>5. Folds("own", <<>>, 0, h, S)
  BY <1>4 DEF Folds, Turned, Turn, Pick
<1>6. \A x \in S, v \in Nat : Turn("own", <<>>, x, v) \in Nat
  BY TreeAssumption DEF Turn
<1> HIDE DEF h
<1>7. h[S] \in Nat
  BY <1>0, <1>5, <1>6, FoldNat
<1> QED
  BY <1>3, <1>7 DEF h

LEMMA SumRowsNat ==
  ASSUME NEW S \in SUBSET Rows, IsFiniteSet(S)
  PROVE  SumRows(S) \in Nat
<1> DEFINE Is(f) == f = [U \in SUBSET S |-> IF U = {} THEN 0
                          ELSE LET x == CHOOSE x \in U : TRUE IN x.disk + f[U \ {x}]]
<1>0. \A U \in SUBSET S : U # {} => Pick("disk", U) \in U
  BY DEF Pick
<1>1. PICK f : Folds("disk", <<>>, 0, f, S)
  BY <1>0, FoldExists
<1>2. Is(f)
  BY <1>1 DEF Folds, Turned, Turn, Pick
<1>3. SumRows(S) = (CHOOSE g : Is(g))[S]
  BY DEF SumRows, MapThenSumSet, MapThenFoldSet
<1> DEFINE h == CHOOSE g : Is(g)
<1>4. Is(h)
  BY <1>2
<1>5. Folds("disk", <<>>, 0, h, S)
  BY <1>4 DEF Folds, Turned, Turn, Pick
<1>6. \A x \in S, v \in Nat : Turn("disk", <<>>, x, v) \in Nat
  BY DEF Turn, Rows
<1> HIDE DEF h
<1>7. h[S] \in Nat
  BY <1>0, <1>5, <1>6, FoldNat
<1> QED
  BY <1>3, <1>7 DEF h

-----------------------------------------------------------------------------
(* The tree.                                                               *)

AboveBody(f, p) == IF p = Root THEN {Root} ELSE {p} \cup f[Up[p]]

LEMMA AboveExists == \E f : f = [p \in Paths |-> AboveBody(f, p)]
<1> DEFINE UpTo(n, f) ==
             /\ f = [p \in Paths |-> f[p]]
             /\ \A p \in Paths : p <= n => f[p] = AboveBody(f, p)
           Bad == {n \in Nat : ~ \E f : UpTo(n, f)}
<1>0. /\ \A p \in Paths : p \in Nat
      /\ \A p \in Paths \ {Root} : Up[p] \in Paths /\ Up[p] < p /\ Up[p] \in Nat
  BY TreeAssumption
<1>1. Bad = {}
  <2> SUFFICES ASSUME Bad # {} PROVE FALSE
    OBVIOUS
  <2>1. PICK n \in Bad : \A m \in Bad : n <= m
    BY Least
  <2>2. CASE n = 0
    <3> DEFINE f == [p \in Paths |-> IF p = Root THEN {Root} ELSE {p}]
    <3>1. ASSUME NEW p \in Paths, p <= 0 PROVE f[p] = AboveBody(f, p)
      <4>1. p = Root
        BY <1>0, <3>1
      <4> QED
        BY <4>1 DEF AboveBody
    <3>2. UpTo(0, f)
      BY <3>1
    <3> QED
      BY <2>1, <2>2, <3>2
  <2>3. CASE n # 0
    <3>0. n \in Nat
      BY <2>1
    <3> HIDE DEF Bad
    <3>1. n - 1 \in Nat /\ n - 1 \notin Bad
      BY <2>1, <2>3, <3>0
    <3> USE DEF Bad
    <3>2. PICK f : UpTo(n - 1, f)
      BY <3>1
    <3> DEFINE g == [p \in Paths |-> AboveBody(f, p)]
    <3>3. ASSUME NEW p \in Paths, p <= n PROVE g[p] = AboveBody(g, p)
      <4>1. CASE p = Root
        BY <4>1 DEF AboveBody
      <4>2. CASE p # Root
        <5>1. Up[p] \in Paths /\ Up[p] <= n - 1
          BY <1>0, <3>0, <3>3, <4>2
        <5>2. f[Up[p]] = g[Up[p]]
          BY <3>2, <5>1
        <5> QED
          BY <4>2, <5>2 DEF AboveBody
      <4> QED
        BY <4>1, <4>2
    <3>4. UpTo(n, g)
      BY <3>3
    <3> QED
      BY <2>1, <3>4
  <2> QED
    BY <2>2, <2>3
<1>2. \E n \in Nat : \A p \in Paths : p <= n
  <2>1. CASE Paths = {}
    BY <2>1
  <2>2. CASE Paths # {}
    <3> DEFINE N == {n \in Nat : \A p \in Paths : p <= n}
               Over(n) == {p \in Paths : p > n}
               Sizes == {Cardinality(Over(n)) : n \in Nat}
    <3>1. \A n \in Nat : IsFiniteSet(Over(n)) /\ Cardinality(Over(n)) \in Nat
      BY TreeAssumption, FS_Subset, FS_CardinalityType
    <3>2. PICK k \in Sizes : \A j \in Sizes : k <= j
      <4>1. Sizes \in SUBSET Nat /\ Sizes # {}
        BY <3>1
      <4> HIDE DEF Sizes
      <4> QED
        BY <4>1, Least
    <3>3. PICK n \in Nat : k = Cardinality(Over(n))
      BY <3>2
    <3>4. Over(n) = {}
      <4> SUFFICES ASSUME NEW p \in Over(n) PROVE FALSE
        OBVIOUS
      <4>1. p \in Nat /\ p \notin Over(p) /\ Over(p) \in SUBSET Over(n)
        BY <1>0
      <4>2. Cardinality(Over(p)) < Cardinality(Over(n))
        <5>1. Over(p) # Over(n)
          BY <4>1
        <5> HIDE DEF Over
        <5> QED
          BY <3>1, <4>1, <5>1, FS_Subset
      <4>3. Cardinality(Over(p)) \in Sizes
        BY <4>1
      <4> HIDE DEF Over, Sizes
      <4> QED
        BY <3>1, <3>2, <3>3, <4>1, <4>2, <4>3
    <3> QED
      BY <1>0, <3>4
  <2> QED
    BY <2>1, <2>2
<1>3. PICK n \in Nat : \A p \in Paths : p <= n
  BY <1>2
<1>4. PICK f : UpTo(n, f)
  BY <1>1
<1> QED
  BY <1>3, <1>4

LEMMA AboveDef ==
  ASSUME NEW p \in Paths
  PROVE  Above[p] = IF p = Root THEN {Root} ELSE {p} \cup Above[Up[p]]
<1> DEFINE Is(f) == f = [q \in Paths |-> IF q = Root THEN {Root} ELSE {q} \cup f[Up[q]]]
<1>1. \E f : Is(f)
  BY AboveExists DEF AboveBody
<1>2. Above = CHOOSE f : Is(f)
  BY DEF Above
<1>3. Is(Above)
  BY <1>1, <1>2
<1> QED
  BY <1>3

LEMMA AbovePaths == \A p \in Paths : Above[p] \in SUBSET Paths /\ p \in Above[p]
<1> DEFINE Bad == {p \in Paths : ~ (Above[p] \in SUBSET Paths /\ p \in Above[p])}
<1>1. Bad = {}
  <2> SUFFICES ASSUME Bad # {} PROVE FALSE
    OBVIOUS
  <2>1. Bad \in SUBSET Nat
    BY TreeAssumption
  <2>2. PICK p \in Bad : \A q \in Bad : p <= q
    BY <2>1, Least
  <2>3. p # Root
    <3>1. Root \in Paths /\ Above[Root] = {Root}
      BY AboveDef, TreeAssumption
    <3> QED
      BY <3>1
  <2>4. Up[p] \in Paths /\ Up[p] < p
    BY <2>3, TreeAssumption
  <2>5. Up[p] \notin Bad
    BY <2>1, <2>2, <2>4, TreeAssumption
  <2>6. Above[p] = {p} \cup Above[Up[p]]
    BY <2>3, AboveDef
  <2> QED
    BY <2>4, <2>5, <2>6
<1> QED
  BY <1>1

LEMMA BelowPaths ==
  ASSUME NEW p \in Paths
  PROVE  Below(p) \in SUBSET Paths /\ p \in Below(p) /\ (p # Root => Root \notin Below(p))
BY AbovePaths, AboveDef, TreeAssumption DEF Below

-----------------------------------------------------------------------------
(* Sorting.                                                                *)

(* A finite set can be put in any total order.                             *)
LEMMA Orders ==
  ASSUME NEW S, IsFiniteSet(S), NEW R,
         \A x \in S : <<x, x>> \notin R,
         \A x, y, z \in S : <<x, y>> \in R /\ <<y, z>> \in R => <<x, z>> \in R,
         \A x, y \in S : x # y => <<x, y>> \in R \/ <<y, x>> \in R
  PROVE  /\ Cardinality(S) \in Nat
         /\ \E s \in [1..Cardinality(S) -> S] :
              \A i, j \in 1..Cardinality(S) : i < j => <<s[i], s[j]>> \in R
<1> DEFINE n == Cardinality(S)
           Under(x) == {y \in S : <<y, x>> \in R}
           rank == [x \in S |-> Cardinality(Under(x)) + 1]
<1>0. n \in Nat
  BY FS_CardinalityType
<1>1. ASSUME NEW x \in S
      PROVE  /\ IsFiniteSet(Under(x)) /\ Cardinality(Under(x)) \in Nat
             /\ Cardinality(Under(x)) < n
  <2>1. Under(x) \in SUBSET S /\ x \notin Under(x)
    OBVIOUS
  <2> HIDE DEF Under
  <2>2. IsFiniteSet(Under(x)) /\ Cardinality(Under(x)) <= n /\ Cardinality(Under(x)) # n
    BY <2>1, FS_Subset
  <2>3. Cardinality(Under(x)) \in Nat
    BY <2>2, FS_CardinalityType
  <2> QED
    BY <1>0, <2>2, <2>3
<1>2. ASSUME NEW x \in S, NEW y \in S, <<x, y>> \in R
      PROVE  rank[x] < rank[y]
  <2>1. Under(x) \in SUBSET Under(y) /\ x \in Under(y) /\ x \notin Under(x)
    BY <1>2
  <2>2. Under(x) # Under(y)
    BY <2>1
  <2>3. rank[x] = Cardinality(Under(x)) + 1 /\ rank[y] = Cardinality(Under(y)) + 1
    OBVIOUS
  <2> HIDE DEF Under, rank
  <2>4. Cardinality(Under(x)) <= Cardinality(Under(y)) /\ Cardinality(Under(x)) # Cardinality(Under(y))
    BY <1>1, <2>1, <2>2, FS_Subset
  <2> QED
    BY <1>1, <2>3, <2>4
<1>3. rank \in [S -> 1..n] /\ \A x \in S : rank[x] \in Nat
  <2>1. ASSUME NEW x \in S PROVE Cardinality(Under(x)) + 1 \in 1..n /\ Cardinality(Under(x)) + 1 \in Nat
    <3>1. Cardinality(Under(x)) \in Nat /\ Cardinality(Under(x)) < n
      BY <1>1
    <3> HIDE DEF Under, n
    <3> QED
      BY <1>0, <3>1
  <2> HIDE DEF Under, n
  <2> QED
    BY <2>1
<1> HIDE DEF rank
<1>4. rank \in Injection(S, 1..n)
  <2>1. ASSUME NEW x \in S, NEW y \in S, rank[x] = rank[y] PROVE x = y
    <3>1. ~ (rank[x] < rank[y]) /\ ~ (rank[y] < rank[x])
      BY <1>3, <2>1
    <3> QED
      BY <1>2, <3>1
  <2> QED
    BY <1>3, <2>1 DEF Injection, IsInjective
<1>5. rank \in Surjection(S, 1..n)
  <2>1. IsFiniteSet(1..n) /\ Cardinality(1..n) = n
    BY <1>0, FS_Interval
  <2> QED
    BY <1>0, <1>4, <2>1, FS_Injection
<1>6. \A i \in 1..n : \E x \in S : rank[x] = i
  BY <1>5 DEF Surjection
<1> DEFINE s == [i \in 1..n |-> CHOOSE x \in S : rank[x] = i]
<1>7. s \in [1..n -> S] /\ \A i \in 1..n : s[i] \in S /\ rank[s[i]] = i
  BY <1>6
<1> HIDE DEF s
<1>8. ASSUME NEW i \in 1..n, NEW j \in 1..n, i < j PROVE <<s[i], s[j]>> \in R
  <2>1. s[i] # s[j]
    BY <1>7, <1>8, <1>0
  <2>2. <<s[j], s[i]>> \notin R
    <3>1. i \in Int /\ j \in Int /\ ~ (j < i)
      BY <1>0, <1>8
    <3> QED
      BY <1>2, <1>7, <3>1
  <2> QED
    BY <1>7, <2>1, <2>2
<1> HIDE DEF n
<1>9. \E t \in [1..n -> S] : \A i, j \in 1..n : i < j => <<t[i], t[j]>> \in R
  BY <1>7, <1>8
<1> QED
  BY <1>0, <1>9 DEF n

LEMMA SortedSeq ==
  ASSUME NEW S \in SUBSET Rows, IsFiniteSet(S)
  PROVE  Sorted(S) \in Seq(S)
<1> DEFINE R == {e \in S \X S : Ahead(e[1], e[2])}
           n == Cardinality(S)
<1>0. \A r \in Rows : r = [path |-> r.path, disk |-> r.disk] /\ r.path \in Nat /\ r.disk \in Nat
  <2>1. \A r \in Rows : r = [path |-> r.path, disk |-> r.disk] /\ r.path \in Paths /\ r.disk \in Nat
    BY DEF Rows
  <2> QED
    BY <2>1, TreeAssumption
<1>1. \A x, y \in S : <<x, y>> \in R <=> Ahead(x, y)
  OBVIOUS
<1>2. /\ \A x \in S : ~ Ahead(x, x)
      /\ \A x, y, z \in S : Ahead(x, y) /\ Ahead(y, z) => Ahead(x, z)
  BY <1>0 DEF Ahead
<1>3. ASSUME NEW x \in S, NEW y \in S, x # y PROVE Ahead(x, y) \/ Ahead(y, x)
  <2>1. x.path # y.path \/ x.disk # y.disk
    BY <1>0, <1>3
  <2> QED
    BY <1>0, <2>1 DEF Ahead
<1> HIDE DEF R
<1>4. n \in Nat /\ \E s \in [1..n -> S] : \A i, j \in 1..n : i < j => <<s[i], s[j]>> \in R
  BY <1>1, <1>2, <1>3, Orders
<1>5. PICK s \in [1..n -> S] : \A i, j \in 1..n : i < j => Ahead(s[i], s[j])
  BY <1>1, <1>4
<1>6. Sorted(S) = CHOOSE t \in [1..n -> S] : \A i, j \in DOMAIN t : i < j => Ahead(t[i], t[j])
  BY DEF Sorted, InOrder
<1>7. Sorted(S) \in [1..n -> S]
  <2>1. \E t \in [1..n -> S] : \A i, j \in DOMAIN t : i < j => Ahead(t[i], t[j])
    BY <1>5
  <2> QED
    BY <1>6, <2>1
<1> QED
  BY <1>4, <1>7

LEMMA PathSeq ==
  ASSUME NEW S, IsFiniteSet(S), \A r \in S : r.path \in Nat,
         \A a, b \in S : a.path = b.path => a = b
  PROVE  InOrder(S, LAMBDA a, b : a.path < b.path) \in Seq(S)
<1> DEFINE R == {e \in S \X S : e[1].path < e[2].path}
           n == Cardinality(S)
<1>1. \A x, y \in S : <<x, y>> \in R <=> x.path < y.path
  OBVIOUS
<1> HIDE DEF R
<1>3. /\ \A x \in S : <<x, x>> \notin R
      /\ \A x, y, z \in S : <<x, y>> \in R /\ <<y, z>> \in R => <<x, z>> \in R
      /\ \A x, y \in S : x # y => <<x, y>> \in R \/ <<y, x>> \in R
  BY <1>1
<1>4. n \in Nat /\ \E s \in [1..n -> S] : \A i, j \in 1..n : i < j => <<s[i], s[j]>> \in R
  BY <1>3, Orders
<1>5. PICK s \in [1..n -> S] : \A i, j \in 1..n : i < j => s[i].path < s[j].path
  BY <1>1, <1>4
<1> DEFINE q == InOrder(S, LAMBDA a, b : a.path < b.path)
<1>6. q = CHOOSE t \in [1..n -> S] : \A i, j \in DOMAIN t : i < j => t[i].path < t[j].path
  BY DEF InOrder
<1> HIDE DEF q
<1>7. q \in [1..n -> S]
  <2>1. \E t \in [1..n -> S] : \A i, j \in DOMAIN t : i < j => t[i].path < t[j].path
    BY <1>5
  <2> QED
    BY <1>6, <2>1
<1>8. q \in Seq(S)
  BY <1>4, <1>7
<1> QED
  BY <1>8 DEF q

LEMMA IndexSeq ==
  ASSUME NEW k \in Nat, NEW S \in SUBSET (1..k)
  PROVE  InOrder(S, LAMBDA a, b : a < b) \in Seq(S)
<1> DEFINE R == {e \in S \X S : e[1] < e[2]}
           n == Cardinality(S)
<1>1. \A x, y \in S : <<x, y>> \in R <=> x < y
  OBVIOUS
<1> HIDE DEF R
<1>2. S \in SUBSET Nat /\ IsFiniteSet(S)
  <2>1. IsFiniteSet(1..k)
    BY FS_Interval
  <2>2. IsFiniteSet(S)
    BY <2>1, FS_Subset
  <2> QED
    BY <2>2
<1>3. /\ \A x \in S : <<x, x>> \notin R
      /\ \A x, y, z \in S : <<x, y>> \in R /\ <<y, z>> \in R => <<x, z>> \in R
      /\ \A x, y \in S : x # y => <<x, y>> \in R \/ <<y, x>> \in R
  BY <1>1, <1>2
<1>4. n \in Nat /\ \E s \in [1..n -> S] : \A i, j \in 1..n : i < j => <<s[i], s[j]>> \in R
  BY <1>2, <1>3, Orders
<1>5. PICK s \in [1..n -> S] : \A i, j \in 1..n : i < j => s[i] < s[j]
  BY <1>1, <1>4
<1> DEFINE q == InOrder(S, LAMBDA a, b : a < b)
<1>6. q = CHOOSE t \in [1..n -> S] : \A i, j \in DOMAIN t : i < j => t[i] < t[j]
  BY DEF InOrder
<1> HIDE DEF q
<1>7. q \in [1..n -> S]
  <2>1. \E t \in [1..n -> S] : \A i, j \in DOMAIN t : i < j => t[i] < t[j]
    BY <1>5
  <2> QED
    BY <1>6, <2>1
<1>8. q \in Seq(S)
  BY <1>4, <1>7
<1> QED
  BY <1>8 DEF q

LEMMA KeepSeq ==
  ASSUME NEW T, NEW rows \in Seq(T), NEW S
  PROVE  Keep(rows, S) \in Seq(T)
<1> DEFINE at == InOrder({i \in DOMAIN rows : rows[i].path \in S}, LAMBDA i, j : i < j)
<1>1. Len(rows) \in Nat /\ DOMAIN rows = 1..Len(rows)
  OBVIOUS
<1>2. at \in Seq({i \in DOMAIN rows : rows[i].path \in S})
  BY <1>1, IndexSeq
<1>3. Keep(rows, S) = [n \in DOMAIN at |-> rows[at[n]]]
  BY DEF Keep
<1> HIDE DEF at
<1>4. DOMAIN at = 1..Len(at) /\ Len(at) \in Nat /\ \A n \in DOMAIN at : at[n] \in DOMAIN rows
  BY <1>2
<1>5. \A n \in 1..Len(at) : rows[at[n]] \in T
  BY <1>1, <1>4
<1>6. [n \in 1..Len(at) |-> rows[at[n]]] \in Seq(T)
  BY <1>4, <1>5
<1> QED
  BY <1>3, <1>4, <1>6

-----------------------------------------------------------------------------
(* Views and the cache.                                                    *)

Caches(c) == DOMAIN c \subseteq Dirs /\ c = [d \in DOMAIN c |-> c[d]] /\ \A d \in DOMAIN c : c[d] \in Views
Same(c, e) == DOMAIN e = DOMAIN c /\ \A d \in DOMAIN c : e[d].scanning = c[d].scanning

LEMMA RowParts ==
  ASSUME NEW r \in Rows
  PROVE  /\ r.path \in Paths /\ r.path # Root /\ r.path \in Nat /\ r.disk \in Nat
         /\ Up[r.path] \in Dirs /\ Up[r.path] \in Paths
<1>1. r.path \in Paths \ {Root} /\ r.disk \in Nat
  BY DEF Rows
<1> QED
  BY <1>1, TreeAssumption

LEMMA ViewParts ==
  ASSUME NEW v \in Views
  PROVE  /\ v.rows \in Seq(Rows) /\ v.stash \in Seq(Rows) /\ v.disk \in Nat
         /\ v.scanning \in BOOLEAN /\ v.partial \in BOOLEAN
         /\ v = [rows |-> v.rows, stash |-> v.stash, disk |-> v.disk,
                 scanning |-> v.scanning, partial |-> v.partial]
BY DEF Views

LEMMA ShiftNat ==
  ASSUME NEW a \in Nat, NEW b \in Nat, NEW c \in Nat
  PROVE  Shift(a, b, c) \in Nat
<1>1. CASE a >= b
  <2>1. Max({a - b, 0}) = a - b
    BY <1>1 DEF Max
  <2> QED
    BY <1>1, <2>1 DEF Shift
<1>2. CASE ~ (a >= b)
  <2>1. Max({a - b, 0}) = 0
    BY <1>2 DEF Max
  <2> QED
    BY <2>1 DEF Shift
<1> QED
  BY <1>1, <1>2

LEMMA ShiftRowsSeq ==
  ASSUME NEW rows \in Seq(Rows), NEW on, NEW from \in Nat, NEW to \in Nat
  PROVE  ShiftRows(rows, on, from, to) \in Seq(Rows)
<1> DEFINE new(i) == IF rows[i].path \in on THEN [rows[i] EXCEPT !.disk = Shift(@, from, to)] ELSE rows[i]
<1>1. Len(rows) \in Nat /\ DOMAIN rows = 1..Len(rows) /\ \A i \in 1..Len(rows) : rows[i] \in Rows
  OBVIOUS
<1>2. ASSUME NEW i \in 1..Len(rows) PROVE new(i) \in Rows
  <2>1. rows[i] \in Rows
    BY <1>1
  <2>2. Shift(rows[i].disk, from, to) \in Nat
    BY <2>1, RowParts, ShiftNat
  <2> QED
    BY <2>1, <2>2 DEF Rows
<1> HIDE DEF new
<1>3. [i \in 1..Len(rows) |-> new(i)] \in Seq(Rows)
  BY <1>1, <1>2
<1> QED
  BY <1>1, <1>3 DEF ShiftRows, new

LEMMA CarryKeeps ==
  ASSUME NEW c, Caches(c), NEW d, NEW from \in Nat, NEW to \in Nat
  PROVE  Caches(Carry(c, d, from, to)) /\ Same(c, Carry(c, d, from, to))
<1> DEFINE new == Carry(c, d, from, to)
<1>1. ASSUME NEW e \in DOMAIN c PROVE new[e] \in Views /\ new[e].scanning = c[e].scanning
  <2>0. c[e] \in Views
    BY DEF Caches
  <2>1. CASE e \in Above[d]
    <3> DEFINE v == c[e]
    <3>1. new[e] = [v EXCEPT !.disk = Shift(@, from, to),
                             !.rows = ShiftRows(@, Above[d], from, to),
                             !.stash = ShiftRows(@, Above[d], from, to)]
      BY <2>1 DEF Carry
    <3>2. v \in Views
      BY <2>0
    <3> HIDE DEF v, new
    <3>3. /\ ShiftRows(v.rows, Above[d], from, to) \in Seq(Rows)
          /\ ShiftRows(v.stash, Above[d], from, to) \in Seq(Rows)
          /\ Shift(v.disk, from, to) \in Nat
      BY <3>2, ViewParts, ShiftRowsSeq, ShiftNat
    <3>4. new[e] \in Views /\ new[e].scanning = v.scanning
      BY <3>1, <3>2, <3>3 DEF Views
    <3> QED
      BY <3>4 DEF v
  <2>2. CASE e \notin Above[d]
    BY <2>0, <2>2 DEF Carry
  <2> QED
    BY <2>1, <2>2
<1>2. DOMAIN new = DOMAIN c /\ new = [e \in DOMAIN new |-> new[e]]
  BY DEF Carry
<1> HIDE DEF new
<1>3. Caches(new) /\ Same(c, new)
  BY <1>1, <1>2 DEF Caches, Same
<1> QED
  BY <1>3 DEF new

LEMMA PutRowKeeps ==
  ASSUME NEW c, Caches(c), NEW d \in Dirs, NEW n \in Nat
  PROVE  Caches(PutRow(c, d, n)) /\ Same(c, PutRow(c, d, n))
<1> DEFINE put(rows) == [i \in DOMAIN rows |-> IF rows[i].path = d THEN Row(d, n) ELSE rows[i]]
           new == PutRow(c, d, n)
<1>1. CASE d # Root /\ Up[d] \in DOMAIN c
  <2>0. Row(d, n) \in Rows
    BY <1>1, TreeAssumption DEF Row, Rows
  <2>1. ASSUME NEW rows \in Seq(Rows) PROVE put(rows) \in Seq(Rows)
    <3>1. Len(rows) \in Nat /\ DOMAIN rows = 1..Len(rows) /\ \A i \in 1..Len(rows) : rows[i] \in Rows
      OBVIOUS
    <3>2. \A i \in 1..Len(rows) : (IF rows[i].path = d THEN Row(d, n) ELSE rows[i]) \in Rows
      BY <2>0, <3>1
    <3> QED
      BY <3>1, <3>2
  <2> DEFINE v == c[Up[d]]
             w == [v EXCEPT !.rows = put(@), !.stash = put(@)]
  <2>2. /\ DOMAIN new = DOMAIN c /\ new = [e \in DOMAIN new |-> new[e]]
        /\ \A e \in DOMAIN c : e # Up[d] => new[e] = c[e]
    BY <1>1 DEF PutRow, Caches
  <2>3. v \in Views
    BY <1>1 DEF Caches
  <2>8. new = [c EXCEPT ![Up[d]].rows = put(@), ![Up[d]].stash = put(@)]
    BY <1>1 DEF PutRow
  <2> HIDE DEF put, new
  <2>9. new[Up[d]] = w
    BY <1>1, <2>3, <2>8 DEF Caches, Views
  <2>4. w \in Views /\ w.scanning = v.scanning
    <3> HIDE DEF v
    <3>1. put(v.rows) \in Seq(Rows) /\ put(v.stash) \in Seq(Rows)
      BY <2>1, <2>3, ViewParts
    <3> QED
      BY <2>3, <3>1 DEF Views
  <2> HIDE DEF w
  <2>6. \A e \in DOMAIN c : new[e] \in Views /\ new[e].scanning = c[e].scanning
    BY <2>2, <2>4, <2>9 DEF Caches, v
  <2>7. Caches(new) /\ Same(c, new)
    BY <2>2, <2>6 DEF Caches, Same
  <2> QED
    BY <2>7 DEF new
<1>2. CASE ~ (d # Root /\ Up[d] \in DOMAIN c)
  BY <1>2 DEF PutRow, Same
<1> QED
  BY <1>1, <1>2

LEMMA InsertSeq ==
  ASSUME NEW rows \in Seq(Rows), NEW r \in Rows
  PROVE  Insert(rows, r) \in Seq(Rows)
<1> DEFINE later == {i \in DOMAIN rows : Ahead(r, rows[i])}
           k == IF later = {} THEN Len(rows) + 1 ELSE Min(later)
<1>0. Len(rows) \in Nat /\ DOMAIN rows = 1..Len(rows) /\ \A i \in 1..Len(rows) : rows[i] \in Rows
  OBVIOUS
<1>1. k \in 1..(Len(rows) + 1)
  <2>1. CASE later = {}
    BY <1>0, <2>1
  <2>2. CASE later # {}
    <3>1. later \in SUBSET Nat
      BY <1>0
    <3>2. \E i \in later : \A j \in later : i <= j
      BY <2>2, <3>1, Least
    <3>3. Min(later) \in later
      BY <3>2 DEF Min
    <3> QED
      BY <1>0, <2>2, <3>3
  <2> QED
    BY <2>1, <2>2
<1>2. Insert(rows, r) = InsertAt(rows, k, r)
  BY DEF Insert
<1> HIDE DEF k
<1>3. SubSeq(rows, 1, k - 1) \in Seq(Rows) /\ SubSeq(rows, k, Len(rows)) \in Seq(Rows) /\ <<r>> \in Seq(Rows)
  <2>1. /\ k \in Int /\ k - 1 \in Int
        /\ \A i \in 1..(k - 1) : rows[i] \in Rows
        /\ \A i \in k..Len(rows) : rows[i] \in Rows
    BY <1>0, <1>1
  <2> QED
    BY <1>0, <2>1, SubSeqProperties
<1> QED
  BY <1>2, <1>3 DEF InsertAt

LEMMA InsertsSeq ==
  ASSUME NEW rows \in Seq(Rows), NEW more \in Seq(Rows)
  PROVE  Inserted(rows, more) \in Seq(Rows)
<1>1. PICK it : /\ it[0] = rows /\ it[Len(more)] = Inserted(rows, more)
                /\ \A m \in 1..Len(more) : it[m] = Insert(it[m - 1], more[m])
  BY InsertFolds
<1>2. Len(more) \in Nat /\ \A m \in 1..Len(more) : more[m] \in Rows
  OBVIOUS
<1> DEFINE Bad == {m \in 0..Len(more) : it[m] \notin Seq(Rows)}
<1>3. Bad = {}
  <2> SUFFICES ASSUME Bad # {} PROVE FALSE
    OBVIOUS
  <2>1. Bad \in SUBSET Nat
    BY <1>2
  <2>2. PICK m \in Bad : \A j \in Bad : m <= j
    BY <2>1, Least
  <2>3. m # 0
    BY <1>1
  <2>4. m \in 1..Len(more) /\ m - 1 \in 0..Len(more) /\ m - 1 < m
    BY <1>2, <2>3
  <2>5. it[m - 1] \in Seq(Rows)
    BY <2>1, <2>2, <2>4
  <2>6. it[m] \in Seq(Rows)
    BY <1>1, <1>2, <2>4, <2>5, InsertSeq
  <2> QED
    BY <2>6
<1>4. it[Len(more)] \in Seq(Rows)
  BY <1>2, <1>3
<1> QED
  BY <1>1, <1>4

LEMMA NarrowKeeps ==
  ASSUME NEW v \in Views, NEW h
  PROVE  Narrow(v, h) \in Views /\ Narrow(v, h).scanning = v.scanning
<1> DEFINE seen == {p \in Paths : Shown(p, h)}
           rows == Inserted(Keep(v.rows, seen), Keep(v.stash, seen))
           stash == Keep(v.rows, Paths \ seen) \o Keep(v.stash, Paths \ seen)
<1>0. v.rows \in Seq(Rows) /\ v.stash \in Seq(Rows)
  BY ViewParts
<1>1. Narrow(v, h) = [v EXCEPT !.rows = rows, !.stash = stash]
  BY <1>0 DEF Narrow, Inserted
<1> HIDE DEF seen
<1>2. rows \in Seq(Rows) /\ stash \in Seq(Rows)
  BY <1>0, KeepSeq, InsertsSeq
<1> HIDE DEF rows, stash
<1> QED
  BY <1>1, <1>2 DEF Views

LEMMA WithKeeps ==
  ASSUME NEW c, Caches(c), NEW d \in Dirs, NEW v \in Views
  PROVE  /\ Caches(With(c, d, v)) /\ DOMAIN With(c, d, v) = DOMAIN c \cup {d}
         /\ \A e \in DOMAIN c \cup {d} : With(c, d, v)[e] = IF e = d THEN v ELSE c[e]
<1> DEFINE new == With(c, d, v)
<1>1. DOMAIN new = DOMAIN c \cup {d} /\ new = [e \in DOMAIN new |-> new[e]]
      /\ \A e \in DOMAIN c \cup {d} : new[e] = IF e = d THEN v ELSE c[e]
  BY DEF With
<1> HIDE DEF new
<1>2. Caches(new)
  BY <1>1 DEF Caches
<1> QED
  BY <1>1, <1>2 DEF new

LEMMA WithoutKeeps ==
  ASSUME NEW c, Caches(c), NEW S
  PROVE  /\ Caches(Without(c, S)) /\ DOMAIN Without(c, S) = DOMAIN c \ S
         /\ \A e \in DOMAIN c \ S : Without(c, S)[e] = c[e]
<1> DEFINE new == Without(c, S)
<1>1. DOMAIN new = DOMAIN c \ S /\ new = [e \in DOMAIN new |-> new[e]]
      /\ \A e \in DOMAIN c \ S : new[e] = c[e]
  BY DEF Without
<1> HIDE DEF new
<1>2. Caches(new)
  BY <1>1 DEF Caches
<1> QED
  BY <1>1, <1>2 DEF new

LEMMA FreshKeeps ==
  ASSUME NEW c, Caches(c), NEW d \in DOMAIN c, NEW v \in Views
  PROVE  /\ Caches(ApplyFresh(c, d, v)) /\ DOMAIN ApplyFresh(c, d, v) \subseteq DOMAIN c
         /\ d \in DOMAIN ApplyFresh(c, d, v)
         /\ \A e \in DOMAIN ApplyFresh(c, d, v) :
              ApplyFresh(c, d, v)[e].scanning = IF e = d THEN v.scanning ELSE c[e].scanning
<1> DEFINE cut == Without(c, Below(d))
           rest == With(cut, d, v)
           old == c[d].disk
           moved == Carry(rest, Up[d], old, v.disk)
           new == ApplyFresh(c, d, v)
<1>0. d \in Dirs /\ c[d] \in Views
  BY DEF Caches
<1>1. Caches(cut) /\ DOMAIN cut = DOMAIN c \ Below(d) /\ \A e \in DOMAIN cut : cut[e] = c[e]
  <2>1. Caches(cut) /\ DOMAIN cut = DOMAIN c \ Below(d) /\ \A e \in DOMAIN c \ Below(d) : cut[e] = c[e]
    BY WithoutKeeps
  <2> HIDE DEF cut
  <2> QED
    BY <2>1
<1> HIDE DEF cut
<1>2. /\ Caches(rest) /\ DOMAIN rest = DOMAIN cut \cup {d}
      /\ \A e \in DOMAIN rest : rest[e] = IF e = d THEN v ELSE cut[e]
  BY <1>0, <1>1, WithKeeps
<1>3. old \in Nat /\ v.disk \in Nat
  BY <1>0, ViewParts
<1> HIDE DEF rest, old
<1>4. Caches(moved) /\ Same(rest, moved)
  BY <1>2, <1>3, CarryKeeps
<1> HIDE DEF moved
<1>5. Caches(PutRow(moved, d, v.disk)) /\ Same(moved, PutRow(moved, d, v.disk))
  BY <1>0, <1>3, <1>4, PutRowKeeps
<1>6. new = IF d = Root THEN rest ELSE PutRow(moved, d, v.disk)
  BY DEF ApplyFresh, cut, rest, old, moved
<1> HIDE DEF new
<1>7. Caches(new) /\ Same(rest, new)
  BY <1>2, <1>4, <1>5, <1>6 DEF Same
<1>8. \A e \in DOMAIN rest : new[e].scanning = IF e = d THEN v.scanning ELSE c[e].scanning
  BY <1>1, <1>2, <1>7 DEF Same
<1> QED
  BY <1>1, <1>2, <1>7, <1>8 DEF Same, new

LEMMA DropKeeps ==
  ASSUME NEW c, Caches(c), NEW r \in Rows
  PROVE  /\ Caches(DropRow(c, r)) /\ DOMAIN DropRow(c, r) = DOMAIN c \ Below(r.path)
         /\ \A e \in DOMAIN DropRow(c, r) : DropRow(c, r)[e].scanning = c[e].scanning
<1> DEFINE out(rows) == Keep(rows, Paths \ {r.path})
           gone == [e \in DOMAIN c |-> IF e = Up[r.path] THEN [c[e] EXCEPT !.rows = out(@), !.stash = out(@)] ELSE c[e]]
           moved == Carry(gone, Up[r.path], r.disk, 0)
           new == DropRow(c, r)
<1>1. DOMAIN gone = DOMAIN c /\ gone = [e \in DOMAIN gone |-> gone[e]]
  OBVIOUS
<1>2. ASSUME NEW e \in DOMAIN c PROVE gone[e] \in Views /\ gone[e].scanning = c[e].scanning
  <2> DEFINE v == c[e]
  <2>1. v \in Views
    BY DEF Caches
  <2>2. gone[e] = IF e = Up[r.path] THEN [v EXCEPT !.rows = out(@), !.stash = out(@)] ELSE v
    OBVIOUS
  <2>3. out(v.rows) \in Seq(Rows) /\ out(v.stash) \in Seq(Rows)
    BY <2>1, ViewParts, KeepSeq
  <2> HIDE DEF out, v, gone
  <2>4. gone[e] \in Views /\ gone[e].scanning = v.scanning
    BY <2>1, <2>2, <2>3 DEF Views
  <2> QED
    BY <2>4 DEF v
<1> HIDE DEF gone
<1>3. Caches(gone) /\ Same(c, gone)
  BY <1>1, <1>2 DEF Caches, Same
<1>4. Caches(moved) /\ Same(gone, moved)
  BY <1>3, RowParts, CarryKeeps
<1>5. new = Without(moved, Below(r.path))
  BY DEF DropRow, gone
<1> HIDE DEF moved, new
<1>6. Caches(new) /\ DOMAIN new = DOMAIN moved \ Below(r.path) /\ \A e \in DOMAIN new : new[e] = moved[e]
  <2> DEFINE B == Below(r.path)
  <2>1. new = Without(moved, B)
    BY <1>5
  <2> HIDE DEF B
  <2>2. Caches(new) /\ DOMAIN new = DOMAIN moved \ B /\ \A e \in DOMAIN moved \ B : new[e] = moved[e]
    BY <1>4, <2>1, WithoutKeeps
  <2> QED
    BY <2>2 DEF B
<1> QED
  BY <1>3, <1>4, <1>6 DEF Same, new

-----------------------------------------------------------------------------
(* What the disk and a scan give.                                          *)

LEMMA DiskNat ==
  ASSUME NEW p, alive \subseteq Paths
  PROVE  Disk(p) \in Nat
<1>1. Below(p) \cap alive \in SUBSET Paths
  OBVIOUS
<1> QED
  BY <1>1, WeightNat DEF Disk

LEMMA RowIn ==
  ASSUME NEW p \in Paths \ {Root}, NEW n \in Nat
  PROVE  Row(p, n) \in Rows /\ Row(p, n).path = p /\ Row(p, n).disk = n
BY DEF Row, Rows

LEMMA QuickViewIn ==
  ASSUME NEW d, alive \subseteq Paths
  PROVE  QuickView(d) \in Views
<1> DEFINE F == In(d, alive) \ Dirs
           D == In(d, alive \cap Dirs)
           fileRows == {Row(p, Own[p]) : p \in F}
           dirRows == {Row(p, 0) : p \in D}
           files == Sorted(fileRows)
           dirs == InOrder(dirRows, LAMBDA a, b : a.path < b.path)
<1>1. F \in SUBSET (Paths \ {Root}) /\ D \in SUBSET (Paths \ {Root}) /\ IsFiniteSet(F) /\ IsFiniteSet(D)
  <2>1. F \in SUBSET (Paths \ {Root}) /\ D \in SUBSET (Paths \ {Root})
    BY DEF In
  <2> HIDE DEF F, D
  <2>2. F \in SUBSET Paths /\ D \in SUBSET Paths
    BY <2>1
  <2>3. IsFiniteSet(F) /\ IsFiniteSet(D)
    BY <2>2, FS_Subset, TreeAssumption
  <2> QED
    BY <2>1, <2>3
<1> HIDE DEF F, D
<1>2. fileRows \in SUBSET Rows /\ dirRows \in SUBSET Rows
  <2>1. \A p \in F : Row(p, Own[p]) \in Rows
    BY <1>1, RowIn, TreeAssumption
  <2>2. \A p \in D : Row(p, 0) \in Rows
    BY <1>1, RowIn
  <2> QED
    BY <2>1, <2>2
<1>3. IsFiniteSet(fileRows) /\ IsFiniteSet(dirRows)
  <2> DEFINE f == [p \in F |-> Row(p, Own[p])]
             g == [p \in D |-> Row(p, 0)]
  <2>1. f \in Surjection(F, fileRows) /\ g \in Surjection(D, dirRows)
    BY DEF Surjection
  <2> HIDE DEF f, g, fileRows, dirRows
  <2> QED
    BY <1>1, <2>1, FS_Surjection
<1>4. \A a, b \in dirRows : a.path \in Nat /\ (a.path = b.path => a = b)
  BY <1>1, TreeAssumption DEF Row
<1> HIDE DEF fileRows, dirRows
<1>5. files \in Seq(fileRows)
  BY <1>2, <1>3, SortedSeq
<1>6. dirs \in Seq(dirRows)
  BY <1>3, <1>4, PathSeq
<1> DEFINE total == SumRows(ToSet(files))
<1>7. total \in Nat
  <2>1. ToSet(files) \in SUBSET fileRows
    BY <1>5 DEF ToSet
  <2>2. ToSet(files) \in SUBSET Rows /\ IsFiniteSet(ToSet(files))
    BY <1>2, <1>3, <2>1, FS_Subset
  <2> QED
    BY <2>2, SumRowsNat
<1>8. QuickView(d) = [rows |-> dirs \o files, stash |-> <<>>, disk |-> total, scanning |-> TRUE, partial |-> FALSE]
  BY DEF QuickView, F, D, fileRows, dirRows
<1> HIDE DEF files, dirs, total
<1>9. dirs \o files \in Seq(Rows)
  BY <1>2, <1>5, <1>6
<1> QED
  BY <1>7, <1>8, <1>9 DEF Views

-----------------------------------------------------------------------------
(* The types.                                                              *)

Slips == {t \in [path : Paths, held : SUBSET Paths, name : Nat] : t.path \in t.held}
Sents == [row : Rows, got : SUBSET Slips]
Went == {m \in Sents : m.got # {}}
JobSet == [refresh : BOOLEAN, stop : BOOLEAN, at : {"new", "reading", "whole", "partial", "failed"},
           todo : SUBSET (Paths \ {Root}), got : SUBSET Rows]
Deletings == [on : BOOLEAN, ended : BOOLEAN, busy : BOOLEAN, stop : BOOLEAN, todo : Seq(Rows),
              sent : Seq(Sents), pending : SUBSET Paths, group : Seq(Went)]

DiskTypes == alive \subseteq Paths /\ Root \in alive /\ trash \subseteq Slips /\ IsFiniteSet(trash)
JobTypes ==
  /\ DOMAIN jobs \subseteq Dirs /\ jobs = [d \in DOMAIN jobs |-> jobs[d]]
  /\ \A d \in DOMAIN jobs : jobs[d] \in JobSet /\ IsFiniteSet(jobs[d].got)
ScreenTypes == Caches(cache) /\ cur \in Dirs /\ away \subseteq Rows
DeleteTypes ==
  /\ deleting \in Deletings /\ undo \in Seq(Seq(Went))
  /\ deleting.busy => deleting.todo # <<>>
TypeInv == DiskTypes /\ JobTypes /\ ScreenTypes /\ DeleteTypes

LEMMA ToSetFinite ==
  ASSUME NEW T, NEW s \in Seq(T)
  PROVE  ToSet(s) \in SUBSET T /\ IsFiniteSet(ToSet(s))
<1>1. Len(s) \in Nat /\ DOMAIN s = 1..Len(s) /\ \A i \in 1..Len(s) : s[i] \in T
  OBVIOUS
<1>2. IsFiniteSet(1..Len(s))
  BY <1>1, FS_Interval
<1>3. ToSet(s) = {s[i] : i \in 1..Len(s)}
  BY <1>1 DEF ToSet
<1>4. [i \in 1..Len(s) |-> s[i]] \in Surjection(1..Len(s), ToSet(s))
  BY <1>3 DEF Surjection
<1>5. IsFiniteSet(ToSet(s))
  BY <1>2, <1>4, FS_Surjection
<1> QED
  BY <1>1, <1>3, <1>5

LEMMA ListedRows ==
  ASSUME NEW v \in Views
  PROVE  Listed(v) \in SUBSET Rows /\ IsFiniteSet(Listed(v))
<1>1. v.rows \in Seq(Rows) /\ v.stash \in Seq(Rows)
  BY ViewParts
<1>2. /\ ToSet(v.rows) \in SUBSET Rows /\ IsFiniteSet(ToSet(v.rows))
      /\ ToSet(v.stash) \in SUBSET Rows /\ IsFiniteSet(ToSet(v.stash))
  BY <1>1, ToSetFinite
<1> QED
  BY <1>2, FS_Union DEF Listed

LEMMA LandedIn ==
  ASSUME TypeInv, NEW d \in DOMAIN jobs
  PROVE  Landed(d) \in Views /\ Landed(d).scanning = FALSE
<1> DEFINE j == jobs[d]
           missing == IF j.at = "partial" /\ d \in DOMAIN cache
                      THEN {r \in Listed(cache[d]) : r.path \notin {x.path : x \in j.got}} ELSE {}
           v == ScanView(d, j.got, j.at = "partial")
<1>1. j.got \in SUBSET Rows /\ IsFiniteSet(j.got) /\ d \in Dirs
  BY DEF TypeInv, JobTypes, JobSet
<1>2. missing \in SUBSET Rows /\ IsFiniteSet(missing)
  <2>1. CASE j.at = "partial" /\ d \in DOMAIN cache
    <3>1. cache[d] \in Views
      BY <2>1 DEF TypeInv, ScreenTypes, Caches
    <3>2. missing \in SUBSET Listed(cache[d])
      OBVIOUS
    <3> HIDE DEF missing
    <3> QED
      BY <3>1, <3>2, ListedRows, FS_Subset
  <2>2. CASE ~ (j.at = "partial" /\ d \in DOMAIN cache)
    <3>1. missing = {}
      BY <2>2
    <3> HIDE DEF missing
    <3> QED
      BY <3>1, FS_EmptySet
  <2> QED
    BY <2>1, <2>2
<1> HIDE DEF missing
<1>3. j.got \cup missing \in SUBSET Rows /\ IsFiniteSet(j.got \cup missing)
  BY <1>1, <1>2, FS_Union
<1>4. Sorted(j.got) \in Seq(Rows) /\ Sorted(j.got \cup missing) \in Seq(Rows)
  <2>1. Sorted(j.got) \in Seq(j.got) /\ Sorted(j.got \cup missing) \in Seq(j.got \cup missing)
    BY <1>1, <1>3, SortedSeq
  <2> QED
    BY <1>1, <1>3, <2>1, SeqMonotonic
<1>5. Own[d] + SumRows(j.got) \in Nat
  <2>1. SumRows(j.got) \in Nat /\ Own[d] \in Nat
    BY <1>1, SumRowsNat, TreeAssumption
  <2> QED
    BY <2>1
<1>6. v \in Views /\ v.scanning = FALSE
  <2>1. v = [rows |-> Sorted(j.got), stash |-> <<>>, disk |-> Own[d] + SumRows(j.got),
             scanning |-> FALSE, partial |-> (j.at = "partial")]
    BY DEF ScanView
  <2> HIDE DEF v, j
  <2>2. (j.at = "partial") \in BOOLEAN /\ <<>> \in Seq(Rows)
    OBVIOUS
  <2> QED
    BY <1>4, <1>5, <2>1, <2>2 DEF Views
<1>7. Landed(d) = [v EXCEPT !.rows = Sorted(j.got \cup missing)]
  BY DEF Landed, missing
<1> HIDE DEF v, j
<1> QED
  BY <1>4, <1>6, <1>7 DEF Views

LEMMA HeldRows ==
  ASSUME TypeInv, cur \in DOMAIN cache
  PROVE  Held \in SUBSET Rows
<1>1. cache[cur] \in Views
  BY DEF TypeInv, ScreenTypes, Caches
<1>2. cache[cur].rows \in Seq(Rows)
  BY <1>1, ViewParts
<1>3. \A i \in Selected : cache[cur].rows[i] \in Rows
  BY <1>2 DEF Selected
<1> QED
  BY <1>3 DEF Held, TypeInv, ScreenTypes

LEMMA IndexIn ==
  ASSUME NEW T, NEW rows \in Seq(T), NEW p, p \in PathsOf(rows)
  PROVE  IndexOf(rows, p) \in DOMAIN rows /\ rows[IndexOf(rows, p)].path = p
<1> DEFINE I == {i \in 1..Len(rows) : rows[i].path = p}
<1>1. Len(rows) \in Nat /\ DOMAIN rows = 1..Len(rows)
  OBVIOUS
<1>2. I # {} /\ I \in SUBSET Nat
  BY <1>1 DEF PathsOf, ToSet
<1>3. \E i \in I : \A j \in I : i <= j
  BY <1>2, Least
<1>4. Min(I) \in I
  BY <1>3 DEF Min
<1>5. IndexOf(rows, p) = Min(I)
  BY <1>2 DEF IndexOf, SelectInSeq
<1> QED
  BY <1>1, <1>4, <1>5

LEMMA CurrentRow ==
  ASSUME TypeInv, NEW r \in Rows
  PROVE  Current(r) \in Rows /\ Current(r).path = r.path
<1> DEFINE all == IF Up[r.path] \in DOMAIN cache THEN cache[Up[r.path]].rows \o cache[Up[r.path]].stash ELSE <<>>
<1>1. all \in Seq(Rows)
  <2>1. CASE Up[r.path] \in DOMAIN cache
    <3>1. cache[Up[r.path]] \in Views
      BY <2>1 DEF TypeInv, ScreenTypes, Caches
    <3> QED
      BY <2>1, <3>1, ViewParts
  <2> QED
    BY <2>1
<1>2. Current(r) = IF r.path \in PathsOf(all) THEN all[IndexOf(all, r.path)] ELSE r
  BY DEF Current
<1> HIDE DEF all
<1> QED
  BY <1>1, <1>2, IndexIn

(* The rows a delete takes are rows, one of a path.                        *)
LEMMA TargetRows ==
  ASSUME TypeInv, cur \in DOMAIN cache
  PROVE  /\ Targets \in SUBSET Rows /\ IsFiniteSet(Targets)
         /\ \A a, b \in Targets : a.path = b.path => a = b
<1> DEFINE rows == cache[cur].rows
           here == (IF sel = {} /\ away = {} THEN {cursor} ELSE sel) \cap DOMAIN rows
           all == {r.path : r \in away} \cup {rows[i].path : i \in here}
           first(p) == Min({i \in here : rows[i].path = p})
           row(p) == IF \E r \in away : r.path = p THEN Current(CHOOSE r \in away : r.path = p)
                     ELSE rows[first(p)]
           kept == {q \in all : \A x \in all : q \in Below(x) => q = x}
<1>1. rows \in Seq(Rows) /\ away \in SUBSET Rows
  BY ViewParts DEF TypeInv, ScreenTypes, Caches
<1>2. here \in SUBSET DOMAIN rows /\ here \in SUBSET Nat
  BY <1>1
<1>3. Targets = {row(p) : p \in kept}
  BY DEF Targets
<1> HIDE DEF rows, here
<1>4. all \in SUBSET Paths
  <2>1. \A i \in here : rows[i] \in Rows
    BY <1>1, <1>2
  <2> QED
    BY <1>1, <2>1, RowParts
<1>5. ASSUME NEW p \in all PROVE row(p) \in Rows /\ row(p).path = p
  <2>1. CASE \E r \in away : r.path = p
    <3> DEFINE r == CHOOSE r \in away : r.path = p
    <3>1. r \in away /\ r.path = p
      BY <2>1
    <3>2. row(p) = Current(r)
      BY <2>1
    <3> HIDE DEF r
    <3> QED
      BY <1>1, <3>1, <3>2, CurrentRow
  <2>2. CASE ~ \E r \in away : r.path = p
    <3> DEFINE I == {i \in here : rows[i].path = p}
    <3>1. I # {} /\ I \in SUBSET Nat
      BY <1>2, <2>2
    <3>2. \E i \in I : \A j \in I : i <= j
      BY <3>1, Least
    <3>3. Min(I) \in I
      BY <3>2 DEF Min
    <3>4. row(p) = rows[Min(I)]
      BY <2>2
    <3> QED
      BY <1>1, <1>2, <3>3, <3>4
  <2> QED
    BY <2>1, <2>2
<1> HIDE DEF row, all
<1>6. kept \in SUBSET all
  OBVIOUS
<1> HIDE DEF kept
<1>7. IsFiniteSet(kept)
  BY <1>4, <1>6, TreeAssumption, FS_Subset
<1>8. IsFiniteSet(Targets)
  <2>1. [p \in kept |-> row(p)] \in Surjection(kept, Targets)
    BY <1>3 DEF Surjection
  <2> QED
    BY <1>7, <2>1, FS_Surjection
<1> QED
  BY <1>3, <1>5, <1>6, <1>8

-----------------------------------------------------------------------------
(* What every step does to the cache: its types stay, a view that waits    *)
(* has its scan, and only what exists comes in.                            *)

Waits == \A d \in DOMAIN cache : cache[d].scanning => d \in DOMAIN jobs
Fed == Running' /\ Waits => Waits'
Steady == DOMAIN cache' \subseteq DOMAIN cache \cup alive

LEMMA NewJobIn ==
  ASSUME NEW b \in BOOLEAN
  PROVE  NewJob(b) \in JobSet /\ IsFiniteSet(NewJob(b).got)
BY FS_EmptySet DEF NewJob, JobSet

LEMMA SpawnTypes ==
  ASSUME JobTypes, NEW d \in Dirs, NEW b \in BOOLEAN, jobs' = With(jobs, d, NewJob(b))
  PROVE  JobTypes' /\ DOMAIN jobs' = DOMAIN jobs \cup {d}
<1>1. /\ DOMAIN jobs' = DOMAIN jobs \cup {d} /\ jobs' = [e \in DOMAIN jobs' |-> jobs'[e]]
      /\ \A e \in DOMAIN jobs' : jobs'[e] = IF e = d THEN NewJob(b) ELSE jobs[e]
  BY DEF With
<1> QED
  BY <1>1, NewJobIn DEF JobTypes

LEMMA DropTypes ==
  ASSUME JobTypes, NEW S, jobs' = Without(jobs, S)
  PROVE  JobTypes' /\ DOMAIN jobs' = DOMAIN jobs \ S
<1>1. /\ DOMAIN jobs' = DOMAIN jobs \ S /\ jobs' = [e \in DOMAIN jobs' |-> jobs'[e]]
      /\ \A e \in DOMAIN jobs' : jobs'[e] = jobs[e]
  BY DEF Without
<1> QED
  BY <1>1 DEF JobTypes

LEMMA TakeViewKeeps ==
  ASSUME TypeInv, NEW d \in DOMAIN jobs, jobs[d].refresh \/ d = cur => d \in DOMAIN cache, TakeView(d)
  PROVE  /\ Caches(cache') /\ away' \subseteq Rows
         /\ DOMAIN cache' \subseteq DOMAIN cache \cup {d} /\ d \in DOMAIN cache'
         /\ \A e \in DOMAIN cache' : cache'[e].scanning => e # d /\ e \in DOMAIN cache /\ cache[e].scanning
<1> DEFINE fresh == Landed(d)
           put == IF jobs[d].refresh THEN ApplyFresh(cache, d, fresh) ELSE With(cache, d, fresh)
           new == IF d = cur /\ hide THEN With(put, d, Narrow(fresh, hide)) ELSE put
           held == IF d = cur THEN Held ELSE away
           left == Pruned(held, d, fresh)
<1>0. d \in Dirs /\ Caches(cache) /\ away \subseteq Rows
  BY DEF TypeInv, JobTypes, ScreenTypes
<1>1. fresh \in Views /\ fresh.scanning = FALSE
  BY LandedIn
<1>2. cache' = new /\ (away' = left \/ away' = Left(new[d].rows, left))
  BY DEF TakeView
<1> HIDE DEF fresh
<1>3. /\ Caches(put) /\ d \in DOMAIN put /\ DOMAIN put \subseteq DOMAIN cache \cup {d}
      /\ put[d].scanning = FALSE
      /\ \A e \in DOMAIN put \ {d} : e \in DOMAIN cache /\ put[e].scanning = cache[e].scanning
  <2>1. CASE jobs[d].refresh
    <3>1. put = ApplyFresh(cache, d, fresh) /\ d \in DOMAIN cache
      BY <2>1
    <3> HIDE DEF put
    <3>2. /\ Caches(put) /\ DOMAIN put \subseteq DOMAIN cache /\ d \in DOMAIN put
          /\ \A e \in DOMAIN put : put[e].scanning = IF e = d THEN fresh.scanning ELSE cache[e].scanning
      BY <1>0, <1>1, <3>1, FreshKeeps
    <3> QED
      BY <1>1, <3>2
  <2>2. CASE ~ jobs[d].refresh
    <3>1. put = With(cache, d, fresh)
      BY <2>2
    <3> HIDE DEF put
    <3>2. /\ Caches(put) /\ DOMAIN put = DOMAIN cache \cup {d}
          /\ \A e \in DOMAIN cache \cup {d} : put[e] = IF e = d THEN fresh ELSE cache[e]
      <4>1. Caches(put)
        BY <1>0, <1>1, <3>1, WithKeeps
      <4> QED
        BY <3>1, <4>1 DEF With
    <3> QED
      BY <1>1, <3>2
  <2> QED
    BY <2>1, <2>2
<1> HIDE DEF put
<1>4. /\ Caches(new) /\ DOMAIN new = DOMAIN put /\ new[d].scanning = FALSE
      /\ \A e \in DOMAIN new \ {d} : new[e] = put[e]
  <2>1. CASE d = cur /\ hide
    <3>1. Narrow(fresh, hide) \in Views /\ Narrow(fresh, hide).scanning = FALSE
      BY <1>1, NarrowKeeps
    <3>2. new = With(put, d, Narrow(fresh, hide))
      BY <2>1
    <3> DEFINE n == Narrow(fresh, hide)
    <3>3. n \in Views /\ n.scanning = FALSE /\ new = With(put, d, n)
      BY <3>1, <3>2
    <3> HIDE DEF new, n
    <3>4. /\ Caches(new) /\ DOMAIN new = DOMAIN put \cup {d}
          /\ \A e \in DOMAIN put \cup {d} : new[e] = IF e = d THEN n ELSE put[e]
      <4>1. Caches(new)
        BY <1>0, <1>3, <3>3, WithKeeps
      <4> QED
        BY <3>3, <4>1 DEF With
    <3> QED
      BY <1>3, <3>3, <3>4
  <2>2. CASE ~ (d = cur /\ hide)
    BY <1>3, <2>2
  <2> QED
    BY <2>1, <2>2
<1> HIDE DEF new
<1>5. held \in SUBSET Rows
  <2>1. CASE d = cur
    <3>1. cur \in DOMAIN cache
      BY <2>1
    <3> QED
      BY <1>0, <3>1, HeldRows
  <2>2. CASE d # cur
    BY <1>0, <2>2
  <2> QED
    BY <2>1, <2>2
<1>6. left \in SUBSET Rows
  BY <1>5 DEF Pruned
<1>7. away' \subseteq Rows
  BY <1>2, <1>6 DEF Left
<1> QED
  BY <1>2, <1>3, <1>4, <1>7

LEMMA TakeJobStep ==
  ASSUME TypeInv, NEW d \in DOMAIN jobs, TakeJob(d)
  PROVE  TypeInv' /\ Fed /\ Steady
<1> USE DEF TypeInv
<1>1. JobTypes' /\ DOMAIN jobs' = DOMAIN jobs \ {d}
  BY DropTypes DEF TakeJob
<1>2. DiskTypes' /\ DeleteTypes' /\ cur' = cur /\ alive' = alive
  BY DEF TakeJob, disk, session, DiskTypes, DeleteTypes
<1>3. CASE jobs[d].at = "failed"
  <2>1. /\ cache' = IF d \in DOMAIN cache THEN [cache EXCEPT ![d].scanning = FALSE] ELSE cache
        /\ away' = away
    BY <1>3 DEF TakeJob
  <2>2. /\ DOMAIN cache' = DOMAIN cache /\ cache' = [e \in DOMAIN cache' |-> cache'[e]]
        /\ \A e \in DOMAIN cache \ {d} : cache'[e] = cache[e]
        /\ d \in DOMAIN cache => cache'[d] = [cache[d] EXCEPT !.scanning = FALSE]
    BY <2>1 DEF ScreenTypes, Caches
  <2>3. d \in DOMAIN cache => cache'[d] \in Views /\ cache'[d].scanning = FALSE
    <3> SUFFICES ASSUME d \in DOMAIN cache PROVE cache'[d] \in Views /\ cache'[d].scanning = FALSE
      OBVIOUS
    <3> DEFINE v == cache[d]
    <3>1. v \in Views /\ cache'[d] = [v EXCEPT !.scanning = FALSE]
      BY <2>2 DEF ScreenTypes, Caches
    <3> HIDE DEF v
    <3> QED
      BY <3>1 DEF Views
  <2>4. Caches(cache')
    BY <2>2, <2>3 DEF ScreenTypes, Caches
  <2> QED
    BY <1>1, <1>2, <2>1, <2>2, <2>3, <2>4 DEF ScreenTypes, Fed, Waits, Steady
<1>4. CASE jobs[d].at # "failed" /\ d \notin {cur, Root} \cup alive
  <2>1. cache' = Without(cache, {d}) /\ away' = away
    BY <1>4 DEF TakeJob
  <2>2. /\ Caches(cache') /\ DOMAIN cache' = DOMAIN cache \ {d}
        /\ \A e \in DOMAIN cache' : cache'[e] = cache[e]
    BY <2>1, WithoutKeeps DEF ScreenTypes
  <2> QED
    BY <1>1, <1>2, <2>1, <2>2 DEF ScreenTypes, Fed, Waits, Steady
<1>5. CASE jobs[d].at # "failed" /\ d \in {cur, Root} \cup alive
  <2>1. CASE d \notin DOMAIN cache /\ (jobs[d].refresh \/ d = cur)
    <3>1. crashed' = TRUE /\ cache' = cache /\ away' = away
      BY <1>5, <2>1 DEF TakeJob
    <3> QED
      BY <1>1, <1>2, <3>1 DEF ScreenTypes, Fed, Running, Steady
  <2>2. CASE ~ (d \notin DOMAIN cache /\ (jobs[d].refresh \/ d = cur))
    <3>1. TakeView(d)
      BY <1>5, <2>2 DEF TakeJob
    <3>2. /\ Caches(cache') /\ away' \subseteq Rows
          /\ DOMAIN cache' \subseteq DOMAIN cache \cup {d}
          /\ \A e \in DOMAIN cache' : cache'[e].scanning => e # d /\ e \in DOMAIN cache /\ cache[e].scanning
      BY <2>2, <3>1, TakeViewKeeps
    <3>3. d \in DOMAIN cache \cup alive
      BY <1>5, <2>2 DEF DiskTypes
    <3> QED
      BY <1>1, <1>2, <3>2, <3>3 DEF ScreenTypes, Fed, Waits, Steady
  <2> QED
    BY <2>1, <2>2
<1> QED
  BY <1>3, <1>4, <1>5

LEMMA GoStep ==
  ASSUME TypeInv, cur \in DOMAIN cache, NEW d \in Dirs, NEW on, Go(d, on)
  PROVE  TypeInv' /\ Fed /\ Steady /\ cur' \in DOMAIN cache'
<1> USE DEF TypeInv
<1> DEFINE new == d \notin DOMAIN cache
           open == IF new THEN With(cache, d, QuickView(d)) ELSE cache
           v == IF hide \/ open[d].stash # <<>> THEN Narrow(open[d], hide) ELSE open[d]
<1>1. /\ new => d \in alive
      /\ cache' = With(open, d, v) /\ cur' = d /\ away' = Left(v.rows, Held)
      /\ IF new THEN Spawn(d, FALSE) ELSE jobs' = jobs
  BY DEF Go
<1>2. DiskTypes' /\ DeleteTypes'
  BY DEF Go, disk, session, DiskTypes, DeleteTypes
<1>3. /\ Caches(open) /\ DOMAIN open = DOMAIN cache \cup {d}
      /\ \A e \in DOMAIN cache : open[e] = cache[e]
  <2>1. CASE new
    <3>1. QuickView(d) \in Views
      BY QuickViewIn DEF DiskTypes
    <3>2. open = With(cache, d, QuickView(d))
      BY <2>1
    <3> HIDE DEF open
    <3> QED
      BY <2>1, <3>1, <3>2, WithKeeps DEF ScreenTypes
  <2>2. CASE ~new
    BY <2>2 DEF ScreenTypes
  <2> QED
    BY <2>1, <2>2
<1> HIDE DEF open
<1>4. open[d] \in Views
  BY <1>3 DEF Caches
<1>5. v \in Views /\ v.scanning = open[d].scanning
  BY <1>4, NarrowKeeps
<1> HIDE DEF v
<1>6. /\ Caches(cache') /\ DOMAIN cache' = DOMAIN cache \cup {d}
      /\ \A e \in DOMAIN cache : cache'[e].scanning = cache[e].scanning
  <2>1. /\ Caches(cache') /\ DOMAIN cache' = DOMAIN open \cup {d}
        /\ \A e \in DOMAIN open \cup {d} : cache'[e] = IF e = d THEN v ELSE open[e]
    <3>1. Caches(cache')
      BY <1>1, <1>3, <1>5, WithKeeps
    <3> QED
      BY <1>1, <3>1 DEF With
  <2> QED
    BY <1>3, <1>5, <2>1
<1>7. away' \subseteq Rows
  BY <1>1, HeldRows DEF Left
<1>8. JobTypes' /\ DOMAIN jobs' = IF new THEN DOMAIN jobs \cup {d} ELSE DOMAIN jobs
  <2>1. CASE new
    BY <1>1, <2>1, SpawnTypes DEF Spawn
  <2>2. CASE ~new
    BY <1>1, <2>2 DEF JobTypes
  <2> QED
    BY <2>1, <2>2
<1>9. Waits => Waits'
  <2> SUFFICES ASSUME Waits, NEW e \in DOMAIN cache', cache'[e].scanning PROVE e \in DOMAIN jobs'
    BY DEF Waits
  <2>1. CASE e \in DOMAIN cache
    BY <1>6, <1>8, <2>1 DEF Waits
  <2>2. CASE e \notin DOMAIN cache
    BY <1>6, <1>8, <2>2
  <2> QED
    BY <2>1, <2>2
<1> QED
  BY <1>1, <1>2, <1>6, <1>7, <1>8, <1>9 DEF ScreenTypes, Fed, Steady

LEMMA RefilterKeeps ==
  ASSUME NEW c, Caches(c), cur \in DOMAIN c, NEW h, Refilter(c, h)
  PROVE  Caches(cache') /\ Same(c, cache')
<1> DEFINE old == c[cur]
           new == IF h \/ old.stash # <<>> THEN Narrow(old, h) ELSE old
<1>1. cache' = [c EXCEPT ![cur] = new]
  BY DEF Refilter
<1>2. old \in Views
  BY DEF Caches
<1>3. new \in Views /\ new.scanning = c[cur].scanning
  BY <1>2, NarrowKeeps
<1> HIDE DEF new
<1>4. /\ DOMAIN cache' = DOMAIN c /\ cache' = [e \in DOMAIN cache' |-> cache'[e]]
      /\ \A e \in DOMAIN c : cache'[e] = IF e = cur THEN new ELSE c[e]
  BY <1>1 DEF Caches
<1> QED
  BY <1>3, <1>4 DEF Caches, Same

-----------------------------------------------------------------------------
(* Undo.                                                                   *)

(* The state an undo goes through.                                         *)
Undoing(u) ==
  /\ u = [alive |-> u.alive, trash |-> u.trash, stuck |-> u.stuck, cache |-> u.cache]
  /\ u.alive \subseteq Paths /\ Root \in u.alive /\ u.trash \subseteq Slips /\ IsFiniteSet(u.trash)
  /\ Caches(u.cache)
Onward(u, w) == u.alive \subseteq w.alive /\ Same(u.cache, w.cache)

LEMMA WentParts ==
  ASSUME NEW m \in Went
  PROVE  m.row \in Rows /\ (CHOOSE t \in m.got : TRUE) \in m.got /\ m.got \in SUBSET Slips /\ m \in Sents
BY DEF Went, Sents

LEMMA PutBackKeeps ==
  ASSUME NEW u, Undoing(u), NEW m \in Went
  PROVE  Undoing(PutBack(u, m)) /\ Onward(u, PutBack(u, m))
<1> DEFINE r == m.row
           ticket == CHOOSE t \in m.got : TRUE
           back == IF Up[r.path] \in DOMAIN u.cache /\ r.path \notin PathsOf(u.cache[Up[r.path]].rows)
                   THEN [u.cache EXCEPT ![Up[r.path]].rows = Insert(@, r)] ELSE u.cache
           moved == Carry(back, Up[r.path], 0, r.disk)
           new == PutBack(u, m)
<1>0. r \in Rows /\ ticket \in Slips
  BY WentParts
<1>1. Caches(u.cache)
  BY DEF Undoing
<1>2. Caches(back) /\ Same(u.cache, back)
  <2>1. CASE Up[r.path] \in DOMAIN u.cache /\ r.path \notin PathsOf(u.cache[Up[r.path]].rows)
    <3> DEFINE d == Up[r.path]
               c == u.cache
               v == c[d]
    <3>1. v \in Views /\ d \in DOMAIN c
      BY <1>1, <2>1 DEF Caches
    <3>2. Insert(v.rows, r) \in Seq(Rows)
      BY <1>0, <3>1, ViewParts, InsertSeq
    <3>3. back = [c EXCEPT ![d].rows = Insert(@, r)]
      BY <2>1
    <3> HIDE DEF back, d, c
    <3>4. /\ DOMAIN back = DOMAIN c /\ back = [e \in DOMAIN back |-> back[e]]
          /\ \A e \in DOMAIN c \ {d} : back[e] = c[e]
          /\ back[d] = [v EXCEPT !.rows = Insert(@, r)]
      BY <1>1, <3>1, <3>3 DEF Caches, c
    <3>5. back[d] \in Views /\ back[d].scanning = v.scanning
      <4> HIDE DEF v
      <4> QED
        BY <3>1, <3>2, <3>4 DEF Views
    <3>6. Caches(back) /\ Same(c, back)
      BY <1>1, <3>1, <3>4, <3>5 DEF Caches, Same, c
    <3> QED
      BY <3>6 DEF c
  <2>2. CASE ~ (Up[r.path] \in DOMAIN u.cache /\ r.path \notin PathsOf(u.cache[Up[r.path]].rows))
    <3>1. back = u.cache
      BY <2>2
    <3> QED
      BY <1>1, <3>1 DEF Same
  <2> QED
    BY <2>1, <2>2
<1> HIDE DEF back
<1>3. Caches(moved) /\ Same(back, moved)
  BY <1>0, <1>2, RowParts, CarryKeeps
<1>4. new = IF r.path \in u.alive THEN [u EXCEPT !.stuck = @ \cup {ticket}]
            ELSE [alive |-> u.alive \cup ticket.held \cup Above[r.path], trash |-> u.trash \ {ticket},
                  stuck |-> u.stuck, cache |-> moved]
  BY DEF PutBack, back
<1>5. CASE r.path \in u.alive
  <2>1. new = [u EXCEPT !.stuck = @ \cup {ticket}]
    BY <1>4, <1>5
  <2> HIDE DEF new, ticket
  <2> DEFINE a == u.alive
             t == u.trash
             s == u.stuck
             c == u.cache
  <2>3. u = [alive |-> a, trash |-> t, stuck |-> s, cache |-> c]
    BY DEF Undoing
  <2> HIDE DEF a, t, s, c
  <2>4. new = [alive |-> a, trash |-> t, stuck |-> s \cup {ticket}, cache |-> c]
    BY <2>1, <2>3
  <2>5. Undoing(new) /\ Onward(u, new)
    BY <2>3, <2>4 DEF Undoing, Onward, Same
  <2> QED
    BY <2>5 DEF new
<1>6. CASE r.path \notin u.alive
  <2> DEFINE a == u.alive \cup ticket.held \cup Above[r.path]
             t == u.trash \ {ticket}
  <2>1. new = [alive |-> a, trash |-> t, stuck |-> u.stuck, cache |-> moved]
    BY <1>4, <1>6
  <2>2. a \subseteq Paths
    BY <1>0, RowParts, AbovePaths DEF Undoing, Slips
  <2>3. t \subseteq Slips /\ IsFiniteSet(t)
    BY FS_RemoveElement DEF Undoing
  <2>4. u.alive \subseteq a /\ Root \in a
    BY DEF Undoing
  <2> HIDE DEF a, t, new, moved
  <2>5. Undoing(new) /\ Onward(u, new)
    BY <1>2, <1>3, <2>1, <2>2, <2>3, <2>4 DEF Undoing, Onward, Same
  <2> QED
    BY <2>5 DEF new
<1> QED
  BY <1>5, <1>6

LEMMA ReturnedKeeps ==
  ASSUME NEW u, Undoing(u), NEW s \in Seq(Went)
  PROVE  Undoing(Returned(u, s)) /\ Onward(u, Returned(u, s))
<1>1. PICK it : /\ it[0] = u /\ it[Len(s)] = Returned(u, s)
                /\ \A m \in 1..Len(s) : it[m] = PutBack(it[m - 1], s[m])
  BY BackFolds
<1>2. Len(s) \in Nat /\ \A m \in 1..Len(s) : s[m] \in Went
  OBVIOUS
<1> DEFINE Good(w) == Undoing(w) /\ Onward(u, w)
           Bad == {m \in 0..Len(s) : ~ Good(it[m])}
<1>3. Bad = {}
  <2> SUFFICES ASSUME Bad # {} PROVE FALSE
    OBVIOUS
  <2>1. Bad \in SUBSET Nat
    BY <1>2
  <2>2. PICK m \in Bad : \A j \in Bad : m <= j
    BY <2>1, Least
  <2>3. m # 0
    BY <1>1 DEF Onward, Same
  <2>4. m \in 1..Len(s) /\ m - 1 \in 0..Len(s) /\ m - 1 < m
    BY <1>2, <2>3
  <2>5. Good(it[m - 1])
    BY <2>1, <2>2, <2>4
  <2> DEFINE w == it[m - 1]
  <2>6. Undoing(PutBack(w, s[m])) /\ Onward(w, PutBack(w, s[m]))
    BY <1>2, <2>4, <2>5, PutBackKeeps
  <2>7. it[m] = PutBack(w, s[m])
    BY <1>1, <2>4
  <2> HIDE DEF w, Bad
  <2>8. Undoing(it[m]) /\ Onward(w, it[m]) /\ Onward(u, w)
    BY <2>5, <2>6, <2>7 DEF w
  <2>9. Good(it[m])
    BY <2>8 DEF Onward, Same
  <2> QED
    BY <2>9 DEF Bad
<1>4. Good(it[Len(s)])
  BY <1>2, <1>3
<1> QED
  BY <1>1, <1>4

LEMMA UndoStep ==
  ASSUME TypeInv, UndoLast
  PROVE  TypeInv' /\ Fed /\ Steady /\ alive \subseteq alive'
<1> USE DEF TypeInv
<1> DEFINE u0 == [alive |-> alive, trash |-> trash, stuck |-> stuck, cache |-> cache]
           s == Last(undo)
           u == Returned(u0, s)
<1>1. /\ undo # <<>> /\ cur \in DOMAIN cache
      /\ alive' = u.alive /\ trash' = u.trash
      /\ IF hide THEN Refilter(u.cache, hide) ELSE cache' = u.cache
      /\ undo' = Front(undo) /\ jobs' = jobs /\ deleting' = deleting /\ cur' = cur /\ away' = away
  BY DEF UndoLast, Browse, Key, Draws, Returned
<1>2. s \in Seq(Went) /\ undo' \in Seq(Seq(Went))
  <2>1. undo \in Seq(Seq(Went)) /\ Len(undo) \in Nat /\ Len(undo) # 0
    BY <1>1 DEF DeleteTypes
  <2>2. undo[Len(undo)] \in Seq(Went)
    BY <2>1
  <2>3. SubSeq(undo, 1, Len(undo) - 1) \in Seq(Seq(Went))
    BY <2>1, SubSeqProperties
  <2> QED
    BY <1>1, <2>2, <2>3 DEF Last, Front
<1>3. Undoing(u0)
  BY DEF Undoing, DiskTypes, ScreenTypes
<1>4. Undoing(u) /\ Onward(u0, u)
  BY <1>2, <1>3, ReturnedKeeps
<1> HIDE DEF u, s
<1>5. Caches(u.cache) /\ Same(cache, u.cache)
  BY <1>4 DEF Undoing, Onward
<1>6. Caches(cache') /\ Same(u.cache, cache')
  <2>1. CASE hide
    <3> DEFINE c == u.cache
    <3>1. Caches(c) /\ cur \in DOMAIN c /\ Refilter(c, hide)
      BY <1>1, <1>5, <2>1 DEF Same
    <3> HIDE DEF c
    <3>2. Caches(cache') /\ Same(c, cache')
      BY <3>1, RefilterKeeps
    <3> QED
      BY <3>2 DEF c
  <2>2. CASE ~hide
    BY <1>1, <1>5, <2>2 DEF Same
  <2> QED
    BY <2>1, <2>2
<1>8. alive \subseteq alive'
  BY <1>1, <1>4 DEF Onward
<1>7. DiskTypes' /\ DeleteTypes' /\ JobTypes' /\ ScreenTypes'
  BY <1>1, <1>2, <1>4, <1>6 DEF Undoing, DiskTypes, DeleteTypes, JobTypes, ScreenTypes
<1> QED
  BY <1>1, <1>5, <1>6, <1>7, <1>8 DEF Fed, Waits, Steady, Same

-----------------------------------------------------------------------------
(* The steps that leave views and disk alone.                              *)

LEMMA QuietStep ==
  ASSUME TypeInv, UNCHANGED <<alive, trash, cache, cur>>, away' \in SUBSET Rows,
         JobTypes', DOMAIN jobs \subseteq DOMAIN jobs', DeleteTypes'
  PROVE  TypeInv' /\ Fed /\ Steady
BY DEF TypeInv, DiskTypes, ScreenTypes, Fed, Waits, Steady

LEMMA SameDelete ==
  ASSUME DeleteTypes, UNCHANGED <<deleting, undo>>
  PROVE  DeleteTypes'
BY DEF DeleteTypes

LEMMA SameJobs ==
  ASSUME JobTypes, UNCHANGED jobs
  PROVE  JobTypes' /\ DOMAIN jobs' = DOMAIN jobs
BY DEF JobTypes

LEMMA DeletingParts ==
  ASSUME NEW d \in Deletings
  PROVE  /\ d.on \in BOOLEAN /\ d.ended \in BOOLEAN /\ d.busy \in BOOLEAN /\ d.stop \in BOOLEAN
         /\ d.todo \in Seq(Rows) /\ d.sent \in Seq(Sents)
         /\ d.pending \in SUBSET Paths /\ d.group \in Seq(Went)
         /\ d = [on |-> d.on, ended |-> d.ended, busy |-> d.busy, stop |-> d.stop, todo |-> d.todo,
                 sent |-> d.sent, pending |-> d.pending, group |-> d.group]
BY DEF Deletings

LEMMA DeletingIn ==
  ASSUME NEW on \in BOOLEAN, NEW ended \in BOOLEAN, NEW busy \in BOOLEAN, NEW stop \in BOOLEAN,
         NEW todo \in Seq(Rows), NEW sent \in Seq(Sents), NEW pending \in SUBSET Paths, NEW group \in Seq(Went)
  PROVE  [on |-> on, ended |-> ended, busy |-> busy, stop |-> stop, todo |-> todo,
          sent |-> sent, pending |-> pending, group |-> group] \in Deletings
BY DEF Deletings

LEMMA IdleIn == Idle \in Deletings
<1>1. <<>> \in Seq(Rows) /\ <<>> \in Seq(Sents) /\ <<>> \in Seq(Went) /\ {} \in SUBSET Paths
  OBVIOUS
<1> QED
  BY <1>1, DeletingIn DEF Idle

-----------------------------------------------------------------------------
(* The threads.                                                            *)

(* The job of d is now j.                                                  *)
LEMMA JobChange ==
  ASSUME JobTypes, NEW d \in DOMAIN jobs, NEW j \in JobSet, IsFiniteSet(j.got),
         jobs' = [jobs EXCEPT ![d] = j]
  PROVE  JobTypes' /\ DOMAIN jobs' = DOMAIN jobs
<1>1. /\ DOMAIN jobs' = DOMAIN jobs /\ jobs' = [e \in DOMAIN jobs' |-> jobs'[e]]
      /\ \A e \in DOMAIN jobs : jobs'[e] = IF e = d THEN j ELSE jobs[e]
  BY DEF JobTypes
<1> QED
  BY <1>1 DEF JobTypes

LEMMA JobAt ==
  ASSUME NEW j \in JobSet, NEW at \in {"new", "reading", "whole", "partial", "failed"}
  PROVE  [j EXCEPT !.at = at] \in JobSet /\ [j EXCEPT !.at = at].got = j.got
BY DEF JobSet

LEMMA JobStop ==
  ASSUME NEW j \in JobSet
  PROVE  [j EXCEPT !.stop = TRUE] \in JobSet /\ [j EXCEPT !.stop = TRUE].got = j.got
BY DEF JobSet

LEMMA JobTodo ==
  ASSUME NEW j \in JobSet, NEW todo \in SUBSET (Paths \ {Root})
  PROVE  [j EXCEPT !.todo = todo] \in JobSet /\ [j EXCEPT !.todo = todo].got = j.got
BY DEF JobSet

LEMMA JobGot ==
  ASSUME NEW j \in JobSet, NEW got \in SUBSET Rows
  PROVE  [j EXCEPT !.got = got] \in JobSet /\ [j EXCEPT !.got = got].got = got
BY DEF JobSet

LEMMA ScanJobs ==
  ASSUME TypeInv, NEW d \in DOMAIN jobs, ScanList(d) \/ ScanRead(d) \/ ScanEnd(d)
  PROVE  JobTypes' /\ DOMAIN jobs' = DOMAIN jobs
<1> USE DEF TypeInv
<1> DEFINE j == jobs[d]
           ats == {"new", "reading", "whole", "partial", "failed"}
<1>1. j \in JobSet /\ IsFiniteSet(j.got)
  BY DEF JobTypes
<1>2. j.stop \in BOOLEAN /\ j.todo \in SUBSET (Paths \ {Root}) /\ j.got \in SUBSET Rows
  BY <1>1 DEF JobSet
<1>0. jobs = [e \in DOMAIN jobs |-> jobs[e]] /\ alive \in SUBSET Paths
  BY DEF JobTypes, DiskTypes
<1>3. ASSUME NEW at \in ats, NEW todo \in SUBSET (Paths \ {Root})
      PROVE  /\ [j EXCEPT !.at = at, !.todo = todo] \in JobSet
             /\ [j EXCEPT !.at = at, !.todo = todo].got = j.got
  <2> DEFINE k == [j EXCEPT !.at = at]
  <2> HIDE DEF j
  <2>1. k \in JobSet /\ k.got = j.got
    BY <1>1, JobAt
  <2> HIDE DEF k
  <2>2. [k EXCEPT !.todo = todo] \in JobSet /\ [k EXCEPT !.todo = todo].got = k.got
    BY <2>1, JobTodo
  <2> QED
    BY <2>1, <2>2 DEF k
<1>7. ASSUME NEW todo \in SUBSET (Paths \ {Root}), NEW got \in SUBSET Rows
      PROVE  /\ [j EXCEPT !.todo = todo, !.got = got] \in JobSet
             /\ [j EXCEPT !.todo = todo, !.got = got].got = got
  <2> DEFINE k == [j EXCEPT !.todo = todo]
  <2> HIDE DEF j
  <2>1. k \in JobSet
    BY <1>1, JobTodo
  <2> HIDE DEF k
  <2>2. [k EXCEPT !.got = got] \in JobSet /\ [k EXCEPT !.got = got].got = got
    BY <2>1, JobGot
  <2> QED
    BY <2>2 DEF k
<1>8. ASSUME NEW got \in SUBSET Rows
      PROVE  /\ [j EXCEPT !.at = "partial", !.todo = {}, !.got = got] \in JobSet
             /\ [j EXCEPT !.at = "partial", !.todo = {}, !.got = got].got = got
  <2> DEFINE k == [j EXCEPT !.at = "partial", !.todo = {}]
  <2>1. k \in JobSet
    BY <1>3
  <2> HIDE DEF k
  <2>2. [k EXCEPT !.got = got] \in JobSet /\ [k EXCEPT !.got = got].got = got
    BY <2>1, JobGot
  <2> QED
    BY <2>2 DEF k
<1>4. CASE ScanList(d)
  <2> DEFINE at == IF d \in alive THEN "reading" ELSE "failed"
             todo == In(d, alive)
             k == [j EXCEPT !.at = at, !.todo = todo]
  <2>1. at \in ats /\ todo \in SUBSET (Paths \ {Root})
    BY <1>0 DEF In
  <2>2. jobs' = [jobs EXCEPT ![d].at = at, ![d].todo = todo]
    BY <1>4 DEF ScanList
  <2> HIDE DEF at, todo
  <2>3. jobs' = [jobs EXCEPT ![d] = k]
    BY <1>0, <2>2
  <2>4. k \in JobSet /\ k.got = j.got
    BY <1>3, <2>1
  <2> HIDE DEF k, j
  <2> QED
    BY <1>1, <2>3, <2>4, JobChange
<1>5. CASE ScanRead(d)
  <2>1. PICK p \in j.todo : jobs' = [jobs EXCEPT ![d].todo = @ \ {p},
                              ![d].got = @ \cup {Row(q, Disk(q)) : q \in {p} \cap alive}]
    BY <1>5 DEF ScanRead
  <2> DEFINE todo == j.todo \ {p}
             new == {Row(q, Disk(q)) : q \in {p} \cap alive}
             got == j.got \cup new
             k == [j EXCEPT !.todo = todo, !.got = got]
  <2>2. p \in Paths \ {Root} /\ Disk(p) \in Nat
    BY <1>0, <1>2, DiskNat
  <2>3. Row(p, Disk(p)) \in Rows
    BY <2>2, RowIn
  <2>4. new \in SUBSET {Row(p, Disk(p))}
    OBVIOUS
  <2>5. new \in SUBSET Rows /\ IsFiniteSet(new)
    BY <2>3, <2>4, FS_Singleton, FS_Subset
  <2>6. jobs' = [jobs EXCEPT ![d].todo = todo, ![d].got = got]
    BY <2>1
  <2> HIDE DEF new
  <2>7. got \in SUBSET Rows /\ IsFiniteSet(got) /\ todo \in SUBSET (Paths \ {Root})
    BY <1>1, <1>2, <2>5, FS_Union
  <2> HIDE DEF got, todo
  <2>8. jobs' = [jobs EXCEPT ![d] = k]
    BY <1>0, <2>6
  <2>9. k \in JobSet /\ k.got = got
    BY <1>7, <2>7
  <2> HIDE DEF k, j
  <2> QED
    BY <2>7, <2>8, <2>9, JobChange
<1>6. CASE ScanEnd(d)
  <2>1. CASE jobs' = [jobs EXCEPT ![d].at = "whole"]
    <3> DEFINE k == [j EXCEPT !.at = "whole"]
    <3>1. jobs' = [jobs EXCEPT ![d] = k]
      BY <1>0, <2>1
    <3>2. k \in JobSet /\ k.got = j.got
      <4> HIDE DEF j
      <4> QED
        BY <1>1, JobAt
    <3> HIDE DEF k, j
    <3> QED
      BY <1>1, <3>1, <3>2, JobChange
  <2>2. CASE ~(jobs' = [jobs EXCEPT ![d].at = "whole"])
    <3>1. PICK begun \in SUBSET (j.todo \cap Dirs) :
             jobs' = [jobs EXCEPT ![d].at = "partial", ![d].todo = {},
                                  ![d].got = @ \cup {Row(q, Own[q]) : q \in begun}]
      BY <1>6, <2>2 DEF ScanEnd
    <3> DEFINE new == {Row(q, Own[q]) : q \in begun}
               got == j.got \cup new
               k == [j EXCEPT !.at = "partial", !.todo = {}, !.got = got]
    <3>2. begun \in SUBSET (Paths \ {Root}) /\ IsFiniteSet(begun)
      BY <1>2, TreeAssumption, FS_Subset
    <3>3. \A q \in begun : Row(q, Own[q]) \in Rows
      BY <3>2, RowIn, TreeAssumption
    <3>4. [q \in begun |-> Row(q, Own[q])] \in Surjection(begun, new)
      BY DEF Surjection
    <3>5. new \in SUBSET Rows /\ IsFiniteSet(new)
      BY <3>2, <3>3, <3>4, FS_Surjection
    <3>6. jobs' = [jobs EXCEPT ![d].at = "partial", ![d].todo = {}, ![d].got = got]
      BY <3>1
    <3> HIDE DEF new
    <3>7. got \in SUBSET Rows /\ IsFiniteSet(got)
      BY <1>1, <1>2, <3>5, FS_Union
    <3> HIDE DEF got
    <3>8. jobs' = [jobs EXCEPT ![d] = k]
      BY <1>0, <3>6
    <3>9. k \in JobSet /\ k.got = got
      BY <1>8, <3>7
    <3> HIDE DEF k, j
    <3> QED
      BY <3>7, <3>8, <3>9, JobChange
  <2> QED
    BY <2>1, <2>2
<1> QED
  BY <1>4, <1>5, <1>6

LEMMA ScanStep ==
  ASSUME TypeInv, NEW d \in DOMAIN jobs, ScanThread(d)
  PROVE  TypeInv' /\ Fed /\ Steady
<1>1. /\ UNCHANGED <<alive, trash, cache, cur, away, deleting, undo>>
      /\ ScanList(d) \/ ScanRead(d) \/ ScanEnd(d)
  BY DEF ScanThread, disk, session, screen
<1>2. JobTypes' /\ DOMAIN jobs' = DOMAIN jobs
  BY <1>1, ScanJobs
<1>3. DeleteTypes' /\ away' \in SUBSET Rows
  BY <1>1, SameDelete DEF TypeInv, ScreenTypes
<1> QED
  BY <1>1, <1>2, <1>3, QuietStep

(* The trash has a name free.                                              *)
LEMMA FreeName ==
  ASSUME trash \subseteq Slips, IsFiniteSet(trash), alive \subseteq Paths, NEW p \in alive
  PROVE  Ticket(p) \in Slips /\ \A t \in trash : t.name # Ticket(p).name
<1> DEFINE N == 1..(Cardinality(trash) + 1)
           names == {t.name : t \in trash}
           Free(n) == \A t \in trash : t.name # n
<1>1. Cardinality(trash) \in Nat
  BY FS_CardinalityType
<1>2. IsFiniteSet(N) /\ Cardinality(N) = Cardinality(trash) + 1
  BY <1>1, FS_Interval
<1>3. IsFiniteSet(names) /\ Cardinality(names) <= Cardinality(trash)
  <2>1. [t \in trash |-> t.name] \in Surjection(trash, names)
    BY DEF Surjection
  <2> QED
    BY <2>1, FS_Surjection
<1>4. \E n \in N : Free(n)
  <2>1. SUFFICES ASSUME N \subseteq names PROVE FALSE
    OBVIOUS
  <2>2. Cardinality(N) <= Cardinality(names)
    BY <1>3, <2>1, FS_Subset
  <2> HIDE DEF N, names
  <2>3. Cardinality(names) \in Nat
    BY <1>3, FS_CardinalityType
  <2> QED
    BY <1>1, <1>2, <1>3, <2>2, <2>3
<1> DEFINE n == CHOOSE n \in N : Free(n)
<1>5. n \in N /\ Free(n)
  BY <1>4
<1>6. n \in Nat
  BY <1>1, <1>5
<1>7. Ticket(p) = [path |-> p, held |-> Below(p) \cap alive, name |-> n]
  BY DEF Ticket
<1> HIDE DEF n
<1>8. p \in Below(p) \cap alive /\ Below(p) \cap alive \in SUBSET Paths
  BY BelowPaths
<1> QED
  BY <1>5, <1>6, <1>7, <1>8 DEF Slips

LEMMA DoneTypes ==
  ASSUME DeleteTypes, deleting.busy, NEW got \in SUBSET Slips, Done(Head(deleting.todo), got), UNCHANGED undo
  PROVE  /\ DeleteTypes' /\ Head(deleting.todo) \in Rows
         /\ deleting' = [on |-> deleting.on, ended |-> deleting.ended, busy |-> FALSE, stop |-> deleting.stop,
                         todo |-> Tail(deleting.todo),
                         sent |-> Append(deleting.sent, [row |-> Head(deleting.todo), got |-> got]),
                         pending |-> deleting.pending, group |-> deleting.group]
<1> DEFINE d == deleting
           r == Head(deleting.todo)
           m == [row |-> r, got |-> got]
<1>1. d \in Deletings /\ d.todo \in Seq(Rows) /\ d.todo # <<>>
  BY DeletingParts DEF DeleteTypes
<1>2. r \in Rows /\ Tail(d.todo) \in Seq(Rows)
  BY <1>1
<1>3. m \in Sents
  BY <1>2 DEF Sents
<1>4. d' = [d EXCEPT !.busy = FALSE, !.todo = Tail(@), !.sent = Append(@, m)]
  BY DEF Done
<1> HIDE DEF m, r
<1>5. Append(d.sent, m) \in Seq(Sents)
  BY <1>1, <1>3, DeletingParts
<1>6. d' = [on |-> d.on, ended |-> d.ended, busy |-> FALSE, stop |-> d.stop, todo |-> Tail(d.todo),
            sent |-> Append(d.sent, m), pending |-> d.pending, group |-> d.group]
  <2>1. d = [on |-> d.on, ended |-> d.ended, busy |-> d.busy, stop |-> d.stop, todo |-> d.todo,
             sent |-> d.sent, pending |-> d.pending, group |-> d.group]
    BY <1>1, DeletingParts
  <2> QED
    BY <1>4, <2>1
<1>7. d' \in Deletings
  BY <1>1, <1>2, <1>5, <1>6, DeletingParts, DeletingIn
<1>8. DeleteTypes'
  BY <1>6, <1>7 DEF DeleteTypes
<1> QED
  BY <1>2, <1>6, <1>8 DEF m, r

(* What the next row changes of the delete.                                *)
LEMMA DeletingNow ==
  ASSUME DeleteTypes
  PROVE  deleting = [on |-> deleting.on, ended |-> deleting.ended, busy |-> deleting.busy,
                     stop |-> deleting.stop, todo |-> deleting.todo, sent |-> deleting.sent,
                     pending |-> deleting.pending, group |-> deleting.group]
BY DeletingParts DEF DeleteTypes

LEMMA NextRowStep ==
  ASSUME TypeInv, DeleteNext
  PROVE  \E ended, busy \in BOOLEAN :
           /\ deleting' = [on |-> deleting.on, ended |-> ended, busy |-> busy,
                           stop |-> deleting.stop, todo |-> deleting.todo, sent |-> deleting.sent,
                           pending |-> deleting.pending, group |-> deleting.group]
           /\ deleting' \in Deletings /\ (busy => deleting.todo # <<>>) /\ (deleting.ended => ended)
           /\ ended => ~busy
<1> DEFINE d == deleting
           e == IF d.stop \/ d.todo = <<>> THEN TRUE ELSE FALSE
<1>1. /\ deleting' = IF d.stop \/ d.todo = <<>> THEN [d EXCEPT !.ended = TRUE] ELSE [d EXCEPT !.busy = TRUE]
      /\ ~d.ended /\ ~d.busy
  BY DEF DeleteNext
<1>2. d \in Deletings /\ DeleteTypes
  BY DEF TypeInv, DeleteTypes
<1>3. d = [on |-> d.on, ended |-> d.ended, busy |-> d.busy, stop |-> d.stop, todo |-> d.todo,
           sent |-> d.sent, pending |-> d.pending, group |-> d.group]
  BY <1>2, DeletingNow
<1>4. d.ended = FALSE /\ d.busy = FALSE
  BY <1>1, <1>2, DeletingParts
<1>5. CASE d.stop \/ d.todo = <<>>
  <2>1. d' = [on |-> d.on, ended |-> TRUE, busy |-> FALSE, stop |-> d.stop, todo |-> d.todo,
              sent |-> d.sent, pending |-> d.pending, group |-> d.group]
    <3>1. d' = [d EXCEPT !.ended = TRUE]
      BY <1>1, <1>5
    <3> QED
      BY <1>3, <1>4, <3>1
  <2>2. d' \in Deletings
    BY <1>2, <2>1, DeletingParts, DeletingIn
  <2> QED
    BY <2>1, <2>2
<1>6. CASE ~(d.stop \/ d.todo = <<>>)
  <2>1. d' = [on |-> d.on, ended |-> FALSE, busy |-> TRUE, stop |-> d.stop, todo |-> d.todo,
              sent |-> d.sent, pending |-> d.pending, group |-> d.group]
    <3>1. d' = [d EXCEPT !.busy = TRUE]
      BY <1>1, <1>6
    <3> QED
      BY <1>3, <1>4, <3>1
  <2>2. d' \in Deletings
    BY <1>2, <2>1, DeletingParts, DeletingIn
  <2> QED
    BY <1>4, <1>6, <2>1, <2>2
<1> QED
  BY <1>5, <1>6

(* A row that a stop ended before it went.                                 *)
LEMMA RowUndone ==
  ASSUME DeleteTypes, deleting' = [deleting EXCEPT !.busy = FALSE, !.ended = TRUE], UNCHANGED undo
  PROVE  /\ DeleteTypes'
         /\ deleting' = [on |-> deleting.on, ended |-> TRUE, busy |-> FALSE,
                         stop |-> deleting.stop, todo |-> deleting.todo, sent |-> deleting.sent,
                         pending |-> deleting.pending, group |-> deleting.group]
<1> DEFINE d == deleting
<1>1. d \in Deletings
  BY DEF DeleteTypes
<1>2. d = [on |-> d.on, ended |-> d.ended, busy |-> d.busy, stop |-> d.stop, todo |-> d.todo,
           sent |-> d.sent, pending |-> d.pending, group |-> d.group]
  BY DeletingNow
<1>3. d' = [on |-> d.on, ended |-> TRUE, busy |-> FALSE, stop |-> d.stop, todo |-> d.todo,
            sent |-> d.sent, pending |-> d.pending, group |-> d.group]
  BY <1>2
<1>4. d' \in Deletings
  <2>1. /\ d.on \in BOOLEAN /\ d.stop \in BOOLEAN /\ d.todo \in Seq(Rows) /\ d.sent \in Seq(Sents)
        /\ d.pending \in SUBSET Paths /\ d.group \in Seq(Went) /\ TRUE \in BOOLEAN /\ FALSE \in BOOLEAN
    BY <1>1, DeletingParts
  <2>2. [on |-> d.on, ended |-> TRUE, busy |-> FALSE, stop |-> d.stop, todo |-> d.todo,
         sent |-> d.sent, pending |-> d.pending, group |-> d.group] \in Deletings
    BY <2>1, DeletingIn
  <2> QED
    BY <1>3, <2>2
<1> QED
  BY <1>3, <1>4 DEF DeleteTypes

(* A row that failed has no ticket; what left the disk with it is told of  *)
(* by what it left in the trash.                                           *)
LEMMA FailedRow ==
  ASSUME NEW p, RowFails(p)
  PROVE  /\ trash' = trash /\ alive' \subseteq alive /\ alive \ Below(p) \subseteq alive'
         /\ alive \subseteq alive' \cup Untold' /\ Untold \subseteq Untold'
<1>1. CASE UNCHANGED disk
  BY <1>1 DEF disk, Untold
<1>2. ASSUME NEW s, alive' = alive \ (Below(p) \ s), trash' = trash,
             strays' = strays \cup {[path |-> p, held |-> Below(p) \cap alive, stays |-> s]}
      PROVE  /\ trash' = trash /\ alive' \subseteq alive /\ alive \ Below(p) \subseteq alive'
             /\ alive \subseteq alive' \cup Untold' /\ Untold \subseteq Untold'
  <2> DEFINE t == [path |-> p, held |-> Below(p) \cap alive, stays |-> s]
  <2>1. t \in strays' /\ t.held \ t.stays = (Below(p) \cap alive) \ s
    BY <1>2
  <2> HIDE DEF t
  <2>2. (Below(p) \cap alive) \ s \subseteq Untold'
    BY <2>1 DEF Untold
  <2>3. Untold \subseteq Untold'
    BY <1>2 DEF Untold
  <2> QED
    BY <1>2, <2>2, <2>3
<1> QED
  BY <1>1, <1>2 DEF RowFails

LEMMA DeleteStep ==
  ASSUME TypeInv, DeleteThread
  PROVE  TypeInv' /\ Fed /\ Steady
<1> USE DEF TypeInv
<1>1. UNCHANGED <<cache, cur, away, jobs, undo>> /\ (DeleteNext \/ DeleteRow)
  BY DEF DeleteThread, session, screen
<1>2. JobTypes' /\ ScreenTypes' /\ Fed /\ Steady
  BY <1>1 DEF JobTypes, ScreenTypes, Fed, Waits, Steady
<1>3. CASE DeleteNext
  <2>1. UNCHANGED <<alive, trash>>
    BY <1>3 DEF DeleteNext, disk
  <2>2. PICK ended \in BOOLEAN, busy \in BOOLEAN :
           /\ deleting' = [on |-> deleting.on, ended |-> ended, busy |-> busy,
                           stop |-> deleting.stop, todo |-> deleting.todo, sent |-> deleting.sent,
                           pending |-> deleting.pending, group |-> deleting.group]
           /\ deleting' \in Deletings /\ (busy => deleting.todo # <<>>)
    BY <1>3, NextRowStep
  <2>3. deleting'.busy = busy /\ deleting'.todo = deleting.todo
    BY <2>2
  <2> QED
    BY <1>1, <1>2, <2>1, <2>2, <2>3 DEF DiskTypes, DeleteTypes
<1>4. CASE DeleteRow
  <2> DEFINE r == Head(deleting.todo)
  <2>0. deleting.busy
    BY <1>4 DEF DeleteRow
  <2>1. CASE /\ r.path \in alive \ (Refused \cup Recycled)
             /\ alive' = alive \ Below(r.path)
             /\ trash' = trash \cup {Ticket(r.path)}
             /\ Done(r, {Ticket(r.path)})
    <3>1. deleting.todo \in Seq(Rows) /\ deleting.todo # <<>>
      BY <2>0, DeletingParts DEF DeleteTypes
    <3>2. r \in Rows
      BY <3>1
    <3>3. r.path \in Paths /\ Root \notin Below(r.path)
      BY <3>2, RowParts, BelowPaths
    <3>4. Ticket(r.path) \in Slips
      BY <2>1, FreeName DEF DiskTypes
    <3>5. {Ticket(r.path)} \in SUBSET Slips
      BY <3>4
    <3>6. DeleteTypes'
      BY <1>1, <2>0, <2>1, <3>5, DoneTypes
    <3>7. IsFiniteSet(trash') /\ trash' \subseteq Slips
      BY <2>1, <3>4, FS_AddElement DEF DiskTypes
    <3> QED
      BY <1>2, <2>1, <3>3, <3>6, <3>7 DEF DiskTypes
  <2>2. CASE RowFails(r.path) /\ (Done(r, {}) \/ deleting' = [deleting EXCEPT !.busy = FALSE, !.ended = TRUE])
    <3>1. DeleteTypes'
      <4>0. {} \in SUBSET Slips
        OBVIOUS
      <4>1. CASE Done(r, {})
        BY <1>1, <2>0, <4>0, <4>1, DoneTypes
      <4>2. CASE deleting' = [deleting EXCEPT !.busy = FALSE, !.ended = TRUE]
        BY <1>1, <4>2, RowUndone
      <4> QED
        BY <2>2, <4>1, <4>2
    <3>2. Root \notin Below(r.path)
      <4>1. deleting.todo \in Seq(Rows) /\ deleting.todo # <<>>
        BY <2>0, DeletingParts DEF DeleteTypes
      <4>2. r \in Rows
        BY <4>1
      <4> QED
        BY <4>2, RowParts, BelowPaths
    <3>3. trash' = trash /\ alive' \subseteq alive /\ alive \ Below(r.path) \subseteq alive'
      BY <2>2, FailedRow
    <3>4. DiskTypes'
      BY <3>2, <3>3 DEF DiskTypes
    <3> QED
      BY <1>2, <3>1, <3>4
  <2> QED
    BY <1>4, <2>1, <2>2 DEF DeleteRow
<1> QED
  BY <1>1, <1>3, <1>4

(* poll_delete.                                                            *)
LEMMA RowTaken ==
  ASSUME TypeInv, TakeRow
  PROVE  /\ Head(deleting.sent) \in Sents
         /\ deleting' = [on |-> deleting.on, ended |-> deleting.ended, busy |-> deleting.busy,
                         stop |-> deleting.stop, todo |-> deleting.todo, sent |-> Tail(deleting.sent),
                         pending |-> deleting.pending \ {Head(deleting.sent).row.path},
                         group |-> IF Head(deleting.sent).got # {} THEN Append(deleting.group, Head(deleting.sent))
                                   ELSE deleting.group]
         /\ deleting' \in Deletings
<1> USE DEF TypeInv
<1> DEFINE d == deleting
           done == Head(d.sent)
           pending == d.pending \ {done.row.path}
           sent == Tail(d.sent)
           e == [d EXCEPT !.sent = sent, !.pending = pending]
           group == IF done.got # {} THEN Append(d.group, done) ELSE d.group
<1>1. d \in Deletings /\ d.sent # <<>> /\ d.sent \in Seq(Sents)
  BY DeletingParts DEF TakeRow, DeleteTypes
<1>2. done \in Sents /\ sent \in Seq(Sents)
  BY <1>1
<1>3. group \in Seq(Went)
  <2>1. d.group \in Seq(Went)
    BY <1>1, DeletingParts
  <2> HIDE DEF done
  <2>2. done.got # {} => Append(d.group, done) \in Seq(Went)
    BY <1>2, <2>1 DEF Went
  <2> QED
    BY <2>1, <2>2
<1>4. d = [on |-> d.on, ended |-> d.ended, busy |-> d.busy, stop |-> d.stop, todo |-> d.todo,
           sent |-> d.sent, pending |-> d.pending, group |-> d.group]
  BY DeletingNow
<1>5. d' = IF done.got # {} THEN [e EXCEPT !.group = Append(@, done)] ELSE e
  BY DEF TakeRow
<1> HIDE DEF done, pending, sent
<1>6. e = [on |-> d.on, ended |-> d.ended, busy |-> d.busy, stop |-> d.stop, todo |-> d.todo,
           sent |-> sent, pending |-> pending, group |-> d.group]
  <2> DEFINE k == [d EXCEPT !.sent = sent]
  <2>1. k = [on |-> d.on, ended |-> d.ended, busy |-> d.busy, stop |-> d.stop, todo |-> d.todo,
             sent |-> sent, pending |-> d.pending, group |-> d.group]
    BY <1>4
  <2> HIDE DEF k
  <2>2. [k EXCEPT !.pending = pending]
          = [on |-> d.on, ended |-> d.ended, busy |-> d.busy, stop |-> d.stop, todo |-> d.todo,
             sent |-> sent, pending |-> pending, group |-> d.group]
    BY <2>1
  <2> QED
    BY <2>2 DEF k
<1> HIDE DEF e
<1>7. d' = [on |-> d.on, ended |-> d.ended, busy |-> d.busy, stop |-> d.stop, todo |-> d.todo,
            sent |-> sent, pending |-> pending, group |-> group]
  BY <1>5, <1>6
<1> HIDE DEF group
<1>8. pending \in SUBSET Paths
  BY <1>1, DeletingParts DEF pending
<1>9. d' \in Deletings
  <2>1. /\ d.on \in BOOLEAN /\ d.ended \in BOOLEAN /\ d.busy \in BOOLEAN /\ d.stop \in BOOLEAN
        /\ d.todo \in Seq(Rows)
    BY <1>1, DeletingParts
  <2> HIDE DEF d
  <2>2. [on |-> d.on, ended |-> d.ended, busy |-> d.busy, stop |-> d.stop, todo |-> d.todo,
         sent |-> sent, pending |-> pending, group |-> group] \in Deletings
    BY <1>2, <1>3, <1>8, <2>1, DeletingIn
  <2> QED
    BY <1>7, <2>2
<1> QED
  BY <1>2, <1>7, <1>9 DEF done, sent, pending, group

LEMMA TakeRowStep ==
  ASSUME TypeInv, TakeRow
  PROVE  TypeInv' /\ Fed /\ Steady
<1> USE DEF TypeInv
<1> DEFINE done == Head(deleting.sent)
           r == done.row
<1>1. UNCHANGED <<alive, trash, jobs, undo, away>>
  BY DEF TakeRow, disk, session
<1>2. done \in Sents /\ deleting' \in Deletings /\ deleting'.busy = deleting.busy /\ deleting'.todo = deleting.todo
  BY RowTaken
<1>3. DiskTypes' /\ JobTypes' /\ DeleteTypes'
  BY <1>1, <1>2 DEF DiskTypes, JobTypes, DeleteTypes
<1>4. IF done.got # {}
      THEN cache' = DropRow(cache, r) /\ cur' = IF cur \in Below(r.path) THEN Up[r.path] ELSE cur
      ELSE UNCHANGED <<cache, cur>>
  BY DEF TakeRow
<1>5. r \in Rows
  <2> HIDE DEF done
  <2> QED
    BY <1>2 DEF Sents
<1> HIDE DEF done, r
<1>6. CASE done.got # {}
  <2>1. /\ Caches(cache') /\ DOMAIN cache' = DOMAIN cache \ Below(r.path)
        /\ \A e \in DOMAIN cache' : cache'[e].scanning = cache[e].scanning
    <3> DEFINE c == cache
               w == DropRow(c, r)
    <3>1. Caches(c) /\ cache' = w
      BY <1>4, <1>6 DEF ScreenTypes
    <3> HIDE DEF c
    <3>2. Caches(w) /\ DOMAIN w = DOMAIN c \ Below(r.path) /\ \A e \in DOMAIN w : w[e].scanning = c[e].scanning
      BY <1>5, <3>1, DropKeeps
    <3> QED
      BY <3>1, <3>2 DEF c
  <2>2. cur' \in Dirs
    BY <1>4, <1>5, <1>6, RowParts DEF ScreenTypes
  <2> QED
    BY <1>1, <1>3, <2>1, <2>2 DEF ScreenTypes, Fed, Waits, Steady
<1>7. CASE done.got = {}
  BY <1>1, <1>3, <1>4, <1>7 DEF ScreenTypes, Fed, Waits, Steady
<1> QED
  BY <1>6, <1>7

LEMMA FinishStep ==
  ASSUME TypeInv, Finish
  PROVE  TypeInv' /\ Fed /\ Steady
<1>1. UNCHANGED <<alive, trash, jobs, cache, cur, away>> /\ deleting' = Idle
  BY DEF Finish, disk, screen
<1>2. undo' \in Seq(Seq(Went))
  <2>1. deleting.group \in Seq(Went) /\ undo \in Seq(Seq(Went))
    BY DeletingParts DEF TypeInv, DeleteTypes
  <2>2. undo' = undo \/ undo' = Append(undo, deleting.group)
    BY DEF Finish
  <2> QED
    BY <2>1, <2>2
<1>3. DeleteTypes'
  BY <1>1, <1>2, IdleIn DEF DeleteTypes, Idle
<1>4. JobTypes' /\ DOMAIN jobs' = DOMAIN jobs /\ away' \in SUBSET Rows
  BY <1>1, SameJobs DEF TypeInv, ScreenTypes
<1> QED
  BY <1>1, <1>3, <1>4, QuietStep

LEMMA StopStep ==
  ASSUME TypeInv, StopDelete
  PROVE  TypeInv' /\ Fed /\ Steady
<1> DEFINE d == deleting
<1>1. UNCHANGED <<alive, trash, jobs, cache, cur, away, undo>> /\ d' = [d EXCEPT !.stop = TRUE]
  BY DEF StopDelete, disk, screen, session
<1>2. d = [on |-> d.on, ended |-> d.ended, busy |-> d.busy, stop |-> d.stop, todo |-> d.todo,
           sent |-> d.sent, pending |-> d.pending, group |-> d.group]
  BY DeletingNow DEF TypeInv
<1>3. d' = [on |-> d.on, ended |-> d.ended, busy |-> d.busy, stop |-> TRUE, todo |-> d.todo,
            sent |-> d.sent, pending |-> d.pending, group |-> d.group]
  BY <1>1, <1>2
<1>4. d \in Deletings
  BY DEF TypeInv, DeleteTypes
<1>5. d' \in Deletings
  BY <1>3, <1>4, DeletingParts, DeletingIn
<1>6. DeleteTypes'
  BY <1>1, <1>3, <1>5 DEF TypeInv, DeleteTypes
<1>7. JobTypes' /\ DOMAIN jobs' = DOMAIN jobs /\ away' \in SUBSET Rows
  BY <1>1, SameJobs DEF TypeInv, ScreenTypes
<1> QED
  BY <1>1, <1>6, <1>7, QuietStep

(* Steps that change neither a job, a view nor a delete.                   *)
Light ==
  \/ Move \/ ToggleMark \/ MarkAll \/ Unmark \/ Ask \/ No \/ Quit \/ Draw

LEMMA LightStep ==
  ASSUME TypeInv, Light \/ UNCHANGED vars
  PROVE  TypeInv' /\ Fed /\ Steady
<1>1. /\ UNCHANGED <<alive, trash, jobs, cache, cur, deleting, undo>>
      /\ away' \subseteq away
  BY DEF Light, Move, ToggleMark, MarkAll, Unmark, Ask, No, Quit, Draw, vars, disk, session, screen
<1>2. JobTypes' /\ DOMAIN jobs' = DOMAIN jobs /\ DeleteTypes' /\ away' \in SUBSET Rows
  BY <1>1, SameJobs, SameDelete DEF TypeInv, ScreenTypes
<1> QED
  BY <1>1, <1>2, QuietStep

LEMMA LeaveStep ==
  ASSUME TypeInv, Leave
  PROVE  TypeInv' /\ Fed /\ Steady
<1>1. UNCHANGED <<alive, trash, cache, cur, away, deleting, undo>> /\ over' = TRUE /\ jobs' = <<>>
  BY DEF Leave, disk, screen, session
<1>2. JobTypes'
  <2>1. DOMAIN jobs' = {} /\ jobs' = [d \in {} |-> jobs'[d]]
    BY <1>1
  <2> QED
    BY <2>1 DEF JobTypes
<1> QED
  BY <1>1, <1>2 DEF TypeInv, DiskTypes, ScreenTypes, DeleteTypes, Fed, Running, Steady

LEMMA MeddleStep ==
  ASSUME TypeInv, Meddle
  PROVE  TypeInv' /\ Fed /\ Steady
<1>1. /\ UNCHANGED <<trash, jobs, cache, cur, away, deleting, undo>>
      /\ \E p \in Fickle : alive' = IF p \in alive THEN alive \ {p} ELSE alive \cup {p}
  BY DEF Meddle, screen, session
<1>2. alive' \subseteq Paths /\ Root \in alive'
  BY <1>1, OptionAssumption DEF TypeInv, DiskTypes
<1> QED
  BY <1>1, <1>2 DEF TypeInv, DiskTypes, JobTypes, ScreenTypes, DeleteTypes, Fed, Waits, Steady

LEMMA RefreshStep ==
  ASSUME TypeInv, Refresh
  PROVE  TypeInv' /\ Fed /\ Steady
<1> USE DEF TypeInv
<1> DEFINE v == cache[cur]
           b == ~v.partial
<1>1. /\ UNCHANGED <<alive, trash, cur, away, deleting, undo>> /\ cur \in DOMAIN cache
      /\ cache' = [cache EXCEPT ![cur].scanning = TRUE]
      /\ jobs' = With(jobs, cur, NewJob(b))
  BY DEF Refresh, Spawn, Browse, Key, Draws, disk, session
<1>2. JobTypes' /\ DOMAIN jobs' = DOMAIN jobs \cup {cur}
  <2>1. b \in BOOLEAN /\ cur \in Dirs
    BY DEF ScreenTypes
  <2> HIDE DEF b
  <2> QED
    BY <1>1, <2>1, SpawnTypes
<1>3. v \in Views /\ Caches(cache)
  BY <1>1 DEF ScreenTypes, Caches
<1>4. /\ DOMAIN cache' = DOMAIN cache /\ cache' = [e \in DOMAIN cache' |-> cache'[e]]
      /\ \A e \in DOMAIN cache \ {cur} : cache'[e] = cache[e]
      /\ cache'[cur] = [v EXCEPT !.scanning = TRUE]
  BY <1>1, <1>3 DEF Caches
<1> HIDE DEF v
<1>5. cache'[cur] \in Views
  BY <1>3, <1>4 DEF Views
<1>6. Caches(cache')
  BY <1>3, <1>4, <1>5 DEF Caches
<1>7. Waits => Waits'
  BY <1>2, <1>4 DEF Waits
<1> QED
  BY <1>1, <1>2, <1>4, <1>6, <1>7 DEF DiskTypes, ScreenTypes, DeleteTypes, Fed, Steady

LEMMA StopScanStep ==
  ASSUME TypeInv, StopScan
  PROVE  TypeInv' /\ Fed /\ Steady
<1> USE DEF TypeInv
<1> DEFINE j == jobs[cur]
           k == [j EXCEPT !.stop = TRUE]
<1>1. /\ UNCHANGED <<alive, trash, cache, cur, away, deleting, undo>> /\ cur \in DOMAIN jobs
      /\ jobs' = [jobs EXCEPT ![cur].stop = TRUE]
  BY DEF StopScan, disk, screen, session
<1>2. j \in JobSet /\ IsFiniteSet(j.got) /\ jobs = [e \in DOMAIN jobs |-> jobs[e]]
  BY <1>1 DEF JobTypes
<1>3. jobs' = [jobs EXCEPT ![cur] = k]
  BY <1>1, <1>2
<1>4. k \in JobSet /\ k.got = j.got
  <2> HIDE DEF j
  <2> QED
    BY <1>2, JobStop
<1> HIDE DEF j, k
<1>5. JobTypes' /\ DOMAIN jobs' = DOMAIN jobs
  BY <1>1, <1>2, <1>3, <1>4, JobChange
<1>6. DeleteTypes' /\ away' \in SUBSET Rows
  BY <1>1, SameDelete DEF ScreenTypes
<1> QED
  BY <1>1, <1>5, <1>6, QuietStep

LEMMA DotsStep ==
  ASSUME TypeInv, ToggleDots
  PROVE  TypeInv' /\ Fed /\ Steady
<1>1. UNCHANGED <<alive, trash, jobs, cur, away, deleting, undo>> /\ cur \in DOMAIN cache /\ Refilter(cache, ~hide)
  BY DEF ToggleDots, Browse, Key, Draws, disk, session
<1>2. Caches(cache') /\ Same(cache, cache')
  BY <1>1, RefilterKeeps DEF TypeInv, ScreenTypes
<1> QED
  BY <1>1, <1>2 DEF TypeInv, DiskTypes, JobTypes, ScreenTypes, DeleteTypes, Fed, Waits, Steady, Same

(* The delete a `y` starts.                                                *)
Batch == InOrder(Targets, LAMBDA a, b : a.path < b.path)

LEMMA DeleteStarts ==
  ASSUME TypeInv, Yes
  PROVE  /\ deleting' = [on |-> TRUE, ended |-> FALSE, busy |-> FALSE, stop |-> FALSE,
                         todo |-> Batch,
                         sent |-> <<>>, pending |-> {r.path : r \in Targets}, group |-> <<>>]
         /\ deleting' \in Deletings
<1> DEFINE todo == Batch
           pending == {r.path : r \in Targets}
<1>1. cur \in DOMAIN cache /\ deleting' = [Idle EXCEPT !.on = TRUE, !.ended = FALSE, !.todo = todo, !.pending = pending]
  BY DEF Yes, Key, Draws, Batch
<1>2. /\ Targets \in SUBSET Rows /\ IsFiniteSet(Targets)
      /\ \A a, b \in Targets : a.path = b.path => a = b
  BY <1>1, TargetRows
<1>3. \A r \in Targets : r.path \in Nat /\ r.path \in Paths
  BY <1>2, RowParts
<1>4. todo \in Seq(Targets)
  <2> DEFINE S == Targets
  <2>1. IsFiniteSet(S) /\ (\A r \in S : r.path \in Nat) /\ \A a, b \in S : a.path = b.path => a = b
    BY <1>2, <1>3
  <2> HIDE DEF S
  <2>2. InOrder(S, LAMBDA a, b : a.path < b.path) \in Seq(S)
    BY <2>1, PathSeq
  <2> QED
    BY <2>2 DEF S, Batch
<1> HIDE DEF todo
<1>5. todo \in Seq(Rows)
  BY <1>2, <1>4, SeqMonotonic
<1>6. pending \in SUBSET Paths
  BY <1>3
<1> HIDE DEF pending
<1>7. deleting' = [on |-> TRUE, ended |-> FALSE, busy |-> FALSE, stop |-> FALSE, todo |-> todo,
                   sent |-> <<>>, pending |-> pending, group |-> <<>>]
  BY <1>1 DEF Idle
<1>8. <<>> \in Seq(Sents) /\ <<>> \in Seq(Went) /\ TRUE \in BOOLEAN /\ FALSE \in BOOLEAN
  OBVIOUS
<1>9. deleting' \in Deletings
  BY <1>5, <1>6, <1>7, <1>8, DeletingIn
<1> QED
  BY <1>7, <1>9 DEF todo, pending

LEMMA YesStep ==
  ASSUME TypeInv, Yes
  PROVE  TypeInv' /\ Fed /\ Steady
<1>1. UNCHANGED <<alive, trash, jobs, cache, cur, undo>> /\ away' = {}
  BY DEF Yes, disk, session
<1>2. deleting' \in Deletings /\ deleting'.busy = FALSE
  BY DeleteStarts
<1>3. DeleteTypes' /\ JobTypes' /\ DOMAIN jobs' = DOMAIN jobs /\ away' \in SUBSET Rows
  BY <1>1, <1>2, SameJobs DEF TypeInv, DeleteTypes
<1> QED
  BY <1>1, <1>3, QuietStep

LEMMA OpenStep ==
  ASSUME TypeInv, Open \/ Back \/ Jump
  PROVE  TypeInv' /\ Fed /\ Steady /\ \E d \in Dirs : \E on : Go(d, on)
<1>1. cur \in DOMAIN cache /\ cur \in Dirs /\ away \subseteq Rows
  BY DEF Open, Back, Jump, Browse, Key, Draws, TypeInv, ScreenTypes
<1>2. \E d \in Dirs : \E on : Go(d, on)
  <2>1. CASE Open
    BY <2>1 DEF Open
  <2>2. CASE Back
    <3>1. Up[cur] \in Dirs
      BY <1>1, <2>2, TreeAssumption DEF Back
    <3> QED
      BY <2>2, <3>1 DEF Back
  <2>3. CASE Jump
    <3>1. PICK r \in away : Go(Up[r.path], r.path)
      BY <2>3 DEF Jump
    <3>2. Up[r.path] \in Dirs
      BY <1>1, RowParts
    <3> QED
      BY <3>1, <3>2
  <2> QED
    BY <2>1, <2>2, <2>3
<1> QED
  BY <1>1, <1>2, GoStep

LEMMA TypeInit ==
  ASSUME Init
  PROVE  TypeInv /\ Waits
<1>1. DiskTypes
  BY FS_EmptySet, TreeAssumption DEF Init, DiskTypes
<1>2. JobTypes /\ DOMAIN jobs = {Root}
  <2>1. jobs = [d \in {Root} |-> NewJob(FALSE)]
    BY DEF Init
  <2>2. NewJob(FALSE) \in JobSet /\ IsFiniteSet(NewJob(FALSE).got)
    BY NewJobIn
  <2> QED
    BY <2>1, <2>2, TreeAssumption DEF JobTypes
<1>3. ScreenTypes /\ DOMAIN cache = {Root}
  <2>1. cache = [d \in {Root} |-> QuickView(Root)]
    BY DEF Init
  <2>2. QuickView(Root) \in Views
    BY <1>1, QuickViewIn DEF DiskTypes
  <2> QED
    BY <2>1, <2>2, TreeAssumption DEF ScreenTypes, Caches, Init
<1>4. DeleteTypes
  BY IdleIn DEF Init, DeleteTypes, Idle
<1> QED
  BY <1>1, <1>2, <1>3, <1>4 DEF TypeInv, Waits

LEMMA EveryStep ==
  ASSUME TypeInv, [Next]_vars
  PROVE  /\ TypeInv' /\ Fed /\ Steady
<1>1. CASE Loop
  BY <1>1, TakeJobStep, TakeRowStep, FinishStep, LightStep, StopStep, LeaveStep DEF Loop, Light
<1>2. CASE Keys
  BY <1>2, OpenStep, RefreshStep, StopScanStep, LightStep, DotsStep, YesStep, UndoStep DEF Keys, Light
<1>3. CASE ScanThreads
  BY <1>3, ScanStep DEF ScanThreads
<1>4. CASE DeleteThread
  BY <1>4, DeleteStep
<1>5. CASE Meddle
  BY <1>5, MeddleStep
<1>6. CASE UNCHANGED vars
  BY <1>6, LightStep
<1> QED
  BY <1>1, <1>2, <1>3, <1>4, <1>5, <1>6 DEF Next

LEMMA RunningStays ==
  ASSUME [Next]_vars, Running'
  PROVE  Running
<1>1. CASE Loop
  BY <1>1 DEF Loop, TakeJob, TakeRow, Finish, Draw, StopDelete, Leave, Running, ending
<1>2. CASE Keys
  BY <1>2 DEF Keys, Open, Back, Jump, Refresh, StopScan, Move, ToggleMark, MarkAll, Unmark, ToggleDots,
     Ask, No, Yes, UndoLast, Quit, Go, Browse, Key, ending
<1>3. CASE ScanThreads \/ DeleteThread \/ Meddle \/ UNCHANGED vars
  BY <1>3 DEF ScanThreads, ScanThread, DeleteThread, Meddle, Running, vars, ending
<1> QED
  BY <1>1, <1>2, <1>3 DEF Next

(* What the scans keep: the types, and a scan for each view that waits.    *)
ScanInv == TypeInv /\ (Running => Waits)

LEMMA ScanInvariant == Spec => []ScanInv
<1>1. Init => ScanInv
  BY TypeInit DEF ScanInv
<1>2. ScanInv /\ [Next]_vars => ScanInv'
  BY EveryStep, RunningStays DEF ScanInv, Fed
<1> QED
  BY <1>1, <1>2, PTL DEF Spec

(* Whatever is scanned, stopped, deleted or undone, a view that waits for  *)
(* its sizes has a scan under way (poll_jobs, go, refresh): the explorer   *)
(* never refuses to trash rows "until the sizes are in" for ever.          *)
THEOREM AlwaysScanning == Spec => []ScanningHasJob
<1>1. ScanInv => ScanningHasJob
  BY DEF ScanInv, Waits, ScanningHasJob
<1> QED
  BY <1>1, ScanInvariant, PTL

-----------------------------------------------------------------------------
(* Quitting.                                                               *)

(* No delete: no thread, and nothing it sent or put by.                    *)
DeleteInv ==
  /\ ~deleting.on => deleting.ended /\ ~deleting.busy /\ deleting.sent = <<>> /\ deleting.group = <<>>
  /\ over => ~deleting.on
  /\ deleting.busy => deleting.on /\ ~deleting.ended

LEMMA Untouched ==
  ASSUME [Next]_vars, ~DeleteThread, ~TakeRow, ~Finish, ~StopDelete, ~Yes
  PROVE  UNCHANGED deleting
<1>1. CASE Loop
  BY <1>1 DEF Loop, TakeJob, Draw, Leave
<1>2. CASE Keys
  BY <1>2 DEF Keys, Open, Back, Jump, Refresh, StopScan, Move, ToggleMark, MarkAll, Unmark, ToggleDots,
     Ask, No, UndoLast, Quit, Go
<1>3. CASE ScanThreads \/ Meddle \/ UNCHANGED vars
  BY <1>3 DEF ScanThreads, ScanThread, Meddle, vars
<1> QED
  BY <1>1, <1>2, <1>3 DEF Next

LEMMA OverStays ==
  ASSUME [Next]_vars, ~Leave
  PROVE  UNCHANGED over
<1>1. CASE Loop
  BY <1>1 DEF Loop, TakeJob, TakeRow, Finish, Draw, StopDelete, ending
<1>2. CASE Keys
  BY <1>2 DEF Keys, Open, Back, Jump, Refresh, StopScan, Move, ToggleMark, MarkAll, Unmark, ToggleDots,
     Ask, No, Yes, UndoLast, Quit, Go, ending
<1>3. CASE ScanThreads \/ DeleteThread \/ Meddle \/ UNCHANGED vars
  BY <1>3 DEF ScanThreads, ScanThread, DeleteThread, Meddle, vars, ending
<1> QED
  BY <1>1, <1>2, <1>3 DEF Next

(* What the thread did with the row in hand.                               *)
LEMMA RowCases ==
  ASSUME TypeInv, DeleteRow, UNCHANGED undo
  PROVE  /\ deleting'.on = deleting.on /\ deleting'.busy = FALSE /\ deleting'.group = deleting.group
         /\ Untold \subseteq Untold'
         /\ \/ trash' = trash /\ alive \subseteq alive' \cup Untold' /\ deleting'.sent = deleting.sent
            \/ \E got \in SUBSET Slips :
                 /\ deleting'.sent = Append(deleting.sent, [row |-> Head(deleting.todo), got |-> got])
                 /\ Head(deleting.todo) \in Rows
                 /\ \/ got = {} /\ trash' = trash /\ alive \subseteq alive' \cup Untold'
                    \/ \E k \in Slips :
                         /\ got = {k} /\ k \notin trash /\ trash' = trash \cup {k}
                         /\ alive' = alive \ Below(Head(deleting.todo).path)
<1> DEFINE r == Head(deleting.todo)
<1>0. deleting.busy /\ DeleteTypes
  BY DEF DeleteRow, TypeInv
<1>1. CASE /\ r.path \in alive \ (Refused \cup Recycled)
           /\ alive' = alive \ Below(r.path)
           /\ trash' = trash \cup {Ticket(r.path)} /\ UNCHANGED strays
           /\ Done(r, {Ticket(r.path)})
  <2>1. deleting.todo \in Seq(Rows) /\ deleting.todo # <<>>
    BY <1>0, DeletingParts DEF DeleteTypes
  <2>2. r.path \in Paths
    BY <2>1, RowParts
  <2> DEFINE k == Ticket(r.path)
  <2>3. k \in Slips /\ \A t \in trash : t.name # k.name
    BY <1>1, FreeName DEF TypeInv, DiskTypes
  <2> HIDE DEF k
  <2>4. {k} \in SUBSET Slips /\ Done(Head(deleting.todo), {k})
    BY <1>1, <2>3 DEF k
  <2>5. /\ Head(deleting.todo) \in Rows
        /\ deleting' = [on |-> deleting.on, ended |-> deleting.ended, busy |-> FALSE, stop |-> deleting.stop,
                        todo |-> Tail(deleting.todo),
                        sent |-> Append(deleting.sent, [row |-> Head(deleting.todo), got |-> {k}]),
                        pending |-> deleting.pending, group |-> deleting.group]
    BY <1>0, <2>4, DoneTypes
  <2>6. trash' = trash \cup {k} /\ alive' = alive \ Below(r.path)
    BY <1>1 DEF k
  <2>7. k \notin trash /\ Untold' = Untold
    BY <1>1, <2>3 DEF Untold
  <2> QED
    BY <2>3, <2>4, <2>5, <2>6, <2>7
<1>2. CASE RowFails(r.path) /\ Done(r, {})
  <2>1. {} \in SUBSET Slips
    OBVIOUS
  <2>2. /\ Head(deleting.todo) \in Rows
        /\ deleting' = [on |-> deleting.on, ended |-> deleting.ended, busy |-> FALSE, stop |-> deleting.stop,
                        todo |-> Tail(deleting.todo),
                        sent |-> Append(deleting.sent, [row |-> Head(deleting.todo), got |-> {}]),
                        pending |-> deleting.pending, group |-> deleting.group]
    BY <1>0, <1>2, <2>1, DoneTypes
  <2>3. trash' = trash /\ alive \subseteq alive' \cup Untold' /\ Untold \subseteq Untold'
    BY <1>2, FailedRow
  <2> QED
    BY <2>1, <2>2, <2>3
<1>3. CASE RowFails(r.path) /\ deleting' = [deleting EXCEPT !.busy = FALSE, !.ended = TRUE]
  <2>1. deleting' = [on |-> deleting.on, ended |-> TRUE, busy |-> FALSE,
                     stop |-> deleting.stop, todo |-> deleting.todo, sent |-> deleting.sent,
                     pending |-> deleting.pending, group |-> deleting.group]
    BY <1>0, <1>3, RowUndone
  <2>2. trash' = trash /\ alive \subseteq alive' \cup Untold' /\ Untold \subseteq Untold'
    BY <1>3, FailedRow
  <2> QED
    BY <2>1, <2>2
<1> QED
  BY <1>1, <1>2, <1>3 DEF DeleteRow

LEMMA DeleteInvStep ==
  ASSUME TypeInv, DeleteInv, [Next]_vars
  PROVE  DeleteInv'
<1> USE DEF DeleteInv
<1>1. CASE DeleteThread
  <2>0. UNCHANGED undo /\ over' = over /\ (DeleteNext \/ DeleteRow)
    BY <1>1 DEF DeleteThread, session, ending
  <2>1. CASE DeleteNext
    <3>1. PICK ended \in BOOLEAN, busy \in BOOLEAN :
             /\ deleting' = [on |-> deleting.on, ended |-> ended, busy |-> busy,
                             stop |-> deleting.stop, todo |-> deleting.todo, sent |-> deleting.sent,
                             pending |-> deleting.pending, group |-> deleting.group]
             /\ ended => ~busy
      BY <2>1, NextRowStep
    <3>2. deleting'.on = deleting.on /\ deleting'.ended = ended /\ deleting'.busy = busy
      BY <3>1
    <3> QED
      BY <2>0, <2>1, <3>1, <3>2 DEF DeleteNext
  <2>2. CASE DeleteRow
    <3>1. deleting.busy /\ deleting.on /\ ~deleting.ended
      BY <2>2 DEF DeleteRow
    <3>2. deleting'.on = deleting.on /\ deleting'.busy = FALSE
      BY <2>0, <2>2, RowCases
    <3> QED
      BY <2>0, <3>1, <3>2
  <2> QED
    BY <2>0, <2>1, <2>2
<1>2. CASE TakeRow
  <2>1. deleting.on /\ over' = over
    BY <1>2 DEF TakeRow, ending
  <2>2. deleting'.on = deleting.on /\ deleting'.ended = deleting.ended /\ deleting'.busy = deleting.busy
    BY <1>2, RowTaken
  <2> QED
    BY <2>1, <2>2
<1>3. CASE Finish
  BY <1>3 DEF Finish, Idle
<1>4. CASE StopDelete
  <2> DEFINE d == deleting
  <2>1. d = [on |-> d.on, ended |-> d.ended, busy |-> d.busy, stop |-> d.stop, todo |-> d.todo,
             sent |-> d.sent, pending |-> d.pending, group |-> d.group]
    BY DeletingNow DEF TypeInv
  <2>2. d' = [d EXCEPT !.stop = TRUE] /\ over' = over
    BY <1>4 DEF StopDelete, ending
  <2>3. d' = [on |-> d.on, ended |-> d.ended, busy |-> d.busy, stop |-> TRUE, todo |-> d.todo,
              sent |-> d.sent, pending |-> d.pending, group |-> d.group]
    BY <2>1, <2>2
  <2> QED
    BY <2>2, <2>3
<1>5. CASE Yes
  <2>1. ~over /\ over' = over
    BY <1>5 DEF Yes, Key, Running, ending
  <2>2. deleting'.on = TRUE /\ deleting'.busy = FALSE
    BY <1>5, DeleteStarts
  <2> QED
    BY <2>1, <2>2
<1>6. CASE ~DeleteThread /\ ~TakeRow /\ ~Finish /\ ~StopDelete /\ ~Yes
  <2>1. UNCHANGED deleting
    BY <1>6, Untouched
  <2>2. over' = over \/ ~deleting.on
    BY OverStays DEF Leave
  <2> QED
    BY <2>1, <2>2
<1> QED
  BY <1>1, <1>2, <1>3, <1>4, <1>5, <1>6

LEMMA DeleteInvariant == Spec => [](TypeInv /\ DeleteInv)
<1>1. Init => TypeInv /\ DeleteInv
  <2> SUFFICES ASSUME Init PROVE TypeInv /\ DeleteInv
    OBVIOUS
  <2>1. deleting = Idle /\ over = FALSE
    BY DEF Init
  <2> QED
    BY <2>1, TypeInit DEF DeleteInv, Idle
<1>2. TypeInv /\ DeleteInv /\ [Next]_vars => (TypeInv /\ DeleteInv)'
  BY EveryStep, DeleteInvStep
<1> QED
  BY <1>1, <1>2, PTL DEF Spec

(* A quit waits for the delete (run, poll_delete): when the loop has       *)
(* returned, the delete thread has ended and every row it sent was taken   *)
(* in, so no row is left partway.                                          *)
THEOREM QuitsAfter == Spec => []QuitWaits
<1>1. TypeInv /\ DeleteInv => QuitWaits
  BY DEF DeleteInv, QuitWaits
<1> QED
  BY <1>1, DeleteInvariant, PTL

-----------------------------------------------------------------------------
(* What is trashed and not heard of.                                       *)

Unheard(sent) == UNION {Below(sent[i].row.path) : i \in {j \in DOMAIN sent : sent[j].got # {}}}
GhostInv == DOMAIN cache \subseteq alive \cup Untold \cup Unheard(deleting.sent)

LEMMA UnheardGrows ==
  ASSUME NEW s \in Seq(Sents), NEW m \in Sents
  PROVE  /\ Unheard(s) \subseteq Unheard(Append(s, m))
         /\ m.got # {} => Below(m.row.path) \subseteq Unheard(Append(s, m))
<1>1. /\ DOMAIN Append(s, m) = 1..(Len(s) + 1) /\ DOMAIN s = 1..Len(s) /\ Len(s) \in Nat
      /\ \A i \in 1..Len(s) : Append(s, m)[i] = s[i]
      /\ Append(s, m)[Len(s) + 1] = m
  OBVIOUS
<1> QED
  BY <1>1 DEF Unheard

LEMMA UnheardShrinks ==
  ASSUME NEW s \in Seq(Sents), s # <<>>
  PROVE  Unheard(s) \subseteq Unheard(Tail(s)) \cup (IF Head(s).got # {} THEN Below(Head(s).row.path) ELSE {})
<1>1. /\ DOMAIN s = 1..Len(s) /\ Len(s) \in Nat /\ Head(s) = s[1]
      /\ DOMAIN Tail(s) = 1..(Len(s) - 1) /\ \A i \in 1..(Len(s) - 1) : Tail(s)[i] = s[i + 1]
  OBVIOUS
<1>2. ASSUME NEW i \in 1..Len(s), i # 1
      PROVE  i - 1 \in DOMAIN Tail(s) /\ Tail(s)[i - 1] = s[i]
  BY <1>1, <1>2
<1> DEFINE t == Tail(s)
           m == Head(s)
<1>3. \A i \in DOMAIN s : s[i] = m \/ \E j \in DOMAIN t : s[i] = t[j]
  BY <1>1, <1>2
<1> HIDE DEF t, m
<1>4. Unheard(s) \subseteq Unheard(t) \cup (IF m.got # {} THEN Below(m.row.path) ELSE {})
  BY <1>3 DEF Unheard
<1> QED
  BY <1>4 DEF t, m

(* Every other step spares the directories.                                *)
LEMMA DirsStay ==
  ASSUME TypeInv, [Next]_vars, ~DeleteThread
  PROVE  alive \cap Dirs \subseteq alive'
<1>1. CASE Loop
  BY <1>1 DEF Loop, TakeJob, TakeRow, Finish, Draw, StopDelete, Leave, disk
<1>2. CASE Keys /\ ~UndoLast
  BY <1>2 DEF Keys, Open, Back, Jump, Refresh, StopScan, Move, ToggleMark, MarkAll, Unmark, ToggleDots,
     Ask, No, Yes, Quit, Go, disk
<1>3. CASE UndoLast
  BY <1>3, UndoStep
<1>4. CASE ScanThreads \/ UNCHANGED vars
  BY <1>4 DEF ScanThreads, ScanThread, vars, disk
<1>5. CASE Meddle
  BY <1>5, OptionAssumption DEF Meddle
<1> QED
  BY <1>1, <1>2, <1>3, <1>4, <1>5 DEF Next

LEMMA StraysStay ==
  ASSUME [Next]_vars, ~DeleteThread
  PROVE  UNCHANGED strays
<1>1. CASE Loop
  BY <1>1 DEF Loop, TakeJob, TakeRow, Finish, Draw, StopDelete, Leave, disk
<1>2. CASE Keys
  BY <1>2 DEF Keys, Open, Back, Jump, Refresh, StopScan, Move, ToggleMark, MarkAll, Unmark, ToggleDots,
     Ask, No, Yes, UndoLast, Quit, Go, disk
<1>3. CASE ScanThreads \/ Meddle \/ UNCHANGED vars
  BY <1>3 DEF ScanThreads, ScanThread, Meddle, vars, disk
<1> QED
  BY <1>1, <1>2, <1>3 DEF Next

LEMMA GhostStep ==
  ASSUME TypeInv, DeleteInv, GhostInv, [Next]_vars
  PROVE  GhostInv'
<1> USE DEF GhostInv
<1>0. DOMAIN cache' \subseteq DOMAIN cache \cup alive
  BY EveryStep DEF Steady
<1>00. deleting.sent \in Seq(Sents) /\ DOMAIN cache \subseteq Dirs /\ DOMAIN cache' \subseteq Dirs
  BY EveryStep, DeletingParts DEF TypeInv, DeleteTypes, ScreenTypes, Caches
<1>1. CASE DeleteThread
  <2>0. UNCHANGED <<undo, cache>> /\ (DeleteNext \/ DeleteRow)
    BY <1>1 DEF DeleteThread, session, screen
  <2>1. CASE DeleteNext
    <3>1. deleting'.sent = deleting.sent
      BY <2>1, NextRowStep
    <3>2. UNCHANGED alive /\ Untold' = Untold
      BY <2>1 DEF DeleteNext, disk, Untold
    <3> QED
      BY <2>0, <3>1, <3>2
  <2>2. CASE DeleteRow
    <3> DEFINE r == Head(deleting.todo)
    <3>0. Untold \subseteq Untold'
      BY <2>0, <2>2, RowCases
    <3>1. CASE alive \subseteq alive' \cup Untold' /\ deleting'.sent = deleting.sent
      BY <2>0, <3>0, <3>1
    <3>2. ASSUME NEW got \in SUBSET Slips, r \in Rows,
                 deleting'.sent = Append(deleting.sent, [row |-> r, got |-> got]),
                 \/ got = {} /\ alive \subseteq alive' \cup Untold'
                 \/ got # {} /\ alive' = alive \ Below(r.path)
          PROVE  GhostInv'
      <4> DEFINE m == [row |-> r, got |-> got]
      <4>1. m \in Sents /\ m.row = r /\ m.got = got
        BY <3>2 DEF Sents
      <4> HIDE DEF m, r
      <4>2. /\ Unheard(deleting.sent) \subseteq Unheard(Append(deleting.sent, m))
            /\ m.got # {} => Below(m.row.path) \subseteq Unheard(Append(deleting.sent, m))
        BY <1>00, <4>1, UnheardGrows
      <4>3. deleting'.sent = Append(deleting.sent, m)
        BY <3>2 DEF m
      <4> QED
        BY <2>0, <3>0, <3>2, <4>1, <4>2, <4>3
    <3> HIDE DEF GhostInv
    <3>3. \/ alive \subseteq alive' \cup Untold' /\ deleting'.sent = deleting.sent
          \/ \E got \in SUBSET Slips :
               /\ r \in Rows /\ deleting'.sent = Append(deleting.sent, [row |-> r, got |-> got])
               /\ \/ got = {} /\ alive \subseteq alive' \cup Untold'
                  \/ got # {} /\ alive' = alive \ Below(r.path)
      BY <2>0, <2>2, RowCases
    <3> QED
      BY <3>1, <3>2, <3>3
  <2> QED
    BY <2>0, <2>1, <2>2
<1>2. CASE TakeRow
  <2> DEFINE m == Head(deleting.sent)
             r == m.row
  <2>1. deleting.sent # <<>> /\ alive' = alive /\ r \in Rows
    <3>1. m \in Sents
      BY <1>2, RowTaken
    <3> HIDE DEF m
    <3>2. r \in Rows
      BY <3>1 DEF Sents
    <3> QED
      BY <1>2, <3>2 DEF TakeRow, disk
  <2>2. deleting'.sent = Tail(deleting.sent)
    BY <1>2, RowTaken
  <2>3. IF m.got # {} THEN cache' = DropRow(cache, r) ELSE cache' = cache
    BY <1>2 DEF TakeRow
  <2>4. Unheard(deleting.sent) \subseteq Unheard(Tail(deleting.sent)) \cup (IF m.got # {} THEN Below(r.path) ELSE {})
    BY <1>00, <2>1, UnheardShrinks
  <2> HIDE DEF m
  <2>5. m.got # {} => DOMAIN cache' = DOMAIN cache \ Below(r.path)
    BY <2>1, <2>3, DropKeeps DEF TypeInv, ScreenTypes
  <2>6. Untold' = Untold
    BY <1>2 DEF TakeRow, disk, Untold
  <2> QED
    BY <2>1, <2>2, <2>3, <2>4, <2>5, <2>6
<1>3. CASE ~DeleteThread /\ ~TakeRow
  <2>1. Unheard(deleting'.sent) = Unheard(deleting.sent)
    <3>1. CASE Finish
      BY <3>1 DEF Finish, Idle
    <3>2. CASE Yes
      <4>1. deleting'.sent = <<>>
        BY <3>2, DeleteStarts
      <4> QED
        BY <3>2, <4>1 DEF Yes, DeleteInv
    <3>3. CASE StopDelete
      <4> DEFINE d == deleting
      <4>1. d = [on |-> d.on, ended |-> d.ended, busy |-> d.busy, stop |-> d.stop, todo |-> d.todo,
                 sent |-> d.sent, pending |-> d.pending, group |-> d.group]
        BY DeletingNow DEF TypeInv
      <4>2. d' = [d EXCEPT !.stop = TRUE]
        BY <3>3 DEF StopDelete
      <4> QED
        BY <4>1, <4>2
    <3>4. CASE ~Finish /\ ~Yes /\ ~StopDelete
      BY <1>3, <3>4, Untouched
    <3> QED
      BY <3>1, <3>2, <3>3, <3>4
  <2>2. alive \cap Dirs \subseteq alive'
    BY <1>3, DirsStay
  <2>3. Untold' = Untold
    BY <1>3, StraysStay DEF Untold
  <2> QED
    BY <1>0, <1>00, <2>1, <2>2, <2>3
<1> QED
  BY <1>1, <1>2, <1>3

(* Once a delete is over (drop_row, take_view), no view of a directory it  *)
(* trashed is kept, even one that a scan begun before handed over after:   *)
(* a directory that is gone and has a view went with a row that trash_rows *)
(* sent as failed.                                                         *)
THEOREM KeepsNoGhost == Spec => []NoGhosts
<1>1. Init => GhostInv
  BY TreeAssumption DEF Init, GhostInv
<1>2. TypeInv /\ DeleteInv /\ GhostInv /\ [Next]_vars => GhostInv'
  BY GhostStep
<1>3. DeleteInv /\ GhostInv => NoGhosts
  BY DEF DeleteInv, GhostInv, NoGhosts, Unheard
<1> QED
  BY <1>1, <1>2, <1>3, DeleteInvariant, PTL DEF Spec

-----------------------------------------------------------------------------
(* What can be undone: each ticket in one place.                            *)

UndoTickets(steps) == UNION {Tickets(steps[i]) : i \in DOMAIN steps}
(* Each ticket is with one row.                                            *)
Single(s) ==
  /\ \A i \in DOMAIN s : \A a, b \in s[i].got : a = b
  /\ \A i, j \in DOMAIN s : i # j => s[i].got \cap s[j].got = {}
Apart(steps) ==
  /\ \A i \in DOMAIN steps : Single(steps[i])
  /\ \A i, j \in DOMAIN steps : i # j => Tickets(steps[i]) \cap Tickets(steps[j]) = {}
(* The trash holds what the undo steps, the delete that runs and the       *)
(* failed undos say, each ticket in one place.                             *)
Books(held, steps, group, sent, lost) ==
  /\ held = UndoTickets(steps) \cup Tickets(group) \cup Tickets(sent) \cup lost
  /\ Apart(steps) /\ Single(group) /\ Single(sent)
  /\ Tickets(group) \cap Tickets(sent) = {}
  /\ UndoTickets(steps) \cap (Tickets(group) \cup Tickets(sent)) = {}
  /\ lost \cap (UndoTickets(steps) \cup Tickets(group) \cup Tickets(sent)) = {}
TicketInv == Books(trash, undo, deleting.group, deleting.sent, stuck)

LEMMA AppendTicket ==
  ASSUME NEW s \in Seq(Sents), NEW m \in Sents
  PROVE  /\ Tickets(Append(s, m)) = Tickets(s) \cup m.got
         /\ Single(s) /\ m.got \cap Tickets(s) = {} /\ (\A a, b \in m.got : a = b) => Single(Append(s, m))
<1> DEFINE t == Append(s, m)
           n == Len(s)
<1>1. /\ n \in Nat /\ DOMAIN t = 1..(n + 1) /\ DOMAIN s = 1..n
      /\ \A i \in 1..n : t[i] = s[i]
      /\ t[n + 1] = m
  OBVIOUS
<1> HIDE DEF t, n
<1>2. /\ \A i \in DOMAIN t : t[i] = m \/ (i \in DOMAIN s /\ t[i] = s[i])
      /\ DOMAIN s \subseteq DOMAIN t /\ n + 1 \in DOMAIN t
      /\ \A i \in DOMAIN t \ {n + 1} : i \in DOMAIN s
  BY <1>1
<1>3. Tickets(t) = Tickets(s) \cup m.got
  BY <1>1, <1>2 DEF Tickets
<1>4. Single(s) /\ m.got \cap Tickets(s) = {} /\ (\A a, b \in m.got : a = b) => Single(t)
  <2> SUFFICES ASSUME Single(s), m.got \cap Tickets(s) = {}, \A a, b \in m.got : a = b
               PROVE  Single(t)
    OBVIOUS
  <2>1. \A i \in DOMAIN s : m.got \cap s[i].got = {}
    BY DEF Tickets
  <2>2. \A i \in DOMAIN t : \A a, b \in t[i].got : a = b
    BY <1>2 DEF Single
  <2>3. ASSUME NEW i \in DOMAIN t, NEW j \in DOMAIN t, i # j
        PROVE  t[i].got \cap t[j].got = {}
    <3>1. CASE i = n + 1
      <4>1. j \in DOMAIN s /\ t[i] = m /\ t[j] = s[j]
        BY <1>1, <1>2, <2>3, <3>1
      <4> QED
        BY <2>1, <4>1
    <3>2. CASE j = n + 1
      <4>1. i \in DOMAIN s /\ t[j] = m /\ t[i] = s[i]
        BY <1>1, <1>2, <2>3, <3>2
      <4> QED
        BY <2>1, <4>1
    <3>3. CASE i # n + 1 /\ j # n + 1
      <4>1. i \in DOMAIN s /\ j \in DOMAIN s /\ t[j] = s[j] /\ t[i] = s[i]
        BY <1>1, <1>2, <3>3
      <4> QED
        BY <2>3, <4>1 DEF Single
    <3> QED
      BY <3>1, <3>2, <3>3
  <2> QED
    BY <2>2, <2>3 DEF Single
<1> QED
  BY <1>3, <1>4 DEF t

LEMMA TailTicket ==
  ASSUME NEW s \in Seq(Sents), s # <<>>, Single(s)
  PROVE  /\ Tickets(s) = Head(s).got \cup Tickets(Tail(s))
         /\ Head(s).got \cap Tickets(Tail(s)) = {}
         /\ Single(Tail(s)) /\ \A a, b \in Head(s).got : a = b
<1> DEFINE t == Tail(s)
           n == Len(s)
           m == Head(s)
<1>1. /\ n \in Nat /\ n # 0 /\ DOMAIN t = 1..(n - 1) /\ DOMAIN s = 1..n
      /\ \A i \in 1..(n - 1) : t[i] = s[i + 1]
      /\ m = s[1]
  OBVIOUS
<1> HIDE DEF t, n, m
<1>2. \A i \in DOMAIN t : i + 1 \in DOMAIN s /\ i + 1 # 1 /\ t[i] = s[i + 1]
  BY <1>1
<1>3. ASSUME NEW i \in DOMAIN s, i # 1 PROVE \E j \in DOMAIN t : t[j] = s[i]
  <2>1. i - 1 \in 1..(n - 1) /\ (i - 1) + 1 = i
    BY <1>1, <1>3
  <2> QED
    BY <1>1, <2>1
<1>4. 1 \in DOMAIN s
  BY <1>1
<1>5. Tickets(s) = m.got \cup Tickets(t)
  <2>1. ASSUME NEW i \in DOMAIN s PROVE s[i].got \subseteq m.got \cup Tickets(t)
    <3>1. CASE i = 1
      BY <1>1, <3>1
    <3>2. CASE i # 1
      <4>1. PICK j \in DOMAIN t : t[j] = s[i]
        BY <1>3, <3>2
      <4> QED
        BY <4>1 DEF Tickets
    <3> QED
      BY <3>1, <3>2
  <2>2. Tickets(s) \subseteq m.got \cup Tickets(t)
    BY <2>1 DEF Tickets
  <2>3. m.got \subseteq Tickets(s)
    BY <1>1, <1>4 DEF Tickets
  <2>4. \A i \in DOMAIN t : t[i].got \subseteq Tickets(s)
    BY <1>2 DEF Tickets
  <2>5. Tickets(t) \subseteq Tickets(s)
    BY <2>4 DEF Tickets
  <2> QED
    BY <2>2, <2>3, <2>5
<1>6. \A i \in DOMAIN t : m.got \cap t[i].got = {}
  BY <1>1, <1>2, <1>4 DEF Single
<1>7. m.got \cap Tickets(t) = {}
  BY <1>6 DEF Tickets
<1>8. \A i \in DOMAIN t : \A a, b \in t[i].got : a = b
  BY <1>2 DEF Single
<1>9. ASSUME NEW i \in DOMAIN t, NEW j \in DOMAIN t, i # j
      PROVE  t[i].got \cap t[j].got = {}
  <2>1. i + 1 # j + 1
    BY <1>1, <1>9
  <2> QED
    BY <1>2, <2>1 DEF Single
<1>10. Single(t)
  BY <1>8, <1>9 DEF Single
<1>11. \A a, b \in m.got : a = b
  BY <1>1, <1>4 DEF Single
<1> QED
  BY <1>5, <1>7, <1>10, <1>11 DEF t, m

LEMMA AppendStep ==
  ASSUME NEW T, NEW u \in Seq(T), NEW g \in T
  PROVE  /\ UndoTickets(Append(u, g)) = UndoTickets(u) \cup Tickets(g)
         /\ Apart(u) /\ Single(g) /\ UndoTickets(u) \cap Tickets(g) = {} => Apart(Append(u, g))
<1> DEFINE t == Append(u, g)
           n == Len(u)
<1>1. /\ n \in Nat /\ DOMAIN t = 1..(n + 1) /\ DOMAIN u = 1..n
      /\ \A i \in 1..n : t[i] = u[i]
      /\ t[n + 1] = g
  OBVIOUS
<1> HIDE DEF t, n
<1>2. /\ \A i \in DOMAIN t : t[i] = g \/ (i \in DOMAIN u /\ t[i] = u[i])
      /\ DOMAIN u \subseteq DOMAIN t /\ n + 1 \in DOMAIN t
      /\ \A i \in DOMAIN t \ {n + 1} : i \in DOMAIN u
  BY <1>1
<1>3. UndoTickets(t) = UndoTickets(u) \cup Tickets(g)
  BY <1>1, <1>2 DEF UndoTickets
<1>4. Apart(u) /\ Single(g) /\ UndoTickets(u) \cap Tickets(g) = {} => Apart(t)
  <2> SUFFICES ASSUME Apart(u), Single(g), UndoTickets(u) \cap Tickets(g) = {}
               PROVE  Apart(t)
    OBVIOUS
  <2>1. \A i \in DOMAIN u : Tickets(g) \cap Tickets(u[i]) = {}
    BY DEF UndoTickets
  <2>2. \A i \in DOMAIN t : Single(t[i])
    BY <1>2 DEF Apart
  <2>3. ASSUME NEW i \in DOMAIN t, NEW j \in DOMAIN t, i # j
        PROVE  Tickets(t[i]) \cap Tickets(t[j]) = {}
    <3>1. CASE i = n + 1
      <4>1. j \in DOMAIN u /\ t[i] = g /\ t[j] = u[j]
        BY <1>1, <1>2, <2>3, <3>1
      <4> QED
        BY <2>1, <4>1
    <3>2. CASE j = n + 1
      <4>1. i \in DOMAIN u /\ t[j] = g /\ t[i] = u[i]
        BY <1>1, <1>2, <2>3, <3>2
      <4> QED
        BY <2>1, <4>1
    <3>3. CASE i # n + 1 /\ j # n + 1
      <4>1. i \in DOMAIN u /\ j \in DOMAIN u /\ t[j] = u[j] /\ t[i] = u[i]
        BY <1>1, <1>2, <3>3
      <4> QED
        BY <2>3, <4>1 DEF Apart
    <3> QED
      BY <3>1, <3>2, <3>3
  <2> QED
    BY <2>2, <2>3 DEF Apart
<1> QED
  BY <1>3, <1>4 DEF t

LEMMA LastStep ==
  ASSUME NEW T, NEW u \in Seq(T), u # <<>>, Apart(u)
  PROVE  /\ UndoTickets(u) = UndoTickets(Front(u)) \cup Tickets(Last(u))
         /\ UndoTickets(Front(u)) \cap Tickets(Last(u)) = {}
         /\ Apart(Front(u)) /\ Single(Last(u)) /\ Last(u) \in T
<1> DEFINE t == Front(u)
           n == Len(u)
           g == Last(u)
<1>1. /\ n \in Nat /\ n # 0 /\ DOMAIN u = 1..n /\ g = u[n] /\ u[n] \in T
  BY DEF Last
<1>2. DOMAIN t = 1..(n - 1) /\ \A i \in 1..(n - 1) : t[i] = u[i]
  <2>1. 1 \in 1..(Len(u) + 1) /\ n - 1 \in 0..Len(u)
    BY <1>1
  <2>2. SubSeq(u, 1, n - 1) \in Seq(T) /\ Len(SubSeq(u, 1, n - 1)) = n - 1
        /\ \A i \in 1..(n - 1) : SubSeq(u, 1, n - 1)[i] = u[1 + i - 1]
    BY <1>1, SubSeqProperties
  <2>3. \A i \in 1..(n - 1) : 1 + i - 1 = i
    BY <1>1
  <2>4. DOMAIN SubSeq(u, 1, n - 1) = 1..(n - 1)
    BY <2>2
  <2> QED
    BY <2>2, <2>3, <2>4 DEF Front
<1> HIDE DEF t, n, g
<1>3. /\ \A i \in DOMAIN t : i \in DOMAIN u /\ i # n /\ t[i] = u[i]
      /\ \A i \in DOMAIN u : i = n \/ i \in DOMAIN t
      /\ n \in DOMAIN u
  BY <1>1, <1>2
<1>4. UndoTickets(u) = UndoTickets(t) \cup Tickets(g)
  BY <1>1, <1>3 DEF UndoTickets
<1>5. \A i \in DOMAIN t : Tickets(t[i]) \cap Tickets(g) = {}
  BY <1>1, <1>3 DEF Apart
<1>6. UndoTickets(t) \cap Tickets(g) = {}
  BY <1>5 DEF UndoTickets
<1>7. Apart(t) /\ Single(g)
  BY <1>1, <1>3 DEF Apart
<1> QED
  BY <1>1, <1>4, <1>6, <1>7 DEF t, g

(* Putting one row back settles its ticket.                                *)
LEMMA PutBackTickets ==
  ASSUME NEW u, Undoing(u), NEW m \in Went, NEW k \in m.got, \A a, b \in m.got : a = b
  PROVE  \/ PutBack(u, m).trash = u.trash /\ PutBack(u, m).stuck = u.stuck \cup {k}
         \/ PutBack(u, m).trash = u.trash \ {k} /\ PutBack(u, m).stuck = u.stuck
<1> DEFINE r == m.row
           ticket == CHOOSE t \in m.got : TRUE
           back == IF Up[r.path] \in DOMAIN u.cache /\ r.path \notin PathsOf(u.cache[Up[r.path]].rows)
                   THEN [u.cache EXCEPT ![Up[r.path]].rows = Insert(@, r)] ELSE u.cache
           moved == Carry(back, Up[r.path], 0, r.disk)
           new == PutBack(u, m)
<1>1. ticket = k
  OBVIOUS
<1>2. new = IF r.path \in u.alive THEN [u EXCEPT !.stuck = @ \cup {ticket}]
            ELSE [alive |-> u.alive \cup ticket.held \cup Above[r.path], trash |-> u.trash \ {ticket},
                  stuck |-> u.stuck, cache |-> moved]
  BY DEF PutBack, back
<1> HIDE DEF new, ticket, moved, back
<1>3. CASE r.path \in u.alive
  <2> DEFINE a == u.alive
             t == u.trash
             s == u.stuck
             c == u.cache
  <2>1. new = [u EXCEPT !.stuck = @ \cup {ticket}]
    BY <1>2, <1>3
  <2>2. u = [alive |-> a, trash |-> t, stuck |-> s, cache |-> c]
    BY DEF Undoing
  <2> HIDE DEF a, t, s, c
  <2>3. new = [alive |-> a, trash |-> t, stuck |-> s \cup {ticket}, cache |-> c]
    BY <2>1, <2>2
  <2>4. new.trash = t /\ new.stuck = s \cup {k}
    BY <1>1, <2>3
  <2> QED
    BY <2>4 DEF new, s, t
<1>4. CASE r.path \notin u.alive
  <2>1. new.trash = u.trash \ {ticket} /\ new.stuck = u.stuck
    BY <1>2, <1>4
  <2> QED
    BY <1>1, <2>1 DEF new
<1> QED
  BY <1>3, <1>4

(* After the first n rows: their tickets are out of the trash, or stuck.   *)
Settled(u, s, w, n) ==
  /\ w.trash \ Tickets(s) = u.trash \ Tickets(s) /\ w.stuck \ Tickets(s) = u.stuck
  /\ \A j \in DOMAIN s : \A t \in s[j].got :
       IF j <= n THEN t \in w.trash <=> t \in w.stuck ELSE t \in w.trash /\ t \notin w.stuck

LEMMA SettleOne ==
  ASSUME NEW u, NEW s \in Seq(Went), Single(s), NEW w, Undoing(w), NEW n \in 1..Len(s), Settled(u, s, w, n - 1)
  PROVE  Settled(u, s, PutBack(w, s[n]), n)
<1> DEFINE m == s[n]
           x == PutBack(w, s[n])
<1>1. n \in DOMAIN s /\ m \in Went /\ n \in Nat /\ \A j \in DOMAIN s : j \in Nat
  OBVIOUS
<1>2. PICK k : k \in m.got
  BY <1>1 DEF Went
<1>3. \A a, b \in m.got : a = b
  BY <1>1 DEF Single
<1>4. \/ x.trash = w.trash /\ x.stuck = w.stuck \cup {k}
      \/ x.trash = w.trash \ {k} /\ x.stuck = w.stuck
  BY <1>1, <1>2, <1>3, PutBackTickets
<1>5. k \in Tickets(s)
  BY <1>1, <1>2 DEF Tickets
<1>6. \A j \in DOMAIN s : j # n => k \notin s[j].got
  BY <1>1, <1>2 DEF Single
<1> HIDE DEF x, m
<1>7. x.trash \ Tickets(s) = u.trash \ Tickets(s) /\ x.stuck \ Tickets(s) = u.stuck
  BY <1>4, <1>5 DEF Settled
<1>8. ASSUME NEW j \in DOMAIN s, NEW t \in s[j].got
      PROVE  IF j <= n THEN t \in x.trash <=> t \in x.stuck ELSE t \in x.trash /\ t \notin x.stuck
  <2>1. CASE j = n
    <3>1. t = k
      BY <1>2, <1>3, <2>1 DEF m
    <3>2. ~(j <= n - 1) /\ j <= n
      BY <1>1, <2>1
    <3>3. k \in w.trash /\ k \notin w.stuck
      BY <3>1, <3>2 DEF Settled
    <3> QED
      BY <1>4, <3>1, <3>2, <3>3
  <2>2. CASE j # n
    <3>1. t # k /\ (j <= n <=> j <= n - 1)
      BY <1>1, <1>6, <2>2
    <3>2. IF j <= n - 1 THEN t \in w.trash <=> t \in w.stuck ELSE t \in w.trash /\ t \notin w.stuck
      BY DEF Settled
    <3>3. (t \in x.trash <=> t \in w.trash) /\ (t \in x.stuck <=> t \in w.stuck)
      BY <1>4, <3>1
    <3> QED
      BY <3>1, <3>2, <3>3
  <2> QED
    BY <2>1, <2>2
<1>9. Settled(u, s, x, n)
  BY <1>7, <1>8 DEF Settled
<1> QED
  BY <1>9 DEF x

LEMMA StepFolds ==
  ASSUME NEW u, NEW s \in Seq(Went)
  PROVE  \E it : /\ it[0] = u /\ it[Len(s)] = Returned(u, s)
                 /\ \A m \in 1..Len(s) : it[m] = PutBack(it[m - 1], s[m])
BY BackFolds

LEMMA SettleAll ==
  ASSUME NEW u, Undoing(u), NEW s \in Seq(Went), Single(s),
         Tickets(s) \subseteq u.trash, u.stuck \cap Tickets(s) = {}
  PROVE  /\ Returned(u, s).trash \ Tickets(s) = u.trash \ Tickets(s)
         /\ Returned(u, s).stuck \ Tickets(s) = u.stuck
         /\ Returned(u, s).trash \cap Tickets(s) = Returned(u, s).stuck \cap Tickets(s)
<1>1. PICK it : /\ it[0] = u /\ it[Len(s)] = Returned(u, s)
                /\ \A m \in 1..Len(s) : it[m] = PutBack(it[m - 1], s[m])
  BY StepFolds
<1>2. Len(s) \in Nat /\ DOMAIN s = 1..Len(s) /\ \A m \in 1..Len(s) : s[m] \in Went
  OBVIOUS
<1> DEFINE Good(m) == Undoing(it[m]) /\ Settled(u, s, it[m], m)
           Bad == {m \in 0..Len(s) : ~ Good(m)}
<1>3. Good(0)
  <2>1. \A j \in DOMAIN s : ~(j <= 0)
    BY <1>2
  <2>2. \A j \in DOMAIN s : \A t \in s[j].got : t \in u.trash /\ t \notin u.stuck
    BY DEF Tickets
  <2>3. u.stuck \ Tickets(s) = u.stuck
    OBVIOUS
  <2> QED
    BY <1>1, <2>1, <2>2, <2>3 DEF Settled
<1>4. Bad = {}
  <2> SUFFICES ASSUME Bad # {} PROVE FALSE
    OBVIOUS
  <2>1. Bad \in SUBSET Nat
    BY <1>2
  <2>2. PICK m \in Bad : \A j \in Bad : m <= j
    BY <2>1, Least
  <2>3. m # 0
    BY <1>3
  <2>4. m \in 1..Len(s) /\ m - 1 \in 0..Len(s) /\ m - 1 < m
    BY <1>2, <2>3
  <2>5. Good(m - 1)
    BY <2>1, <2>2, <2>4
  <2> DEFINE w == it[m - 1]
  <2>6. Undoing(PutBack(w, s[m]))
    BY <1>2, <2>4, <2>5, PutBackKeeps
  <2>7. it[m] = PutBack(w, s[m])
    BY <1>1, <2>4
  <2> HIDE DEF Bad
  <2>8. Undoing(w) /\ Settled(u, s, w, m - 1)
    BY <2>5
  <2> HIDE DEF w
  <2>9. Settled(u, s, PutBack(w, s[m]), m)
    BY <2>4, <2>8, SettleOne
  <2>10. Good(m)
    BY <2>6, <2>7, <2>9
  <2> QED
    BY <2>10 DEF Bad
<1>5. Good(Len(s))
  BY <1>2, <1>4
<1> DEFINE w == Returned(u, s)
<1>6. Settled(u, s, w, Len(s))
  BY <1>1, <1>5
<1> HIDE DEF w
<1>7. \A j \in DOMAIN s : \A t \in s[j].got : t \in w.trash <=> t \in w.stuck
  BY <1>2, <1>6 DEF Settled
<1>8. \A t \in Tickets(s) : t \in w.trash <=> t \in w.stuck
  BY <1>7 DEF Tickets
<1> QED
  BY <1>6, <1>8 DEF Settled, w

LEMMA NoRows == Tickets(<<>>) = {} /\ Single(<<>>)
<1>1. DOMAIN <<>> = {}
  OBVIOUS
<1> QED
  BY <1>1 DEF Tickets, Single

LEMMA Unmoved ==
  ASSUME TicketInv, UNCHANGED <<trash, undo, stuck>>,
         deleting'.group = deleting.group, deleting'.sent = deleting.sent
  PROVE  TicketInv'
BY DEF TicketInv

LEMMA PutBy ==
  ASSUME [Next]_vars, ~DeleteThread, ~Finish, ~UndoLast
  PROVE  UNCHANGED <<trash, undo, stuck>>
<1>1. CASE Loop
  BY <1>1 DEF Loop, TakeJob, TakeRow, Draw, StopDelete, Leave, disk, session
<1>2. CASE Keys
  BY <1>2 DEF Keys, Open, Back, Jump, Refresh, StopScan, Move, ToggleMark, MarkAll, Unmark, ToggleDots,
     Ask, No, Yes, Quit, Go, disk, session
<1>3. CASE ScanThreads \/ Meddle \/ UNCHANGED vars
  BY <1>3 DEF ScanThreads, ScanThread, Meddle, vars, disk, session
<1> QED
  BY <1>1, <1>2, <1>3 DEF Next

(* A row put by: its ticket is new.                                        *)
LEMMA PutByTicket ==
  ASSUME TypeInv, TicketInv, NEW m \in Sents, UNCHANGED <<undo, stuck>>,
         deleting'.group = deleting.group, deleting'.sent = Append(deleting.sent, m),
         m.got \cap trash = {}, trash' = trash \cup m.got, \A a, b \in m.got : a = b
  PROVE  TicketInv'
<1> DEFINE S == deleting.sent
           G == deleting.group
<1>1. S \in Seq(Sents)
  BY DeletingParts DEF TypeInv, DeleteTypes
<1>2. Books(trash, undo, G, S, stuck)
  BY DEF TicketInv
<1>3. deleting'.group = G /\ deleting'.sent = Append(S, m)
  OBVIOUS
<1> HIDE DEF S, G
<1>4. Single(S) /\ m.got \cap Tickets(S) = {}
  BY <1>2 DEF Books
<1>5. Tickets(Append(S, m)) = Tickets(S) \cup m.got /\ Single(Append(S, m))
  BY <1>1, <1>4, AppendTicket
<1>6. Books(trash', undo', G, Append(S, m), stuck')
  BY <1>2, <1>5 DEF Books
<1> QED
  BY <1>3, <1>6 DEF TicketInv

LEMMA ThreadTickets ==
  ASSUME TypeInv, TicketInv, DeleteThread
  PROVE  TicketInv'
<1>0. UNCHANGED <<undo, stuck>> /\ (DeleteNext \/ DeleteRow)
  BY DEF DeleteThread, session
<1>1. CASE DeleteNext
  <2>1. deleting'.sent = deleting.sent /\ deleting'.group = deleting.group
    BY <1>1, NextRowStep
  <2>2. UNCHANGED trash
    BY <1>1 DEF DeleteNext, disk
  <2> QED
    BY <1>0, <2>1, <2>2, Unmoved
<1>2. CASE DeleteRow
  <2>0. deleting'.group = deleting.group
    BY <1>0, <1>2, RowCases
  <2>1. CASE trash' = trash /\ deleting'.sent = deleting.sent
    BY <1>0, <2>0, <2>1, Unmoved
  <2>2. ASSUME NEW got \in SUBSET Slips, Head(deleting.todo) \in Rows,
               deleting'.sent = Append(deleting.sent, [row |-> Head(deleting.todo), got |-> got]),
               \/ got = {} /\ trash' = trash
               \/ \E k \in Slips : got = {k} /\ k \notin trash /\ trash' = trash \cup {k}
        PROVE  TicketInv'
    <3> DEFINE m == [row |-> Head(deleting.todo), got |-> got]
    <3>1. m \in Sents /\ m.got = got
      BY <2>2 DEF Sents
    <3>2. deleting'.sent = Append(deleting.sent, m)
      BY <2>2
    <3> HIDE DEF m
    <3>3. got \cap trash = {} /\ trash' = trash \cup got /\ \A a, b \in got : a = b
      BY <2>2
    <3> QED
      BY <1>0, <2>0, <3>1, <3>2, <3>3, PutByTicket
  <2>3. \/ trash' = trash /\ deleting'.sent = deleting.sent
        \/ \E got \in SUBSET Slips :
             /\ Head(deleting.todo) \in Rows
             /\ deleting'.sent = Append(deleting.sent, [row |-> Head(deleting.todo), got |-> got])
             /\ \/ got = {} /\ trash' = trash
                \/ \E k \in Slips : got = {k} /\ k \notin trash /\ trash' = trash \cup {k}
    BY <1>0, <1>2, RowCases
  <2> QED
    BY <2>1, <2>2, <2>3
<1> QED
  BY <1>0, <1>1, <1>2

LEMMA TakeRowTickets ==
  ASSUME TypeInv, TicketInv, TakeRow, UNCHANGED <<trash, undo, stuck>>
  PROVE  TicketInv'
<1> DEFINE S == deleting.sent
           G == deleting.group
           m == Head(S)
           T == Tail(S)
           H == IF m.got # {} THEN Append(G, m) ELSE G
<1>1. S \in Seq(Sents) /\ G \in Seq(Sents) /\ S # <<>>
  <2>1. S \in Seq(Sents) /\ G \in Seq(Went)
    BY DeletingParts DEF TypeInv, DeleteTypes
  <2>2. Went \subseteq Sents
    BY DEF Went
  <2> QED
    BY <2>1, <2>2, SeqMonotonic DEF TakeRow
<1>2. Books(trash, undo, G, S, stuck)
  BY DEF TicketInv
<1>3. deleting'.group = H /\ deleting'.sent = T /\ m \in Sents
  BY RowTaken
<1> HIDE DEF S, G
<1>4. /\ Tickets(S) = m.got \cup Tickets(T) /\ m.got \cap Tickets(T) = {}
      /\ Single(T) /\ \A a, b \in m.got : a = b
  <2>1. Single(S)
    BY <1>2 DEF Books
  <2> QED
    BY <1>1, <2>1, TailTicket
<1> HIDE DEF m, T
<1>5. Tickets(H) = Tickets(G) \cup m.got /\ Single(H)
  <2>0. Single(G) /\ m.got \cap Tickets(G) = {}
    BY <1>2, <1>4 DEF Books
  <2>1. CASE m.got = {}
    BY <2>0, <2>1
  <2>2. CASE m.got # {}
    <3>1. H = Append(G, m)
      BY <2>2
    <3> HIDE DEF H
    <3> QED
      BY <1>1, <1>3, <1>4, <2>0, <3>1, AppendTicket
  <2> QED
    BY <2>1, <2>2
<1> HIDE DEF H
<1>6. Books(trash', undo', H, T, stuck')
  BY <1>2, <1>4, <1>5 DEF Books
<1> QED
  BY <1>3, <1>6 DEF TicketInv

LEMMA FinishTickets ==
  ASSUME TypeInv, TicketInv, Finish
  PROVE  TicketInv'
<1> DEFINE G == deleting.group
<1>1. /\ G \in Seq(Went) /\ undo \in Seq(Seq(Went)) /\ deleting.sent = <<>>
      /\ UNCHANGED <<trash, stuck>> /\ deleting'.group = <<>> /\ deleting'.sent = <<>>
      /\ undo' = IF G = <<>> THEN undo ELSE Append(undo, G)
  BY DeletingParts DEF TypeInv, DeleteTypes, Finish, Idle, disk
<1>2. Books(trash, undo, G, <<>>, stuck)
  BY <1>1 DEF TicketInv
<1> HIDE DEF G
<1>3. UndoTickets(undo') = UndoTickets(undo) \cup Tickets(G) /\ Apart(undo')
  <2>1. CASE G = <<>>
    BY <1>1, <1>2, <2>1, NoRows DEF Books
  <2>2. CASE G # <<>>
    <3>1. undo' = Append(undo, G)
      BY <1>1, <2>2
    <3> DEFINE W == Seq(Went)
               U == undo
    <3>2. G \in W /\ U \in Seq(W)
      BY <1>1
    <3>3. Apart(U) /\ Single(G) /\ UndoTickets(U) \cap Tickets(G) = {}
      BY <1>2 DEF Books
    <3> HIDE DEF W, U
    <3>4. UndoTickets(Append(U, G)) = UndoTickets(U) \cup Tickets(G) /\ Apart(Append(U, G))
      BY <3>2, <3>3, AppendStep
    <3> QED
      BY <3>1, <3>4 DEF U
  <2> QED
    BY <2>1, <2>2
<1>4. Books(trash', undo', <<>>, <<>>, stuck')
  BY <1>1, <1>2, <1>3, NoRows DEF Books
<1> QED
  BY <1>1, <1>4 DEF TicketInv

LEMMA UndoLastTickets ==
  ASSUME TypeInv, DeleteInv, TicketInv, UndoLast
  PROVE  TicketInv'
<1> DEFINE u0 == [alive |-> alive, trash |-> trash, stuck |-> stuck, cache |-> cache]
           s == Last(undo)
           u == Returned(u0, s)
           U == undo
           W == Seq(Went)
           F == Front(U)
<1>1. /\ undo # <<>> /\ trash' = u.trash /\ stuck' = u.stuck
      /\ undo' = F /\ deleting' = deleting /\ deleting.group = <<>> /\ deleting.sent = <<>>
  BY DEF UndoLast, Returned, DeleteInv
<1>2. U \in Seq(W) /\ U # <<>>
  BY <1>1 DEF TypeInv, DeleteTypes
<1>3. Undoing(u0) /\ u0.trash = trash /\ u0.stuck = stuck
  BY DEF TypeInv, Undoing, DiskTypes, ScreenTypes
<1>4. /\ trash = UndoTickets(U) \cup stuck /\ Apart(U) /\ stuck \cap UndoTickets(U) = {}
  <2>1. Books(trash, U, <<>>, <<>>, stuck)
    BY <1>1 DEF TicketInv
  <2> HIDE DEF U
  <2> QED
    BY <2>1, NoRows DEF Books
<1>5. s \in Seq(Went)
  <2>1. Last(U) \in W
    <3> HIDE DEF U, W
    <3> QED
      BY <1>2, <1>4, LastStep
  <2> QED
    BY <2>1
<1>6. /\ UndoTickets(U) = UndoTickets(F) \cup Tickets(s)
      /\ UndoTickets(F) \cap Tickets(s) = {}
      /\ Apart(F) /\ Single(s)
  <2>1. /\ UndoTickets(U) = UndoTickets(Front(U)) \cup Tickets(Last(U))
        /\ UndoTickets(Front(U)) \cap Tickets(Last(U)) = {}
        /\ Apart(Front(U)) /\ Single(Last(U))
    <3> HIDE DEF U, W
    <3> QED
      BY <1>2, <1>4, LastStep
  <2> QED
    BY <2>1
<1> HIDE DEF u0, s, U, F
<1>7. /\ u.trash \ Tickets(s) = u0.trash \ Tickets(s)
      /\ u.stuck \ Tickets(s) = u0.stuck
      /\ u.trash \cap Tickets(s) = u.stuck \cap Tickets(s)
  <2>1. Tickets(s) \subseteq u0.trash /\ u0.stuck \cap Tickets(s) = {}
    BY <1>3, <1>4, <1>6
  <2> QED
    BY <1>3, <1>5, <1>6, <2>1, SettleAll
<1> HIDE DEF u
<1>8. trash' = UndoTickets(F) \cup stuck' /\ stuck' \cap UndoTickets(F) = {}
  BY <1>1, <1>3, <1>4, <1>6, <1>7
<1>9. Books(trash', F, <<>>, <<>>, stuck')
  BY <1>6, <1>8, NoRows DEF Books
<1> QED
  BY <1>1, <1>9 DEF TicketInv

LEMMA TicketStep ==
  ASSUME TypeInv, DeleteInv, TicketInv, [Next]_vars
  PROVE  TicketInv'
<1>1. CASE DeleteThread
  BY <1>1, ThreadTickets
<1>2. CASE Finish
  BY <1>2, FinishTickets
<1>3. CASE UndoLast
  BY <1>3, UndoLastTickets
<1>4. CASE ~DeleteThread /\ ~Finish /\ ~UndoLast
  <2>0. UNCHANGED <<trash, undo, stuck>>
    BY <1>4, PutBy
  <2>1. CASE TakeRow
    BY <2>0, <2>1, TakeRowTickets
  <2>2. CASE ~TakeRow
    <3>1. CASE Yes
      <4>1. deleting'.sent = <<>> /\ deleting'.group = <<>>
        BY <3>1, DeleteStarts
      <4> QED
        BY <2>0, <3>1, <4>1, Unmoved DEF Yes, DeleteInv
    <3>2. CASE StopDelete
      <4> DEFINE d == deleting
      <4>1. d = [on |-> d.on, ended |-> d.ended, busy |-> d.busy, stop |-> d.stop, todo |-> d.todo,
                 sent |-> d.sent, pending |-> d.pending, group |-> d.group]
        BY DeletingNow DEF TypeInv
      <4>2. d' = [d EXCEPT !.stop = TRUE]
        BY <3>2 DEF StopDelete
      <4>3. d'.sent = d.sent /\ d'.group = d.group
        BY <4>1, <4>2
      <4> QED
        BY <2>0, <4>3, Unmoved
    <3>3. CASE ~Yes /\ ~StopDelete
      BY <1>4, <2>0, <2>2, <3>3, Untouched, Unmoved
    <3> QED
      BY <3>1, <3>2, <3>3
  <2> QED
    BY <2>1, <2>2
<1> QED
  BY <1>1, <1>2, <1>3, <1>4

LEMMA TicketInvariant == Spec => []TicketInv
<1>1. Init => TicketInv
  <2> SUFFICES ASSUME Init PROVE TicketInv
    OBVIOUS
  <2>1. trash = {} /\ undo = <<>> /\ stuck = {} /\ deleting.sent = <<>> /\ deleting.group = <<>>
    BY DEF Init, Idle
  <2>2. UndoTickets(<<>>) = {} /\ Apart(<<>>)
    <3>1. DOMAIN <<>> = {}
      OBVIOUS
    <3> QED
      BY <3>1 DEF UndoTickets, Apart
  <2> QED
    BY <2>1, <2>2, NoRows DEF TicketInv, Books
<1>2. TypeInv /\ DeleteInv /\ TicketInv /\ [Next]_vars => TicketInv'
  BY TicketStep
<1> QED
  BY <1>1, <1>2, DeleteInvariant, PTL DEF Spec

(* Whatever the session put in the trash and told of can be undone         *)
(* (poll_delete, finish_delete, undo_last): its ticket is in a step of the *)
(* undo list, or with the delete that still runs, unless an undo said that *)
(* it failed; and no step holds a ticket that the trash no longer has.     *)
THEOREM AlwaysUndoable == Spec => []Undoable
<1>1. TicketInv => Undoable
  <2>1. TicketInv => trash = UndoTickets(undo) \cup Tickets(deleting.group) \cup Tickets(deleting.sent) \cup stuck
    BY DEF TicketInv, Books
  <2>2. UndoTickets(undo) = UNION {Tickets(undo[i]) : i \in DOMAIN undo}
    BY DEF UndoTickets
  <2> QED
    BY <2>1, <2>2 DEF Undoable
<1> QED
  BY <1>1, TicketInvariant, PTL

-----------------------------------------------------------------------------
(* The cursor and the marks.                                               *)

Placed(c, k, at, on) == k \in DOMAIN c => at \in 0..Len(c[k].rows) /\ on \subseteq DOMAIN c[k].rows

LEMMA ClampIn ==
  ASSUME NEW T, NEW rows \in Seq(T), NEW i \in Int
  PROVE  Clamp(i, rows) \in 0..Len(rows)
<1> DEFINE m == Max({i, 1})
           n == Len(rows)
<1>1. m \in Int /\ m >= 1
  <2>1. CASE i >= 1
    <3>1. m = i
      BY <2>1 DEF Max
    <3> QED
      BY <2>1, <3>1
  <2>2. CASE ~(i >= 1)
    <3>1. m = 1
      BY <2>2 DEF Max
    <3> QED
      BY <3>1
  <2> QED
    BY <2>1, <2>2
<1>2. n \in Nat
  OBVIOUS
<1>3. Clamp(i, rows) = Min({n, m})
  BY DEF Clamp
<1> HIDE DEF m, n
<1>4. CASE n <= m
  <2>1. Min({n, m}) = n
    BY <1>1, <1>2, <1>4 DEF Min
  <2> QED
    BY <1>2, <1>3, <2>1 DEF n
<1>5. CASE ~(n <= m)
  <2>1. Min({n, m}) = m
    BY <1>1, <1>2, <1>5 DEF Min
  <2>2. m \in 0..n
    BY <1>1, <1>2, <1>5
  <2> QED
    BY <1>3, <2>1, <2>2 DEF n
<1> QED
  BY <1>4, <1>5

LEMMA IndexNat ==
  ASSUME NEW T, NEW rows \in Seq(T), NEW p
  PROVE  IndexOf(rows, p) \in {0} \cup DOMAIN rows /\ IndexOf(rows, p) \in Int
<1> DEFINE I == {i \in 1..Len(rows) : rows[i].path = p}
<1>1. Len(rows) \in Nat /\ DOMAIN rows = 1..Len(rows)
  OBVIOUS
<1>2. IndexOf(rows, p) = IF I # {} THEN Min(I) ELSE 0
  BY DEF IndexOf, SelectInSeq
<1>3. CASE I # {}
  <2>1. I \in SUBSET Nat
    BY <1>1
  <2>2. \E i \in I : \A j \in I : i <= j
    BY <1>3, <2>1, Least
  <2>3. Min(I) \in I
    BY <2>2 DEF Min
  <2> QED
    BY <1>1, <1>2, <1>3, <2>3
<1>4. CASE I = {}
  BY <1>2, <1>4
<1> QED
  BY <1>3, <1>4

LEMMA CarryRows ==
  ASSUME NEW c, Caches(c), NEW d, NEW from, NEW to, NEW e \in DOMAIN c
  PROVE  DOMAIN Carry(c, d, from, to)[e].rows = DOMAIN c[e].rows
<1> DEFINE v == c[e]
           w == Carry(c, d, from, to)[e]
           rows == ShiftRows(v.rows, Above[d], from, to)
           stash == ShiftRows(v.stash, Above[d], from, to)
<1>1. v \in Views
  BY DEF Caches
<1>2. CASE e \in Above[d]
  <2>1. w = [v EXCEPT !.disk = Shift(@, from, to), !.rows = rows, !.stash = stash]
    BY <1>2 DEF Carry
  <2>2. DOMAIN rows = DOMAIN v.rows
    BY DEF ShiftRows
  <2> HIDE DEF v, w, rows, stash
  <2>3. w.rows = rows
    BY <1>1, <2>1 DEF Views
  <2> QED
    BY <2>2, <2>3 DEF v, w
<1>3. CASE e \notin Above[d]
  BY <1>3 DEF Carry
<1> QED
  BY <1>2, <1>3

LEMMA PutRowRows ==
  ASSUME NEW c, Caches(c), NEW d, NEW n, NEW e \in DOMAIN c
  PROVE  DOMAIN PutRow(c, d, n)[e].rows = DOMAIN c[e].rows
<1> DEFINE put(rows) == [i \in DOMAIN rows |-> IF rows[i].path = d THEN Row(d, n) ELSE rows[i]]
           new == PutRow(c, d, n)
           v == c[e]
           rows == put(v.rows)
           stash == put(v.stash)
<1>1. CASE d # Root /\ Up[d] \in DOMAIN c /\ e = Up[d]
  <2>1. new = [c EXCEPT ![e].rows = put(@), ![e].stash = put(@)]
    BY <1>1, SMTT(60) DEF PutRow
  <2>2. v \in Views
    BY DEF Caches
  <2>3. new[e] = [v EXCEPT !.rows = rows, !.stash = stash]
    BY <2>1
  <2>4. DOMAIN rows = DOMAIN v.rows
    OBVIOUS
  <2> HIDE DEF new, v, rows, stash, put
  <2>5. new[e].rows = rows
    BY <2>2, <2>3 DEF Views
  <2> QED
    BY <2>4, <2>5 DEF new, v
<1>2. CASE ~(d # Root /\ Up[d] \in DOMAIN c /\ e = Up[d])
  BY <1>2 DEF PutRow, Caches
<1> QED
  BY <1>1, <1>2

LEMMA FreshRows ==
  ASSUME NEW c, Caches(c), NEW d \in DOMAIN c, NEW v \in Views, NEW e \in DOMAIN ApplyFresh(c, d, v), e # d
  PROVE  e \in DOMAIN c /\ DOMAIN ApplyFresh(c, d, v)[e].rows = DOMAIN c[e].rows
<1> DEFINE cut == Without(c, Below(d))
           rest == With(cut, d, v)
           old == c[d].disk
           moved == Carry(rest, Up[d], old, v.disk)
           new == ApplyFresh(c, d, v)
<1>0. d \in Dirs /\ c[d] \in Views
  BY DEF Caches
<1>1. Caches(cut) /\ DOMAIN cut = DOMAIN c \ Below(d) /\ \A x \in DOMAIN cut : cut[x] = c[x]
  <2>1. Caches(cut) /\ DOMAIN cut = DOMAIN c \ Below(d) /\ \A x \in DOMAIN c \ Below(d) : cut[x] = c[x]
    BY WithoutKeeps
  <2> HIDE DEF cut
  <2> QED
    BY <2>1
<1> HIDE DEF cut
<1>2. /\ Caches(rest) /\ DOMAIN rest = DOMAIN cut \cup {d}
      /\ \A x \in DOMAIN rest : rest[x] = IF x = d THEN v ELSE cut[x]
  BY <1>0, <1>1, WithKeeps
<1>3. old \in Nat /\ v.disk \in Nat
  BY <1>0, ViewParts
<1> HIDE DEF rest, old
<1>4. /\ Caches(moved) /\ DOMAIN moved = DOMAIN rest
      /\ \A x \in DOMAIN rest : DOMAIN moved[x].rows = DOMAIN rest[x].rows
  <2>1. Caches(moved) /\ Same(rest, moved)
    BY <1>2, <1>3, CarryKeeps
  <2>2. \A x \in DOMAIN rest : DOMAIN moved[x].rows = DOMAIN rest[x].rows
    BY <1>2, CarryRows
  <2> HIDE DEF moved
  <2> QED
    BY <2>1, <2>2 DEF Same
<1> HIDE DEF moved
<1> DEFINE last == PutRow(moved, d, v.disk)
<1>5. DOMAIN last = DOMAIN moved /\ \A x \in DOMAIN moved : DOMAIN last[x].rows = DOMAIN moved[x].rows
  BY <1>0, <1>3, <1>4, PutRowKeeps, PutRowRows DEF Same
<1>6. new = IF d = Root THEN rest ELSE last
  BY DEF ApplyFresh, cut, rest, old, moved
<1>7. e \in DOMAIN new
  OBVIOUS
<1> HIDE DEF new, last
<1>8. e \in DOMAIN rest /\ DOMAIN new[e].rows = DOMAIN rest[e].rows
  BY <1>4, <1>5, <1>6, <1>7
<1> QED
  BY <1>1, <1>2, <1>8 DEF new

LEMMA InsertGrows ==
  ASSUME NEW rows \in Seq(Rows), NEW r \in Rows
  PROVE  Len(Insert(rows, r)) = Len(rows) + 1
<1> DEFINE later == {i \in DOMAIN rows : Ahead(r, rows[i])}
           k == IF later = {} THEN Len(rows) + 1 ELSE Min(later)
<1>0. Len(rows) \in Nat /\ DOMAIN rows = 1..Len(rows) /\ \A i \in 1..Len(rows) : rows[i] \in Rows
  OBVIOUS
<1>1. k \in 1..(Len(rows) + 1)
  <2>1. CASE later = {}
    BY <1>0, <2>1
  <2>2. CASE later # {}
    <3>1. later \in SUBSET Nat
      BY <1>0
    <3>2. \E i \in later : \A j \in later : i <= j
      BY <2>2, <3>1, Least
    <3>3. Min(later) \in later
      BY <3>2 DEF Min
    <3> QED
      BY <1>0, <2>2, <3>3
  <2> QED
    BY <2>1, <2>2
<1>2. Insert(rows, r) = InsertAt(rows, k, r)
  BY DEF Insert
<1> HIDE DEF k
<1> DEFINE a == SubSeq(rows, 1, k - 1)
           b == SubSeq(rows, k, Len(rows))
<1>3. /\ a \in Seq(Rows) /\ b \in Seq(Rows) /\ <<r>> \in Seq(Rows)
      /\ Len(a) = k - 1 /\ Len(b) = Len(rows) - k + 1 /\ Len(<<r>>) = 1
  <2>1. /\ k \in Int /\ k - 1 \in Int
        /\ \A i \in 1..(k - 1) : rows[i] \in Rows
        /\ \A i \in k..Len(rows) : rows[i] \in Rows
    BY <1>0, <1>1
  <2>2. a \in Seq(Rows) /\ b \in Seq(Rows)
    BY <1>0, <2>1, SubSeqProperties
  <2>3. Len(a) = IF 1 <= k - 1 THEN (k - 1) - 1 + 1 ELSE 0
    BY <2>1, SubSeqProperties
  <2>4. Len(b) = IF k <= Len(rows) THEN Len(rows) - k + 1 ELSE 0
    BY <1>0, <2>1, SubSeqProperties
  <2>5. Len(a) = k - 1 /\ Len(b) = Len(rows) - k + 1
    BY <1>0, <1>1, <2>3, <2>4
  <2> QED
    BY <2>2, <2>5
<1>4. Insert(rows, r) = a \o <<r>> \o b
  BY <1>2 DEF InsertAt
<1> HIDE DEF a, b
<1> DEFINE one == <<r>>
<1> HIDE DEF one
<1>5. Len(a \o one \o b) = (k - 1) + 1 + (Len(rows) - k + 1)
  <2>1. one \in Seq(Rows) /\ Len(one) = 1
    BY <1>3 DEF one
  <2>2. a \o one \in Seq(Rows) /\ Len(a \o one) = Len(a) + Len(one)
    BY <1>3, <2>1, ConcatProperties
  <2>3. Len((a \o one) \o b) = Len(a \o one) + Len(b)
    BY <1>3, <2>2, ConcatProperties
  <2> QED
    BY <1>3, <2>1, <2>2, <2>3
<1> QED
  BY <1>0, <1>1, <1>4, <1>5 DEF one

LEMMA SameEnd ==
  ASSUME NEW m \in Nat, NEW n \in Nat, 1..m = 1..n
  PROVE  m = n
<1>1. ASSUME NEW j \in Nat, NEW k \in Nat, 1..j = 1..k PROVE ~(j < k)
  <2>1. k > 0 => k \in 1..k
    OBVIOUS
  <2>2. j < k => k \notin 1..j /\ k > 0
    OBVIOUS
  <2> QED
    BY <1>1, <2>1, <2>2
<1>2. ~(m < n) /\ ~(n < m)
  BY <1>1
<1> QED
  BY <1>2

LEMMA AtMost ==
  ASSUME NEW j \in Nat, NEW m \in Nat, NEW n \in Nat, j <= m, m <= n
  PROVE  j <= n
OBVIOUS

(* Undo only adds rows.                                                    *)
Grown(c, e) == \A d \in DOMAIN c : Len(c[d].rows) <= Len(e[d].rows)

LEMMA PutBackGrows ==
  ASSUME NEW u, Undoing(u), NEW m \in Went
  PROVE  Grown(u.cache, PutBack(u, m).cache)
<1> DEFINE r == m.row
           ticket == CHOOSE t \in m.got : TRUE
           back == IF Up[r.path] \in DOMAIN u.cache /\ r.path \notin PathsOf(u.cache[Up[r.path]].rows)
                   THEN [u.cache EXCEPT ![Up[r.path]].rows = Insert(@, r)] ELSE u.cache
           moved == Carry(back, Up[r.path], 0, r.disk)
           new == PutBack(u, m)
<1>0. r \in Rows /\ Caches(u.cache)
  BY WentParts DEF Undoing
<1>00. \A d \in DOMAIN u.cache : u.cache[d].rows \in Seq(Rows) /\ Len(u.cache[d].rows) \in Nat
  <2>1. \A d \in DOMAIN u.cache : u.cache[d].rows \in Seq(Rows)
    BY <1>0, ViewParts, SMTT(60) DEF Caches
  <2> QED
    BY <2>1
<1>1. Caches(back) /\ DOMAIN back = DOMAIN u.cache /\ Grown(u.cache, back)
  <2>1. CASE Up[r.path] \in DOMAIN u.cache /\ r.path \notin PathsOf(u.cache[Up[r.path]].rows)
    <3> DEFINE d == Up[r.path]
               c == u.cache
               v == c[d]
               more == Insert(v.rows, r)
    <3>1. v \in Views /\ d \in DOMAIN c
      BY <1>0, <2>1 DEF Caches
    <3>2. more \in Seq(Rows) /\ Len(more) = Len(v.rows) + 1
      BY <1>0, <3>1, ViewParts, InsertSeq, InsertGrows
    <3>3. back = [c EXCEPT ![d].rows = more]
      BY <2>1
    <3> HIDE DEF back, d, c, more
    <3>4. /\ DOMAIN back = DOMAIN c /\ back = [e \in DOMAIN back |-> back[e]]
          /\ \A e \in DOMAIN c \ {d} : back[e] = c[e]
          /\ back[d] = [v EXCEPT !.rows = more]
      BY <1>0, <3>1, <3>3 DEF Caches, c
    <3>5. back[d] \in Views /\ back[d].rows = more
      <4> HIDE DEF v
      <4> QED
        BY <3>1, <3>2, <3>4 DEF Views
    <3>6. Caches(back)
      BY <1>0, <3>1, <3>4, <3>5 DEF Caches, c
    <3>7. Grown(c, back)
      <4> SUFFICES ASSUME NEW e \in DOMAIN c PROVE Len(c[e].rows) <= Len(back[e].rows)
        BY DEF Grown
      <4>0. Len(c[e].rows) \in Nat
        BY <1>00 DEF c
      <4>1. CASE e = d
        <5>1. Len(back[d].rows) = Len(c[d].rows) + 1
          BY <3>2, <3>5
        <5> QED
          BY <4>0, <4>1, <5>1
      <4>2. CASE e # d
        <5>1. back[e] = c[e]
          BY <3>4, <4>2
        <5> QED
          BY <4>0, <5>1
      <4> QED
        BY <4>1, <4>2
    <3> QED
      BY <3>4, <3>6, <3>7 DEF c
  <2>2. CASE ~ (Up[r.path] \in DOMAIN u.cache /\ r.path \notin PathsOf(u.cache[Up[r.path]].rows))
    <3>1. back = u.cache
      BY <2>2
    <3> HIDE DEF back
    <3> QED
      BY <1>0, <1>00, <3>1 DEF Grown
  <2> QED
    BY <2>1, <2>2
<1> HIDE DEF back
<1>2. \A d \in DOMAIN back : DOMAIN moved[d].rows = DOMAIN back[d].rows
  BY <1>1, CarryRows
<1>3. Caches(moved) /\ Same(back, moved)
  BY <1>0, <1>1, RowParts, CarryKeeps
<1> HIDE DEF moved
<1>4. \A d \in DOMAIN back : Len(moved[d].rows) = Len(back[d].rows)
  <2> SUFFICES ASSUME NEW d \in DOMAIN back PROVE Len(moved[d].rows) = Len(back[d].rows)
    OBVIOUS
  <2>1. moved[d].rows \in Seq(Rows) /\ back[d].rows \in Seq(Rows)
    BY <1>1, <1>3, ViewParts DEF Caches, Same
  <2> DEFINE a == moved[d].rows
             b == back[d].rows
  <2>2. DOMAIN a = DOMAIN b /\ a \in Seq(Rows) /\ b \in Seq(Rows)
    BY <1>2, <2>1
  <2> HIDE DEF a, b
  <2>3. DOMAIN a = 1..Len(a) /\ DOMAIN b = 1..Len(b) /\ Len(a) \in Nat /\ Len(b) \in Nat
    BY <2>2, SMTT(60)
  <2>4. Len(a) = Len(b)
    BY <2>2, <2>3, SameEnd
  <2> QED
    BY <2>4 DEF a, b
<1>5. Grown(u.cache, moved)
  BY <1>1, <1>4 DEF Grown
<1>6. new = IF r.path \in u.alive THEN [u EXCEPT !.stuck = @ \cup {ticket}]
            ELSE [alive |-> u.alive \cup ticket.held \cup Above[r.path], trash |-> u.trash \ {ticket},
                  stuck |-> u.stuck, cache |-> moved]
  BY DEF PutBack, back, moved
<1> HIDE DEF ticket
<1>7. new.cache = moved \/ new.cache = u.cache
  <2>1. CASE r.path \in u.alive
    <3> DEFINE a == u.alive
               t == u.trash
               s == u.stuck
               c == u.cache
    <3>1. new = [u EXCEPT !.stuck = @ \cup {ticket}]
      BY <1>6, <2>1
    <3>2. u = [alive |-> a, trash |-> t, stuck |-> s, cache |-> c]
      BY DEF Undoing
    <3> HIDE DEF a, t, s, c, new
    <3>3. new = [alive |-> a, trash |-> t, stuck |-> s \cup {ticket}, cache |-> c]
      BY <3>1, <3>2
    <3>4. new.cache = c
      BY <3>3
    <3> QED
      BY <3>4 DEF c
  <2>2. CASE r.path \notin u.alive
    BY <1>6, <2>2
  <2> QED
    BY <2>1, <2>2
<1> HIDE DEF new
<1>8. Grown(u.cache, u.cache)
  BY <1>00 DEF Grown
<1>9. Grown(u.cache, new.cache)
  BY <1>5, <1>7, <1>8
<1> QED
  BY <1>9 DEF new

LEMMA ReturnedGrows ==
  ASSUME NEW u, Undoing(u), NEW s \in Seq(Went)
  PROVE  Grown(u.cache, Returned(u, s).cache)
<1>1. PICK it : /\ it[0] = u /\ it[Len(s)] = Returned(u, s)
                /\ \A m \in 1..Len(s) : it[m] = PutBack(it[m - 1], s[m])
  BY StepFolds
<1>2. Len(s) \in Nat /\ \A m \in 1..Len(s) : s[m] \in Went
  OBVIOUS
<1>0. ASSUME NEW x, Undoing(x), NEW d \in DOMAIN x.cache PROVE Len(x.cache[d].rows) \in Nat
  <2>1. x.cache[d].rows \in Seq(Rows)
    BY <1>0, ViewParts DEF Undoing, Caches
  <2> QED
    BY <2>1
<1> DEFINE Good(w) == Undoing(w) /\ Same(u.cache, w.cache) /\ Grown(u.cache, w.cache)
           Bad == {m \in 0..Len(s) : ~ Good(it[m])}
<1>3. Bad = {}
  <2> SUFFICES ASSUME Bad # {} PROVE FALSE
    OBVIOUS
  <2>1. Bad \in SUBSET Nat
    BY <1>2
  <2>2. PICK m \in Bad : \A j \in Bad : m <= j
    BY <2>1, Least
  <2>3. m # 0
    BY <1>0, <1>1 DEF Same, Grown
  <2>4. m \in 1..Len(s) /\ m - 1 \in 0..Len(s) /\ m - 1 < m
    BY <1>2, <2>3
  <2>5. Good(it[m - 1])
    BY <2>1, <2>2, <2>4
  <2> DEFINE w == it[m - 1]
             x == PutBack(w, s[m])
  <2>6. Undoing(x) /\ Onward(w, x) /\ Grown(w.cache, x.cache)
    BY <1>2, <2>4, <2>5, PutBackKeeps, PutBackGrows
  <2>7. it[m] = x
    BY <1>1, <2>4
  <2> HIDE DEF w, x, Bad
  <2>8. Undoing(w) /\ Same(u.cache, w.cache) /\ Grown(u.cache, w.cache)
    BY <2>5 DEF w
  <2>9. Same(u.cache, x.cache)
    BY <2>6, <2>8 DEF Onward, Same
  <2>10. \A d \in DOMAIN u.cache :
            Len(u.cache[d].rows) \in Nat /\ Len(w.cache[d].rows) \in Nat /\ Len(x.cache[d].rows) \in Nat
    BY <1>0, <2>6, <2>8, <2>9 DEF Same
  <2>11. Grown(u.cache, x.cache)
    <3> SUFFICES ASSUME NEW d \in DOMAIN u.cache PROVE Len(u.cache[d].rows) <= Len(x.cache[d].rows)
      BY DEF Grown
    <3>1. Len(u.cache[d].rows) <= Len(w.cache[d].rows)
      BY <2>8 DEF Grown
    <3>2. d \in DOMAIN w.cache
      BY <2>8 DEF Same
    <3>3. Len(w.cache[d].rows) <= Len(x.cache[d].rows)
      BY <2>6, <3>2 DEF Grown
    <3>4. Len(u.cache[d].rows) \in Nat /\ Len(w.cache[d].rows) \in Nat /\ Len(x.cache[d].rows) \in Nat
      BY <2>10
    <3> QED
      BY <3>1, <3>3, <3>4, AtMost
  <2> QED
    BY <2>6, <2>7, <2>9, <2>11 DEF Bad
<1>4. Good(it[Len(s)])
  BY <1>2, <1>3
<1> QED
  BY <1>1, <1>4

(* What a running delete forbids: marks.                                   *)
PlaceInv ==
  /\ asked \subseteq Paths /\ cursor \in Nat
  /\ deleting.on => sel = {} /\ away = {}
  /\ Placed(cache, cur, cursor, sel)

LEMMA NoneHeld ==
  ASSUME sel = {}, away = {}
  PROVE  Held = {}
BY DEF Held, Selected

LEMMA NoneTaken ==
  ASSUME NEW rows
  PROVE  Taken(rows, {}) = {} /\ Left(rows, {}) = {}
BY DEF Taken, Left

LEMMA ViewPlaced ==
  ASSUME NEW T, NEW rows \in Seq(T), NEW p, NEW held
  PROVE  /\ Clamp(IndexOf(rows, p), rows) \in 0..Len(rows) /\ Clamp(IndexOf(rows, p), rows) \in Nat
         /\ Taken(rows, held) \subseteq DOMAIN rows
<1>1. IndexOf(rows, p) \in Int
  BY IndexNat
<1> DEFINE i == IndexOf(rows, p)
<1>2. i \in Int
  BY <1>1
<1> HIDE DEF i
<1>3. Clamp(i, rows) \in 0..Len(rows)
  BY <1>2, ClampIn
<1>4. Clamp(i, rows) \in Nat
  BY <1>3
<1> QED
  BY <1>3, <1>4 DEF i, Taken

LEMMA CacheRows ==
  ASSUME NEW c, Caches(c), NEW d \in DOMAIN c
  PROVE  c[d].rows \in Seq(Rows)
BY ViewParts DEF Caches

(* The same number of rows.                                                *)
LEMMA SamePlace ==
  ASSUME NEW T, NEW a \in Seq(T), NEW b \in Seq(T), DOMAIN a = DOMAIN b
  PROVE  Len(a) = Len(b)
BY SameEnd

LEMMA TakeViewPlaces ==
  ASSUME TypeInv, PlaceInv, NEW d \in DOMAIN jobs, jobs[d].refresh \/ d = cur => d \in DOMAIN cache,
         TakeView(d), UNCHANGED <<asked, cur, deleting>>
  PROVE  PlaceInv'
<1> DEFINE fresh == Landed(d)
           put == IF jobs[d].refresh THEN ApplyFresh(cache, d, fresh) ELSE With(cache, d, fresh)
           new == IF d = cur /\ hide THEN With(put, d, Narrow(fresh, hide)) ELSE put
           held == IF d = cur THEN Held ELSE away
           left == Pruned(held, d, fresh)
           rows == new[d].rows
<1>0. d \in Dirs /\ Caches(cache)
  BY DEF TypeInv, JobTypes, ScreenTypes
<1>1. fresh \in Views
  BY LandedIn
<1>2. Caches(cache') /\ d \in DOMAIN cache'
  BY TakeViewKeeps
<1>3. /\ cache' = new
      /\ IF d = cur
         THEN sel' = Taken(rows, left) /\ away' = Left(rows, left) /\ cursor' = Clamp(IndexOf(rows, UnderCursor), rows)
         ELSE away' = left /\ UNCHANGED <<sel, cursor>>
  BY DEF TakeView
<1>4. deleting.on => held = {}
  BY NoneHeld DEF PlaceInv
<1>5. deleting.on => left = {}
  BY <1>4 DEF Pruned
<1> HIDE DEF fresh, held, left
<1>6. deleting'.on => sel' = {} /\ away' = {}
  BY <1>3, <1>5, NoneTaken DEF PlaceInv
<1>7. CASE d = cur
  <2>1. rows \in Seq(Rows)
    <3>1. cache'[d].rows = rows
      BY <1>3
    <3> HIDE DEF rows
    <3> QED
      BY <1>2, <1>7, <3>1, CacheRows
  <2>2. cache'[cur].rows = rows
    BY <1>3, <1>7
  <2> HIDE DEF rows, new
  <2>3. Placed(cache', cur, cursor', sel')
    BY <1>3, <1>7, <2>1, <2>2, ViewPlaced DEF Placed
  <2>4. cursor' \in Nat
    BY <1>3, <1>7, <2>1, ViewPlaced
  <2> QED
    BY <1>6, <2>3, <2>4 DEF PlaceInv
<1>8. CASE d # cur
  <2>1. cache' = put
    BY <1>3, <1>8
  <2>2. cur \in DOMAIN cache' => cur \in DOMAIN cache /\ DOMAIN cache'[cur].rows = DOMAIN cache[cur].rows
    <3>1. CASE jobs[d].refresh
      <4>1. put = ApplyFresh(cache, d, fresh) /\ d \in DOMAIN cache
        BY <3>1
      <4> HIDE DEF put
      <4> QED
        BY <1>0, <1>1, <1>8, <2>1, <4>1, FreshRows
    <3>2. CASE ~jobs[d].refresh
      <4>1. put = With(cache, d, fresh)
        BY <3>2
      <4> HIDE DEF put
      <4> QED
        BY <1>8, <2>1, <4>1 DEF With
    <3> QED
      BY <3>1, <3>2
  <2>3. Placed(cache', cur, cursor', sel')
    <3> SUFFICES ASSUME cur \in DOMAIN cache'
                 PROVE  cursor' \in 0..Len(cache'[cur].rows) /\ sel' \subseteq DOMAIN cache'[cur].rows
      BY DEF Placed
    <3>1. cache'[cur].rows \in Seq(Rows) /\ cache[cur].rows \in Seq(Rows)
      BY <1>0, <1>2, <2>2, CacheRows
    <3>2. Len(cache'[cur].rows) = Len(cache[cur].rows)
      BY <2>2, <3>1, SamePlace
    <3>3. cursor \in 0..Len(cache[cur].rows) /\ sel \subseteq DOMAIN cache[cur].rows
      BY <2>2 DEF PlaceInv, Placed
    <3> QED
      BY <1>3, <1>8, <2>2, <3>2, <3>3
  <2> QED
    BY <1>3, <1>6, <1>8, <2>3 DEF PlaceInv
<1> QED
  BY <1>7, <1>8

(* The rows of the view on screen do not change.                           *)
LEMMA StillPlaced ==
  ASSUME TypeInv, PlaceInv, UNCHANGED <<cache, cur, cursor>>, asked' \subseteq Paths,
         sel' \subseteq sel, away' \subseteq away, deleting'.on => deleting.on
  PROVE  PlaceInv'
<1>1. Placed(cache', cur', cursor', sel')
  BY DEF PlaceInv, Placed
<1> QED
  BY <1>1 DEF PlaceInv

LEMMA TakeJobPlaces ==
  ASSUME TypeInv, PlaceInv, NEW d \in DOMAIN jobs, TakeJob(d)
  PROVE  PlaceInv'
<1>0. UNCHANGED <<asked, cur, deleting>> /\ Caches(cache)
  BY DEF TakeJob, TypeInv, ScreenTypes
<1>1. CASE jobs[d].at = "failed"
  <2>1. /\ UNCHANGED <<sel, away, cursor>>
        /\ cache' = IF d \in DOMAIN cache THEN [cache EXCEPT ![d].scanning = FALSE] ELSE cache
    BY <1>1 DEF TakeJob
  <2>2. DOMAIN cache' = DOMAIN cache /\ \A e \in DOMAIN cache : cache'[e].rows = cache[e].rows
    <3>1. CASE d \in DOMAIN cache
      <4> DEFINE v == cache[d]
      <4>1. v \in Views
        BY <1>0, <3>1 DEF Caches
      <4>2. /\ DOMAIN cache' = DOMAIN cache /\ cache'[d] = [v EXCEPT !.scanning = FALSE]
            /\ \A e \in DOMAIN cache : e # d => cache'[e] = cache[e]
        BY <1>0, <2>1, <3>1 DEF Caches
      <4> HIDE DEF v
      <4>3. cache'[d].rows = v.rows
        BY <4>1, <4>2 DEF Views
      <4> QED
        BY <4>2, <4>3 DEF v
    <3>2. CASE d \notin DOMAIN cache
      BY <2>1, <3>2
    <3> QED
      BY <3>1, <3>2
  <2> QED
    BY <1>0, <2>1, <2>2 DEF PlaceInv, Placed
<1>2. CASE jobs[d].at # "failed" /\ d \notin {cur, Root} \cup alive
  <2>1. UNCHANGED <<sel, away, cursor>> /\ cache' = Without(cache, {d})
    BY <1>2 DEF TakeJob
  <2>2. cur \in DOMAIN cache' => cur \in DOMAIN cache /\ cache'[cur] = cache[cur]
    BY <2>1 DEF Without
  <2> QED
    BY <1>0, <2>1, <2>2 DEF PlaceInv, Placed
<1>3. CASE jobs[d].at # "failed" /\ d \in {cur, Root} \cup alive
  <2>1. CASE d \notin DOMAIN cache /\ (jobs[d].refresh \/ d = cur)
    <3>1. UNCHANGED <<cache, sel, away, cursor>>
      BY <1>3, <2>1 DEF TakeJob
    <3> QED
      BY <1>0, <3>1 DEF PlaceInv, Placed
  <2>2. CASE ~ (d \notin DOMAIN cache /\ (jobs[d].refresh \/ d = cur))
    <3>1. TakeView(d)
      BY <1>3, <2>2 DEF TakeJob
    <3> QED
      BY <1>0, <2>2, <3>1, TakeViewPlaces
  <2> QED
    BY <2>1, <2>2
<1> QED
  BY <1>1, <1>2, <1>3

LEMMA TakeRowPlaces ==
  ASSUME TypeInv, PlaceInv, TakeRow
  PROVE  PlaceInv'
<1>1. /\ UNCHANGED <<sel, away, asked>> /\ deleting.on
      /\ \/ UNCHANGED <<cache, cur, cursor>>
         \/ cursor' = IF cur' \in DOMAIN cache' THEN Clamp(cursor, cache'[cur'].rows) ELSE cursor
  BY DEF TakeRow
<1>2. sel = {} /\ away = {}
  BY <1>1 DEF PlaceInv
<1>3. Placed(cache', cur', cursor', sel') /\ cursor' \in Nat
  <2>1. CASE UNCHANGED <<cache, cur, cursor>>
    BY <1>1, <2>1 DEF PlaceInv, Placed
  <2>2. CASE cursor' = IF cur' \in DOMAIN cache' THEN Clamp(cursor, cache'[cur'].rows) ELSE cursor
    <3>1. CASE cur' \notin DOMAIN cache'
      BY <2>2, <3>1 DEF PlaceInv, Placed
    <3>2. CASE cur' \in DOMAIN cache'
      <4> DEFINE rows == cache'[cur'].rows
      <4>1. Caches(cache')
        BY TakeRowStep DEF TypeInv, ScreenTypes
      <4>2. rows \in Seq(Rows)
        BY <3>2, <4>1, CacheRows
      <4>3. cursor \in Int /\ cursor' = Clamp(cursor, rows)
        BY <2>2, <3>2 DEF PlaceInv
      <4> HIDE DEF rows
      <4>4. cursor' \in 0..Len(rows)
        BY <4>2, <4>3, ClampIn
      <4>5. cursor' \in Nat
        BY <4>4
      <4> QED
        BY <1>1, <1>2, <4>4, <4>5 DEF Placed, rows
    <3> QED
      BY <3>1, <3>2
  <2> QED
    BY <1>1, <2>1, <2>2
<1> QED
  BY <1>1, <1>2, <1>3 DEF PlaceInv

LEMMA GoPlaces ==
  ASSUME TypeInv, PlaceInv, cur \in DOMAIN cache, NEW d \in Dirs, NEW on, Go(d, on)
  PROVE  PlaceInv'
<1> DEFINE new == d \notin DOMAIN cache
           open == IF new THEN With(cache, d, QuickView(d)) ELSE cache
           v == IF hide \/ open[d].stash # <<>> THEN Narrow(open[d], hide) ELSE open[d]
           rows == v.rows
<1>1. /\ cache' = With(open, d, v) /\ cur' = d
      /\ cursor' = Clamp(IndexOf(rows, on), rows)
      /\ sel' = Taken(rows, Held) /\ away' = Left(rows, Held)
      /\ UNCHANGED <<deleting, asked>>
  BY DEF Go
<1>2. Caches(cache')
  BY GoStep DEF TypeInv, ScreenTypes
<1> HIDE DEF open, v
<1>3. d \in DOMAIN cache' /\ cache'[d] = v
  BY <1>1 DEF With
<1>4. rows \in Seq(Rows) /\ cache'[cur'].rows = rows
  <2>1. cache'[d].rows \in Seq(Rows)
    BY <1>2, <1>3, CacheRows
  <2> QED
    BY <1>1, <1>3, <2>1
<1> HIDE DEF rows
<1>5. Placed(cache', cur', cursor', sel') /\ cursor' \in Nat
  BY <1>1, <1>4, ViewPlaced DEF Placed
<1>6. deleting'.on => sel' = {} /\ away' = {}
  <2> SUFFICES ASSUME deleting'.on PROVE sel' = {} /\ away' = {}
    OBVIOUS
  <2>1. Held = {}
    BY <1>1, NoneHeld DEF PlaceInv
  <2> QED
    BY <1>1, <2>1, NoneTaken
<1> QED
  BY <1>1, <1>5, <1>6 DEF PlaceInv

LEMMA OpenPlaces ==
  ASSUME TypeInv, PlaceInv, Open \/ Back \/ Jump
  PROVE  PlaceInv'
<1>1. cur \in DOMAIN cache
  BY DEF Open, Back, Jump, Browse, Key, Draws
<1> QED
  BY <1>1, OpenStep, GoPlaces

LEMMA RefilterPlaces ==
  ASSUME NEW c, Caches(c), cur \in DOMAIN c, NEW h, Refilter(c, h), cursor \in Nat
  PROVE  /\ cursor' \in 0..Len(cache'[cur].rows) /\ cursor' \in Nat
         /\ sel' \subseteq DOMAIN cache'[cur].rows /\ (sel = {} => sel' = {})
<1> DEFINE old == c[cur]
           new == IF h \/ old.stash # <<>> THEN Narrow(old, h) ELSE old
           rows == new.rows
           from == old.rows
           at == IF cursor \in DOMAIN from THEN IndexOf(rows, from[cursor].path) ELSE 1
<1>1. /\ cache' = [c EXCEPT ![cur] = new]
      /\ sel' = {IndexOf(rows, from[i].path) : i \in sel \cap DOMAIN from} \ {0}
      /\ cursor' = Clamp(at, rows)
  BY DEF Refilter
<1>2. new \in Views
  BY NarrowKeeps DEF Caches
<1>3. rows \in Seq(Rows) /\ cache'[cur] = new
  <2> HIDE DEF new
  <2>1. cache'[cur] = new
    BY <1>1 DEF Caches
  <2> QED
    BY <1>2, <2>1, ViewParts
<1>4. cache'[cur].rows = rows
  BY <1>3
<1> HIDE DEF new, rows, from
<1>5. at \in Int
  BY <1>3, IndexNat
<1> HIDE DEF at
<1>6. cursor' \in 0..Len(rows)
  BY <1>1, <1>3, <1>5, ClampIn
<1>7. cursor' \in Nat
  BY <1>6
<1>8. sel' \subseteq DOMAIN rows
  <2>1. \A p : IndexOf(rows, p) \in {0} \cup DOMAIN rows
    BY <1>3, IndexNat
  <2> QED
    BY <1>1, <2>1
<1>9. sel = {} => sel' = {}
  BY <1>1
<1> QED
  BY <1>4, <1>6, <1>7, <1>8, <1>9

LEMMA DotsPlaces ==
  ASSUME TypeInv, PlaceInv, ToggleDots
  PROVE  PlaceInv'
<1>1. cur \in DOMAIN cache /\ Refilter(cache, ~hide) /\ UNCHANGED <<deleting, cur, away, asked>>
  BY DEF ToggleDots, Browse, Key, Draws
<1>2. /\ cursor' \in 0..Len(cache'[cur].rows) /\ cursor' \in Nat
      /\ sel' \subseteq DOMAIN cache'[cur].rows /\ (sel = {} => sel' = {})
  BY <1>1, RefilterPlaces DEF TypeInv, ScreenTypes, PlaceInv
<1> QED
  BY <1>1, <1>2 DEF PlaceInv, Placed

LEMMA UndoPlaces ==
  ASSUME TypeInv, PlaceInv, UndoLast
  PROVE  PlaceInv'
<1> DEFINE u0 == [alive |-> alive, trash |-> trash, stuck |-> stuck, cache |-> cache]
           s == Last(undo)
           u == Returned(u0, s)
           c == u.cache
<1>1. /\ undo # <<>> /\ cur \in DOMAIN cache /\ ~deleting.on
      /\ IF hide THEN Refilter(c, hide)
         ELSE cache' = c /\ cursor' = Clamp(cursor, c[cur].rows) /\ sel' = sel
      /\ deleting' = deleting /\ cur' = cur /\ asked' = asked
  BY DEF UndoLast, Browse, Key, Draws, Returned
<1>2. s \in Seq(Went)
  <2>1. undo \in Seq(Seq(Went)) /\ Len(undo) \in Nat /\ Len(undo) # 0
    BY <1>1 DEF TypeInv, DeleteTypes
  <2>2. undo[Len(undo)] \in Seq(Went)
    BY <2>1
  <2> QED
    BY <2>2 DEF Last
<1>3. Undoing(u0)
  BY DEF Undoing, TypeInv, DiskTypes, ScreenTypes
<1>4. Undoing(u) /\ Onward(u0, u) /\ Grown(u0.cache, u.cache)
  BY <1>2, <1>3, ReturnedKeeps, ReturnedGrows
<1> HIDE DEF u, s
<1>5. Caches(c) /\ cur \in DOMAIN c /\ Len(cache[cur].rows) <= Len(c[cur].rows)
  BY <1>1, <1>4 DEF Undoing, Onward, Same, Grown
<1> HIDE DEF c
<1>6. cursor' \in Nat /\ cursor' \in 0..Len(cache'[cur].rows) /\ sel' \subseteq DOMAIN cache'[cur].rows
  <2>1. CASE hide
    BY <1>1, <1>5, <2>1, RefilterPlaces DEF PlaceInv
  <2>2. CASE ~hide
    <3> DEFINE rows == c[cur].rows
               was == cache[cur].rows
    <3>1. rows \in Seq(Rows) /\ was \in Seq(Rows) /\ cursor \in Int /\ sel \subseteq DOMAIN was /\ Len(was) <= Len(rows)
      BY <1>1, <1>5, CacheRows DEF TypeInv, ScreenTypes, PlaceInv, Placed
    <3>2. cursor' = Clamp(cursor, rows) /\ cache'[cur].rows = rows /\ sel' = sel
      BY <1>1, <2>2
    <3> HIDE DEF rows, was
    <3>3. cursor' \in 0..Len(rows)
      BY <3>1, <3>2, ClampIn
    <3>4. cursor' \in Nat
      BY <3>3
    <3>5. sel' \subseteq DOMAIN rows
      <4>1. DOMAIN rows = 1..Len(rows) /\ DOMAIN was = 1..Len(was) /\ Len(rows) \in Nat /\ Len(was) \in Nat
        BY <3>1
      <4> QED
        BY <3>1, <3>2, <4>1
    <3> QED
      BY <3>2, <3>3, <3>4, <3>5
  <2> QED
    BY <2>1, <2>2
<1> QED
  BY <1>1, <1>6 DEF PlaceInv, Placed

(* A scan under way marks its view.                                        *)
LEMMA RefreshPlaces ==
  ASSUME TypeInv, PlaceInv, Refresh
  PROVE  PlaceInv'
<1> DEFINE v == cache[cur]
<1>1. /\ UNCHANGED <<cur, cursor, sel, away, asked, deleting>> /\ cur \in DOMAIN cache
      /\ cache' = [cache EXCEPT ![cur].scanning = TRUE]
  BY DEF Refresh, Browse, Key, Draws
<1>2. v \in Views /\ Caches(cache)
  BY <1>1 DEF TypeInv, ScreenTypes, Caches
<1>3. DOMAIN cache' = DOMAIN cache /\ cache'[cur] = [v EXCEPT !.scanning = TRUE]
  BY <1>1, <1>2 DEF Caches
<1> HIDE DEF v
<1>4. cache'[cur].rows = v.rows
  BY <1>2, <1>3 DEF Views
<1> QED
  BY <1>1, <1>3, <1>4 DEF PlaceInv, Placed, v

LEMMA MarkPlaces ==
  ASSUME TypeInv, PlaceInv, Move \/ ToggleMark \/ MarkAll
  PROVE  PlaceInv'
<1>1. UNCHANGED <<cache, cur, away, asked, deleting>> /\ cur \in DOMAIN cache
  BY DEF Move, ToggleMark, MarkAll, Browse, Key, Draws
<1> DEFINE rows == cache[cur].rows
<1>2. rows \in Seq(Rows) /\ sel \subseteq DOMAIN rows /\ cursor \in 0..Len(rows)
  BY <1>1, CacheRows DEF TypeInv, ScreenTypes, PlaceInv, Placed
<1>3. DOMAIN rows = 1..Len(rows) /\ Len(rows) \in Nat
  BY <1>2
<1>4. CASE Move
  <2>1. sel' = sel /\ cursor' \in DOMAIN rows
    BY <1>4 DEF Move
  <2>2. cursor' \in 0..Len(rows) /\ cursor' \in Nat
    BY <1>3, <2>1
  <2> QED
    BY <1>1, <1>2, <2>1, <2>2 DEF PlaceInv, Placed
<1>5. CASE ToggleMark \/ MarkAll
  <2>1. ~deleting.on /\ cursor' = cursor /\ sel' \subseteq DOMAIN rows
    BY <1>2, <1>5 DEF ToggleMark, MarkAll
  <2> QED
    BY <1>1, <1>2, <2>1 DEF PlaceInv, Placed
<1> QED
  BY <1>4, <1>5

LEMMA AskPlaces ==
  ASSUME TypeInv, PlaceInv, Ask
  PROVE  PlaceInv'
<1>1. /\ UNCHANGED <<cache, cur, cursor, sel, away, deleting>> /\ cur \in DOMAIN cache
      /\ asked' = {r.path : r \in Targets}
  BY DEF Ask, Browse, Key, Draws, screen
<1>2. Targets \in SUBSET Rows
  BY <1>1, TargetRows
<1>3. asked' \subseteq Paths
  BY <1>1, <1>2, RowParts
<1> QED
  BY <1>1, <1>3, StillPlaced

(* Steps that leave the rows on screen and the cursor where they are.      *)
LEMMA StillPlaces ==
  ASSUME TypeInv, PlaceInv,
         \/ \E d \in DOMAIN jobs : ScanThread(d)
         \/ Finish \/ Draw \/ StopDelete \/ Leave \/ StopScan \/ Unmark \/ No \/ Quit \/ Meddle \/ UNCHANGED vars
  PROVE  PlaceInv'
<1> DEFINE Still == /\ UNCHANGED <<cache, cur, cursor>> /\ asked' \subseteq asked
                    /\ sel' \subseteq sel /\ away' \subseteq away
<1>1. Still /\ (deleting' = deleting \/ Finish \/ StopDelete)
  BY DEF Finish, Draw, StopDelete, Leave, StopScan, Unmark, No, Quit, Meddle, ScanThread, vars, screen
<1>2. deleting'.on => deleting.on
  <2>1. CASE Finish
    BY <2>1 DEF Finish
  <2>2. CASE StopDelete
    BY <2>2 DEF StopDelete
  <2> QED
    BY <1>1, <2>1, <2>2
<1>3. asked' \subseteq Paths
  BY <1>1 DEF PlaceInv
<1> QED
  BY <1>1, <1>2, <1>3, StillPlaced

LEMMA DeletePlaces ==
  ASSUME TypeInv, DeleteInv, PlaceInv, DeleteThread
  PROVE  PlaceInv'
<1>1. UNCHANGED <<cache, cur, cursor, sel, away, asked>>
  BY DEF DeleteThread, screen
<1>2. deleting.on
  BY DEF DeleteThread, DeleteNext, DeleteRow, DeleteInv
<1> QED
  BY <1>1, <1>2 DEF PlaceInv, Placed

LEMMA YesPlaces ==
  ASSUME TypeInv, PlaceInv, Yes
  PROVE  PlaceInv'
<1>1. UNCHANGED <<cache, cur, cursor>> /\ sel' = {} /\ away' = {} /\ asked' = {}
  BY DEF Yes
<1> QED
  BY <1>1 DEF PlaceInv, Placed

LEMMA PlaceStep ==
  ASSUME TypeInv, DeleteInv, PlaceInv, [Next]_vars
  PROVE  PlaceInv'
<1>1. CASE Loop
  BY <1>1, TakeJobPlaces, TakeRowPlaces, StillPlaces DEF Loop
<1>2. CASE Keys
  BY <1>2, OpenPlaces, RefreshPlaces, MarkPlaces, AskPlaces, YesPlaces, DotsPlaces, UndoPlaces, StillPlaces DEF Keys
<1>3. CASE ScanThreads
  BY <1>3, StillPlaces DEF ScanThreads
<1>4. CASE DeleteThread
  BY <1>4, DeletePlaces
<1>5. CASE Meddle \/ UNCHANGED vars
  BY <1>5, StillPlaces
<1> QED
  BY <1>1, <1>2, <1>3, <1>4, <1>5 DEF Next

LEMMA PlaceInit ==
  ASSUME Init
  PROVE  PlaceInv
<1> DEFINE rows == QuickView(Root).rows
<1>1. /\ cache = [d \in {Root} |-> QuickView(Root)] /\ cur = Root
      /\ cursor = Clamp(1, rows) /\ sel = {} /\ away = {} /\ asked = {} /\ alive = Paths
  BY DEF Init
<1>2. QuickView(Root) \in Views
  BY <1>1, QuickViewIn
<1>3. rows \in Seq(Rows)
  BY <1>2, ViewParts
<1>4. cache[cur].rows = rows
  BY <1>1
<1> HIDE DEF rows
<1>5. cursor \in 0..Len(rows)
  BY <1>1, <1>3, ClampIn
<1>6. cursor \in Nat
  BY <1>5
<1> QED
  BY <1>1, <1>4, <1>5, <1>6 DEF PlaceInv, Placed

(* What a failed row left in the trash.                                    *)
StrayInv ==
  \A t \in strays : t.path \in t.held /\ t.stays \subseteq t.held /\ t.held \subseteq Paths

LEMMA StrayStep ==
  ASSUME TypeInv, StrayInv, [Next]_vars
  PROVE  StrayInv'
<1>1. CASE UNCHANGED strays
  BY <1>1 DEF StrayInv
<1>2. CASE DeleteThread /\ strays' # strays
  <2> DEFINE p == Head(deleting.todo).path
  <2>1. p \in alive /\ \E s \in Remains(p) : strays' = strays \cup {[path |-> p, held |-> Below(p) \cap alive, stays |-> s]}
    BY <1>2 DEF DeleteThread, DeleteNext, DeleteRow, RowFails, disk
  <2> HIDE DEF p
  <2>2. PICK s \in Remains(p) : strays' = strays \cup {[path |-> p, held |-> Below(p) \cap alive, stays |-> s]}
    BY <2>1
  <2>3. p \in Below(p) /\ alive \subseteq Paths
    BY <2>1, BelowPaths DEF TypeInv, DiskTypes
  <2>4. s \subseteq Below(p) \cap alive
    BY DEF Remains
  <2> QED
    BY <2>1, <2>2, <2>3, <2>4 DEF StrayInv
<1> QED
  BY <1>1, <1>2, StraysStay

(* Every variable keeps its type, through every refilter, insert and       *)
(* carry; the cursor is on a row, or nowhere in an empty view, and the     *)
(* marks are on rows (select, restore_marks, refilter, poll_delete,        *)
(* undo_last).                                                             *)
THEOREM ExplorerTyped == Spec => []TypeOK
<1>1. Init => PlaceInv /\ StrayInv
  BY PlaceInit DEF Init, StrayInv
<1>2. TypeInv /\ DeleteInv /\ PlaceInv /\ StrayInv /\ [Next]_vars => PlaceInv' /\ StrayInv'
  BY PlaceStep, StrayStep
<1>3. TypeInv /\ PlaceInv /\ StrayInv /\ TicketInv => TypeOK
  <2> SUFFICES ASSUME TypeInv, PlaceInv, StrayInv, TicketInv PROVE TypeOK
    OBVIOUS
  <2>1. alive \subseteq Paths /\ Root \in alive /\ \A t \in trash : t.path \in t.held /\ t.held \subseteq Paths
    BY DEF TypeInv, DiskTypes, Slips
  <2>2. /\ DOMAIN jobs \subseteq Dirs
        /\ \A d \in DOMAIN jobs :
             /\ jobs[d].todo \subseteq Paths /\ jobs[d].got \subseteq Rows
             /\ jobs[d].at \in {"new", "reading", "whole", "partial", "failed"}
    BY DEF TypeInv, JobTypes, JobSet
  <2>3. /\ DOMAIN cache \subseteq Dirs /\ \A d \in DOMAIN cache : cache[d] \in Views
        /\ cur \in Dirs /\ away \subseteq Rows
    BY DEF TypeInv, ScreenTypes, Caches
  <2>4. stuck \subseteq trash
    BY DEF TicketInv, Books
  <2> QED
    BY <2>1, <2>2, <2>3, <2>4 DEF TypeOK, PlaceInv, Placed, StrayInv
<1> QED
  BY <1>1, <1>2, <1>3, DeleteInvariant, TicketInvariant, PTL DEF Spec

-----------------------------------------------------------------------------
(* Sums over finite sets.                                                  *)

(* Of the finite sets in a collection, one has the fewest elements.        *)
LEMMA Smallest ==
  ASSUME NEW C, C # {}, \A s \in C : IsFiniteSet(s)
  PROVE  \E s \in C : \A t \in C : Cardinality(s) <= Cardinality(t)
<1> DEFINE N == {Cardinality(s) : s \in C}
<1>1. N \in SUBSET Nat /\ N # {}
  BY FS_CardinalityType
<1>2. PICK n \in N : \A m \in N : n <= m
  BY <1>1, Least
<1> QED
  BY <1>2

(* The sum of what w gives to the elements: one chosen, and the rest.      *)
AddUp(w, f, s) == IF s = {} THEN 0 ELSE LET x == CHOOSE x \in s : TRUE IN w[x] + f[s \ {x}]
Adds(w, f, S) == f = [s \in SUBSET S |-> AddUp(w, f, s)]
Adder(w, S) == CHOOSE f : Adds(w, f, S)
Sum(w, S) == Adder(w, S)[S]

LEMMA AdderExists ==
  ASSUME NEW w, NEW S, IsFiniteSet(S)
  PROVE  Adds(w, Adder(w, S), S)
<1> DEFINE UpTo(n, f) ==
             f = [s \in SUBSET S |-> f[s]] /\ \A s \in SUBSET S : Cardinality(s) <= n => f[s] = AddUp(w, f, s)
           Bad == {n \in Nat : ~ \E f : UpTo(n, f)}
<1>0. \A s \in SUBSET S : IsFiniteSet(s) /\ Cardinality(s) \in Nat /\ Cardinality(s) <= Cardinality(S)
  BY FS_Subset, FS_CardinalityType
<1>1. Bad = {}
  <2> SUFFICES ASSUME Bad # {} PROVE FALSE
    OBVIOUS
  <2>1. PICK n \in Bad : \A m \in Bad : n <= m
    BY Least
  <2>2. CASE n = 0
    <3> DEFINE f == [s \in SUBSET S |-> 0]
    <3>1. \A s \in SUBSET S : Cardinality(s) <= 0 => s = {}
      BY <1>0, FS_EmptySet
    <3>2. UpTo(0, f)
      BY <3>1 DEF AddUp
    <3> QED
      BY <2>1, <2>2, <3>2
  <2>3. CASE n # 0
    <3>0. n \in Nat
      BY <2>1
    <3> HIDE DEF Bad
    <3>1. n - 1 \in Nat /\ n - 1 \notin Bad
      BY <2>1, <2>3, <3>0
    <3> USE DEF Bad
    <3>2. PICK f : UpTo(n - 1, f)
      BY <3>1
    <3> DEFINE g == [s \in SUBSET S |-> AddUp(w, f, s)]
    <3>3. ASSUME NEW s \in SUBSET S, Cardinality(s) <= n PROVE g[s] = AddUp(w, g, s)
      <4>1. CASE s = {}
        BY <4>1 DEF AddUp
      <4>2. CASE s # {}
        <5> DEFINE x == CHOOSE x \in s : TRUE
        <5>1. x \in s
          BY <4>2
        <5> HIDE DEF x
        <5>2. s \ {x} \in SUBSET S /\ Cardinality(s \ {x}) <= n - 1
          <6>1. Cardinality(s \ {x}) = Cardinality(s) - 1 /\ Cardinality(s) \in Nat
            BY <1>0, <5>1, OneLess
          <6> QED
            BY <2>1, <3>3, <6>1
        <5>3. f[s \ {x}] = g[s \ {x}]
          BY <3>2, <5>2
        <5>4. g[s] = w[x] + f[s \ {x}] /\ AddUp(w, g, s) = w[x] + g[s \ {x}]
          BY <4>2 DEF AddUp, x
        <5> QED
          BY <5>3, <5>4
      <4> QED
        BY <4>1, <4>2
    <3>4. UpTo(n, g)
      BY <3>3
    <3> QED
      BY <2>1, <3>4
  <2> QED
    BY <2>2, <2>3
<1>2. PICK f : UpTo(Cardinality(S), f)
  BY <1>0, <1>1
<1>3. Adds(w, f, S)
  <2>1. \A s \in SUBSET S : f[s] = AddUp(w, f, s)
    BY <1>0, <1>2
  <2>2. f = [s \in SUBSET S |-> f[s]]
    BY <1>2
  <2> QED
    BY <2>1, <2>2 DEF Adds
<1> QED
  BY <1>3 DEF Adder

(* Functions that add up the same have the same sums.                      *)
LEMMA AddersAgree ==
  ASSUME NEW w, NEW v, NEW S, NEW T, NEW f, NEW g, Adds(w, f, S), Adds(v, g, T),
         NEW U \in SUBSET (S \cap T), IsFiniteSet(U), \A x \in U : w[x] = v[x]
  PROVE  f[U] = g[U]
<1> DEFINE Bad == {s \in SUBSET U : f[s] # g[s]}
<1>0. \A s \in SUBSET U : IsFiniteSet(s) /\ Cardinality(s) \in Nat /\ f[s] = AddUp(w, f, s) /\ g[s] = AddUp(v, g, s)
  BY FS_Subset, FS_CardinalityType DEF Adds
<1>1. Bad = {}
  <2> SUFFICES ASSUME Bad # {} PROVE FALSE
    OBVIOUS
  <2>1. PICK s \in Bad : \A t \in Bad : Cardinality(s) <= Cardinality(t)
    BY <1>0, Smallest
  <2>2. s # {}
    BY <1>0 DEF AddUp
  <2> DEFINE x == CHOOSE x \in s : TRUE
  <2>3. x \in s
    BY <2>2
  <2> HIDE DEF x
  <2>4. f[s \ {x}] = g[s \ {x}]
    <3>1. Cardinality(s \ {x}) = Cardinality(s) - 1 /\ Cardinality(s) \in Nat
      BY <1>0, <2>3, OneLess
    <3> QED
      BY <2>1, <3>1
  <2>5. f[s] = w[x] + f[s \ {x}] /\ g[s] = v[x] + g[s \ {x}]
    BY <1>0, <2>2 DEF AddUp, x
  <2>6. w[x] = v[x]
    BY <2>3
  <2> QED
    BY <2>1, <2>4, <2>5, <2>6
<1> QED
  BY <1>1

LEMMA SumSame ==
  ASSUME NEW S, IsFiniteSet(S), NEW w, NEW v, \A x \in S : w[x] = v[x]
  PROVE  Sum(w, S) = Sum(v, S)
<1>1. Adds(w, Adder(w, S), S) /\ Adds(v, Adder(v, S), S)
  BY AdderExists
<1>2. Adder(w, S)[S] = Adder(v, S)[S]
  BY <1>1, AddersAgree
<1> QED
  BY <1>2 DEF Sum

LEMMA SumStep ==
  ASSUME NEW w, NEW S, IsFiniteSet(S), S # {}
  PROVE  \E x \in S : Sum(w, S) = w[x] + Sum(w, S \ {x})
<1> DEFINE x == CHOOSE x \in S : TRUE
<1>1. x \in S /\ IsFiniteSet(S \ {x})
  BY FS_RemoveElement
<1>2. Adder(w, S)[S \ {x}] = Adder(w, S \ {x})[S \ {x}]
  <2>1. Adds(w, Adder(w, S), S) /\ Adds(w, Adder(w, S \ {x}), S \ {x})
    BY <1>1, AdderExists
  <2> HIDE DEF x
  <2> QED
    BY <1>1, <2>1, AddersAgree
<1>3. Adder(w, S)[S] = w[x] + Adder(w, S)[S \ {x}]
  <2>1. Adds(w, Adder(w, S), S)
    BY AdderExists
  <2> DEFINE f == Adder(w, S)
  <2>2. f = [s \in SUBSET S |-> AddUp(w, f, s)]
    BY <2>1 DEF Adds
  <2> HIDE DEF f
  <2>3. f[S] = AddUp(w, f, S)
    BY <2>2
  <2>4. f[S] = w[x] + f[S \ {x}]
    BY <2>3 DEF AddUp
  <2> QED
    BY <2>4 DEF f
<1> QED
  BY <1>1, <1>2, <1>3 DEF Sum

Weighed(w, S) == IsFiniteSet(S) /\ \A x \in S : w[x] \in Nat

LEMMA SumNat ==
  ASSUME NEW w, NEW S, Weighed(w, S)
  PROVE  Sum(w, S) \in Nat /\ Sum(w, {}) = 0
<1>0. \A s \in SUBSET S : IsFiniteSet(s) /\ Cardinality(s) \in Nat
  BY FS_Subset, FS_CardinalityType DEF Weighed
<1>1. Sum(w, {}) = 0
  <2> DEFINE f == Adder(w, {})
  <2>1. Adds(w, f, {})
    BY AdderExists, FS_EmptySet
  <2> HIDE DEF f
  <2>2. f[{}] = AddUp(w, f, {})
    BY <2>1 DEF Adds
  <2> QED
    BY <2>2 DEF AddUp, Sum, f
<1> DEFINE Bad == {s \in SUBSET S : Sum(w, s) \notin Nat}
<1>2. Bad = {}
  <2> SUFFICES ASSUME Bad # {} PROVE FALSE
    OBVIOUS
  <2>1. PICK s \in Bad : \A t \in Bad : Cardinality(s) <= Cardinality(t)
    BY <1>0, Smallest
  <2>2. s # {}
    BY <1>1
  <2>3. PICK x \in s : Sum(w, s) = w[x] + Sum(w, s \ {x})
    BY <1>0, <2>2, SumStep
  <2>4. Sum(w, s \ {x}) \in Nat /\ w[x] \in Nat
    <3>1. Cardinality(s \ {x}) = Cardinality(s) - 1 /\ Cardinality(s) \in Nat
      BY <1>0, <2>3, OneLess
    <3> QED
      BY <2>1, <2>3, <3>1 DEF Weighed
  <2> QED
    BY <2>3, <2>4
<1> QED
  BY <1>1, <1>2

(* Any element adds its share to the rest.                                 *)
LEMMA SumRemove ==
  ASSUME NEW w, NEW S, Weighed(w, S), NEW i \in S
  PROVE  Sum(w, S) = w[i] + Sum(w, S \ {i})
<1>0. \A s \in SUBSET S : IsFiniteSet(s) /\ Cardinality(s) \in Nat /\ Weighed(w, s) /\ Sum(w, s) \in Nat
  <2>1. \A s \in SUBSET S : IsFiniteSet(s) /\ Cardinality(s) \in Nat /\ Weighed(w, s)
    BY FS_Subset, FS_CardinalityType DEF Weighed
  <2> QED
    BY <2>1, SumNat
<1> DEFINE Right(s) == \A y \in s : Sum(w, s) = w[y] + Sum(w, s \ {y})
           Bad == {s \in SUBSET S : ~Right(s)}
<1>1. Bad = {}
  <2> SUFFICES ASSUME Bad # {} PROVE FALSE
    OBVIOUS
  <2>1. PICK s \in Bad : \A t \in Bad : Cardinality(s) <= Cardinality(t)
    BY <1>0, Smallest
  <2>2. PICK y \in s : Sum(w, s) # w[y] + Sum(w, s \ {y})
    BY <2>1
  <2>3. PICK x \in s : Sum(w, s) = w[x] + Sum(w, s \ {x})
    BY <1>0, <2>2, SumStep
  <2>4. x # y
    BY <2>2, <2>3
  <2>5. ASSUME NEW z \in s PROVE Right(s \ {z})
    <3>1. Cardinality(s \ {z}) = Cardinality(s) - 1 /\ Cardinality(s) \in Nat
      BY <1>0, OneLess
    <3> QED
      BY <2>1, <3>1
  <2>6. Sum(w, s \ {x}) = w[y] + Sum(w, (s \ {x}) \ {y}) /\ Sum(w, s \ {y}) = w[x] + Sum(w, (s \ {y}) \ {x})
    BY <2>4, <2>5
  <2>7. Sum(w, (s \ {x}) \ {y}) = Sum(w, (s \ {y}) \ {x})
    <3>1. (s \ {x}) \ {y} = (s \ {y}) \ {x}
      OBVIOUS
    <3> QED
      BY <3>1
  <2>8. w[x] \in Nat /\ w[y] \in Nat /\ Sum(w, (s \ {x}) \ {y}) \in Nat
    BY <1>0 DEF Weighed
  <2> QED
    BY <2>2, <2>3, <2>6, <2>7, <2>8
<1> QED
  BY <1>1

(* A part and the rest add up to the whole.                                *)
LEMMA SumSplit ==
  ASSUME NEW w, NEW S, Weighed(w, S), NEW T \in SUBSET S
  PROVE  /\ Sum(w, S) = Sum(w, T) + Sum(w, S \ T)
         /\ Sum(w, S) \in Nat /\ Sum(w, T) \in Nat /\ Sum(w, S \ T) \in Nat
<1>0. \A s \in SUBSET S : IsFiniteSet(s) /\ Cardinality(s) \in Nat /\ Weighed(w, s) /\ Sum(w, s) \in Nat
  <2>1. \A s \in SUBSET S : IsFiniteSet(s) /\ Cardinality(s) \in Nat /\ Weighed(w, s)
    BY FS_Subset, FS_CardinalityType DEF Weighed
  <2> QED
    BY <2>1, SumNat
<1> DEFINE Bad == {t \in SUBSET T : Sum(w, S) # Sum(w, t) + Sum(w, S \ t)}
<1>1. Bad = {}
  <2> SUFFICES ASSUME Bad # {} PROVE FALSE
    OBVIOUS
  <2>1. PICK t \in Bad : \A u \in Bad : Cardinality(t) <= Cardinality(u)
    BY <1>0, Smallest
  <2>2. t # {}
    <3>1. Sum(w, {}) = 0 /\ S \ {} = S /\ Sum(w, S) \in Nat
      BY <1>0, SumNat
    <3>2. Sum(w, S) = Sum(w, {}) + Sum(w, S \ {})
      BY <3>1
    <3> QED
      BY <2>1, <3>2
  <2>3. PICK x \in t : TRUE
    BY <2>2
  <2>4. Sum(w, S) = Sum(w, t \ {x}) + Sum(w, S \ (t \ {x}))
    <3>1. Cardinality(t \ {x}) = Cardinality(t) - 1 /\ Cardinality(t) \in Nat
      BY <1>0, OneLess
    <3> QED
      BY <2>1, <3>1
  <2>5. Sum(w, t) = w[x] + Sum(w, t \ {x})
    BY <1>0, SumRemove
  <2>6. Sum(w, S \ (t \ {x})) = w[x] + Sum(w, S \ t)
    <3>1. (S \ (t \ {x})) \ {x} = S \ t /\ x \in S \ (t \ {x}) /\ S \ (t \ {x}) \in SUBSET S
      BY <2>3
    <3> QED
      BY <1>0, <3>1, SumRemove
  <2>7. w[x] \in Nat /\ Sum(w, t \ {x}) \in Nat /\ Sum(w, S \ t) \in Nat
    BY <1>0 DEF Weighed
  <2>8. Sum(w, S) # Sum(w, t) + Sum(w, S \ t)
    BY <2>1
  <2> HIDE DEF Bad
  <2> QED
    BY <2>4, <2>5, <2>6, <2>7, <2>8
<1> QED
  BY <1>0, <1>1

LEMMA SumUnion ==
  ASSUME NEW w, NEW S, NEW T, Weighed(w, S), Weighed(w, T), S \cap T = {}
  PROVE  Weighed(w, S \cup T) /\ Sum(w, S \cup T) = Sum(w, S) + Sum(w, T)
<1> DEFINE U == S \cup T
<1>1. Weighed(w, U)
  BY FS_Union DEF Weighed
<1>2. U \ S = T /\ S \in SUBSET U
  OBVIOUS
<1> HIDE DEF U
<1>3. Sum(w, U) = Sum(w, S) + Sum(w, U \ S)
  BY <1>1, <1>2, SumSplit
<1>4. Sum(w, U) = Sum(w, S) + Sum(w, T)
  BY <1>2, <1>3
<1> QED
  BY <1>1, <1>4 DEF U

(* Sums of sets that share nothing add up to the sum of all of them.       *)
LEMMA SumFamily ==
  ASSUME NEW C, IsFiniteSet(C), NEW w, NEW v, NEW B,
         \A c \in C : Weighed(w, B[c]) /\ v[c] = Sum(w, B[c]),
         \A c, e \in C : c # e => B[c] \cap B[e] = {}
  PROVE  Weighed(w, UNION {B[c] : c \in C}) /\ Sum(v, C) = Sum(w, UNION {B[c] : c \in C})
<1> DEFINE All(s) == UNION {B[c] : c \in s}
           Right(s) == Weighed(w, All(s)) /\ Sum(v, s) = Sum(w, All(s))
           Bad == {s \in SUBSET C : ~Right(s)}
<1>0. \A s \in SUBSET C : IsFiniteSet(s) /\ Cardinality(s) \in Nat
  BY FS_Subset, FS_CardinalityType
<1>1. Bad = {}
  <2> SUFFICES ASSUME Bad # {} PROVE FALSE
    OBVIOUS
  <2>1. PICK s \in Bad : \A t \in Bad : Cardinality(s) <= Cardinality(t)
    BY <1>0, Smallest
  <2>2. CASE s = {}
    <3>1. All(s) = {}
      BY <2>2
    <3>2. Weighed(w, {}) /\ Weighed(v, {})
      BY FS_EmptySet DEF Weighed
    <3>3. Sum(w, {}) = 0 /\ Sum(v, {}) = 0
      BY <3>2, SumNat
    <3> HIDE DEF All
    <3> QED
      BY <2>1, <2>2, <3>1, <3>2, <3>3
  <2>3. CASE s # {}
    <3>0. IsFiniteSet(s) /\ s \in SUBSET C
      BY <1>0, <2>1
    <3>1. PICK x \in s : Sum(v, s) = v[x] + Sum(v, s \ {x})
      BY <2>3, <3>0, SumStep
    <3>2. Right(s \ {x})
      <4>1. Cardinality(s \ {x}) = Cardinality(s) - 1 /\ Cardinality(s) \in Nat
        BY <3>0, OneLess
      <4> QED
        BY <1>0, <2>1, <3>0, <4>1
    <3>3. All(s) = B[x] \cup All(s \ {x})
      OBVIOUS
    <3>4. B[x] \cap All(s \ {x}) = {}
      BY <3>0
    <3>5. Weighed(w, B[x]) /\ v[x] = Sum(w, B[x])
      BY <3>0
    <3> HIDE DEF All
    <3>6. Weighed(w, All(s)) /\ Sum(w, All(s)) = Sum(w, B[x]) + Sum(w, All(s \ {x}))
      <4>1. Weighed(w, All(s \ {x}))
        BY <3>2
      <4>2. /\ Weighed(w, B[x] \cup All(s \ {x}))
            /\ Sum(w, B[x] \cup All(s \ {x})) = Sum(w, B[x]) + Sum(w, All(s \ {x}))
        <5> DEFINE S == B[x]
                   T == All(s \ {x})
        <5>1. Weighed(w, S) /\ Weighed(w, T) /\ S \cap T = {}
          BY <3>4, <3>5, <4>1
        <5> HIDE DEF S, T
        <5>2. Weighed(w, S \cup T) /\ Sum(w, S \cup T) = Sum(w, S) + Sum(w, T)
          BY ONLY <5>1, SumUnion
        <5> QED
          BY <5>2 DEF S, T
      <4> QED
        BY <3>3, <4>2
    <3>7. Right(s)
      BY <3>1, <3>2, <3>5, <3>6
    <3> QED
      BY <2>1, <3>7
  <2> QED
    BY <2>2, <2>3
<1> QED
  BY <1>1

LEMMA WeightSum ==
  ASSUME NEW S \in SUBSET Paths
  PROVE  Weight(S) = Sum(Own, S) /\ Weighed(Own, S)
<1>1. Weight(S) = Sum(Own, S)
  BY DEF Weight, MapThenSumSet, MapThenFoldSet, Sum, Adder, Adds, AddUp
<1>2. Weighed(Own, S)
  BY TreeAssumption, FS_Subset DEF Weighed
<1> QED
  BY <1>1, <1>2

LEMMA RowsSum ==
  ASSUME NEW S \in SUBSET Rows, IsFiniteSet(S), NEW w, \A r \in S : w[r] = r.disk
  PROVE  SumRows(S) = Sum(w, S) /\ Weighed(w, S)
<1> DEFINE Is(f) == f = [U \in SUBSET S |-> IF U = {} THEN 0
                          ELSE LET x == CHOOSE x \in U : TRUE IN x.disk + f[U \ {x}]]
<1>0. \A U \in SUBSET S : U # {} => Pick("disk", U) \in U
  BY DEF Pick
<1>1. PICK f : Folds("disk", <<>>, 0, f, S)
  BY <1>0, FoldExists
<1>2. Is(f)
  BY <1>1 DEF Folds, Turned, Turn, Pick
<1>3. SumRows(S) = (CHOOSE g : Is(g))[S]
  BY DEF SumRows, MapThenSumSet, MapThenFoldSet
<1> DEFINE h == CHOOSE g : Is(g)
<1>4. Is(h)
  BY <1>2, ZenonT(60)
<1> HIDE DEF h
<1>5. Adds(w, h, S)
  <2>1. \A U \in SUBSET S : U # {} => (CHOOSE x \in U : TRUE) \in U
    OBVIOUS
  <2>2. \A U \in SUBSET S :
          (IF U = {} THEN 0 ELSE LET x == CHOOSE x \in U : TRUE IN x.disk + h[U \ {x}]) = AddUp(w, h, U)
    BY <2>1 DEF AddUp
  <2>3. h = [U \in SUBSET S |-> AddUp(w, h, U)]
    BY <1>4, <2>2
  <2> QED
    BY <2>3 DEF Adds
<1>6. Adds(w, Adder(w, S), S)
  BY AdderExists
<1>7. h[S] = Adder(w, S)[S]
  BY <1>5, <1>6, AddersAgree
<1>8. Weighed(w, S)
  BY DEF Weighed, Rows
<1> QED
  BY <1>3, <1>7, <1>8 DEF h, Sum

-----------------------------------------------------------------------------
(* The way up.                                                             *)

LEMMA AboveLess ==
  \A p \in Paths : \A q \in Above[p] : q \in Nat /\ p \in Nat /\ q <= p
<1> DEFINE Right(p) == \A q \in Above[p] : q \in Nat /\ q <= p
           Bad == {p \in Paths : ~Right(p)}
<1>1. Paths \subseteq Nat
  BY TreeAssumption
<1>2. Bad = {}
  <2> SUFFICES ASSUME Bad # {} PROVE FALSE
    OBVIOUS
  <2>1. PICK p \in Bad : \A m \in Bad : p <= m
    BY <1>1, Least
  <2>2. p \in Paths /\ p \in Nat
    BY <1>1
  <2>3. Above[p] = IF p = Root THEN {Root} ELSE {p} \cup Above[Up[p]]
    BY <2>2, AboveDef
  <2>4. p # Root
    BY <1>1, <2>1, <2>3
  <2>5. Up[p] \in Paths /\ Up[p] < p /\ Up[p] \in Nat
    BY <2>2, <2>4, TreeAssumption
  <2>6. Right(Up[p])
    BY <2>1, <2>2, <2>5
  <2>7. Right(p)
    <3> SUFFICES ASSUME NEW q \in Above[p] PROVE q \in Nat /\ q <= p
      OBVIOUS
    <3>1. CASE q = p
      BY <2>2, <3>1
    <3>2. CASE q \in Above[Up[p]]
      <4>1. q \in Nat /\ q <= Up[p]
        BY <2>6, <3>2
      <4> QED
        BY <2>2, <2>5, <4>1
    <3> QED
      BY <2>3, <2>4, <3>1, <3>2
  <2> QED
    BY <2>1, <2>7
<1> QED
  BY <1>1, <1>2

(* What is above something above is above.                                 *)
LEMMA AboveAll ==
  ASSUME NEW p \in Paths, NEW q \in Above[p]
  PROVE  q \in Paths /\ Above[q] \subseteq Above[p]
<1> DEFINE Right(x) == \A y \in Above[x] : y \in Paths /\ Above[y] \subseteq Above[x]
           Bad == {x \in Paths : ~Right(x)}
<1>1. Paths \subseteq Nat
  BY TreeAssumption
<1>2. Bad = {}
  <2> SUFFICES ASSUME Bad # {} PROVE FALSE
    OBVIOUS
  <2>1. PICK x \in Bad : \A m \in Bad : x <= m
    BY <1>1, Least
  <2>2. x \in Paths /\ x \in Nat
    BY <1>1
  <2>3. Above[x] = IF x = Root THEN {Root} ELSE {x} \cup Above[Up[x]]
    BY <2>2, AboveDef
  <2>4. x # Root
    BY <2>1, <2>2, <2>3
  <2>5. Up[x] \in Paths /\ Up[x] < x /\ Up[x] \in Nat
    BY <2>2, <2>4, TreeAssumption
  <2>6. Right(Up[x])
    BY <2>1, <2>2, <2>5
  <2>7. Right(x)
    BY <2>2, <2>3, <2>4, <2>6
  <2> QED
    BY <2>1, <2>7
<1>3. Right(p)
  BY <1>2
<1> QED
  BY <1>3

(* Of two paths above a third, one is above the other.                     *)
LEMMA OneChain ==
  ASSUME NEW p \in Paths, NEW q \in Above[p], NEW r \in Above[p]
  PROVE  q \in Above[r] \/ r \in Above[q]
<1> DEFINE Right(x) == \A y, z \in Above[x] : y \in Above[z] \/ z \in Above[y]
           Bad == {x \in Paths : ~Right(x)}
<1>1. Paths \subseteq Nat
  BY TreeAssumption
<1>2. Bad = {}
  <2> SUFFICES ASSUME Bad # {} PROVE FALSE
    OBVIOUS
  <2>1. PICK x \in Bad : \A m \in Bad : x <= m
    BY <1>1, Least
  <2>2. x \in Paths /\ x \in Nat
    BY <1>1
  <2>3. Above[x] = IF x = Root THEN {Root} ELSE {x} \cup Above[Up[x]]
    BY <2>2, AboveDef
  <2>4. x # Root
    BY <2>1, <2>2, <2>3
  <2>5. Up[x] \in Paths /\ Up[x] < x /\ Up[x] \in Nat
    BY <2>2, <2>4, TreeAssumption
  <2>6. Right(Up[x])
    BY <2>1, <2>2, <2>5
  <2>7. Right(x)
    BY <2>2, <2>3, <2>4, <2>6
  <2> QED
    BY <2>1, <2>7
<1>3. Right(p)
  BY <1>2
<1> QED
  BY <1>3

LEMMA BelowIs ==
  \A p, x : x \in Below(p) <=> x \in Paths /\ p \in Above[x]
BY DEF Below

(* What is above the parent of p is above p, and is not p.                 *)
LEMMA UpAbove ==
  ASSUME NEW p \in Paths \ {Root}
  PROVE  /\ Up[p] \in Dirs /\ Up[p] \in Paths
         /\ Above[p] = {p} \cup Above[Up[p]] /\ p \notin Above[Up[p]]
         /\ Above[Up[p]] \subseteq Paths /\ Up[p] \in Above[Up[p]]
<1>1. Up[p] \in Paths /\ Up[p] \in Dirs /\ Up[p] < p /\ Up[p] \in Nat /\ p \in Nat
  BY TreeAssumption
<1>2. Above[p] = {p} \cup Above[Up[p]]
  BY AboveDef
<1>3. p \notin Above[Up[p]]
  <2> SUFFICES ASSUME p \in Above[Up[p]] PROVE FALSE
    OBVIOUS
  <2>1. p <= Up[p]
    BY <1>1, AboveLess
  <2> QED
    BY <1>1, <2>1
<1> QED
  BY <1>1, <1>2, <1>3, AbovePaths

(* Two subtrees are apart, or one lies in the other.                       *)
LEMMA Nested ==
  ASSUME NEW p \in Paths, NEW q \in Paths, NEW x \in Below(p) \cap Below(q)
  PROVE  p \in Below(q) \/ q \in Below(p)
BY OneChain, BelowIs

LEMMA BelowAll ==
  ASSUME NEW p \in Paths, NEW q \in Below(p)
  PROVE  Below(q) \subseteq Below(p) /\ q \in Paths
BY AboveAll, BelowIs

(* A set of paths with the parent of each.                                 *)
Closed(A) == A \subseteq Paths /\ \A p \in A \ {Root} : Up[p] \in A

LEMMA ClosedAbove ==
  ASSUME NEW A, Closed(A), NEW p \in A
  PROVE  Above[p] \subseteq A
<1> DEFINE Bad == {x \in A : ~ (Above[x] \subseteq A)}
<1>1. Paths \subseteq Nat /\ A \subseteq Paths
  BY TreeAssumption DEF Closed
<1>2. Bad = {}
  <2> SUFFICES ASSUME Bad # {} PROVE FALSE
    OBVIOUS
  <2>1. PICK x \in Bad : \A m \in Bad : x <= m
    BY <1>1, Least
  <2>2. x \in Paths /\ x \in Nat /\ x \in A
    BY <1>1
  <2>3. Above[x] = IF x = Root THEN {Root} ELSE {x} \cup Above[Up[x]]
    BY <2>2, AboveDef
  <2>4. x # Root
    BY <2>1, <2>2, <2>3
  <2>5. Up[x] \in A /\ Up[x] < x /\ Up[x] \in Nat
    BY <1>1, <2>2, <2>4, TreeAssumption DEF Closed
  <2>6. Up[x] \notin Bad
    BY <2>1, <2>2, <2>5
  <2> QED
    BY <2>1, <2>2, <2>3, <2>4, <2>5, <2>6
<1> QED
  BY <1>2

(* What a directory holds: each entry with what lies below it.             *)
LEMMA Holds ==
  ASSUME NEW A, Closed(A), NEW d \in A
  PROVE  /\ Below(d) \cap A = {d} \cup UNION {Below(p) \cap A : p \in In(d, A)}
         /\ \A p \in In(d, A) : d \notin Below(p) /\ Below(p) \subseteq Below(d)
         /\ \A p, q \in In(d, A) : p # q => Below(p) \cap Below(q) = {}
<1>0. Paths \subseteq Nat /\ A \subseteq Paths /\ d \in Paths
  BY TreeAssumption DEF Closed
<1>1. \A p \in In(d, A) : p \in A /\ p # Root /\ Up[p] = d /\ p \in Paths
  BY <1>0 DEF In
<1>2. ASSUME NEW p \in In(d, A)
      PROVE  d \notin Below(p) /\ Below(p) \subseteq Below(d)
  <2>1. Above[p] = {p} \cup Above[d] /\ p \notin Above[d] /\ d \in Above[d]
    BY <1>1, UpAbove
  <2>2. d \notin Below(p)
    BY <2>1, BelowIs
  <2>3. p \in Below(d)
    BY <1>1, <2>1, BelowIs
  <2> QED
    BY <1>0, <2>2, <2>3, BelowAll
<1>3. ASSUME NEW p \in In(d, A), NEW q \in In(d, A), p # q
      PROVE  Below(p) \cap Below(q) = {}
  <2> SUFFICES ASSUME NEW x \in Below(p) \cap Below(q) PROVE FALSE
    OBVIOUS
  <2>1. /\ Above[p] = {p} \cup Above[d] /\ p \notin Above[d]
        /\ Above[q] = {q} \cup Above[d] /\ q \notin Above[d]
    BY <1>1, UpAbove
  <2>2. p \in Below(q) \/ q \in Below(p)
    BY <1>1, Nested
  <2> QED
    BY <1>3, <2>1, <2>2, BelowIs
<1> DEFINE Bad == {x \in Below(d) \cap A : x # d /\ \A p \in In(d, A) : x \notin Below(p)}
<1>4. Bad = {}
  <2> SUFFICES ASSUME Bad # {} PROVE FALSE
    OBVIOUS
  <2>0. Bad \in SUBSET Nat
    BY <1>0
  <2>1. PICK x \in Bad : \A m \in Bad : x <= m
    BY <2>0, Least
  <2>2. x \in Paths /\ x \in Nat /\ x \in A /\ x # d /\ d \in Above[x]
    BY <1>0, <2>1, BelowIs
  <2>3. x # Root
    <3>1. Above[x] = IF x = Root THEN {Root} ELSE {x} \cup Above[Up[x]]
      BY <2>2, AboveDef
    <3> QED
      BY <2>2, <3>1
  <2>4. Above[x] = {x} \cup Above[Up[x]] /\ Up[x] \in Paths /\ Up[x] < x /\ Up[x] \in Nat
    BY <1>0, <2>2, <2>3, UpAbove, TreeAssumption
  <2>5. Up[x] \in A /\ d \in Above[Up[x]]
    BY <2>2, <2>3, <2>4 DEF Closed
  <2>6. CASE Up[x] = d
    <3>1. x \in In(d, A) /\ x \in Below(x)
      BY <2>2, <2>3, <2>6, BelowPaths DEF In
    <3> QED
      BY <2>1, <3>1
  <2>7. CASE Up[x] # d
    <3>1. Up[x] \in Below(d) \cap A
      BY <2>4, <2>5, BelowIs
    <3>2. Up[x] \notin Bad
      BY <2>1, <2>2, <2>4
    <3>3. PICK p \in In(d, A) : Up[x] \in Below(p)
      BY <2>7, <3>1, <3>2
    <3>4. x \in Below(p)
      BY <2>2, <2>4, <3>3, BelowIs
    <3> QED
      BY <2>1, <3>3, <3>4
  <2> QED
    BY <2>6, <2>7
<1>5. Below(d) \cap A = {d} \cup UNION {Below(p) \cap A : p \in In(d, A)}
  <2>1. d \in Below(d)
    BY <1>0, BelowPaths
  <2>2. \A x \in Below(d) \cap A : x = d \/ \E p \in In(d, A) : x \in Below(p)
    BY <1>4
  <2> HIDE DEF Bad
  <2> QED
    BY <1>2, <2>1, <2>2
<1> QED
  BY <1>2, <1>3, <1>5

-----------------------------------------------------------------------------
(* What the paths of a set come to below one.                              *)

SizeIn(p, A) == Weight(Below(p) \cap A)

LEMMA SizeNat ==
  ASSUME NEW p, NEW A
  PROVE  SizeIn(p, A) \in Nat
<1>1. Below(p) \cap A \in SUBSET Paths
  BY DEF Below
<1> QED
  BY <1>1, WeightNat DEF SizeIn

LEMMA WeightUnion ==
  ASSUME NEW S \in SUBSET Paths, NEW T \in SUBSET Paths, S \cap T = {}
  PROVE  Weight(S \cup T) = Weight(S) + Weight(T)
<1>1. Weighed(Own, S) /\ Weighed(Own, T)
  BY WeightSum
<1>2. Sum(Own, S \cup T) = Sum(Own, S) + Sum(Own, T)
  BY <1>1, SumUnion
<1>3. S \cup T \in SUBSET Paths
  OBVIOUS
<1> QED
  BY <1>2, <1>3, WeightSum

LEMMA SizeWithin ==
  ASSUME NEW p \in Paths, NEW e \in Above[p], NEW A
  PROVE  SizeIn(p, A) <= SizeIn(e, A)
<1> DEFINE S == Below(p) \cap A
           T == (Below(e) \cap A) \ S
<1>1. p \in Below(e) /\ e \in Paths
  BY AboveAll, BelowIs
<1>2. Below(p) \subseteq Below(e) /\ Below(e) \subseteq Paths
  BY <1>1, BelowAll, BelowPaths
<1>3. S \in SUBSET Paths /\ T \in SUBSET Paths /\ S \cap T = {} /\ S \cup T = Below(e) \cap A
  BY <1>2
<1> HIDE DEF S, T
<1>4. Weight(S \cup T) = Weight(S) + Weight(T) /\ Weight(S) \in Nat /\ Weight(T) \in Nat
  BY <1>3, WeightUnion, WeightNat
<1>5. Weight(Below(e) \cap A) = Weight(S) + Weight(T)
  BY <1>3, <1>4
<1>6. SizeIn(e, A) = Weight(S) + Weight(T) /\ SizeIn(p, A) = Weight(S)
  BY <1>5 DEF SizeIn, S
<1> QED
  BY <1>4, <1>6

(* The rows of a directory, with its own size, come to what it holds.      *)
RowsIn(d, A) == {Row(p, SizeIn(p, A)) : p \in In(d, A)}

LEMMA RowsInRows ==
  ASSUME NEW A, A \subseteq Paths, NEW d
  PROVE  /\ RowsIn(d, A) \in SUBSET Rows /\ IsFiniteSet(RowsIn(d, A))
         /\ In(d, A) \in SUBSET (Paths \ {Root})
<1>1. In(d, A) \in SUBSET (Paths \ {Root})
  BY DEF In
<1>2. IsFiniteSet(In(d, A))
  BY <1>1, TreeAssumption, FS_Subset
<1>3. RowsIn(d, A) \in SUBSET Rows
  BY <1>1, SizeNat, RowIn DEF RowsIn
<1>4. IsFiniteSet(RowsIn(d, A))
  <2> DEFINE S == In(d, A)
             f == [p \in S |-> Row(p, SizeIn(p, A))]
  <2>1. IsFiniteSet({f[p] : p \in S})
    <3> HIDE DEF S
    <3>1. f \in [S -> {f[p] : p \in S}] /\ \A t \in {f[p] : p \in S} : \E p \in S : f[p] = t
      OBVIOUS
    <3>2. f \in Surjection(S, {f[p] : p \in S})
      BY <3>1 DEF Surjection
    <3> HIDE DEF f
    <3> QED
      BY <1>2, <3>2, FS_Surjection DEF S
  <2>2. RowsIn(d, A) = {f[p] : p \in In(d, A)}
    BY DEF RowsIn
  <2> QED
    BY <2>1, <2>2
<1> QED
  BY <1>1, <1>3, <1>4

LEMMA DirSize ==
  ASSUME NEW A, Closed(A), NEW d \in A
  PROVE  Own[d] + SumRows(RowsIn(d, A)) = SizeIn(d, A)
<1> DEFINE R == RowsIn(d, A)
           v == [r \in R |-> r.disk]
           B == [r \in R |-> Below(r.path) \cap A]
           L == UNION {B[r] : r \in R}
<1>0. A \subseteq Paths /\ d \in Paths
  BY DEF Closed
<1>1. R \in SUBSET Rows /\ IsFiniteSet(R) /\ In(d, A) \in SUBSET (Paths \ {Root})
  BY <1>0, RowsInRows
<1>2. \A r \in R : r.path \in In(d, A) /\ r = Row(r.path, SizeIn(r.path, A)) /\ r.disk = SizeIn(r.path, A)
  BY DEF RowsIn, Row
<1>3. \A p \in In(d, A) : \E r \in R : r.path = p
  <2> SUFFICES ASSUME NEW p \in In(d, A) PROVE \E r \in R : r.path = p
    OBVIOUS
  <2>1. Row(p, SizeIn(p, A)) \in R /\ Row(p, SizeIn(p, A)).path = p
    BY DEF RowsIn, Row
  <2> HIDE DEF R
  <2> QED
    BY <2>1
<1> HIDE DEF R
<1>4. SumRows(R) = Sum(v, R)
  BY <1>1, RowsSum
<1>5. ASSUME NEW r \in R PROVE Weighed(Own, B[r]) /\ v[r] = Sum(Own, B[r])
  <2>1. B[r] = Below(r.path) \cap A /\ B[r] \in SUBSET Paths
    BY <1>0
  <2>2. v[r] = Weight(B[r])
    BY <1>2, <2>1 DEF SizeIn
  <2> HIDE DEF B, v
  <2> QED
    BY <2>1, <2>2, WeightSum
<1>6. \A r, s \in R : r # s => B[r] \cap B[s] = {}
  <2> SUFFICES ASSUME NEW r \in R, NEW s \in R, r # s PROVE B[r] \cap B[s] = {}
    OBVIOUS
  <2>1. r.path # s.path /\ r.path \in In(d, A) /\ s.path \in In(d, A)
    BY <1>2
  <2>2. Below(r.path) \cap Below(s.path) = {}
    BY <2>1, Holds
  <2> QED
    BY <2>2
<1>7. L = UNION {Below(p) \cap A : p \in In(d, A)}
  BY <1>2, <1>3
<1>8. Below(d) \cap A = {d} \cup L /\ {d} \cap L = {}
  BY <1>7, Holds
<1> HIDE DEF v, B, L
<1>9. Weighed(Own, L) /\ Sum(v, R) = Sum(Own, L)
  BY <1>1, <1>5, <1>6, SumFamily DEF L
<1>10. Weighed(Own, {d}) /\ Sum(Own, {d}) = Own[d]
  <2>1. Weighed(Own, {d})
    BY <1>0, WeightSum
  <2>2. Sum(Own, {d}) = Own[d] + Sum(Own, {d} \ {d}) /\ Sum(Own, {}) = 0
    BY <2>1, SumRemove, SumNat
  <2>3. {d} \ {d} = {} /\ Own[d] \in Nat
    BY <1>0, TreeAssumption
  <2> QED
    BY <2>1, <2>2, <2>3
<1>11. Sum(Own, {d} \cup L) = Own[d] + Sum(Own, L)
  BY <1>8, <1>9, <1>10, SumUnion
<1>12. Below(d) \cap A \in SUBSET Paths
  BY <1>0
<1>13. SizeIn(d, A) = Sum(Own, {d} \cup L)
  BY <1>8, <1>12, WeightSum DEF SizeIn
<1> QED
  BY <1>4, <1>9, <1>11, <1>13 DEF R

(* The paths H come or go below p, where A has none.                       *)
Moves(p, H, A) ==
  /\ p \in Paths \ {Root} /\ A \subseteq Paths
  /\ H \subseteq Below(p) /\ p \in H /\ Below(p) \cap A = {}

LEMMA SizeMoves ==
  ASSUME NEW p, NEW H, NEW A, Moves(p, H, A), NEW e \in Paths \ Below(p)
  PROVE  /\ e \in Above[p] => SizeIn(e, A \cup H) = SizeIn(e, A) + Weight(H)
         /\ e \notin Above[p] => SizeIn(e, A \cup H) = SizeIn(e, A)
         /\ Weight(H) \in Nat /\ H \in SUBSET Paths
<1>0. p \in Paths /\ H \in SUBSET Below(p) /\ Below(p) \in SUBSET Paths /\ H \cap A = {} /\ H \in SUBSET Paths
  BY BelowPaths DEF Moves
<1>1. Weight(H) \in Nat
  BY <1>0, WeightNat
<1>2. CASE e \in Above[p]
  <2>1. p \in Below(e)
    BY <1>0, <1>2, BelowIs
  <2>2. Below(p) \subseteq Below(e) /\ Below(e) \subseteq Paths
    BY <2>1, BelowAll, BelowPaths
  <2>3. Below(e) \cap (A \cup H) = (Below(e) \cap A) \cup H
    BY <1>0, <2>2
  <2>4. (Below(e) \cap A) \cap H = {} /\ Below(e) \cap A \in SUBSET Paths
    BY <1>0, <2>2
  <2>5. Weight((Below(e) \cap A) \cup H) = Weight(Below(e) \cap A) + Weight(H)
    BY <1>0, <2>4, WeightUnion
  <2> QED
    BY <1>0, <1>1, <1>2, <2>3, <2>5 DEF SizeIn
<1>3. CASE e \notin Above[p]
  <2>1. Below(e) \cap Below(p) = {}
    BY <1>0, <1>3, Nested, BelowIs
  <2>2. Below(e) \cap (A \cup H) = Below(e) \cap A
    BY <1>0, <2>1
  <2> QED
    BY <1>0, <1>1, <1>3, <2>2, SizeNat DEF SizeIn
<1> QED
  BY <1>2, <1>3

LEMMA OwnMoves ==
  ASSUME NEW p, NEW H, NEW A, Moves(p, H, A)
  PROVE  SizeIn(p, A \cup H) = Weight(H)
<1>1. Below(p) \cap (A \cup H) = H
  BY DEF Moves
<1> QED
  BY <1>1 DEF SizeIn

LEMMA EntryApart ==
  ASSUME NEW p, NEW H, NEW A, Moves(p, H, A), NEW e, NEW q \in In(e, A)
  PROVE  q \in Paths \ Below(p) /\ q # Root /\ Up[q] = e
BY DEF In, Moves

LEMMA EntryMoves ==
  ASSUME NEW p, NEW H, NEW A, Moves(p, H, A), NEW e \in Paths \ Below(p)
  PROVE  /\ In(e, A \cup H) = In(e, A) \cup (IF e = Up[p] THEN {p} ELSE {})
         /\ p \notin In(e, A)
<1>0. p \in Paths /\ p # Root /\ A \subseteq Paths /\ p \in Below(p) /\ p \notin A
  BY BelowPaths DEF Moves
<1>1. \A q \in In(e, A) : q \in Paths \ Below(p) /\ q # Root /\ Up[q] = e
  BY <1>0 DEF In, Moves
<1>2. ASSUME NEW q \in H, q # Root, Up[q] = e PROVE q = p
  <2>1. q \in Paths /\ p \in Above[q]
    BY <1>0, BelowIs DEF Moves
  <2>2. Above[q] = {q} \cup Above[e] /\ e \in Paths
    BY <1>2, <2>1, UpAbove
  <2>3. p \notin Above[e]
    BY <2>2, BelowIs
  <2> QED
    BY <2>1, <2>2, <2>3
<1>3. In(e, A \cup H) = In(e, A) \cup (IF e = Up[p] THEN {p} ELSE {})
  <2>1. p \in H /\ p # Root
    BY <1>0 DEF Moves
  <2> QED
    BY <1>2, <2>1 DEF In
<1> QED
  BY <1>0, <1>1, <1>3 DEF In

-----------------------------------------------------------------------------
(* Rows put in order, kept and inserted: the same rows.                    *)

(* A list without repetition, as long as a set it is taken from, has all   *)
(* of it.                                                                  *)
LEMMA Onto ==
  ASSUME NEW S, IsFiniteSet(S), NEW n, n = Cardinality(S), NEW s \in [1..n -> S],
         \A i, j \in 1..n : i < j => s[i] # s[j]
  PROVE  ToSet(s) = S
<1>0. n \in Nat
  BY FS_CardinalityType
<1>1. \A i, j \in 1..n : i # j => s[i] # s[j]
  <2> SUFFICES ASSUME NEW i \in 1..n, NEW j \in 1..n, i # j PROVE s[i] # s[j]
    OBVIOUS
  <2>1. i < j \/ j < i
    BY <1>0
  <2> QED
    BY <2>1
<1>2. s \in Injection(1..n, S)
  BY <1>1 DEF Injection, IsInjective
<1>3. IsFiniteSet(1..n) /\ Cardinality(1..n) = n
  BY <1>0, FS_Interval
<1>4. s \in Surjection(1..n, S)
  BY <1>2, <1>3, FS_Injection
<1>5. DOMAIN s = 1..n /\ (\A x \in S : \E i \in 1..n : s[i] = x) /\ \A i \in 1..n : s[i] \in S
  BY <1>4 DEF Surjection
<1> QED
  BY <1>5 DEF ToSet

LEMMA SortedSet ==
  ASSUME NEW S \in SUBSET Rows, IsFiniteSet(S)
  PROVE  ToSet(Sorted(S)) = S
<1> DEFINE R == {e \in S \X S : Ahead(e[1], e[2])}
           n == Cardinality(S)
<1>0. \A r \in Rows : r = [path |-> r.path, disk |-> r.disk] /\ r.path \in Nat /\ r.disk \in Nat
  <2>1. \A r \in Rows : r = [path |-> r.path, disk |-> r.disk] /\ r.path \in Paths /\ r.disk \in Nat
    BY DEF Rows
  <2> QED
    BY <2>1, TreeAssumption
<1>1. \A x, y \in S : <<x, y>> \in R <=> Ahead(x, y)
  OBVIOUS
<1>2. /\ \A x \in S : ~ Ahead(x, x)
      /\ \A x, y, z \in S : Ahead(x, y) /\ Ahead(y, z) => Ahead(x, z)
  BY <1>0 DEF Ahead
<1>3. ASSUME NEW x \in S, NEW y \in S, x # y PROVE Ahead(x, y) \/ Ahead(y, x)
  <2>1. x.path # y.path \/ x.disk # y.disk
    BY <1>0, <1>3
  <2> QED
    BY <1>0, <2>1 DEF Ahead
<1> HIDE DEF R
<1>4. n \in Nat /\ \E s \in [1..n -> S] : \A i, j \in 1..n : i < j => <<s[i], s[j]>> \in R
  BY <1>1, <1>2, <1>3, Orders
<1>5. PICK s \in [1..n -> S] : \A i, j \in 1..n : i < j => Ahead(s[i], s[j])
  BY <1>1, <1>4
<1> DEFINE q == Sorted(S)
<1>6. q = CHOOSE t \in [1..n -> S] : \A i, j \in DOMAIN t : i < j => Ahead(t[i], t[j])
  BY DEF Sorted, InOrder
<1> HIDE DEF q
<1>7. q \in [1..n -> S] /\ \A i, j \in 1..n : i < j => Ahead(q[i], q[j])
  <2>1. \E t \in [1..n -> S] : \A i, j \in DOMAIN t : i < j => Ahead(t[i], t[j])
    BY <1>5
  <2>2. q \in [1..n -> S] /\ \A i, j \in DOMAIN q : i < j => Ahead(q[i], q[j])
    BY <1>6, <2>1
  <2> QED
    BY <2>2
<1>8. \A i, j \in 1..n : i < j => q[i] # q[j]
  BY <1>2, <1>7
<1>9. ToSet(q) = S
  BY <1>7, <1>8, Onto
<1> QED
  BY <1>9 DEF q

(* In the order of paths, no row comes twice.                              *)
ByPath(S) == InOrder(S, LAMBDA a, b : a.path < b.path)

LEMMA PathOrder ==
  ASSUME NEW S, IsFiniteSet(S), \A r \in S : r.path \in Nat,
         \A a, b \in S : a.path = b.path => a = b
  PROVE  ByPath(S) \in Seq(S) /\ \A i, j \in DOMAIN ByPath(S) : i # j => ByPath(S)[i].path # ByPath(S)[j].path
<1> DEFINE q == ByPath(S)
           R == {e \in S \X S : e[1].path < e[2].path}
           n == Cardinality(S)
<1>1. \A x, y \in S : <<x, y>> \in R <=> x.path < y.path
  OBVIOUS
<1> HIDE DEF R
<1>3. /\ \A x \in S : <<x, x>> \notin R
      /\ \A x, y, z \in S : <<x, y>> \in R /\ <<y, z>> \in R => <<x, z>> \in R
      /\ \A x, y \in S : x # y => <<x, y>> \in R \/ <<y, x>> \in R
  BY <1>1
<1>4. n \in Nat /\ \E s \in [1..n -> S] : \A i, j \in 1..n : i < j => <<s[i], s[j]>> \in R
  BY <1>3, Orders
<1>5. PICK s \in [1..n -> S] : \A i, j \in 1..n : i < j => s[i].path < s[j].path
  BY <1>1, <1>4
<1>6. q = CHOOSE t \in [1..n -> S] : \A i, j \in DOMAIN t : i < j => t[i].path < t[j].path
  BY DEF ByPath, InOrder
<1> HIDE DEF q
<1>7. q \in [1..n -> S] /\ \A i, j \in DOMAIN q : i < j => q[i].path < q[j].path
  <2>1. \E t \in [1..n -> S] : \A i, j \in DOMAIN t : i < j => t[i].path < t[j].path
    BY <1>5
  <2> QED
    BY <1>6, <2>1
<1>8. q \in Seq(S)
  BY <1>4, <1>7
<1>9. ASSUME NEW i \in DOMAIN q, NEW j \in DOMAIN q, i # j PROVE q[i].path # q[j].path
  <2>1. DOMAIN q = 1..n /\ q[i].path \in Nat /\ q[j].path \in Nat
    BY <1>7
  <2>2. i < j \/ j < i
    BY <1>4, <1>9, <2>1
  <2> QED
    BY <1>7, <2>1, <2>2
<1> QED
  BY <1>8, <1>9 DEF q

LEMMA IndexSet ==
  ASSUME NEW k \in Nat, NEW S \in SUBSET (1..k)
  PROVE  ToSet(InOrder(S, LAMBDA a, b : a < b)) = S
<1> DEFINE R == {e \in S \X S : e[1] < e[2]}
           n == Cardinality(S)
<1>1. \A x, y \in S : <<x, y>> \in R <=> x < y
  OBVIOUS
<1> HIDE DEF R
<1>2. S \in SUBSET Nat /\ IsFiniteSet(S)
  <2>1. IsFiniteSet(1..k)
    BY FS_Interval
  <2>2. IsFiniteSet(S)
    BY <2>1, FS_Subset
  <2> QED
    BY <2>2
<1>3. /\ \A x \in S : <<x, x>> \notin R
      /\ \A x, y, z \in S : <<x, y>> \in R /\ <<y, z>> \in R => <<x, z>> \in R
      /\ \A x, y \in S : x # y => <<x, y>> \in R \/ <<y, x>> \in R
  BY <1>1, <1>2
<1>4. n \in Nat /\ \E s \in [1..n -> S] : \A i, j \in 1..n : i < j => <<s[i], s[j]>> \in R
  BY <1>2, <1>3, Orders
<1>5. PICK s \in [1..n -> S] : \A i, j \in 1..n : i < j => s[i] < s[j]
  BY <1>1, <1>4
<1> DEFINE q == InOrder(S, LAMBDA a, b : a < b)
<1>6. q = CHOOSE t \in [1..n -> S] : \A i, j \in DOMAIN t : i < j => t[i] < t[j]
  BY DEF InOrder
<1> HIDE DEF q
<1>7. q \in [1..n -> S] /\ \A i, j \in DOMAIN q : i < j => q[i] < q[j]
  <2>1. \E t \in [1..n -> S] : \A i, j \in DOMAIN t : i < j => t[i] < t[j]
    BY <1>5
  <2> QED
    BY <1>6, <2>1
<1>8. \A i, j \in 1..n : i < j => q[i] # q[j]
  <2> SUFFICES ASSUME NEW i \in 1..n, NEW j \in 1..n, i < j PROVE q[i] # q[j]
    OBVIOUS
  <2>1. q[i] < q[j] /\ q[i] \in Nat /\ q[j] \in Nat
    BY <1>2, <1>7
  <2> QED
    BY <2>1
<1>9. ToSet(q) = S
  BY <1>2, <1>7, <1>8, Onto
<1> QED
  BY <1>9 DEF q

LEMMA KeepSet ==
  ASSUME NEW T, NEW rows \in Seq(T), NEW S
  PROVE  ToSet(Keep(rows, S)) = {r \in ToSet(rows) : r.path \in S}
<1> DEFINE I == {i \in DOMAIN rows : rows[i].path \in S}
           at == InOrder(I, LAMBDA i, j : i < j)
<1>1. Len(rows) \in Nat /\ DOMAIN rows = 1..Len(rows)
  OBVIOUS
<1>2. at \in Seq(I) /\ ToSet(at) = I
  <2>1. I \in SUBSET (1..Len(rows))
    BY <1>1
  <2> HIDE DEF I
  <2> QED
    BY <1>1, <2>1, IndexSeq, IndexSet
<1>3. Keep(rows, S) = [n \in DOMAIN at |-> rows[at[n]]]
  BY DEF Keep
<1> HIDE DEF at
<1>4. \A i \in I : \E n \in DOMAIN at : at[n] = i
  BY <1>2 DEF ToSet
<1>5. \A n \in DOMAIN at : at[n] \in I
  BY <1>2
<1>6. ToSet(Keep(rows, S)) = {rows[at[n]] : n \in DOMAIN at}
  BY <1>3 DEF ToSet
<1>7. {rows[at[n]] : n \in DOMAIN at} = {rows[i] : i \in I}
  BY <1>4, <1>5
<1>8. {rows[i] : i \in I} = {r \in ToSet(rows) : r.path \in S}
  BY DEF ToSet
<1> QED
  BY <1>6, <1>7, <1>8

LEMMA ConcatSet ==
  ASSUME NEW T, NEW a \in Seq(T), NEW b \in Seq(T)
  PROVE  ToSet(a \o b) = ToSet(a) \cup ToSet(b) /\ a \o b \in Seq(T)
<1>1. /\ a \o b \in Seq(T) /\ Len(a \o b) = Len(a) + Len(b)
      /\ \A i \in 1..(Len(a) + Len(b)) : (a \o b)[i] = IF i <= Len(a) THEN a[i] ELSE b[i - Len(a)]
  BY ConcatProperties
<1>2. /\ Len(a) \in Nat /\ Len(b) \in Nat /\ DOMAIN a = 1..Len(a) /\ DOMAIN b = 1..Len(b)
      /\ DOMAIN (a \o b) = 1..(Len(a) + Len(b))
  BY <1>1
<1> DEFINE c == a \o b
<1>3. /\ \A i \in DOMAIN a : i \in DOMAIN c /\ c[i] = a[i]
      /\ \A i \in DOMAIN b : i + Len(a) \in DOMAIN c /\ c[i + Len(a)] = b[i]
      /\ \A i \in DOMAIN c : (i \in DOMAIN a /\ c[i] = a[i]) \/ (i - Len(a) \in DOMAIN b /\ c[i] = b[i - Len(a)])
  <2> HIDE DEF c
  <2>1. \A i \in 1..(Len(a) + Len(b)) : c[i] = IF i <= Len(a) THEN a[i] ELSE b[i - Len(a)]
    BY <1>1 DEF c
  <2>2. DOMAIN c = 1..(Len(a) + Len(b))
    BY <1>2 DEF c
  <2> QED
    BY <1>2, <2>1, <2>2
<1> HIDE DEF c
<1>4. ToSet(c) = ToSet(a) \cup ToSet(b)
  BY <1>3 DEF ToSet
<1> QED
  BY <1>1, <1>4 DEF c

LEMMA InsertSet ==
  ASSUME NEW rows \in Seq(Rows), NEW r \in Rows
  PROVE  ToSet(Insert(rows, r)) = ToSet(rows) \cup {r}
<1> DEFINE later == {i \in DOMAIN rows : Ahead(r, rows[i])}
           k == IF later = {} THEN Len(rows) + 1 ELSE Min(later)
<1>0. Len(rows) \in Nat /\ DOMAIN rows = 1..Len(rows) /\ \A i \in 1..Len(rows) : rows[i] \in Rows
  OBVIOUS
<1>1. k \in 1..(Len(rows) + 1)
  <2>1. CASE later = {}
    BY <1>0, <2>1
  <2>2. CASE later # {}
    <3>1. later \in SUBSET Nat
      BY <1>0
    <3>2. \E i \in later : \A j \in later : i <= j
      BY <2>2, <3>1, Least
    <3>3. Min(later) \in later
      BY <3>2 DEF Min
    <3> QED
      BY <1>0, <2>2, <3>3
  <2> QED
    BY <2>1, <2>2
<1>2. Insert(rows, r) = InsertAt(rows, k, r)
  BY DEF Insert
<1> HIDE DEF k
<1> DEFINE a == SubSeq(rows, 1, k - 1)
           b == SubSeq(rows, k, Len(rows))
           one == <<r>>
<1>3. k \in Int /\ k - 1 \in Int
  BY <1>0, <1>1
<1>4. /\ a \in Seq(Rows) /\ Len(a) = k - 1
      /\ \A i \in 1..(k - 1) : a[i] = rows[i]
  <2>1. \A i \in 1..(k - 1) : rows[i] \in Rows
    BY <1>0, <1>1
  <2>2. a \in Seq(Rows)
    BY <1>3, <2>1, SubSeqProperties
  <2>3. Len(a) = IF 1 <= k - 1 THEN (k - 1) - 1 + 1 ELSE 0
    BY <1>3, SubSeqProperties
  <2>4. \A i \in 1..((k - 1) - 1 + 1) : a[i] = rows[1 + i - 1]
    BY <1>3, SubSeqProperties
  <2> HIDE DEF a
  <2> QED
    BY <1>0, <1>1, <1>3, <2>2, <2>3, <2>4
<1>5. /\ b \in Seq(Rows) /\ Len(b) = Len(rows) - k + 1
      /\ \A i \in 1..(Len(rows) - k + 1) : b[i] = rows[k + i - 1]
  <2>1. \A i \in k..Len(rows) : rows[i] \in Rows
    BY <1>0, <1>1
  <2>2. b \in Seq(Rows)
    BY <1>0, <1>3, <2>1, SubSeqProperties
  <2>3. Len(b) = IF k <= Len(rows) THEN Len(rows) - k + 1 ELSE 0
    BY <1>0, <1>3, SubSeqProperties
  <2>4. \A i \in 1..(Len(rows) - k + 1) : b[i] = rows[k + i - 1]
    BY <1>0, <1>3, SubSeqProperties
  <2> HIDE DEF b
  <2> QED
    BY <1>0, <1>1, <1>3, <2>2, <2>3, <2>4
<1>6. Insert(rows, r) = a \o one \o b
  BY <1>2 DEF InsertAt
<1>7. one \in Seq(Rows) /\ ToSet(one) = {r}
  BY DEF ToSet
<1> HIDE DEF a, b, one
<1>8. ToSet(rows) = ToSet(a) \cup ToSet(b)
  <2>1. DOMAIN a = 1..(k - 1) /\ DOMAIN b = 1..(Len(rows) - k + 1)
    BY <1>4, <1>5
  <2>2. ASSUME NEW i \in DOMAIN rows PROVE rows[i] \in ToSet(a) \cup ToSet(b)
    <3>1. CASE i <= k - 1
      <4>1. i \in DOMAIN a /\ a[i] = rows[i]
        BY <1>0, <1>3, <1>4, <2>1, <3>1
      <4> QED
        BY <4>1 DEF ToSet
    <3>2. CASE ~ (i <= k - 1)
      <4>1. i - k + 1 \in 1..(Len(rows) - k + 1) /\ k + (i - k + 1) - 1 = i
        BY <1>0, <1>3, <3>2
      <4>2. b[i - k + 1] = rows[i] /\ i - k + 1 \in DOMAIN b
        BY <1>5, <2>1, <4>1
      <4> QED
        BY <4>2 DEF ToSet
    <3> QED
      BY <3>1, <3>2
  <2>3. ASSUME NEW i \in DOMAIN a PROVE a[i] \in ToSet(rows)
    <3>1. i \in DOMAIN rows /\ a[i] = rows[i]
      BY <1>0, <1>1, <1>3, <1>4, <2>1
    <3> QED
      BY <3>1 DEF ToSet
  <2>4. ASSUME NEW i \in DOMAIN b PROVE b[i] \in ToSet(rows)
    <3>1. k + i - 1 \in DOMAIN rows /\ b[i] = rows[k + i - 1]
      BY <1>0, <1>1, <1>3, <1>5, <2>1
    <3> QED
      BY <3>1 DEF ToSet
  <2> QED
    BY <2>2, <2>3, <2>4 DEF ToSet
<1>9. a \o one \in Seq(Rows) /\ ToSet(a \o one) = ToSet(a) \cup ToSet(one)
  BY <1>4, <1>7, ConcatSet
<1> DEFINE ab == a \o one
<1>10. ToSet(ab \o b) = ToSet(ab) \cup ToSet(b)
  <2>1. ab \in Seq(Rows)
    BY <1>9
  <2> HIDE DEF ab
  <2> QED
    BY <1>5, <2>1, ConcatSet
<1> QED
  BY <1>6, <1>7, <1>8, <1>9, <1>10

(* What goes on from each index to the next holds of all.                  *)
LEMMA Upward ==
  ASSUME NEW n \in Nat, NEW S, 0 \in S, \A m \in 1..n : m - 1 \in S => m \in S
  PROVE  \A m \in 0..n : m \in S
<1> DEFINE Bad == {m \in 0..n : m \notin S}
<1>1. Bad = {}
  <2> SUFFICES ASSUME Bad # {} PROVE FALSE
    OBVIOUS
  <2>1. Bad \in SUBSET Nat
    OBVIOUS
  <2>2. PICK m \in Bad : \A j \in Bad : m <= j
    BY <2>1, Least
  <2>3. m \in 1..n /\ m - 1 \in 0..n /\ m - 1 < m
    BY <2>2
  <2>4. m - 1 \in S
    BY <2>2, <2>3
  <2> QED
    BY <2>2, <2>3, <2>4
<1> QED
  BY <1>1

LEMMA InsertsSet ==
  ASSUME NEW rows \in Seq(Rows), NEW more \in Seq(Rows)
  PROVE  ToSet(Inserted(rows, more)) = ToSet(rows) \cup ToSet(more)
<1>1. PICK it : /\ it[0] = rows /\ it[Len(more)] = Inserted(rows, more)
                /\ \A m \in 1..Len(more) : it[m] = Insert(it[m - 1], more[m])
  BY InsertFolds
<1>2. Len(more) \in Nat /\ DOMAIN more = 1..Len(more) /\ \A m \in 1..Len(more) : more[m] \in Rows
  OBVIOUS
<1> DEFINE Is(m) == it[m] \in Seq(Rows) /\ ToSet(it[m]) = ToSet(rows) \cup {more[i] : i \in 1..m}
<1>3. Is(0)
  BY <1>1
<1>4. ASSUME NEW m \in 1..Len(more), Is(m - 1) PROVE Is(m)
  <2>1. it[m] = Insert(it[m - 1], more[m]) /\ more[m] \in Rows /\ it[m - 1] \in Seq(Rows)
    BY <1>1, <1>2, <1>4
  <2>2. it[m] \in Seq(Rows) /\ ToSet(it[m]) = ToSet(it[m - 1]) \cup {more[m]}
    BY <2>1, InsertSeq, InsertSet
  <2>3. {more[i] : i \in 1..m} = {more[i] : i \in 1..(m - 1)} \cup {more[m]}
    <3>1. \A i : i \in 1..m <=> (i \in 1..(m - 1) \/ i = m)
      BY <1>2
    <3> QED
      BY <3>1
  <2> QED
    BY <1>4, <2>2, <2>3
<1>5. Is(Len(more))
  <2> HIDE DEF Is
  <2> DEFINE S == {m \in 0..Len(more) : Is(m)}
  <2>1. 0 \in S /\ \A m \in 1..Len(more) : m - 1 \in S => m \in S
    BY <1>2, <1>3, <1>4
  <2> HIDE DEF S
  <2>2. \A m \in 0..Len(more) : m \in S
    BY <1>2, <2>1, Upward
  <2>3. Len(more) \in S
    BY <1>2, <2>2
  <2> QED
    BY <2>3 DEF S
<1> QED
  BY <1>1, <1>2, <1>5, ZenonT(60) DEF ToSet

(* A refilter moves rows, and changes no size.                             *)
LEMMA NarrowListed ==
  ASSUME NEW v \in Views, NEW h
  PROVE  /\ Listed(Narrow(v, h)) = Listed(v)
         /\ Narrow(v, h).disk = v.disk /\ Narrow(v, h).partial = v.partial
<1> DEFINE seen == {p \in Paths : Shown(p, h)}
           a == Keep(v.rows, seen)
           b == Keep(v.stash, seen)
           c == Keep(v.rows, Paths \ seen)
           d == Keep(v.stash, Paths \ seen)
<1>0. v.rows \in Seq(Rows) /\ v.stash \in Seq(Rows)
  BY ViewParts
<1>1. Narrow(v, h) = [v EXCEPT !.rows = Inserted(a, b), !.stash = c \o d]
  BY <1>0 DEF Narrow, Inserted
<1>2. \A r \in Rows : r.path \in seen \/ r.path \in Paths \ seen
  BY RowParts
<1> HIDE DEF seen
<1>3. /\ a \in Seq(Rows) /\ b \in Seq(Rows) /\ c \in Seq(Rows) /\ d \in Seq(Rows)
      /\ ToSet(a) = {r \in ToSet(v.rows) : r.path \in seen}
      /\ ToSet(b) = {r \in ToSet(v.stash) : r.path \in seen}
      /\ ToSet(c) = {r \in ToSet(v.rows) : r.path \in Paths \ seen}
      /\ ToSet(d) = {r \in ToSet(v.stash) : r.path \in Paths \ seen}
  BY <1>0, KeepSeq, KeepSet
<1> HIDE DEF a, b, c, d
<1>4. ToSet(Inserted(a, b)) = ToSet(a) \cup ToSet(b) /\ ToSet(c \o d) = ToSet(c) \cup ToSet(d)
  BY <1>3, InsertsSet, ConcatSet
<1>5. ToSet(v.rows) \in SUBSET Rows /\ ToSet(v.stash) \in SUBSET Rows
  BY <1>0, ToSetFinite
<1>6. ToSet(Inserted(a, b)) \cup ToSet(c \o d) = ToSet(v.rows) \cup ToSet(v.stash)
  BY <1>2, <1>3, <1>4, <1>5
<1>7. /\ Narrow(v, h).rows = Inserted(a, b) /\ Narrow(v, h).stash = c \o d
      /\ Narrow(v, h).disk = v.disk /\ Narrow(v, h).partial = v.partial
  BY <1>1, ViewParts
<1> QED
  BY <1>6, <1>7 DEF Listed

-----------------------------------------------------------------------------
(* Views that tell what a set of paths holds.                              *)

Tells(v, d, A) == v.disk = SizeIn(d, A) /\ Listed(v) = RowsIn(d, A)

LEMMA NarrowTells ==
  ASSUME NEW v \in Views, NEW h, NEW d, NEW A, Tells(v, d, A)
  PROVE  Tells(Narrow(v, h), d, A)
BY NarrowListed DEF Tells

LEMMA ShiftIs ==
  ASSUME NEW a \in Nat, NEW b \in Nat, NEW c \in Nat
  PROVE  /\ Shift(a, 0, c) = a + c
         /\ b <= a => Shift(a, b, c) = a - b + c
<1>1. \A x \in Nat : Max({x, 0}) = x
  BY DEF Max
<1>2. Shift(a, 0, c) = a + c
  <2>1. a - 0 = a /\ Max({a, 0}) = a
    BY <1>1
  <2> QED
    BY <2>1 DEF Shift
<1>3. ASSUME b <= a PROVE Shift(a, b, c) = a - b + c
  <2>1. a - b \in Nat
    BY <1>3
  <2>2. Max({a - b, 0}) = a - b
    BY <1>1, <2>1
  <2> QED
    BY <2>2 DEF Shift
<1> QED
  BY <1>2, <1>3

Shifted(r, on, from, to) == IF r.path \in on THEN Row(r.path, Shift(r.disk, from, to)) ELSE r

LEMMA ShiftRowsSet ==
  ASSUME NEW rows \in Seq(Rows), NEW on, NEW from, NEW to
  PROVE  ToSet(ShiftRows(rows, on, from, to)) = {Shifted(r, on, from, to) : r \in ToSet(rows)}
<1> DEFINE s == ShiftRows(rows, on, from, to)
<1>1. \A i \in DOMAIN rows : rows[i] = [path |-> rows[i].path, disk |-> rows[i].disk]
  <2>1. \A i \in DOMAIN rows : rows[i] \in Rows
    OBVIOUS
  <2> QED
    BY <2>1 DEF Rows
<1>2. DOMAIN s = DOMAIN rows
  BY DEF ShiftRows
<1>3. \A i \in DOMAIN rows : s[i] = Shifted(rows[i], on, from, to)
  BY <1>1 DEF ShiftRows, Shifted, Row
<1> HIDE DEF s
<1>4. ToSet(s) = {Shifted(r, on, from, to) : r \in ToSet(rows)}
  BY <1>2, <1>3 DEF ToSet
<1> QED
  BY <1>4 DEF s

LEMMA CarriedView ==
  ASSUME NEW c, Caches(c), NEW d, NEW from, NEW to, NEW e \in DOMAIN c, NEW w, w = Carry(c, d, from, to)[e]
  PROVE  /\ e \notin Above[d] => w = c[e]
         /\ e \in Above[d] =>
              /\ w.disk = Shift(c[e].disk, from, to) /\ w.partial = c[e].partial
              /\ Listed(w) = {Shifted(r, Above[d], from, to) : r \in Listed(c[e])}
<1>0. c[e] \in Views
  BY DEF Caches
<1>1. c[e].rows \in Seq(Rows) /\ c[e].stash \in Seq(Rows)
  BY <1>0, ViewParts
<1>2. CASE e \notin Above[d]
  BY <1>2 DEF Carry
<1>3. CASE e \in Above[d]
  <2>1. w = [c[e] EXCEPT !.disk = Shift(@, from, to),
                         !.rows = ShiftRows(@, Above[d], from, to),
                         !.stash = ShiftRows(@, Above[d], from, to)]
    BY <1>3 DEF Carry
  <2>2. /\ w.disk = Shift(c[e].disk, from, to) /\ w.partial = c[e].partial
        /\ w.rows = ShiftRows(c[e].rows, Above[d], from, to)
        /\ w.stash = ShiftRows(c[e].stash, Above[d], from, to)
    BY <1>0, <2>1, ViewParts
  <2>3. Listed(w) = {Shifted(r, Above[d], from, to) : r \in Listed(c[e])}
    BY <1>1, <2>2, ShiftRowsSet DEF Listed
  <2> QED
    BY <1>3, <2>2, <2>3
<1> QED
  BY <1>2, <1>3

(* The row that leads to an entry moves by what came or went below it.     *)
LEMMA RowMoves ==
  ASSUME NEW p, NEW H, NEW A, Moves(p, H, A), NEW e \in Paths \ Below(p), NEW q \in In(e, A)
  PROVE  /\ e \notin Above[Up[p]] => SizeIn(q, A \cup H) = SizeIn(q, A)
         /\ q \in Above[Up[p]] => SizeIn(q, A \cup H) = SizeIn(q, A) + Weight(H)
         /\ q \notin Above[Up[p]] => SizeIn(q, A \cup H) = SizeIn(q, A)
<1>0. p \in Paths \ {Root} /\ p \in Below(p)
  BY BelowPaths DEF Moves
<1>1. q \in Paths \ Below(p) /\ q # Root /\ Up[q] = e
  BY EntryApart
<1>2. Above[p] = {p} \cup Above[Up[p]]
  BY <1>0, UpAbove
<1>3. q # p /\ e # p
  BY <1>0, <1>1
<1>4. /\ q \in Above[p] => SizeIn(q, A \cup H) = SizeIn(q, A) + Weight(H)
      /\ q \notin Above[p] => SizeIn(q, A \cup H) = SizeIn(q, A)
      /\ Weight(H) \in Nat /\ H \in SUBSET Paths
  BY <1>1, SizeMoves
<1>5. q \in Above[p] <=> q \in Above[Up[p]]
  BY <1>2, <1>3
<1>6. q \in Above[p] => e \in Above[Up[p]]
  <2> SUFFICES ASSUME q \in Above[p] PROVE e \in Above[Up[p]]
    OBVIOUS
  <2>1. Above[q] \subseteq Above[p]
    BY <1>0, AboveAll
  <2>2. e \in Above[q]
    BY <1>1, UpAbove
  <2> QED
    BY <1>2, <1>3, <2>1, <2>2
<1> QED
  BY <1>4, <1>5, <1>6

LEMMA SizeGrows ==
  ASSUME NEW p, NEW H, NEW A, Moves(p, H, A), NEW e \in Paths \ Below(p), e \in Above[Up[p]]
  PROVE  SizeIn(e, A \cup H) = SizeIn(e, A) + Weight(H)
<1>1. p \in Paths \ {Root}
  BY DEF Moves
<1>2. e \in Above[p]
  BY <1>1, UpAbove
<1> QED
  BY <1>2, SizeMoves

LEMMA SizeStays ==
  ASSUME NEW p, NEW H, NEW A, Moves(p, H, A), NEW e \in Paths \ Below(p), e \notin Above[Up[p]]
  PROVE  SizeIn(e, A \cup H) = SizeIn(e, A)
<1>1. p \in Paths \ {Root} /\ p \in Below(p)
  BY BelowPaths DEF Moves
<1>2. e \notin Above[p]
  BY <1>1, UpAbove
<1>3. /\ e \in Above[p] => SizeIn(e, A \cup H) = SizeIn(e, A) + Weight(H)
      /\ e \notin Above[p] => SizeIn(e, A \cup H) = SizeIn(e, A)
      /\ Weight(H) \in Nat /\ H \in SUBSET Paths
  BY SizeMoves
<1> QED
  BY <1>2, <1>3

LEMMA CarryUp ==
  ASSUME NEW p, NEW H, NEW A, Moves(p, H, A), NEW c, Caches(c), NEW e \in DOMAIN c, e \in Paths \ Below(p),
         c[e].disk = SizeIn(e, A),
         Listed(c[e]) = RowsIn(e, A) \cup (IF e = Up[p] THEN {Row(p, Weight(H))} ELSE {})
  PROVE  Tells(Carry(c, Up[p], 0, Weight(H))[e], e, A \cup H)
<1> DEFINE w == Carry(c, Up[p], 0, Weight(H))[e]
           on == Above[Up[p]]
           W == Weight(H)
           B == A \cup H
<1>0. p \in Paths \ {Root} /\ p \notin on /\ Up[p] \in on /\ W \in Nat
  BY UpAbove, SizeMoves DEF Moves
<1>1. In(e, B) = In(e, A) \cup (IF e = Up[p] THEN {p} ELSE {})
  BY EntryMoves
<1>2. /\ e \in on => SizeIn(e, B) = SizeIn(e, A) + W
      /\ e \notin on => SizeIn(e, B) = SizeIn(e, A)
      /\ SizeIn(e, A) \in Nat
  <2>1. e \in on => SizeIn(e, B) = SizeIn(e, A) + W
    <3> SUFFICES ASSUME e \in Above[Up[p]] PROVE SizeIn(e, A \cup H) = SizeIn(e, A) + Weight(H)
      OBVIOUS
    <3> QED
      BY SizeGrows
  <2>2. e \notin on => SizeIn(e, B) = SizeIn(e, A)
    <3> SUFFICES ASSUME e \notin Above[Up[p]] PROVE SizeIn(e, A \cup H) = SizeIn(e, A)
      OBVIOUS
    <3> QED
      BY SizeStays
  <2> QED
    BY <2>1, <2>2, SizeNat
<1>3. SizeIn(p, B) = W
  BY OwnMoves
<1>4. \A q \in In(e, A) : /\ e \notin on => SizeIn(q, B) = SizeIn(q, A)
                          /\ q \in on => SizeIn(q, B) = SizeIn(q, A) + W
                          /\ q \notin on => SizeIn(q, B) = SizeIn(q, A)
                          /\ SizeIn(q, A) \in Nat
  BY RowMoves, SizeNat
<1>5. /\ e \notin on => w = c[e]
      /\ e \in on => /\ w.disk = Shift(c[e].disk, 0, W)
                     /\ Listed(w) = {Shifted(r, on, 0, W) : r \in Listed(c[e])}
  <2>1. w = Carry(c, Up[p], 0, Weight(H))[e] /\ on = Above[Up[p]] /\ W = Weight(H)
    OBVIOUS
  <2> HIDE DEF w, on, W
  <2> QED
    BY ONLY <2>1, CarriedView, Caches(c), e \in DOMAIN c
<1> HIDE DEF w, on, W, B
<1>6. w.disk = SizeIn(e, B)
  BY <1>0, <1>2, <1>5, ShiftIs
<1>7. CASE e \notin on
  <2>1. e # Up[p]
    BY <1>0, <1>7
  <2>2. RowsIn(e, B) = RowsIn(e, A)
    BY <1>1, <1>4, <1>7, <2>1 DEF RowsIn
  <2> QED
    BY <1>5, <1>6, <1>7, <2>1, <2>2 DEF Tells, w, B
<1>8. CASE e \in on
  <2>1. \A q \in In(e, A) : Shifted(Row(q, SizeIn(q, A)), on, 0, W) = Row(q, SizeIn(q, B))
    <3> SUFFICES ASSUME NEW q \in In(e, A) PROVE Shifted(Row(q, SizeIn(q, A)), on, 0, W) = Row(q, SizeIn(q, B))
      OBVIOUS
    <3>1. Row(q, SizeIn(q, A)).path = q /\ Row(q, SizeIn(q, A)).disk = SizeIn(q, A)
      BY DEF Row
    <3>2. Shift(SizeIn(q, A), 0, W) = SizeIn(q, A) + W
      BY <1>0, <1>4, ShiftIs
    <3>3. CASE q \in on
      BY <1>4, <3>1, <3>2, <3>3 DEF Shifted
    <3>4. CASE q \notin on
      BY <1>4, <3>1, <3>4 DEF Shifted
    <3> QED
      BY <3>3, <3>4
  <2>2. Shifted(Row(p, W), on, 0, W) = Row(p, SizeIn(p, B))
    BY <1>0, <1>3 DEF Shifted, Row
  <2>3. Listed(c[e]) = {Row(q, SizeIn(q, A)) : q \in In(e, A)} \cup (IF e = Up[p] THEN {Row(p, W)} ELSE {})
    BY DEF RowsIn, W
  <2>4. Listed(w) = {Shifted(r, on, 0, W) : r \in {Row(q, SizeIn(q, A)) : q \in In(e, A)}}
                    \cup (IF e = Up[p] THEN {Shifted(Row(p, W), on, 0, W)} ELSE {})
    BY <1>5, <1>8, <2>3
  <2>5. {Shifted(r, on, 0, W) : r \in {Row(q, SizeIn(q, A)) : q \in In(e, A)}} = {Row(q, SizeIn(q, B)) : q \in In(e, A)}
    BY <2>1
  <2>6. Listed(w) = {Row(q, SizeIn(q, B)) : q \in In(e, B)}
    BY <1>1, <2>2, <2>4, <2>5
  <2> QED
    BY <1>6, <2>6 DEF Tells, RowsIn, w, B, W
<1> QED
  BY <1>7, <1>8

LEMMA CarryDown ==
  ASSUME NEW p, NEW H, NEW A, Moves(p, H, A), NEW c, Caches(c), NEW e \in DOMAIN c, e \in Paths \ Below(p),
         c[e].disk = SizeIn(e, A \cup H),
         Listed(c[e]) = {r \in RowsIn(e, A \cup H) : r.path # p}
  PROVE  Tells(Carry(c, Up[p], Weight(H), 0)[e], e, A)
<1> DEFINE w == Carry(c, Up[p], Weight(H), 0)[e]
           on == Above[Up[p]]
           W == Weight(H)
           B == A \cup H
<1>0. p \in Paths \ {Root} /\ p \notin on /\ Up[p] \in on /\ W \in Nat
  BY UpAbove, SizeMoves DEF Moves
<1>1. In(e, B) = In(e, A) \cup (IF e = Up[p] THEN {p} ELSE {}) /\ p \notin In(e, A)
  BY EntryMoves
<1>2. /\ e \in on => SizeIn(e, B) = SizeIn(e, A) + W
      /\ e \notin on => SizeIn(e, B) = SizeIn(e, A)
      /\ SizeIn(e, A) \in Nat
  <2>1. e \in on => SizeIn(e, B) = SizeIn(e, A) + W
    <3> SUFFICES ASSUME e \in Above[Up[p]] PROVE SizeIn(e, A \cup H) = SizeIn(e, A) + Weight(H)
      OBVIOUS
    <3> QED
      BY SizeGrows
  <2>2. e \notin on => SizeIn(e, B) = SizeIn(e, A)
    <3> SUFFICES ASSUME e \notin Above[Up[p]] PROVE SizeIn(e, A \cup H) = SizeIn(e, A)
      OBVIOUS
    <3> QED
      BY SizeStays
  <2> QED
    BY <2>1, <2>2, SizeNat
<1>4. \A q \in In(e, A) : /\ e \notin on => SizeIn(q, B) = SizeIn(q, A)
                          /\ q \in on => SizeIn(q, B) = SizeIn(q, A) + W
                          /\ q \notin on => SizeIn(q, B) = SizeIn(q, A)
                          /\ SizeIn(q, A) \in Nat
  BY RowMoves, SizeNat
<1>5. /\ e \notin on => w = c[e]
      /\ e \in on => /\ w.disk = Shift(c[e].disk, W, 0)
                     /\ Listed(w) = {Shifted(r, on, W, 0) : r \in Listed(c[e])}
  <2>1. w = Carry(c, Up[p], Weight(H), 0)[e] /\ on = Above[Up[p]] /\ W = Weight(H)
    OBVIOUS
  <2> HIDE DEF w, on, W
  <2> QED
    BY ONLY <2>1, CarriedView, Caches(c), e \in DOMAIN c
<1> HIDE DEF w, on, W, B
<1>6. w.disk = SizeIn(e, A)
  <2>1. CASE e \in on
    <3>1. c[e].disk = SizeIn(e, A) + W
      BY <1>2, <2>1 DEF B
    <3>2. Shift(SizeIn(e, A) + W, W, 0) = SizeIn(e, A)
      <4> DEFINE n == SizeIn(e, A)
      <4>1. n \in Nat /\ W \in Nat
        BY <1>0, <1>2
      <4> HIDE DEF n
      <4>2. n + W \in Nat /\ W <= n + W /\ n + W - W + 0 = n /\ 0 \in Nat
        BY ONLY <4>1
      <4>3. Shift(n + W, W, 0) = n
        BY ONLY <4>1, <4>2, ShiftIs
      <4> QED
        BY <4>3 DEF n
    <3> QED
      BY <1>5, <2>1, <3>1, <3>2
  <2>2. CASE e \notin on
    BY <1>2, <1>5, <2>2 DEF B
  <2> QED
    BY <2>1, <2>2
<1>7. Listed(c[e]) = {Row(q, SizeIn(q, B)) : q \in In(e, A)}
  <2>1. \A q : Row(q, SizeIn(q, B)).path = q
    BY DEF Row
  <2>2. In(e, A) = {q \in In(e, B) : q # p}
    BY <1>1
  <2>3. Listed(c[e]) = {r \in {Row(q, SizeIn(q, B)) : q \in In(e, B)} : r.path # p}
    BY DEF RowsIn, B
  <2> QED
    BY <2>1, <2>2, <2>3, ZenonT(60)
<1>8. CASE e \notin on
  BY <1>4, <1>5, <1>6, <1>7, <1>8 DEF Tells, RowsIn, w, W
<1>9. CASE e \in on
  <2>1. \A q \in In(e, A) : Shifted(Row(q, SizeIn(q, B)), on, W, 0) = Row(q, SizeIn(q, A))
    <3> SUFFICES ASSUME NEW q \in In(e, A) PROVE Shifted(Row(q, SizeIn(q, B)), on, W, 0) = Row(q, SizeIn(q, A))
      OBVIOUS
    <3>1. Row(q, SizeIn(q, B)).path = q /\ Row(q, SizeIn(q, B)).disk = SizeIn(q, B)
      BY DEF Row
    <3>2. Shift(SizeIn(q, A) + W, W, 0) = SizeIn(q, A)
      BY <1>0, <1>4, ShiftIs
    <3>3. CASE q \in on
      BY <1>4, <3>1, <3>2, <3>3 DEF Shifted
    <3>4. CASE q \notin on
      BY <1>4, <3>1, <3>4 DEF Shifted
    <3> QED
      BY <3>3, <3>4
  <2>2. Listed(w) = {Shifted(r, on, W, 0) : r \in {Row(q, SizeIn(q, B)) : q \in In(e, A)}}
    BY <1>5, <1>7, <1>9
  <2>3. Listed(w) = {Row(q, SizeIn(q, A)) : q \in In(e, A)}
    BY <2>1, <2>2
  <2> QED
    BY <1>6, <2>3 DEF Tells, RowsIn, w, W
<1> QED
  BY <1>8, <1>9

(* A size carried up that did not change.                                  *)
LEMMA CarrySame ==
  ASSUME NEW A, A \subseteq Paths, NEW d \in A \ {Root}, NEW n, n = SizeIn(d, A),
         NEW c, Caches(c), NEW e \in DOMAIN c, Tells(c[e], e, A)
  PROVE  Tells(Carry(c, Up[d], n, n)[e], e, A)
<1> DEFINE w == Carry(c, Up[d], n, n)[e]
           on == Above[Up[d]]
<1>0. d \in Paths \ {Root} /\ n \in Nat /\ Above[d] = {d} \cup on
  BY UpAbove, SizeNat
<1>1. \A q \in on : Shift(SizeIn(q, A), n, n) = SizeIn(q, A)
  <2> SUFFICES ASSUME NEW q \in on PROVE Shift(SizeIn(q, A), n, n) = SizeIn(q, A)
    OBVIOUS
  <2>1. q \in Above[d]
    BY <1>0
  <2> HIDE DEF on
  <2>2. n <= SizeIn(q, A) /\ SizeIn(q, A) \in Nat
    BY <1>0, <2>1, SizeWithin, SizeNat
  <2>3. Shift(SizeIn(q, A), n, n) = SizeIn(q, A) - n + n
    BY <1>0, <2>2, ShiftIs
  <2> QED
    BY <1>0, <2>2, <2>3
<1>2. /\ e \notin on => w = c[e]
      /\ e \in on => /\ w.disk = Shift(c[e].disk, n, n)
                     /\ Listed(w) = {Shifted(r, on, n, n) : r \in Listed(c[e])}
  <2>1. w = Carry(c, Up[d], n, n)[e] /\ on = Above[Up[d]]
    OBVIOUS
  <2> HIDE DEF w, on
  <2> QED
    BY ONLY <2>1, CarriedView, Caches(c), e \in DOMAIN c
<1> HIDE DEF w, on
<1>3. CASE e \notin on
  BY <1>2, <1>3 DEF w
<1>4. CASE e \in on
  <2>1. \A q : Shifted(Row(q, SizeIn(q, A)), on, n, n) = Row(q, SizeIn(q, A))
    <3>1. \A q : Row(q, SizeIn(q, A)).path = q /\ Row(q, SizeIn(q, A)).disk = SizeIn(q, A)
      BY DEF Row
    <3> QED
      BY <1>1, <3>1 DEF Shifted
  <2>2. Listed(w) = {Shifted(r, on, n, n) : r \in {Row(q, SizeIn(q, A)) : q \in In(e, A)}}
    BY <1>2, <1>4 DEF Tells, RowsIn
  <2>3. Listed(w) = {Row(q, SizeIn(q, A)) : q \in In(e, A)}
    BY <2>1, <2>2
  <2>4. w.disk = SizeIn(e, A)
    BY <1>1, <1>2, <1>4 DEF Tells
  <2> QED
    BY <2>3, <2>4 DEF Tells, RowsIn, w
<1> QED
  BY <1>3, <1>4

-----------------------------------------------------------------------------
(* A row dropped, a rescan taken in.                                       *)

LEMMA KeptListed ==
  ASSUME NEW v \in Views, NEW S, NEW w, w = [v EXCEPT !.rows = Keep(@, S), !.stash = Keep(@, S)]
  PROVE  Listed(w) = {r \in Listed(v) : r.path \in S} /\ w.disk = v.disk /\ w.partial = v.partial /\ w \in Views
<1>1. v.rows \in Seq(Rows) /\ v.stash \in Seq(Rows)
  BY ViewParts
<1>2. w = [rows |-> Keep(v.rows, S), stash |-> Keep(v.stash, S), disk |-> v.disk,
           scanning |-> v.scanning, partial |-> v.partial]
  BY DEF Views
<1>3. ToSet(Keep(v.rows, S)) = {r \in ToSet(v.rows) : r.path \in S}
  BY <1>1, KeepSet
<1>4. ToSet(Keep(v.stash, S)) = {r \in ToSet(v.stash) : r.path \in S}
  BY <1>1, KeepSet
<1>5. Keep(v.rows, S) \in Seq(Rows) /\ Keep(v.stash, S) \in Seq(Rows)
  BY <1>1, KeepSeq
<1>6. w \in Views
  BY <1>2, <1>5, ViewParts DEF Views
<1> QED
  BY <1>2, <1>3, <1>4, <1>6 DEF Listed

(* drop_row takes its row off the total and the rows above.                *)
LEMMA DropTells ==
  ASSUME NEW c, Caches(c), NEW r \in Rows, NEW e \in DOMAIN c \ Below(r.path)
  PROVE  /\ DropRow(c, r)[e].partial = c[e].partial
         /\ \A H, A : Moves(r.path, H, A) /\ r.disk = Weight(H) /\ Tells(c[e], e, A \cup H)
                        => Tells(DropRow(c, r)[e], e, A)
<1> DEFINE p == r.path
           out(rows) == Keep(rows, Paths \ {p})
           gone == [x \in DOMAIN c |-> IF x = Up[p] THEN [c[x] EXCEPT !.rows = out(@), !.stash = out(@)] ELSE c[x]]
           moved == Carry(gone, Up[p], r.disk, 0)
<1>1. DropRow(c, r) = Without(moved, Below(p))
  BY DEF DropRow
<1>2. DropRow(c, r)[e] = moved[e]
  <2>1. DOMAIN moved = DOMAIN c
    BY DEF Carry
  <2> HIDE DEF moved
  <2> QED
    BY <1>1, <2>1 DEF Without
<1>3. c[e] \in Views /\ DOMAIN gone = DOMAIN c
  BY DEF Caches
<1>4. Caches(gone)
  <2>1. ASSUME NEW x \in DOMAIN c PROVE gone[x] \in Views
    <3>1. c[x] \in Views
      BY DEF Caches
    <3>2. CASE x = Up[p]
      <4>1. gone[x] = [c[x] EXCEPT !.rows = Keep(@, Paths \ {p}), !.stash = Keep(@, Paths \ {p})]
        BY <3>2
      <4> HIDE DEF gone
      <4> QED
        BY <3>1, <4>1, KeptListed
    <3>3. CASE x # Up[p]
      BY <3>1, <3>3
    <3> QED
      BY <3>2, <3>3
  <2>2. DOMAIN gone = DOMAIN c /\ gone = [x \in DOMAIN gone |-> gone[x]]
    OBVIOUS
  <2> HIDE DEF gone
  <2> QED
    BY <2>1, <2>2 DEF Caches
<1>5. /\ gone[e].disk = c[e].disk /\ gone[e].partial = c[e].partial
      /\ Listed(gone[e]) = IF e = Up[p] THEN {x \in Listed(c[e]) : x.path # p} ELSE Listed(c[e])
  <2>1. CASE e = Up[p]
    <3>1. gone[e] = [c[e] EXCEPT !.rows = Keep(@, Paths \ {p}), !.stash = Keep(@, Paths \ {p})]
      BY <1>3, <2>1
    <3> DEFINE v == c[e]
               w == gone[e]
               S == Paths \ {p}
    <3>5. v \in Views /\ w = [v EXCEPT !.rows = Keep(@, S), !.stash = Keep(@, S)]
      BY <1>3, <3>1
    <3> HIDE DEF v, w, S
    <3>6. Listed(w) = {x \in Listed(v) : x.path \in S} /\ w.disk = v.disk /\ w.partial = v.partial /\ w \in Views
      BY <3>5, KeptListed
    <3>2. /\ gone[e].disk = c[e].disk /\ gone[e].partial = c[e].partial
          /\ Listed(gone[e]) = {x \in Listed(c[e]) : x.path \in Paths \ {p}}
      BY <3>6 DEF v, w, S
    <3> HIDE DEF gone, p
    <3>3. \A x \in Listed(c[e]) : x.path \in Paths
      BY <1>3, ListedRows, RowParts
    <3>4. {x \in Listed(c[e]) : x.path \in Paths \ {p}} = {x \in Listed(c[e]) : x.path # p}
      BY <3>3
    <3> QED
      BY <2>1, <3>2, <3>4
  <2>2. CASE e # Up[p]
    BY <1>3, <2>2
  <2> QED
    BY <2>1, <2>2
<1> HIDE DEF gone
<1>6. moved[e].partial = c[e].partial
  <2>1. moved[e] = Carry(gone, Up[p], r.disk, 0)[e]
    OBVIOUS
  <2> HIDE DEF moved, p
  <2>2. \/ moved[e] = gone[e]
        \/ moved[e].partial = gone[e].partial
    BY <1>3, <1>4, <2>1, CarriedView
  <2> QED
    BY <1>5, <2>2
<1>7. ASSUME NEW H, NEW A, Moves(p, H, A), r.disk = Weight(H), Tells(c[e], e, A \cup H)
      PROVE  Tells(moved[e], e, A)
  <2>1. gone[e].disk = SizeIn(e, A \cup H)
    BY <1>5, <1>7 DEF Tells
  <2>2. Listed(c[e]) = RowsIn(e, A \cup H)
    BY <1>7 DEF Tells
  <2>4. e \in Paths \ Below(p)
    BY TreeAssumption DEF Caches
  <2>3. Listed(gone[e]) = {x \in RowsIn(e, A \cup H) : x.path # p}
    <3>1. CASE e = Up[p]
      BY <1>5, <2>2, <3>1
    <3>2. CASE e # Up[p]
      <4>1. In(e, A \cup H) = In(e, A) /\ p \notin In(e, A)
        <5> HIDE DEF p
        <5>1. Moves(p, H, A) /\ e \in Paths \ Below(p)
          BY <1>7, <2>4
        <5>2. In(e, A \cup H) = In(e, A) \cup (IF e = Up[p] THEN {p} ELSE {}) /\ p \notin In(e, A)
          BY <5>1, EntryMoves
        <5> QED
          BY <3>2, <5>2
      <4>2. \A x \in RowsIn(e, A \cup H) : x.path # p
        BY <4>1 DEF RowsIn, Row
      <4> QED
        BY <1>5, <2>2, <3>2, <4>2
    <3> QED
      BY <3>1, <3>2
  <2>5. moved = Carry(gone, Up[p], Weight(H), 0) /\ e \in DOMAIN gone
    BY <1>3, <1>7
  <2> HIDE DEF p, moved
  <2> QED
    BY <1>4, <1>7, <2>1, <2>3, <2>4, <2>5, CarryDown
<1> QED
  BY <1>2, <1>6, <1>7

(* The row of d put where it already is.                                   *)
LEMMA PutRowTells ==
  ASSUME NEW c, Caches(c), NEW d, NEW n, NEW e \in DOMAIN c
  PROVE  /\ PutRow(c, d, n)[e].partial = c[e].partial
         /\ \A A : n = SizeIn(d, A) /\ Tells(c[e], e, A) => Tells(PutRow(c, d, n)[e], e, A)
<1> DEFINE put(rows) == [i \in DOMAIN rows |-> IF rows[i].path = d THEN Row(d, n) ELSE rows[i]]
           new == PutRow(c, d, n)
           v == c[e]
<1>1. v \in Views
  BY DEF Caches
<1>2. CASE new[e] = v
  BY <1>2
<1>3. CASE new[e] # v
  <2>1. d # Root /\ Up[d] \in DOMAIN c /\ e = Up[d]
    BY <1>3 DEF PutRow, Caches
  <2>2. new = [c EXCEPT ![Up[d]].rows = put(@), ![Up[d]].stash = put(@)]
    BY <2>1 DEF PutRow
  <2> HIDE DEF put, new
  <2>3. new[e] = [v EXCEPT !.rows = put(@), !.stash = put(@)]
    BY <1>1, <2>1, <2>2 DEF Caches, Views
  <2> HIDE DEF v
  <2>4. new[e] = [rows |-> put(v.rows), stash |-> put(v.stash), disk |-> v.disk,
                  scanning |-> v.scanning, partial |-> v.partial]
    BY <1>1, <2>3 DEF Views
  <2>5. ASSUME NEW A, n = SizeIn(d, A), Tells(v, e, A) PROVE Tells(new[e], e, A)
    <3>1. \A x \in Listed(v) : x.path = d => x = Row(d, n)
      BY <2>5 DEF Tells, RowsIn, Row
    <3>2. v.rows \in Seq(Rows) /\ v.stash \in Seq(Rows)
      BY <1>1, ViewParts
    <3>3. ASSUME NEW rows \in Seq(Rows), ToSet(rows) \subseteq Listed(v) PROVE put(rows) = rows
      <4>1. \A i \in DOMAIN rows : (IF rows[i].path = d THEN Row(d, n) ELSE rows[i]) = rows[i]
        BY <3>1, <3>3 DEF ToSet
      <4>2. put(rows) = [i \in DOMAIN rows |-> rows[i]]
        BY <4>1 DEF put
      <4> QED
        BY <4>2
    <3>4. put(v.rows) = v.rows /\ put(v.stash) = v.stash
      BY <3>2, <3>3 DEF Listed
    <3> QED
      BY <2>4, <2>5, <3>4 DEF Tells, Listed
  <2> QED
    BY <2>4, <2>5 DEF new, v
<1> QED
  BY <1>2, <1>3

(* apply_fresh of a rescan that found the size the view had.               *)
LEMMA FreshTells ==
  ASSUME NEW c, Caches(c), NEW d \in DOMAIN c, NEW v \in Views, NEW A, A \subseteq Paths, d \in A,
         c[d].disk = SizeIn(d, A), Tells(v, d, A), NEW e \in DOMAIN ApplyFresh(c, d, v)
  PROVE  /\ e = d => Tells(ApplyFresh(c, d, v)[e], e, A) /\ ApplyFresh(c, d, v)[e].partial = v.partial
         /\ e # d => /\ e \in DOMAIN c /\ ApplyFresh(c, d, v)[e].partial = c[e].partial
                     /\ Tells(c[e], e, A) => Tells(ApplyFresh(c, d, v)[e], e, A)
<1> DEFINE cut == Without(c, Below(d))
           rest == With(cut, d, v)
           n == v.disk
           moved == Carry(rest, Up[d], n, n)
           new == ApplyFresh(c, d, v)
<1>0. d \in Dirs /\ d \in Paths /\ n = SizeIn(d, A) /\ c[d].disk = n
  BY TreeAssumption DEF Caches, Tells
<1>1. Caches(cut) /\ DOMAIN cut = DOMAIN c \ Below(d) /\ \A x \in DOMAIN cut : cut[x] = c[x]
  <2>1. Caches(cut) /\ DOMAIN cut = DOMAIN c \ Below(d) /\ \A x \in DOMAIN c \ Below(d) : cut[x] = c[x]
    BY WithoutKeeps
  <2> HIDE DEF cut
  <2> QED
    BY <2>1
<1> HIDE DEF cut
<1>2. /\ Caches(rest) /\ DOMAIN rest = DOMAIN cut \cup {d}
      /\ \A x \in DOMAIN rest : rest[x] = IF x = d THEN v ELSE cut[x]
  <2>1. rest = With(cut, d, v)
    OBVIOUS
  <2> HIDE DEF rest
  <2>2. Caches(rest)
    BY <1>0, <1>1, <2>1, WithKeeps
  <2> QED
    BY <2>1, <2>2 DEF With
<1> HIDE DEF rest
<1>3. new = IF d = Root THEN rest ELSE PutRow(moved, d, n)
  <2>1. new = IF d = Root THEN rest ELSE PutRow(Carry(rest, Up[d], c[d].disk, v.disk), d, v.disk)
    BY DEF ApplyFresh, cut, rest
  <2> QED
    BY <1>0, <2>1
<1>4. n \in Nat
  BY ViewParts
<1> HIDE DEF n
<1>5. Caches(moved) /\ Same(rest, moved)
  BY <1>2, <1>4, CarryKeeps
<1>6. DOMAIN new = DOMAIN rest
  BY <1>3, <1>5 DEF PutRow, Same
<1>7. ASSUME d # Root
      PROVE  /\ new[e].partial = rest[e].partial
             /\ Tells(rest[e], e, A) => Tells(new[e], e, A)
  <2>0. e \in DOMAIN rest /\ e \in DOMAIN moved /\ new = PutRow(moved, d, n)
    BY <1>3, <1>5, <1>6, <1>7 DEF Same
  <2>1. moved[e] = rest[e] \/ moved[e].partial = rest[e].partial
    BY <1>2, <2>0, CarriedView
  <2>2. ASSUME Tells(rest[e], e, A) PROVE Tells(moved[e], e, A)
    <3>1. d \in A \ {Root}
      BY <1>7
    <3> QED
      BY <1>0, <1>2, <2>0, <2>2, <3>1, CarrySame
  <2> HIDE DEF moved, new
  <2>3. /\ PutRow(moved, d, n)[e].partial = moved[e].partial
        /\ Tells(moved[e], e, A) => Tells(PutRow(moved, d, n)[e], e, A)
    BY <1>0, <1>5, <2>0, PutRowTells
  <2> QED
    BY <2>0, <2>1, <2>2, <2>3
<1>8. /\ new[e].partial = rest[e].partial
      /\ Tells(rest[e], e, A) => Tells(new[e], e, A)
  <2>1. CASE d = Root
    BY <1>3, <2>1
  <2> QED
    BY <1>7, <2>1
<1> HIDE DEF new
<1>9. e \in DOMAIN rest
  BY <1>6 DEF new
<1>10. e = d => rest[e] = v
  BY <1>2, <1>9
<1>11. e # d => rest[e] = c[e] /\ e \in DOMAIN c
  BY <1>1, <1>2, <1>9
<1> QED
  BY <1>8, <1>10, <1>11 DEF new

-----------------------------------------------------------------------------
(* A row put back.                                                         *)

(* What a trashed row left: a subtree, and its size.                       *)
Bundle(m) == \A t \in m.got :
  /\ t.path = m.row.path /\ t.path \in t.held /\ t.held \subseteq Below(t.path)
  /\ \A q \in t.held \ {t.path} : Up[q] \in t.held
  /\ m.row.disk = Weight(t.held)

LEMMA InsertListed ==
  ASSUME NEW v \in Views, NEW r \in Rows, NEW w, w = [v EXCEPT !.rows = Insert(@, r)]
  PROVE  Listed(w) = Listed(v) \cup {r} /\ w.disk = v.disk /\ w.partial = v.partial /\ w \in Views
<1>1. v.rows \in Seq(Rows) /\ v.stash \in Seq(Rows)
  BY ViewParts
<1>2. w = [rows |-> Insert(v.rows, r), stash |-> v.stash, disk |-> v.disk,
           scanning |-> v.scanning, partial |-> v.partial]
  BY DEF Views
<1>3. ToSet(Insert(v.rows, r)) = ToSet(v.rows) \cup {r}
  BY <1>1, InsertSet
<1>4. Insert(v.rows, r) \in Seq(Rows)
  BY <1>1, InsertSeq
<1>5. w \in Views
  BY <1>2, <1>4, ViewParts DEF Views
<1> QED
  BY <1>2, <1>3, <1>5 DEF Listed

(* The row goes into the view of its parent, if that is open.              *)
Reopened(c, r) ==
  IF Up[r.path] \in DOMAIN c /\ r.path \notin PathsOf(c[Up[r.path]].rows)
  THEN [c EXCEPT ![Up[r.path]].rows = Insert(@, r)] ELSE c

LEMMA ReopenedListed ==
  ASSUME NEW c, Caches(c), NEW r \in Rows, NEW e \in DOMAIN c
  PROVE  /\ Caches(Reopened(c, r)) /\ DOMAIN Reopened(c, r) = DOMAIN c
         /\ Reopened(c, r)[e].disk = c[e].disk /\ Reopened(c, r)[e].partial = c[e].partial
         /\ r.path \notin {x.path : x \in Listed(c[e])} =>
              Listed(Reopened(c, r)[e]) = Listed(c[e]) \cup (IF e = Up[r.path] THEN {r} ELSE {})
<1> DEFINE d == Up[r.path]
           new == Reopened(c, r)
<1>1. CASE d \in DOMAIN c /\ r.path \notin PathsOf(c[d].rows)
  <2>1. new = [c EXCEPT ![d].rows = Insert(@, r)]
    BY <1>1 DEF Reopened
  <2> HIDE DEF new, d
  <2> DEFINE v == c[d]
             w == [v EXCEPT !.rows = Insert(@, r)]
  <2>2. /\ DOMAIN new = DOMAIN c /\ new = [x \in DOMAIN new |-> new[x]]
        /\ \A x \in DOMAIN c : new[x] = IF x = d THEN w ELSE c[x]
    BY <1>1, <2>1 DEF Caches
  <2>3. v \in Views
    BY <1>1 DEF Caches
  <2>4. w = [v EXCEPT !.rows = Insert(@, r)]
    OBVIOUS
  <2> HIDE DEF w, v
  <2>5. Listed(w) = Listed(v) \cup {r} /\ w.disk = v.disk /\ w.partial = v.partial /\ w \in Views
    BY <2>3, <2>4, InsertListed
  <2>6. Caches(new)
    BY <2>2, <2>5 DEF Caches
  <2>7. CASE e = d
    BY <2>2, <2>5, <2>6, <2>7 DEF new, d, v
  <2>8. CASE e # d
    BY <2>2, <2>6, <2>8 DEF new, d
  <2> QED
    BY <2>7, <2>8
<1>2. CASE ~ (d \in DOMAIN c /\ r.path \notin PathsOf(c[d].rows))
  <2>1. new = c
    BY <1>2 DEF Reopened
  <2>2. e = d => r.path \in {x.path : x \in Listed(c[e])}
    BY <1>2 DEF PathsOf, Listed
  <2> QED
    BY <2>1, <2>2
<1> QED
  BY <1>1, <1>2

LEMMA ReturnOne ==
  ASSUME NEW u, Undoing(u), NEW m \in Went, NEW k \in m.got, \A a, b \in m.got : a = b, Bundle(m),
         Closed(u.alive), Up[k.path] \in u.alive, Below(k.path) \cap (u.alive \cup DOMAIN u.cache) = {}
  PROVE  /\ PutBack(u, m).alive = u.alive \cup k.held /\ Closed(PutBack(u, m).alive)
         /\ \A e \in DOMAIN u.cache :
              /\ PutBack(u, m).cache[e].partial = u.cache[e].partial
              /\ Tells(u.cache[e], e, u.alive) => Tells(PutBack(u, m).cache[e], e, PutBack(u, m).alive)
<1> DEFINE r == m.row
           p == r.path
           H == k.held
           A == u.alive
           c == u.cache
           W == Weight(H)
           moved == Carry(Reopened(c, r), Up[p], 0, W)
           new == PutBack(u, m)
<1>0. r \in Rows /\ k \in Slips /\ Caches(c) /\ A \subseteq Paths
  BY WentParts DEF Undoing
<1>1. /\ k.path = p /\ p \in H /\ H \subseteq Below(p) /\ r.disk = W
      /\ \A q \in H \ {p} : Up[q] \in H
  BY DEF Bundle
<1>2. p \in Paths \ {Root} /\ p \in Below(p) /\ r = Row(p, W)
  <2>1. p \in Paths \ {Root} /\ r = [path |-> r.path, disk |-> r.disk]
    BY <1>0, RowParts DEF Rows
  <2> QED
    BY <1>1, <2>1, BelowPaths DEF Row
<1>3. p \notin A /\ Below(p) \cap A = {} /\ Up[p] \in A /\ DOMAIN c \cap Below(p) = {}
  BY <1>1, <1>2
<1>4. Moves(p, H, A)
  BY <1>0, <1>1, <1>2, <1>3 DEF Moves
<1>5. (CHOOSE t \in m.got : TRUE) = k
  OBVIOUS
<1>6. new.alive = A \cup H \cup Above[p] /\ new.cache = moved
  <2>1. new = [alive |-> u.alive \cup k.held \cup Above[r.path], trash |-> u.trash \ {k},
               stuck |-> u.stuck, cache |-> Carry(Reopened(c, r), Up[r.path], 0, r.disk)]
    <3> DEFINE t == CHOOSE x \in m.got : TRUE
    <3>1. t = k
      BY <1>5
    <3>2. new = [alive |-> u.alive \cup t.held \cup Above[r.path], trash |-> u.trash \ {t},
                 stuck |-> u.stuck, cache |-> Carry(Reopened(c, r), Up[r.path], 0, r.disk)]
      BY <1>3 DEF PutBack, Reopened
    <3> HIDE DEF t, new, r, c
    <3> QED
      BY <3>1, <3>2
  <2> QED
    BY <1>1, <2>1
<1>7. Above[p] \subseteq A \cup H
  <2>1. Above[p] = {p} \cup Above[Up[p]]
    BY <1>2, UpAbove
  <2>2. Above[Up[p]] \subseteq A
    BY <1>3, ClosedAbove
  <2> QED
    BY <1>1, <2>1, <2>2
<1> HIDE DEF new
<1>8. new.alive = A \cup H
  BY <1>6, <1>7
<1>9. Closed(A \cup H)
  <2>1. Below(p) \subseteq Paths
    BY <1>2, BelowPaths
  <2> QED
    BY <1>0, <1>1, <1>3, <2>1 DEF Closed
<1>10. ASSUME NEW e \in DOMAIN c
       PROVE  /\ moved[e].partial = c[e].partial
              /\ Tells(c[e], e, A) => Tells(moved[e], e, A \cup H)
  <2> DEFINE back == Reopened(c, r)
  <2> HIDE DEF r, c, W, H, A
  <2>0. e \in Paths \ Below(p)
    BY <1>0, <1>3, <1>10, TreeAssumption DEF Caches
  <2>1. /\ Caches(back) /\ DOMAIN back = DOMAIN c
        /\ back[e].disk = c[e].disk /\ back[e].partial = c[e].partial
        /\ p \notin {x.path : x \in Listed(c[e])} =>
             Listed(back[e]) = Listed(c[e]) \cup (IF e = Up[p] THEN {r} ELSE {})
    BY <1>0, <1>10, ReopenedListed
  <2>2. moved = Carry(back, Up[p], 0, W)
    OBVIOUS
  <2> HIDE DEF p, moved, back
  <2>3. moved[e] = back[e] \/ moved[e].partial = back[e].partial
    BY <1>10, <2>1, <2>2, CarriedView
  <2>4. ASSUME Tells(c[e], e, A) PROVE Tells(moved[e], e, A \cup H)
    <3>1. p \notin {x.path : x \in Listed(c[e])}
      BY <1>3, <2>4 DEF Tells, RowsIn, Row, In
    <3>2. Listed(back[e]) = RowsIn(e, A) \cup (IF e = Up[p] THEN {Row(p, W)} ELSE {})
      BY <1>2, <2>1, <2>4, <3>1 DEF Tells
    <3>3. back[e].disk = SizeIn(e, A)
      BY <2>1, <2>4 DEF Tells
    <3>4. W = Weight(H)
      BY DEF W
    <3>5. Listed(back[e]) = RowsIn(e, A) \cup (IF e = Up[p] THEN {Row(p, Weight(H))} ELSE {})
      BY <3>2, <3>4
    <3>6. Tells(Carry(back, Up[p], 0, Weight(H))[e], e, A \cup H)
      BY <1>4, <1>10, <2>0, <2>1, <3>3, <3>5, CarryUp
    <3> QED
      BY <2>2, <3>4, <3>6
  <2> QED
    BY <2>1, <2>3, <2>4
<1> HIDE DEF moved
<1> QED
  BY <1>6, <1>8, <1>9, <1>10 DEF new

(* What went, each with its subtree, from a disk that still has the parent *)
(* of each.                                                                *)
HeldIn(T) == UNION {t.held : t \in T}
Packed(s) == \A i \in DOMAIN s : Bundle(s[i])
Absent(T, A) == \A t \in T :
  /\ Up[t.path] \in A /\ Below(t.path) \cap A = {}
  /\ \A u \in T \ {t} : u.path \notin Below(t.path)

(* What two trashed rows held is apart.                                    *)
LEMMA HeldApart ==
  ASSUME NEW T, NEW A, Absent(T, A), NEW t \in T \cap Slips, NEW u \in T \cap Slips, t # u
  PROVE  Below(t.path) \cap Below(u.path) = {}
<1> SUFFICES ASSUME NEW x \in Below(t.path) \cap Below(u.path) PROVE FALSE
  OBVIOUS
<1>1. t.path \in Paths /\ u.path \in Paths
  BY DEF Slips
<1>2. t.path \in Below(u.path) \/ u.path \in Below(t.path)
  BY <1>1, Nested
<1> QED
  BY <1>2 DEF Absent

LEMMA ReturnAll ==
  ASSUME NEW u, Undoing(u), NEW s \in Seq(Went), Single(s), Packed(s), Closed(u.alive),
         Absent(Tickets(s), u.alive), DOMAIN u.cache \subseteq u.alive
  PROVE  /\ Returned(u, s).alive = u.alive \cup HeldIn(Tickets(s)) /\ Closed(Returned(u, s).alive)
         /\ \A e \in DOMAIN u.cache :
              /\ Returned(u, s).cache[e].partial = u.cache[e].partial
              /\ Tells(u.cache[e], e, u.alive) => Tells(Returned(u, s).cache[e], e, Returned(u, s).alive)
<1>1. PICK it : /\ it[0] = u /\ it[Len(s)] = Returned(u, s)
                /\ \A m \in 1..Len(s) : it[m] = PutBack(it[m - 1], s[m])
  BY ONLY s \in Seq(Went), StepFolds
<1>2. Len(s) \in Nat /\ DOMAIN s = 1..Len(s) /\ \A m \in 1..Len(s) : s[m] \in Went
  OBVIOUS
<1> DEFINE Put(m) == UNION {s[j].got : j \in 1..m}
           Good(m) ==
             /\ Undoing(it[m]) /\ Same(u.cache, it[m].cache)
             /\ it[m].alive = u.alive \cup HeldIn(Put(m)) /\ Closed(it[m].alive)
             /\ \A e \in DOMAIN u.cache :
                  /\ it[m].cache[e].partial = u.cache[e].partial
                  /\ Tells(u.cache[e], e, u.alive) => Tells(it[m].cache[e], e, it[m].alive)
           Fine == {m \in 0..Len(s) : Good(m)}
<1>3. 0 \in Fine
  <2>1. HeldIn(Put(0)) = {}
    BY DEF HeldIn
  <2> HIDE DEF Put
  <2> QED
    BY <1>1, <1>2, <2>1 DEF Same
<1>4. ASSUME NEW m \in 1..Len(s), m - 1 \in Fine PROVE m \in Fine
  <2> DEFINE w == it[m - 1]
             g == s[m]
  <2>1. /\ Undoing(w) /\ Same(u.cache, w.cache)
        /\ w.alive = u.alive \cup HeldIn(Put(m - 1)) /\ Closed(w.alive)
        /\ \A e \in DOMAIN u.cache :
             /\ w.cache[e].partial = u.cache[e].partial
             /\ Tells(u.cache[e], e, u.alive) => Tells(w.cache[e], e, w.alive)
    BY <1>4
  <2>2. g \in Went /\ it[m] = PutBack(w, g) /\ m \in DOMAIN s /\ m \in Nat
    BY <1>1, <1>2
  <2>3. PICK k \in g.got : TRUE
    BY <2>2 DEF Went
  <2>4. (\A a, b \in g.got : a = b) /\ Bundle(g) /\ k \in Tickets(s)
    BY <2>2, <2>3 DEF Single, Packed, Tickets
  <2>5. k \in Slips
    BY <2>2, <2>3, WentParts
  <2>6. Up[k.path] \in w.alive /\ Below(k.path) \cap u.alive = {}
    BY <2>1, <2>4 DEF Absent
  <2>7. Below(k.path) \cap HeldIn(Put(m - 1)) = {}
    <3> SUFFICES ASSUME NEW j \in 1..(m - 1), NEW t \in s[j].got PROVE Below(k.path) \cap t.held = {}
      BY DEF HeldIn
    <3>1. j \in DOMAIN s /\ j # m
      BY <1>2, <2>2
    <3>2. t # k
      BY <2>2, <2>3, <3>1 DEF Single
    <3>3. t \in Tickets(s) /\ t \in Slips /\ t.held \subseteq Below(t.path)
      BY <1>2, <3>1, WentParts DEF Tickets, Packed, Bundle
    <3>4. Below(t.path) \cap Below(k.path) = {}
      BY <2>4, <2>5, <3>2, <3>3, HeldApart
    <3> QED
      BY <3>3, <3>4
  <2>8. Below(k.path) \cap (w.alive \cup DOMAIN w.cache) = {}
    BY <2>1, <2>6, <2>7 DEF Same
  <2>9. Put(m) = Put(m - 1) \cup {k}
    <3>1. 1..m = 1..(m - 1) \cup {m}
      BY <2>2
    <3>2. g.got = {k}
      BY <2>3, <2>4
    <3> QED
      BY <3>1, <3>2
  <2> HIDE DEF Put
  <2>10. HeldIn(Put(m)) = HeldIn(Put(m - 1)) \cup k.held
    BY <2>9 DEF HeldIn
  <2> DEFINE z == PutBack(w, g)
  <2> HIDE DEF w, g
  <2>11. Undoing(z) /\ Onward(w, z)
    BY <2>1, <2>2, PutBackKeeps
  <2>12. /\ z.alive = w.alive \cup k.held /\ Closed(z.alive)
         /\ \A e \in DOMAIN w.cache :
              /\ z.cache[e].partial = w.cache[e].partial
              /\ Tells(w.cache[e], e, w.alive) => Tells(z.cache[e], e, z.alive)
    BY <2>1, <2>2, <2>3, <2>4, <2>6, <2>8, ReturnOne
  <2>13. it[m] = z
    BY <2>2
  <2> HIDE DEF z
  <2>14. Same(u.cache, z.cache)
    BY <2>1, <2>11 DEF Onward, Same
  <2>15. z.alive = u.alive \cup HeldIn(Put(m))
    BY <2>1, <2>10, <2>12
  <2>16. \A e \in DOMAIN u.cache :
           /\ z.cache[e].partial = u.cache[e].partial
           /\ Tells(u.cache[e], e, u.alive) => Tells(z.cache[e], e, z.alive)
    BY <2>1, <2>12 DEF Same
  <2>17. Good(m)
    BY <2>11, <2>12, <2>13, <2>14, <2>15, <2>16
  <2>18. m \in 0..Len(s)
    BY <1>2
  <2> HIDE DEF Good
  <2> QED
    BY <2>17, <2>18
<1>5. \A m \in 0..Len(s) : m \in Fine
  <2> HIDE DEF Fine
  <2> QED
    BY <1>2, <1>3, <1>4, Upward
<1>6. Good(Len(s))
  BY <1>2, <1>5
<1>7. Put(Len(s)) = Tickets(s)
  BY <1>2 DEF Tickets
<1> HIDE DEF Put
<1> QED
  BY <1>1, <1>6, <1>7

(* No row went, and none is away.                                          *)
LEMMA NoneIn == HeldIn({}) = {} /\ \A A : Absent({}, A)
BY DEF HeldIn, Absent

-----------------------------------------------------------------------------
(* The sizes, until a scan meets a change.                                 *)

Batched == Tickets(deleting.group) \cup Tickets(deleting.sent)
(* What the views tell of: what exists, and what was trashed and not heard *)
(* of.                                                                     *)
Seen == alive \cup HeldIn(Tickets(deleting.sent))
(* What existed when the undo step k was the last.                         *)
Later(k) == alive \cup HeldIn(Batched) \cup UNION {HeldIn(Tickets(undo[j])) : j \in (k + 1)..Len(undo)}

(* A view has its sizes but for a quick listing.                           *)
Sized(d) == cache[d].scanning => d \in DOMAIN jobs /\ jobs[d].refresh
JobRight(j, d) ==
  /\ d \in alive /\ j.at # "failed"
  /\ j.at = "new" => j.got = {}
  /\ j.at = "reading" => /\ j.todo \subseteq In(d, alive)
                         /\ j.got = {Row(p, SizeIn(p, alive)) : p \in In(d, alive) \ j.todo}
  /\ j.at = "whole" => j.got = RowsIn(d, alive)

JobsRight ==
  /\ deleting.on => DOMAIN jobs = {}
  /\ \A d \in DOMAIN jobs : JobRight(jobs[d], d)
ViewsRight == \A d \in DOMAIN cache :
  ~cache[d].partial /\ (Sized(d) => Tells(cache[d], d, Seen))
AllPacked ==
  Packed(deleting.group) /\ Packed(deleting.sent) /\ \A k \in DOMAIN undo : Packed(undo[k])
AllAbsent ==
  Absent(Batched, alive) /\ \A k \in DOMAIN undo : Absent(Tickets(undo[k]), Later(k))
(* The rows a delete has yet to trash have the sizes of the disk.          *)
TodoRight == deleting.on => \A i \in DOMAIN deleting.todo :
  /\ deleting.todo[i].path \in alive => deleting.todo[i].disk = SizeIn(deleting.todo[i].path, alive)
  /\ \A t \in Batched : t.path \notin Below(deleting.todo[i].path)
  /\ \A j \in DOMAIN deleting.todo : j # i => deleting.todo[j].path \notin Below(deleting.todo[i].path)

Sizes ==
  /\ events \in Nat /\ Closed(alive) /\ JobsRight /\ ViewsRight
  /\ AllPacked /\ AllAbsent /\ TodoRight
SizesInv == ~torn => Sizes

(* Steps that leave the disk, the undo list and the rows of the delete.    *)
LEMMA BehindStays ==
  ASSUME Sizes, UNCHANGED <<alive, undo>>, deleting'.on = deleting.on, deleting'.sent = deleting.sent,
         deleting'.group = deleting.group, deleting'.todo = deleting.todo
  PROVE  Closed(alive)' /\ AllPacked' /\ AllAbsent' /\ TodoRight' /\ Seen' = Seen
<1>1. Batched' = Batched /\ Seen' = Seen
  BY DEF Batched, Seen
<1>2. \A k : Later(k)' = Later(k)
  BY <1>1 DEF Later
<1>3. AllPacked' /\ Closed(alive)'
  BY DEF Sizes, AllPacked
<1>4. AllAbsent'
  BY <1>1, <1>2 DEF Sizes, AllAbsent
<1>5. TodoRight'
  BY <1>1 DEF Sizes, TodoRight
<1> QED
  BY <1>1, <1>3, <1>4, <1>5

LEMMA LightSizes ==
  ASSUME Sizes, UNCHANGED <<alive, jobs, cache, undo, events>>, deleting'.on = deleting.on,
         deleting'.sent = deleting.sent, deleting'.group = deleting.group, deleting'.todo = deleting.todo
  PROVE  Sizes'
<1>1. Closed(alive)' /\ AllPacked' /\ AllAbsent' /\ TodoRight' /\ Seen' = Seen
  BY BehindStays
<1>2. JobsRight'
  BY DEF Sizes, JobsRight, JobRight
<1>3. ViewsRight'
  BY <1>1 DEF Sizes, ViewsRight, Sized
<1> QED
  BY <1>1, <1>2, <1>3 DEF Sizes

(* A scan under way.                                                       *)
LEMMA ScanSizes ==
  ASSUME TypeInv, Sizes, NEW d \in DOMAIN jobs, ScanThread(d)
  PROVE  Sizes'
<1> DEFINE j == jobs[d]
           k == jobs'[d]
<1>1. UNCHANGED <<alive, undo, events, deleting, cache>>
  BY DEF ScanThread, ScanList, ScanRead, ScanEnd, disk, session, screen, bounds
<1>2. Closed(alive)' /\ AllPacked' /\ AllAbsent' /\ TodoRight' /\ Seen' = Seen
  BY <1>1, BehindStays
<1>3. JobRight(j, d) /\ j \in JobSet
  BY DEF Sizes, JobsRight, TypeInv, JobTypes
<1>4. /\ DOMAIN jobs' = DOMAIN jobs
      /\ \A e \in DOMAIN jobs : jobs'[e] = IF e = d THEN k ELSE jobs[e]
      /\ k.refresh = j.refresh /\ JobRight(k, d)
  <2> DEFINE at == IF d \in alive THEN "reading" ELSE "failed"
             todo == In(d, alive)
  <2>1. CASE ScanList(d)
    <3>1. jobs' = [jobs EXCEPT ![d].at = at, ![d].todo = todo] /\ j.at = "new"
      BY <2>1 DEF ScanList
    <3>2. at = "reading" /\ j.got = {}
      BY <1>3, <3>1 DEF JobRight
    <3> HIDE DEF at, todo
    <3>3. /\ DOMAIN jobs' = DOMAIN jobs
          /\ \A e \in DOMAIN jobs : e # d => jobs'[e] = jobs[e]
          /\ k = [j EXCEPT !.at = at, !.todo = todo]
      BY <3>1 DEF TypeInv, JobTypes
    <3> HIDE DEF j, k
    <3>4. k.at = "reading" /\ k.todo = todo /\ k.got = {} /\ k.refresh = j.refresh
      BY <1>3, <3>2, <3>3 DEF JobSet
    <3>5. JobRight(k, d)
      BY <1>3, <3>4 DEF JobRight, todo
    <3> QED
      BY <3>3, <3>4, <3>5 DEF k
  <2>2. CASE ScanRead(d)
    <3>1. PICK p \in j.todo :
            jobs' = [jobs EXCEPT ![d].todo = @ \ {p}, ![d].got = @ \cup {Row(q, Disk(q)) : q \in {p} \cap alive}]
      BY <2>2 DEF ScanRead
    <3> DEFINE more == {Row(q, Disk(q)) : q \in {p} \cap alive}
    <3>2. j.at = "reading"
      BY <2>2 DEF ScanRead
    <3>3. /\ j.todo \subseteq In(d, alive) /\ d \in alive
          /\ j.got = {Row(q, SizeIn(q, alive)) : q \in In(d, alive) \ j.todo}
      BY <1>3, <3>2 DEF JobRight
    <3>4. more = {Row(p, SizeIn(p, alive))}
      BY <3>3 DEF Disk, SizeIn, In
    <3> HIDE DEF more
    <3>5. /\ DOMAIN jobs' = DOMAIN jobs
          /\ \A e \in DOMAIN jobs : e # d => jobs'[e] = jobs[e]
          /\ k = [j EXCEPT !.todo = @ \ {p}, !.got = @ \cup more]
      BY <3>1 DEF TypeInv, JobTypes, more
    <3> HIDE DEF j, k
    <3>6. k.at = "reading" /\ k.todo = j.todo \ {p} /\ k.got = j.got \cup more /\ k.refresh = j.refresh
      BY <1>3, <3>2, <3>5 DEF JobSet
    <3>7. In(d, alive) \ k.todo = (In(d, alive) \ j.todo) \cup {p}
      BY <3>1, <3>3, <3>6
    <3>8. k.got = {Row(q, SizeIn(q, alive)) : q \in In(d, alive) \ k.todo}
      BY <3>3, <3>4, <3>6, <3>7
    <3>9. JobRight(k, d)
      BY <3>3, <3>6, <3>8 DEF JobRight
    <3> QED
      BY <3>5, <3>6, <3>9, SMTT(60) DEF k
  <2>3. CASE ScanEnd(d) /\ j.todo = {} /\ jobs' = [jobs EXCEPT ![d].at = "whole"]
    <3>1. j.at = "reading" /\ j.todo = {}
      BY <2>3 DEF ScanEnd
    <3>2. d \in alive /\ j.got = RowsIn(d, alive)
      BY <1>3, <3>1 DEF JobRight, RowsIn
    <3>3. /\ DOMAIN jobs' = DOMAIN jobs
          /\ \A e \in DOMAIN jobs : e # d => jobs'[e] = jobs[e]
          /\ k = [j EXCEPT !.at = "whole"]
      BY <2>3 DEF TypeInv, JobTypes
    <3> HIDE DEF j, k
    <3>4. k.at = "whole" /\ k.got = j.got /\ k.refresh = j.refresh
      BY <1>3, <3>3 DEF JobSet
    <3>5. JobRight(k, d)
      BY <3>2, <3>4 DEF JobRight
    <3> QED
      BY <3>3, <3>4, <3>5 DEF k
  <2>4. CASE ScanEnd(d) /\ ~(j.todo = {} /\ jobs' = [jobs EXCEPT ![d].at = "whole"])
    <3>1. PICK begun \in SUBSET (j.todo \cap Dirs) :
            jobs' = [jobs EXCEPT ![d].at = "partial", ![d].todo = {},
                                 ![d].got = @ \cup {Row(q, Own[q]) : q \in begun}]
      BY <2>4 DEF ScanEnd
    <3> DEFINE more == {Row(q, Own[q]) : q \in begun}
    <3>2. d \in alive
      BY <1>3 DEF JobRight
    <3> HIDE DEF more
    <3>3. /\ DOMAIN jobs' = DOMAIN jobs
          /\ \A e \in DOMAIN jobs : e # d => jobs'[e] = jobs[e]
          /\ k = [j EXCEPT !.at = "partial", !.todo = {}, !.got = @ \cup more]
      BY <3>1 DEF TypeInv, JobTypes, more
    <3> HIDE DEF j, k
    <3>4. k.at = "partial" /\ k.refresh = j.refresh
      BY <1>3, <3>3 DEF JobSet
    <3>5. JobRight(k, d)
      BY <3>2, <3>4 DEF JobRight
    <3> QED
      BY <3>3, <3>4, <3>5 DEF k
  <2> QED
    BY <2>1, <2>2, <2>3, <2>4 DEF ScanThread
<1> HIDE DEF j, k
<1>5. ~deleting.on
  BY DEF Sizes, JobsRight
<1>6. JobsRight'
  <2>1. ASSUME NEW e \in DOMAIN jobs' PROVE JobRight(jobs'[e], e)
    <3>1. CASE e = d
      BY <1>4, <3>1
    <3>2. CASE e # d
      BY <1>4, <3>2 DEF Sizes, JobsRight
    <3> QED
      BY <3>1, <3>2
  <2>2. \A e \in DOMAIN jobs' : JobRight(jobs[e], e)'
    BY <1>1, <2>1 DEF JobRight
  <2> QED
    BY <1>1, <1>5, <2>2 DEF JobsRight
<1>7. ViewsRight'
  <2>1. \A e \in DOMAIN cache : Sized(e)' => Sized(e)
    BY <1>1, <1>4 DEF Sized, j
  <2> QED
    BY <1>1, <1>2, <2>1 DEF Sizes, ViewsRight
<1> QED
  BY <1>1, <1>2, <1>6, <1>7 DEF Sizes

(* Views that change their rows' order, or none of their sizes.            *)
LEMMA RefilterTells ==
  ASSUME NEW c, Caches(c), cur \in DOMAIN c, NEW h, Refilter(c, h), NEW e \in DOMAIN c
  PROVE  /\ cache'[e].partial = c[e].partial /\ cache'[e].scanning = c[e].scanning /\ DOMAIN cache' = DOMAIN c
         /\ \A A : Tells(c[e], e, A) => Tells(cache'[e], e, A)
<1> DEFINE old == c[cur]
           new == IF h \/ old.stash # <<>> THEN Narrow(old, h) ELSE old
<1>1. cache' = [c EXCEPT ![cur] = new]
  BY DEF Refilter
<1>2. old \in Views
  BY DEF Caches
<1>3. /\ new.partial = old.partial /\ new.scanning = old.scanning
      /\ \A A : Tells(old, cur, A) => Tells(new, cur, A)
  BY <1>2, NarrowKeeps, NarrowListed, NarrowTells
<1> HIDE DEF new
<1>4. DOMAIN cache' = DOMAIN c /\ \A x \in DOMAIN c : cache'[x] = IF x = cur THEN new ELSE c[x]
  BY <1>1 DEF Caches
<1>5. CASE e = cur
  BY <1>3, <1>4, <1>5
<1>6. CASE e # cur
  BY <1>4, <1>6
<1> QED
  BY <1>5, <1>6

LEMMA LeaveSizes ==
  ASSUME TypeInv, Sizes, Leave
  PROVE  Sizes'
<1>1. UNCHANGED <<alive, undo, events, deleting, cache>> /\ jobs' = <<>>
  BY DEF Leave, disk, session, screen, bounds
<1>2. Closed(alive)' /\ AllPacked' /\ AllAbsent' /\ TodoRight' /\ Seen' = Seen
  BY <1>1, BehindStays
<1>3. DOMAIN jobs' = {}
  BY <1>1
<1>4. JobsRight'
  BY <1>3 DEF JobsRight
<1>5. ViewsRight'
  BY <1>1, <1>2, <1>3 DEF Sizes, ViewsRight, Sized
<1> QED
  BY <1>1, <1>2, <1>4, <1>5 DEF Sizes

LEMMA StopScanSizes ==
  ASSUME TypeInv, Sizes, StopScan
  PROVE  Sizes'
<1>1. UNCHANGED <<alive, undo, events, deleting, cache>> /\ jobs' = [jobs EXCEPT ![cur].stop = TRUE]
  BY DEF StopScan, disk, session, screen, bounds
<1>2. Closed(alive)' /\ AllPacked' /\ AllAbsent' /\ TodoRight' /\ Seen' = Seen
  BY <1>1, BehindStays
<1>3. /\ DOMAIN jobs' = DOMAIN jobs
      /\ \A d \in DOMAIN jobs : /\ jobs'[d].refresh = jobs[d].refresh /\ jobs'[d].at = jobs[d].at
                                /\ jobs'[d].todo = jobs[d].todo /\ jobs'[d].got = jobs[d].got
  <2>1. DOMAIN jobs' = DOMAIN jobs
    BY <1>1 DEF TypeInv, JobTypes
  <2>2. ASSUME NEW d \in DOMAIN jobs
        PROVE  /\ jobs'[d].refresh = jobs[d].refresh /\ jobs'[d].at = jobs[d].at
               /\ jobs'[d].todo = jobs[d].todo /\ jobs'[d].got = jobs[d].got
    <3> DEFINE j == jobs[d]
               k == jobs'[d]
    <3>1. j \in JobSet /\ (k = j \/ k = [j EXCEPT !.stop = TRUE])
      BY <1>1 DEF TypeInv, JobTypes
    <3> HIDE DEF j, k
    <3>2. k.refresh = j.refresh /\ k.at = j.at /\ k.todo = j.todo /\ k.got = j.got
      BY <3>1 DEF JobSet
    <3> QED
      BY <3>2 DEF j, k
  <2> QED
    BY <2>1, <2>2
<1>4. JobsRight'
  BY <1>1, <1>3 DEF Sizes, JobsRight, JobRight
<1>5. ViewsRight'
  BY <1>1, <1>2, <1>3 DEF Sizes, ViewsRight, Sized
<1> QED
  BY <1>1, <1>2, <1>4, <1>5 DEF Sizes

LEMMA DotsSizes ==
  ASSUME TypeInv, Sizes, ToggleDots
  PROVE  Sizes'
<1>1. UNCHANGED <<alive, undo, events, deleting, jobs>> /\ Refilter(cache, ~hide) /\ cur \in DOMAIN cache
  BY DEF ToggleDots, Browse, Key, Draws, disk, session, bounds
<1>2. Closed(alive)' /\ AllPacked' /\ AllAbsent' /\ TodoRight' /\ Seen' = Seen
  BY <1>1, BehindStays
<1>3. JobsRight'
  BY <1>1 DEF Sizes, JobsRight, JobRight
<1>4. Caches(cache)
  BY DEF TypeInv, ScreenTypes
<1>5. ASSUME NEW d \in DOMAIN cache
      PROVE  /\ cache'[d].partial = cache[d].partial /\ cache'[d].scanning = cache[d].scanning
             /\ DOMAIN cache' = DOMAIN cache
             /\ \A A : Tells(cache[d], d, A) => Tells(cache'[d], d, A)
  BY <1>1, <1>4, RefilterTells
<1>6. DOMAIN cache' = DOMAIN cache
  BY <1>1, <1>5
<1>7. ViewsRight'
  <2>1. ASSUME NEW d \in DOMAIN cache' PROVE ~cache'[d].partial /\ (Sized(d)' => Tells(cache'[d], d, Seen))
    BY <1>1, <1>5, <1>6 DEF Sizes, ViewsRight, Sized
  <2> QED
    BY <1>2, <2>1 DEF ViewsRight
<1> QED
  BY <1>1, <1>2, <1>3, <1>7 DEF Sizes

LEMMA RefreshSizes ==
  ASSUME ScanInv, DeleteInv, GhostInv, Untold = {}, Sizes, Refresh
  PROVE  Sizes'
<1>1. /\ UNCHANGED <<alive, undo, deleting>> /\ ~deleting.on /\ cur \in DOMAIN cache /\ cur \notin DOMAIN jobs
      /\ cache' = [cache EXCEPT ![cur].scanning = TRUE] /\ Spawn(cur, ~cache[cur].partial) /\ Running
  BY DEF Refresh, Browse, Key, Draws, disk, session
<1>2. Closed(alive)' /\ AllPacked' /\ AllAbsent' /\ TodoRight' /\ Seen' = Seen
  BY <1>1, BehindStays
<1>3. Caches(cache) /\ ~cache[cur].scanning /\ ~cache[cur].partial
  BY <1>1 DEF ScanInv, Waits, TypeInv, ScreenTypes, Sizes, ViewsRight, Caches, Views
<1>4. Tells(cache[cur], cur, Seen)
  BY <1>1, <1>3 DEF Sizes, ViewsRight, Sized
<1>5. cur \in alive
  <2>1. Unheard(<<>>) = {}
    BY DEF Unheard
  <2> QED
    BY <1>1, <2>1 DEF GhostInv, DeleteInv
<1>6. /\ DOMAIN cache' = DOMAIN cache
      /\ \A d \in DOMAIN cache : d # cur => cache'[d] = cache[d]
      /\ cache'[cur].partial = cache[cur].partial /\ cache'[cur].scanning = TRUE
      /\ cache'[cur].disk = cache[cur].disk /\ Listed(cache'[cur]) = Listed(cache[cur])
  <2> DEFINE v == cache[cur]
             w == cache'[cur]
  <2>1. /\ DOMAIN cache' = DOMAIN cache /\ \A d \in DOMAIN cache : d # cur => cache'[d] = cache[d]
        /\ w = [v EXCEPT !.scanning = TRUE] /\ v \in Views
    BY <1>1, <1>3 DEF Caches
  <2> HIDE DEF v, w
  <2>2. w.partial = v.partial /\ w.scanning = TRUE /\ w.disk = v.disk /\ w.rows = v.rows /\ w.stash = v.stash
    BY <2>1 DEF Views
  <2> QED
    BY <2>1, <2>2 DEF Listed, v, w
<1>7. /\ DOMAIN jobs' = DOMAIN jobs \cup {cur}
      /\ \A d \in DOMAIN jobs : jobs'[d] = jobs[d]
      /\ jobs'[cur] = NewJob(TRUE) /\ events' = events + 1
  BY <1>1, <1>3 DEF Spawn, With
<1>8. JobsRight'
  <2>1. JobRight(jobs'[cur], cur)
    BY <1>5, <1>7 DEF JobRight, NewJob
  <2>2. \A d \in DOMAIN jobs' : JobRight(jobs'[d], d)
    BY <1>7, <2>1 DEF Sizes, JobsRight
  <2>3. \A d \in DOMAIN jobs' : JobRight(jobs[d], d)'
    BY <1>1, <2>2 DEF JobRight
  <2> QED
    BY <1>1, <2>3 DEF JobsRight
<1>9. ViewsRight'
  <2>1. ASSUME NEW d \in DOMAIN cache' PROVE ~cache'[d].partial /\ (Sized(d)' => Tells(cache'[d], d, Seen))
    <3>1. CASE d = cur
      BY <1>3, <1>4, <1>6, <3>1 DEF Tells
    <3>2. CASE d # cur
      BY <1>6, <1>7, <3>2 DEF Sizes, ViewsRight, Sized
    <3> QED
      BY <3>1, <3>2
  <2> QED
    BY <1>2, <2>1 DEF ViewsRight
<1>10. events' \in Nat
  BY <1>7 DEF Sizes
<1> QED
  BY <1>2, <1>8, <1>9, <1>10 DEF Sizes

LEMMA QuickUnsized ==
  ASSUME NEW d
  PROVE  QuickView(d).scanning = TRUE /\ QuickView(d).partial = FALSE
BY DEF QuickView

LEMMA GoSizes ==
  ASSUME TypeInv, Sizes, NEW d \in Dirs, NEW on, Go(d, on), ~Tears
  PROVE  Sizes'
<1> DEFINE new == d \notin DOMAIN cache
           open == IF new THEN With(cache, d, QuickView(d)) ELSE cache
           v == IF hide \/ open[d].stash # <<>> THEN Narrow(open[d], hide) ELSE open[d]
<1>1. /\ new => d \in alive
      /\ cache' = With(open, d, v)
      /\ IF new THEN Spawn(d, FALSE) ELSE jobs' = jobs /\ events' = events
      /\ UNCHANGED <<alive, undo, deleting>>
  BY DEF Go, disk, session
<1>2. Closed(alive)' /\ AllPacked' /\ AllAbsent' /\ TodoRight' /\ Seen' = Seen
  BY <1>1, BehindStays
<1>3. Caches(cache) /\ alive \subseteq Paths
  BY DEF TypeInv, ScreenTypes, DiskTypes
<1>4. /\ open[d] \in Views /\ open[d].partial = (IF new THEN FALSE ELSE cache[d].partial)
      /\ open[d].scanning = (IF new THEN TRUE ELSE cache[d].scanning)
      /\ ~new => open[d] = cache[d]
      /\ \A e \in DOMAIN cache : open[e] = cache[e]
      /\ DOMAIN open = DOMAIN cache \cup {d}
  <2>1. CASE new
    <3>1. open = With(cache, d, QuickView(d))
      BY <2>1
    <3> HIDE DEF open
    <3>2. DOMAIN open = DOMAIN cache \cup {d} /\ open[d] = QuickView(d) /\ \A e \in DOMAIN cache : open[e] = cache[e]
      BY <2>1, <3>1 DEF With
    <3>3. QuickView(d) \in Views
      BY <1>3, QuickViewIn
    <3> QED
      BY <2>1, <3>2, <3>3, QuickUnsized
  <2>2. CASE ~new
    BY <1>3, <2>2 DEF Caches
  <2> QED
    BY <2>1, <2>2
<1> HIDE DEF open
<1>5. /\ v.partial = open[d].partial /\ v.scanning = open[d].scanning
      /\ \A A : Tells(open[d], d, A) => Tells(v, d, A)
  BY <1>4, NarrowKeeps, NarrowListed, NarrowTells
<1> HIDE DEF v
<1>6. /\ DOMAIN cache' = DOMAIN cache \cup {d} /\ cache'[d] = v
      /\ \A e \in DOMAIN cache : e # d => cache'[e] = cache[e]
  BY <1>1, <1>4 DEF With
<1>7. /\ new => /\ DOMAIN jobs' = DOMAIN jobs \cup {d} /\ jobs'[d] = NewJob(FALSE) /\ events' = events + 1
                /\ \A e \in DOMAIN jobs : e # d => jobs'[e] = jobs[e]
      /\ ~new => jobs' = jobs /\ events' = events
  BY <1>1 DEF Spawn, With
<1>8. JobsRight'
  <2>1. CASE ~new
    BY <1>1, <1>7, <2>1 DEF Sizes, JobsRight, JobRight
  <2>2. CASE new
    <3>1. JobRight(jobs'[d], d)
      BY <1>1, <1>7, <2>2 DEF JobRight, NewJob
    <3>2. \A e \in DOMAIN jobs' : JobRight(jobs'[e], e)
      BY <1>7, <2>2, <3>1 DEF Sizes, JobsRight
    <3>3. \A e \in DOMAIN jobs' : JobRight(jobs[e], e)'
      BY <1>1, <3>2 DEF JobRight
    <3>4. ~deleting'.on
      BY <1>7, <2>2 DEF Tears
    <3> QED
      BY <3>3, <3>4 DEF JobsRight
  <2> QED
    BY <2>1, <2>2
<1>9. ViewsRight'
  <2>1. ASSUME NEW e \in DOMAIN cache' PROVE ~cache'[e].partial /\ (Sized(e)' => Tells(cache'[e], e, Seen))
    <3>1. CASE e # d
      BY <1>6, <1>7, <3>1 DEF Sizes, ViewsRight, Sized
    <3>2. CASE e = d /\ ~new
      BY <1>4, <1>5, <1>6, <1>7, <3>2 DEF Sizes, ViewsRight, Sized
    <3>3. CASE e = d /\ new
      <4>1. jobs'[d].refresh = FALSE
        BY <1>7, <3>3 DEF NewJob
      <4> QED
        BY <1>4, <1>5, <1>6, <3>3, <4>1 DEF Sized
    <3> QED
      BY <3>1, <3>2, <3>3
  <2> QED
    BY <1>2, <2>1 DEF ViewsRight
<1>10. events' \in Nat
  <2>1. events \in Nat /\ (events' = events \/ events' = events + 1)
    BY <1>7 DEF Sizes
  <2> QED
    BY <2>1
<1> QED
  BY <1>2, <1>8, <1>9, <1>10 DEF Sizes

LEMMA MeddleTears ==
  ASSUME Sizes, Meddle
  PROVE  Tears
<1>1. events' = events + 1 /\ jobs' = jobs
  BY DEF Meddle
<1>2. events' # events
  BY <1>1 DEF Sizes
<1> QED
  BY <1>1, <1>2 DEF Tears

(* A scan that met no change hands over what the disk holds.               *)
LEMMA LandedTells ==
  ASSUME TypeInv, NEW d \in DOMAIN jobs, Closed(alive), JobRight(jobs[d], d), jobs[d].at = "whole"
  PROVE  Tells(Landed(d), d, alive) /\ Landed(d).partial = FALSE
<1> DEFINE got == jobs[d].got
           v == ScanView(d, got, FALSE)
<1>1. got = RowsIn(d, alive) /\ d \in alive /\ got \in SUBSET Rows /\ IsFiniteSet(got)
  BY DEF JobRight, TypeInv, JobTypes, JobSet
<1>2. Landed(d) = [v EXCEPT !.rows = Sorted(got)]
  BY DEF Landed
<1>3. v = [rows |-> Sorted(got), stash |-> <<>>, disk |-> Own[d] + SumRows(got),
           scanning |-> FALSE, partial |-> FALSE]
  BY DEF ScanView
<1> HIDE DEF v
<1>4. Landed(d) = v
  BY <1>2, <1>3
<1>5. Own[d] + SumRows(got) = SizeIn(d, alive)
  BY <1>1, DirSize
<1>6. ToSet(Sorted(got)) = got
  BY <1>1, SortedSet
<1>7. ToSet(<<>>) = {}
  BY DEF ToSet
<1> HIDE DEF got
<1>8. v.disk = Own[d] + SumRows(got) /\ v.rows = Sorted(got) /\ v.stash = <<>> /\ v.partial = FALSE
  BY <1>3
<1>9. Listed(v) = RowsIn(d, alive)
  BY <1>1, <1>6, <1>7, <1>8 DEF Listed
<1> QED
  BY <1>4, <1>5, <1>8, <1>9 DEF Tells

LEMMA TakeViewTells ==
  ASSUME TypeInv, NEW d \in DOMAIN jobs, jobs[d].refresh \/ d = cur => d \in DOMAIN cache, TakeView(d),
         NEW A, A \subseteq Paths, d \in A, Tells(Landed(d), d, A), Landed(d).partial = FALSE,
         jobs[d].refresh => cache[d].disk = SizeIn(d, A), NEW e \in DOMAIN cache'
  PROVE  /\ e = d => Tells(cache'[e], e, A) /\ ~cache'[e].partial
         /\ e # d => /\ e \in DOMAIN cache /\ cache'[e].partial = cache[e].partial
                     /\ cache'[e].scanning = cache[e].scanning
                     /\ Tells(cache[e], e, A) => Tells(cache'[e], e, A)
<1> DEFINE fresh == Landed(d)
           put == IF jobs[d].refresh THEN ApplyFresh(cache, d, fresh) ELSE With(cache, d, fresh)
           new == IF d = cur /\ hide THEN With(put, d, Narrow(fresh, hide)) ELSE put
<1>0. d \in Dirs /\ Caches(cache)
  BY DEF TypeInv, JobTypes, ScreenTypes
<1>1. fresh \in Views
  BY LandedIn
<1>2. cache' = new
  BY DEF TakeView
<1>3. Tells(fresh, d, A) /\ fresh.partial = FALSE
  OBVIOUS
<1> HIDE DEF fresh
<1>4. ASSUME NEW x \in DOMAIN put
      PROVE  /\ x = d => Tells(put[x], x, A) /\ put[x].partial = FALSE
             /\ x # d => /\ x \in DOMAIN cache /\ put[x].partial = cache[x].partial
                         /\ put[x].scanning = cache[x].scanning
                         /\ Tells(cache[x], x, A) => Tells(put[x], x, A)
  <2>1. CASE jobs[d].refresh
    <3>1. put = ApplyFresh(cache, d, fresh) /\ d \in DOMAIN cache /\ cache[d].disk = SizeIn(d, A)
      BY <2>1
    <3> HIDE DEF put
    <3>2. x \in DOMAIN ApplyFresh(cache, d, fresh)
      BY <1>4, <3>1
    <3>3. /\ x = d => Tells(ApplyFresh(cache, d, fresh)[x], x, A) /\ ApplyFresh(cache, d, fresh)[x].partial = fresh.partial
          /\ x # d => /\ x \in DOMAIN cache /\ ApplyFresh(cache, d, fresh)[x].partial = cache[x].partial
                      /\ Tells(cache[x], x, A) => Tells(ApplyFresh(cache, d, fresh)[x], x, A)
      BY <1>0, <1>1, <1>3, <3>1, <3>2, FreshTells
    <3>4. \A y \in DOMAIN ApplyFresh(cache, d, fresh) :
            ApplyFresh(cache, d, fresh)[y].scanning = IF y = d THEN fresh.scanning ELSE cache[y].scanning
      BY <1>0, <1>1, <3>1, FreshKeeps
    <3>5. x # d => put[x].scanning = cache[x].scanning
      BY <3>1, <3>2, <3>4
    <3> QED
      BY <1>3, <3>1, <3>3, <3>5
  <2>2. CASE ~jobs[d].refresh
    <3>1. put = With(cache, d, fresh)
      BY <2>2
    <3> HIDE DEF put
    <3> QED
      BY <1>3, <1>4, <3>1 DEF With
  <2> QED
    BY <2>1, <2>2
<1>5. d \in DOMAIN put
  <2>1. CASE jobs[d].refresh
    BY <1>0, <1>1, <2>1, FreshKeeps
  <2>2. CASE ~jobs[d].refresh
    BY <2>2 DEF With
  <2> QED
    BY <2>1, <2>2
<1> HIDE DEF put
<1>6. CASE d = cur /\ hide
  <2> DEFINE n == Narrow(fresh, hide)
  <2>1. Tells(n, d, A) /\ n.partial = FALSE
    BY <1>1, <1>3, NarrowTells, NarrowListed
  <2>2. cache' = With(put, d, n)
    BY <1>2, <1>6
  <2> HIDE DEF n
  <2>3. e \in DOMAIN put /\ cache'[e] = IF e = d THEN n ELSE put[e]
    BY <1>5, <2>2 DEF With
  <2> QED
    BY <1>4, <2>1, <2>3
<1>7. CASE ~(d = cur /\ hide)
  <2>1. cache' = put
    BY <1>2, <1>7
  <2> QED
    BY <1>4, <2>1
<1> QED
  BY <1>6, <1>7

LEMMA JobKept ==
  ASSUME UNCHANGED alive, NEW e, JobRight(jobs'[e], e)
  PROVE  JobRight(jobs[e], e)'
BY DEF JobRight

LEMMA TakeJobSizes ==
  ASSUME TypeInv, DeleteInv, Sizes, NEW d \in DOMAIN jobs, TakeJob(d), ~Tears
  PROVE  Sizes'
<1>1. UNCHANGED <<alive, undo, events, deleting>> /\ jobs' = Without(jobs, {d})
  BY DEF TakeJob, disk, session, bounds
<1>2. Closed(alive)' /\ AllPacked' /\ AllAbsent' /\ TodoRight' /\ Seen' = Seen
  BY <1>1, BehindStays
<1>3. DOMAIN jobs' = DOMAIN jobs \ {d} /\ \A e \in DOMAIN jobs' : jobs'[e] = jobs[e]
  BY <1>1 DEF Without
<1>4. JobRight(jobs[d], d) /\ ~deleting.on /\ Closed(alive)
  BY DEF Sizes, JobsRight
<1>5. jobs[d].at = "whole"
  BY <1>3, <1>4 DEF Tears, TakeJob, JobRight
<1>6. Seen = alive /\ alive \subseteq Paths /\ d \in alive
  <2>1. deleting.sent = <<>>
    BY <1>4 DEF DeleteInv
  <2> QED
    BY <1>4, <2>1, NoRows, NoneIn DEF Seen, JobRight, TypeInv, DiskTypes
<1>7. JobsRight'
  <2>1. \A e \in DOMAIN jobs' : JobRight(jobs'[e], e)
    BY <1>3 DEF Sizes, JobsRight
  <2>2. \A e \in DOMAIN jobs' : JobRight(jobs[e], e)'
    BY <1>1, <2>1, JobKept
  <2> QED
    BY <1>1, <1>4, <2>2 DEF JobsRight
<1>8. CASE d \notin DOMAIN cache /\ (jobs[d].refresh \/ d = cur)
  <2>1. cache' = cache
    BY <1>5, <1>6, <1>8 DEF TakeJob
  <2>2. ViewsRight'
    <3>1. \A e \in DOMAIN cache : Sized(e)' => Sized(e)
      BY <1>3, <2>1 DEF Sized
    <3> QED
      BY <1>2, <2>1, <3>1 DEF Sizes, ViewsRight
  <2> QED
    BY <1>1, <1>2, <1>7, <2>2 DEF Sizes
<1>9. CASE ~(d \notin DOMAIN cache /\ (jobs[d].refresh \/ d = cur))
  <2>1. TakeView(d)
    BY <1>5, <1>6, <1>9 DEF TakeJob
  <2>2. Tells(Landed(d), d, alive) /\ Landed(d).partial = FALSE
    BY <1>4, <1>5, LandedTells
  <2>3. jobs[d].refresh => cache[d].disk = SizeIn(d, alive)
    BY <1>6, <1>9 DEF Sizes, ViewsRight, Sized, Tells
  <2>5. ASSUME NEW e \in DOMAIN cache'
        PROVE  /\ e = d => Tells(cache'[e], e, alive) /\ ~cache'[e].partial
               /\ e # d => /\ e \in DOMAIN cache /\ cache'[e].partial = cache[e].partial
                           /\ cache'[e].scanning = cache[e].scanning
                           /\ Tells(cache[e], e, alive) => Tells(cache'[e], e, alive)
    BY <1>6, <1>9, <2>1, <2>2, <2>3, TakeViewTells
  <2>6. ViewsRight'
    <3>1. ASSUME NEW e \in DOMAIN cache' PROVE ~cache'[e].partial /\ (Sized(e)' => Tells(cache'[e], e, Seen))
      <4>1. CASE e = d
        BY <1>6, <2>5, <4>1
      <4>2. CASE e # d
        <5>1. Sized(e)' => Sized(e)
          BY <1>3, <2>5, <4>2 DEF Sized
        <5> QED
          BY <1>6, <2>5, <4>2, <5>1 DEF Sizes, ViewsRight
      <4> QED
        BY <4>1, <4>2
    <3> QED
      BY <1>2, <3>1 DEF ViewsRight
  <2> QED
    BY <1>1, <1>2, <1>7, <2>6 DEF Sizes
<1> QED
  BY <1>8, <1>9

(* What a delete is told to trash.                                         *)
LEMMA TargetSizes ==
  ASSUME TypeInv, cur \in DOMAIN cache, \A d \in DOMAIN cache : Tells(cache[d], d, alive),
         \A r \in Targets : Up[r.path] \in DOMAIN cache \/ r.disk = SizeIn(r.path, alive)
  PROVE  /\ \A r \in Targets : r.path \in alive => r.disk = SizeIn(r.path, alive)
         /\ \A a, b \in Targets : b.path \in Below(a.path) => a.path = b.path
<1> DEFINE rows == cache[cur].rows
           here == (IF sel = {} /\ away = {} THEN {cursor} ELSE sel) \cap DOMAIN rows
           all == {r.path : r \in away} \cup {rows[i].path : i \in here}
           first(p) == Min({i \in here : rows[i].path = p})
           row(p) == IF \E r \in away : r.path = p THEN Current(CHOOSE r \in away : r.path = p)
                     ELSE rows[first(p)]
           kept == {q \in all : \A x \in all : q \in Below(x) => q = x}
<1>1. rows \in Seq(Rows) /\ away \in SUBSET Rows
  BY ViewParts DEF TypeInv, ScreenTypes, Caches
<1>2. here \in SUBSET DOMAIN rows /\ here \in SUBSET Nat
  BY <1>1
<1>3. Targets = {row(p) : p \in kept}
  BY DEF Targets
<1>4. \A i \in DOMAIN rows : rows[i].disk = SizeIn(rows[i].path, alive)
  <2>1. \A i \in DOMAIN rows : rows[i] \in Listed(cache[cur])
    BY DEF Listed, ToSet
  <2>2. Listed(cache[cur]) = RowsIn(cur, alive)
    BY DEF Tells
  <2> HIDE DEF rows
  <2> QED
    BY <2>1, <2>2 DEF RowsIn, Row
<1> HIDE DEF rows, here
<1>5. ASSUME NEW p \in all
      PROVE  /\ row(p).path = p
             /\ (Up[p] \in DOMAIN cache \/ row(p).disk = SizeIn(p, alive)) /\ p \in alive
                  => row(p).disk = SizeIn(p, alive)
  <2>1. CASE \E r \in away : r.path = p
    <3> DEFINE r == CHOOSE r \in away : r.path = p
    <3>1. r \in away /\ r.path = p
      BY <2>1
    <3>2. row(p) = Current(r)
      BY <2>1
    <3> HIDE DEF r
    <3>3. r \in Rows /\ row(p).path = p
      BY <1>1, <3>1, <3>2, CurrentRow
    <3>4. ASSUME Up[p] \in DOMAIN cache, p \in alive PROVE row(p).disk = SizeIn(p, alive)
      <4> DEFINE d == Up[p]
                 v == cache[d]
                 list == v.rows \o v.stash
      <4>1. v.rows \in Seq(Rows) /\ v.stash \in Seq(Rows)
        BY <3>4, ViewParts DEF TypeInv, ScreenTypes, Caches
      <4>2. Listed(v) = RowsIn(d, alive)
        BY <3>4 DEF Tells
      <4>3. Current(r) = IF r.path \in PathsOf(list) THEN list[IndexOf(list, r.path)] ELSE r
        BY <3>1, <3>4 DEF Current
      <4> HIDE DEF v
      <4>4. ToSet(list) = Listed(v) /\ list \in Seq(Rows)
        BY <4>1, ConcatSet DEF Listed
      <4> HIDE DEF list, d
      <4>5. p \in In(d, alive)
        BY <3>1, <3>3, <3>4, RowParts DEF In, d
      <4>6. p \in PathsOf(list)
        <5> DEFINE y == Row(p, SizeIn(p, alive))
        <5>1. y \in RowsIn(d, alive) /\ y.path = p
          BY <4>5 DEF RowsIn, Row
        <5>2. y \in ToSet(list)
          BY <4>2, <4>4, <5>1
        <5> HIDE DEF y
        <5> QED
          BY <5>1, <5>2 DEF PathsOf
      <4> DEFINE x == list[IndexOf(list, p)]
      <4>7. x \in ToSet(list) /\ x.path = p
        BY <4>4, <4>6, IndexIn DEF ToSet
      <4>8. row(p) = x
        BY <3>1, <3>2, <4>3, <4>6
      <4> HIDE DEF x, row
      <4> QED
        BY <4>2, <4>4, <4>7, <4>8 DEF RowsIn, Row
    <3> HIDE DEF row
    <3> QED
      BY <3>3, <3>4
  <2>2. CASE ~ \E r \in away : r.path = p
    <3> DEFINE I == {i \in here : rows[i].path = p}
    <3>1. I # {} /\ I \in SUBSET Nat
      BY <1>2, <2>2
    <3>2. \E i \in I : \A j \in I : i <= j
      BY <3>1, Least
    <3>3. Min(I) \in I
      BY <3>2 DEF Min
    <3>4. row(p) = rows[Min(I)]
      BY <2>2
    <3> HIDE DEF row
    <3> QED
      BY <1>2, <1>4, <3>3, <3>4
  <2> QED
    BY <2>1, <2>2
<1> HIDE DEF row, all
<1>6. ASSUME NEW r \in Targets PROVE r.path \in kept /\ (r.path \in alive => r.disk = SizeIn(r.path, alive))
  <2>1. PICK p \in kept : r = row(p)
    BY <1>3
  <2>2. p \in all
    OBVIOUS
  <2>3. r.path = p
    BY <1>5, <2>1, <2>2
  <2> QED
    BY <1>5, <2>1, <2>2, <2>3
<1>7. \A q \in kept : \A x \in all : q \in Below(x) => q = x
  OBVIOUS
<1>8. kept \subseteq all
  OBVIOUS
<1> HIDE DEF kept
<1> QED
  BY <1>6, <1>7, <1>8

LEMMA PutBySame ==
  ASSUME Sizes, UNCHANGED <<alive, undo>>, deleting'.sent = deleting.sent, deleting'.group = deleting.group
  PROVE  Closed(alive)' /\ AllPacked' /\ AllAbsent' /\ Seen' = Seen /\ Batched' = Batched
<1>1. Batched' = Batched /\ Seen' = Seen
  BY DEF Batched, Seen
<1>2. \A k : Later(k)' = Later(k)
  BY <1>1 DEF Later
<1>3. AllPacked' /\ Closed(alive)'
  BY DEF Sizes, AllPacked
<1>4. AllAbsent'
  BY <1>1, <1>2 DEF Sizes, AllAbsent
<1> QED
  BY <1>1, <1>3, <1>4

LEMMA YesSizes ==
  ASSUME ScanInv, DeleteInv, Sizes, Yes, ~Tears
  PROVE  Sizes'
<1>0. TypeInv
  BY DEF ScanInv
<1>1. /\ UNCHANGED <<alive, undo, jobs, cache, events>> /\ ~deleting.on /\ cur \in DOMAIN cache /\ Running
  BY DEF Yes, Key, Draws, disk, session
<1>2. deleting'.on = TRUE /\ deleting'.todo = Batch /\ deleting'.sent = <<>> /\ deleting'.group = <<>>
  BY <1>0, DeleteStarts
<1>3. deleting.sent = <<>> /\ deleting.group = <<>>
  BY <1>1 DEF DeleteInv
<1>4. Closed(alive)' /\ AllPacked' /\ AllAbsent' /\ Seen' = Seen /\ Batched' = Batched
  BY <1>1, <1>2, <1>3, PutBySame
<1>5. Batched = {} /\ Seen = alive
  BY <1>3, NoRows, NoneIn DEF Batched, Seen
<1>6. DOMAIN jobs = {}
  BY <1>1, <1>2 DEF Tears
<1>7. JobsRight'
  BY <1>1, <1>6 DEF JobsRight
<1>8. ViewsRight'
  BY <1>1, <1>4 DEF Sizes, ViewsRight, Sized
<1>9. \A d \in DOMAIN cache : Tells(cache[d], d, alive)
  BY <1>1, <1>5, <1>6 DEF Sizes, ViewsRight, Sized, ScanInv, Waits
<1>10. \A r \in Targets : Up[r.path] \in DOMAIN cache \/ r.disk = SizeIn(r.path, alive)
  BY <1>1, <1>2 DEF Tears, Disk, SizeIn
<1>11. /\ \A r \in Targets : r.path \in alive => r.disk = SizeIn(r.path, alive)
       /\ \A a, b \in Targets : b.path \in Below(a.path) => a.path = b.path
  BY <1>0, <1>1, <1>9, <1>10, TargetSizes
<1>12. /\ Batch \in Seq(Targets)
       /\ \A i, j \in DOMAIN Batch : i # j => Batch[i].path # Batch[j].path
  <2> DEFINE S == Targets
  <2>1. /\ S \in SUBSET Rows /\ IsFiniteSet(S) /\ \A a, b \in S : a.path = b.path => a = b
    BY <1>0, <1>1, TargetRows
  <2>2. \A r \in S : r.path \in Nat
    BY <2>1, RowParts
  <2> HIDE DEF S
  <2>3. ByPath(S) \in Seq(S) /\ \A i, j \in DOMAIN ByPath(S) : i # j => ByPath(S)[i].path # ByPath(S)[j].path
    BY <2>1, <2>2, PathOrder
  <2>4. Batch = ByPath(S)
    BY DEF Batch, ByPath, S
  <2> QED
    BY <2>3, <2>4 DEF S
<1>13. TodoRight'
  <2> DEFINE s == Batch
             T == Targets
             A == alive
  <2>1. /\ \A i \in DOMAIN s : s[i] \in T
        /\ \A i, j \in DOMAIN s : i # j => s[i].path # s[j].path
    BY <1>12
  <2>2. /\ \A r \in T : r.path \in A => r.disk = SizeIn(r.path, A)
        /\ \A a, b \in T : b.path \in Below(a.path) => a.path = b.path
    BY <1>11
  <2> HIDE DEF s, T, A
  <2>3. \A i \in DOMAIN s :
          /\ s[i].path \in A => s[i].disk = SizeIn(s[i].path, A)
          /\ \A j \in DOMAIN s : j # i => s[j].path \notin Below(s[i].path)
    BY <2>1, <2>2
  <2>4. deleting'.todo = s /\ alive' = A /\ Batched' = {}
    BY <1>1, <1>2, <1>4, <1>5 DEF s, A
  <2> QED
    BY <2>3, <2>4 DEF TodoRight
<1>14. events' \in Nat
  BY <1>1 DEF Sizes
<1> QED
  BY <1>4, <1>7, <1>8, <1>13, <1>14 DEF Sizes

(* A row that went is taken off the views.                                 *)
LEMMA TakeRowSizes ==
  ASSUME TypeInv, DeleteInv, TicketInv, Sizes, TakeRow
  PROVE  Sizes'
<1> DEFINE S == deleting.sent
           G == deleting.group
           m == Head(S)
           T == Tail(S)
           H == IF m.got # {} THEN Append(G, m) ELSE G
<1>1. /\ UNCHANGED <<alive, undo, jobs, events>> /\ S # <<>> /\ deleting.on
      /\ m.got # {} => cache' = DropRow(cache, m.row)
      /\ m.got = {} => cache' = cache
  BY DEF TakeRow, disk, session, bounds
<1>2. S \in Seq(Sents) /\ G \in Seq(Went)
  BY DeletingParts DEF TypeInv, DeleteTypes
<1>3. m \in Sents /\ deleting'.on = deleting.on /\ deleting'.todo = deleting.todo /\ deleting'.sent = T /\ deleting'.group = H
  BY RowTaken
<1>4. Single(S) /\ Tickets(G) \cap Tickets(S) = {} /\ Batched = Tickets(G) \cup Tickets(S)
  BY DEF TicketInv, Books, Batched
<1>5. Packed(G) /\ Packed(S) /\ Absent(Batched, alive) /\ \A k \in DOMAIN undo : Packed(undo[k])
  BY DEF Sizes, AllPacked, AllAbsent
<1> HIDE DEF S, G
<1>6. /\ Tickets(S) = m.got \cup Tickets(T) /\ m.got \cap Tickets(T) = {}
      /\ \A a, b \in m.got : a = b
  BY <1>1, <1>2, <1>4, TailTicket
<1>7. Bundle(m) /\ Packed(T) /\ DOMAIN T \subseteq Nat
  <2>1. m = S[1] /\ 1 \in DOMAIN S
    BY <1>1, <1>2
  <2>2. \A i \in DOMAIN T : i + 1 \in DOMAIN S /\ T[i] = S[i + 1] /\ i \in Nat
    BY <1>1, <1>2
  <2> QED
    BY <1>5, <2>1, <2>2 DEF Packed
<1> HIDE DEF m, T
<1>8. Tickets(H) = Tickets(G) \cup m.got /\ Packed(H)
  <2>1. CASE m.got = {}
    BY <1>5, <2>1
  <2>2. CASE m.got # {}
    <3>1. H = Append(G, m) /\ Went \subseteq Sents
      BY <2>2 DEF Went
    <3> HIDE DEF H
    <3>2. G \in Seq(Sents)
      BY <1>2, <3>1, SeqMonotonic
    <3>3. Tickets(Append(G, m)) = Tickets(G) \cup m.got
      BY <1>3, <3>2, AppendTicket
    <3>4. \A i \in DOMAIN H : (i \in DOMAIN G /\ H[i] = G[i]) \/ H[i] = m
      BY <1>2, <3>1
    <3> QED
      BY <1>5, <1>7, <3>1, <3>3, <3>4 DEF Packed
  <2> QED
    BY <2>1, <2>2
<1> HIDE DEF H
<1>9. Batched' = Batched
  BY <1>3, <1>4, <1>6, <1>8 DEF Batched
<1>10. Closed(alive)' /\ AllPacked'
  BY <1>1, <1>3, <1>5, <1>7, <1>8 DEF Sizes, AllPacked
<1>11. AllAbsent'
  <2>1. \A k : Later(k)' = Later(k)
    BY <1>1, <1>9 DEF Later
  <2> QED
    BY <1>1, <1>9, <2>1 DEF Sizes, AllAbsent
<1>12. TodoRight'
  BY <1>1, <1>3, <1>9 DEF Sizes, TodoRight
<1>13. JobsRight'
  BY <1>1, <1>3 DEF Sizes, JobsRight, JobRight
<1>14. Seen' = alive \cup HeldIn(Tickets(T)) /\ Seen = alive \cup HeldIn(Tickets(S))
  BY <1>1, <1>3 DEF Seen, S
<1>15. CASE m.got = {}
  <2>1. Seen' = Seen
    BY <1>6, <1>14, <1>15
  <2>2. ViewsRight'
    BY <1>1, <1>15, <2>1 DEF Sizes, ViewsRight, Sized
  <2> QED
    BY <1>1, <1>10, <1>11, <1>12, <1>13, <2>2 DEF Sizes
<1>16. CASE m.got # {}
  <2> DEFINE r == m.row
             p == r.path
             A == Seen'
  <2>1. PICK k \in m.got : TRUE
    BY <1>16
  <2>2. m.got = {k}
    BY <1>6, <2>1
  <2>3. r \in Rows /\ k \in Slips /\ \A t \in Tickets(T) : t \in Slips
    <3>1. r \in Rows /\ m.got \in SUBSET Slips
      BY <1>3 DEF Sents
    <3>2. ASSUME NEW t \in Tickets(S) PROVE t \in Slips
      <4>1. PICK i \in DOMAIN S : t \in S[i].got
        BY DEF Tickets
      <4>2. S[i] \in Sents
        BY <1>2, <4>1
      <4> QED
        BY <4>1, <4>2 DEF Sents
    <3> QED
      BY <1>6, <2>1, <3>1, <3>2
  <2>4. /\ k.path = p /\ p \in k.held /\ k.held \subseteq Below(p) /\ r.disk = Weight(k.held)
    BY <1>7, <2>1 DEF Bundle
  <2>5. Seen = A \cup k.held
    BY <1>6, <1>14, <2>2 DEF HeldIn
  <2>6. Below(p) \cap A = {}
    <3>1. k \in Batched /\ Below(p) \cap alive = {}
      BY <1>4, <1>5, <1>6, <2>1, <2>4 DEF Absent
    <3>2. ASSUME NEW t \in Tickets(T) PROVE Below(p) \cap t.held = {}
      <4>1. t \in Batched /\ t # k /\ t \in Slips
        BY <1>4, <1>6, <2>1, <2>3
      <4>2. t.held \subseteq Below(t.path)
        <5>1. PICK i \in DOMAIN T : t \in T[i].got
          BY DEF Tickets
        <5> QED
          BY <1>7, <5>1 DEF Packed, Bundle
      <4>3. Below(k.path) \cap Below(t.path) = {}
        BY <1>5, <2>3, <3>1, <4>1, HeldApart
      <4> QED
        BY <2>4, <4>2, <4>3
    <3> QED
      BY <1>14, <3>1, <3>2 DEF HeldIn
  <2>7. A \subseteq Paths
    BY <1>14, <2>3 DEF HeldIn, Slips, TypeInv, DiskTypes
  <2>8. Moves(p, k.held, A)
    BY <2>3, <2>4, <2>6, <2>7, RowParts DEF Moves
  <2>9. Caches(cache) /\ cache' = DropRow(cache, r)
    BY <1>1, <1>16 DEF TypeInv, ScreenTypes
  <2>10. /\ DOMAIN cache' = DOMAIN cache \ Below(p)
         /\ \A e \in DOMAIN cache' : cache'[e].scanning = cache[e].scanning
    BY <2>3, <2>9, DropKeeps
  <2>11. ASSUME NEW e \in DOMAIN cache'
         PROVE  /\ cache'[e].partial = cache[e].partial
                /\ Tells(cache[e], e, Seen) => Tells(cache'[e], e, A)
    <3>1. e \in DOMAIN cache \ Below(r.path)
      BY <2>10
    <3> HIDE DEF r, A
    <3>2. /\ DropRow(cache, r)[e].partial = cache[e].partial
          /\ \A X, B : Moves(r.path, X, B) /\ r.disk = Weight(X) /\ Tells(cache[e], e, B \cup X)
                         => Tells(DropRow(cache, r)[e], e, B)
      BY <2>3, <2>9, <3>1, DropTells
    <3>3. Moves(r.path, k.held, A) /\ r.disk = Weight(k.held) /\ Tells(cache[e], e, A \cup k.held)
            => Tells(DropRow(cache, r)[e], e, A)
      BY <3>2
    <3> QED
      BY <2>4, <2>5, <2>8, <2>9, <3>2, <3>3
  <2>12. ViewsRight'
    <3> HIDE DEF A
    <3>1. ASSUME NEW e \in DOMAIN cache' PROVE ~cache'[e].partial /\ (Sized(e)' => Tells(cache'[e], e, A))
      <4>1. Sized(e)' => Sized(e)
        BY <1>1, <2>10 DEF Sized
      <4> QED
        BY <2>10, <2>11, <4>1 DEF Sizes, ViewsRight
    <3> QED
      BY <3>1 DEF ViewsRight, A
  <2> QED
    BY <1>1, <1>10, <1>11, <1>12, <1>13, <2>12 DEF Sizes
<1> QED
  BY <1>15, <1>16

(* Later(k), of any list of undo steps.                                    *)
After(A, steps, k) == A \cup UNION {HeldIn(Tickets(steps[j])) : j \in (k + 1)..Len(steps)}

LEMMA AfterNow == \A k : Later(k) = After(alive \cup HeldIn(Batched), undo, k)
BY DEF Later, After

LEMMA AfterStep ==
  ASSUME NEW W, NEW U \in Seq(W), NEW G \in W, NEW A
  PROVE  /\ \A k \in DOMAIN U : After(A, Append(U, G), k) = After(A \cup HeldIn(Tickets(G)), U, k)
         /\ After(A, Append(U, G), Len(U) + 1) = A
<1> SUFFICES ASSUME NEW k \in DOMAIN U \cup {Len(U) + 1}
             PROVE  /\ k \in DOMAIN U => After(A, Append(U, G), k) = After(A \cup HeldIn(Tickets(G)), U, k)
                    /\ k = Len(U) + 1 => After(A, Append(U, G), k) = A
  OBVIOUS
<1> DEFINE V == Append(U, G)
           n == Len(U)
           f(S) == HeldIn(Tickets(S))
<1>1. /\ n \in Nat /\ Len(V) = n + 1 /\ V[n + 1] = G /\ \A j \in 1..n : V[j] = U[j]
      /\ k \in Nat /\ k <= n + 1 /\ 1 <= k /\ (k \in DOMAIN U => k <= n)
  OBVIOUS
<1> HIDE DEF V, n
<1>2. /\ \A j \in (k + 1)..(n + 1) : j = n + 1 \/ j \in (k + 1)..n
      /\ \A j \in (k + 1)..n : j \in (k + 1)..(n + 1) /\ V[j] = U[j]
      /\ k \in DOMAIN U => n + 1 \in (k + 1)..(n + 1)
      /\ k = n + 1 => (k + 1)..(n + 1) = {}
  BY <1>1
<1> HIDE DEF f
<1>3. ASSUME k \in DOMAIN U
      PROVE  UNION {f(V[j]) : j \in (k + 1)..(n + 1)} = f(G) \cup UNION {f(U[j]) : j \in (k + 1)..n}
  <2>1. ASSUME NEW x, x \in UNION {f(V[j]) : j \in (k + 1)..(n + 1)}
        PROVE  x \in f(G) \cup UNION {f(U[j]) : j \in (k + 1)..n}
    <3>1. PICK j \in (k + 1)..(n + 1) : x \in f(V[j])
      BY <2>1
    <3> QED
      BY <1>1, <1>2, <3>1
  <2>2. ASSUME NEW x, x \in f(G) \cup UNION {f(U[j]) : j \in (k + 1)..n}
        PROVE  x \in UNION {f(V[j]) : j \in (k + 1)..(n + 1)}
    <3>1. CASE x \in f(G)
      BY <1>1, <1>2, <1>3, <3>1
    <3>2. CASE x \notin f(G)
      <4>1. PICK j \in (k + 1)..n : x \in f(U[j])
        BY <2>2, <3>2
      <4> QED
        BY <1>2, <4>1
    <3> QED
      BY <3>1, <3>2
  <2> QED
    BY <2>1, <2>2
<1>4. k = n + 1 => UNION {f(V[j]) : j \in (k + 1)..(n + 1)} = {}
  BY <1>2
<1>5. After(A, V, k) = A \cup UNION {f(V[j]) : j \in (k + 1)..(n + 1)}
  BY <1>1 DEF After, f
<1>6. After(A \cup f(G), U, k) = A \cup f(G) \cup UNION {f(U[j]) : j \in (k + 1)..n}
  BY DEF After, f, n
<1> QED
  BY <1>3, <1>4, <1>5, <1>6 DEF f, V, n

(* The end of a delete: what it trashed becomes the last undo step.        *)
LEMMA FinishSizes ==
  ASSUME TypeInv, DeleteInv, Sizes, Finish
  PROVE  Sizes'
<1> DEFINE G == deleting.group
           U == undo
           W == Seq(Went)
<1>1. /\ UNCHANGED <<alive, jobs, cache, events>> /\ deleting.sent = <<>>
      /\ deleting'.on = FALSE /\ deleting'.sent = <<>> /\ deleting'.group = <<>>
      /\ U' = IF G = <<>> THEN U ELSE Append(U, G)
  BY DEF Finish, Idle, disk, screen, bounds
<1>2. G \in W /\ U \in Seq(W)
  BY DeletingParts DEF TypeInv, DeleteTypes
<1>3. Batched = Tickets(G) /\ Batched' = {} /\ Seen' = Seen
  BY <1>1, NoRows DEF Batched, Seen
<1>4. TodoRight' /\ JobsRight' /\ events' \in Nat /\ Closed(alive)'
  BY <1>1 DEF TodoRight, Sizes, JobsRight, JobRight
<1>5. ViewsRight'
  BY <1>1, <1>3 DEF Sizes, ViewsRight, Sized
<1>6. /\ Packed(G) /\ \A k \in DOMAIN U : Packed(U[k]) /\ Absent(Tickets(U[k]), Later(k))
      /\ Absent(Tickets(G), alive)
  BY <1>3 DEF Sizes, AllPacked, AllAbsent
<1>7. Packed(<<>>) /\ Absent({}, alive)
  BY NoneIn DEF Packed
<1> HIDE DEF W
<1>8. CASE G = <<>>
  <2>1. deleting'.sent = deleting.sent /\ deleting'.group = deleting.group /\ undo' = undo
    BY <1>1, <1>8
  <2>2. AllPacked' /\ AllAbsent'
    BY <1>1, <2>1, PutBySame
  <2> QED
    BY <1>4, <1>5, <2>2 DEF Sizes
<1>9. CASE G # <<>>
  <2>1. U' = Append(U, G)
    BY <1>1, <1>9
  <2>2. /\ DOMAIN U' = 1..(Len(U) + 1) /\ Len(U) \in Nat /\ DOMAIN U = 1..Len(U) /\ Len(U') = Len(U) + 1
        /\ U'[Len(U) + 1] = G /\ \A k \in 1..Len(U) : U'[k] = U[k]
    BY <1>2, <2>1
  <2>3. \A k \in DOMAIN U' : k = Len(U) + 1 \/ k \in DOMAIN U
    BY <2>2
  <2>4. (\A k \in DOMAIN U : Later(k)' = Later(k)) /\ (\A k : k = Len(U) + 1 => Later(k)' = alive)
    <3> DEFINE A == alive
               B == alive \cup HeldIn(Tickets(G))
               V == U'
    <3>1. \A k : Later(k) = After(B, U, k)
      BY <1>3, AfterNow
    <3>2. \A k : Later(k)' = After(A, V, k)
      <4>1. \A k : Later(k)' = After(alive' \cup HeldIn({}), undo', k)
        BY <1>3 DEF Later, After
      <4> QED
        BY <1>1, <4>1, NoneIn
    <3>3. /\ \A k \in DOMAIN U : After(A, V, k) = After(B, U, k)
          /\ After(A, V, Len(U) + 1) = A
      <4>1. G \in W /\ U \in Seq(W) /\ V = Append(U, G) /\ B = A \cup HeldIn(Tickets(G))
        BY <1>2, <2>1
      <4> HIDE DEF G, U, V, A, B
      <4> QED
        BY <4>1, AfterStep
    <3> QED
      BY <3>1, <3>2, <3>3
  <2>6. ASSUME NEW k \in DOMAIN U' PROVE Packed(U'[k]) /\ Absent(Tickets(U'[k]), Later(k)')
    <3>1. CASE k = Len(U) + 1
      BY <1>6, <2>2, <2>4, <3>1
    <3>2. CASE k \in DOMAIN U
      <4>1. U'[k] = U[k]
        BY ONLY <2>2, <3>2
      <4>2. Packed(U[k]) /\ Absent(Tickets(U[k]), Later(k))
        BY <1>6, <3>2
      <4>3. Later(k)' = Later(k)
        BY <2>4, <3>2
      <4> QED
        BY <4>1, <4>2, <4>3
    <3> QED
      BY <2>3, <3>1, <3>2
  <2>7. AllPacked' /\ AllAbsent'
    BY <1>1, <1>3, <1>7, <2>6 DEF AllPacked, AllAbsent
  <2> QED
    BY <1>4, <1>5, <2>7 DEF Sizes
<1> QED
  BY <1>8, <1>9

(* A row that went to the trash.                                           *)
LEMMA BelowUp ==
  ASSUME NEW p \in Paths, NEW q \in Paths \ {Root}
  PROVE  /\ Up[q] \in Below(p) => q \in Below(p)
         /\ q \in Below(p) => q = p \/ Up[q] \in Below(p)
BY UpAbove, BelowIs

LEMMA TrashedAbsent ==
  ASSUME NEW A, Closed(A), NEW p \in A \ {Root}, NEW T \in SUBSET Slips, Absent(T, A), Root \in A,
         \A t \in T : t.path \notin Below(p), NEW k \in Slips, k.path = p
  PROVE  Absent(T \cup {k}, A \ Below(p)) /\ Closed(A \ Below(p))
<1>1. p \in Paths \ {Root} /\ Up[p] \in A /\ Up[p] \notin Below(p) /\ A \subseteq Paths
  BY UpAbove, BelowIs DEF Closed
<1>2. Closed(A \ Below(p))
  <2>1. ASSUME NEW q \in A \ Below(p), q # Root PROVE Up[q] \in A \ Below(p)
    BY <1>1, <2>1, BelowUp DEF Closed
  <2> QED
    BY <1>1, <2>1 DEF Closed
<1>3. ASSUME NEW t \in T \cup {k}
      PROVE  /\ Up[t.path] \in A \ Below(p) /\ Below(t.path) \cap (A \ Below(p)) = {}
             /\ \A u \in (T \cup {k}) \ {t} : u.path \notin Below(t.path)
  <2>1. CASE t = k
    BY <1>1, <2>1
  <2>2. CASE t \in T /\ t # k
    <3>1. t.path \in Paths /\ Up[t.path] \in A /\ Below(t.path) \cap A = {}
          /\ \A u \in T \ {t} : u.path \notin Below(t.path)
      BY <2>2 DEF Slips, Absent
    <3>2. t.path \in Below(t.path)
      BY <3>1, BelowPaths
    <3>3. t.path # Root
      BY <3>1, <3>2
    <3>4. Up[t.path] \notin Below(p)
      BY <1>1, <2>2, <3>1, <3>3, BelowUp
    <3>5. k.path \notin Below(t.path)
      BY <3>1
    <3> QED
      BY <3>1, <3>4, <3>5
  <2> QED
    BY <2>1, <2>2
<1> QED
  BY <1>2, <1>3 DEF Absent

LEMMA TrashedBundle ==
  ASSUME NEW A, Closed(A), NEW r \in Rows, NEW k \in Slips, r.path \in A,
         k.path = r.path, k.held = Below(r.path) \cap A, r.disk = SizeIn(r.path, A)
  PROVE  Bundle([row |-> r, got |-> {k}])
<1> DEFINE p == r.path
<1>1. p \in Paths \ {Root} /\ p \in Below(p) /\ A \subseteq Paths
  BY RowParts, BelowPaths DEF Closed
<1>2. ASSUME NEW q \in k.held, q # p PROVE Up[q] \in k.held
  <2>1. q \in Below(p) /\ q \in A /\ q \in Paths
    BY <1>1
  <2>2. q # Root
    <3>1. Above[Root] = {Root}
      BY AboveDef, TreeAssumption
    <3> QED
      BY <1>1, <2>1, <3>1, BelowIs
  <2>3. Up[q] \in Below(p) /\ Up[q] \in A
    BY <1>1, <1>2, <2>1, <2>2, BelowUp DEF Closed
  <2> QED
    BY <2>3
<1>3. r.disk = Weight(k.held) /\ p \in k.held
  BY <1>1 DEF SizeIn
<1> QED
  BY <1>2, <1>3 DEF Bundle

(* The rows a delete has yet to trash.                                     *)
TodoIn(s, T, A) == \A i \in DOMAIN s :
  /\ s[i].path \in A => s[i].disk = SizeIn(s[i].path, A)
  /\ \A t \in T : t.path \notin Below(s[i].path)
  /\ \A j \in DOMAIN s : j # i => s[j].path \notin Below(s[i].path)

LEMMA TodoTail ==
  ASSUME NEW s \in Seq(Rows), s # <<>>, NEW T, NEW A, TodoIn(s, T, A)
  PROVE  /\ Head(s) \in Rows /\ (Head(s).path \in A => Head(s).disk = SizeIn(Head(s).path, A))
         /\ \A t \in T : t.path \notin Below(Head(s).path)
         /\ TodoIn(Tail(s), T, A)
         /\ \A k : k.path = Head(s).path => TodoIn(Tail(s), T \cup {k}, A \ Below(Head(s).path))
<1> DEFINE r == Head(s)
           z == Tail(s)
           p == r.path
<1>1. /\ 1 \in DOMAIN s /\ r = s[1] /\ \A i \in DOMAIN s : s[i] \in Rows
      /\ \A i \in DOMAIN z : i + 1 \in DOMAIN s /\ z[i] = s[i + 1] /\ i + 1 # 1 /\ i \in Nat
  OBVIOUS
<1> HIDE DEF r, z
<1>2. /\ r \in Rows /\ (p \in A => r.disk = SizeIn(p, A)) /\ \A t \in T : t.path \notin Below(p)
  BY <1>1 DEF TodoIn
<1>3. ASSUME NEW i \in DOMAIN z
      PROVE  /\ z[i] \in Rows
             /\ z[i].path \in A => z[i].disk = SizeIn(z[i].path, A)
             /\ \A t \in T : t.path \notin Below(z[i].path)
             /\ \A j \in DOMAIN z : j # i => z[j].path \notin Below(z[i].path)
             /\ p \notin Below(z[i].path) /\ z[i].path \notin Below(p)
  <2>1. i + 1 \in DOMAIN s /\ z[i] = s[i + 1] /\ i + 1 # 1
    BY <1>1
  <2>2. /\ z[i].path \in A => z[i].disk = SizeIn(z[i].path, A)
        /\ \A t \in T : t.path \notin Below(z[i].path)
        /\ p \notin Below(z[i].path) /\ z[i].path \notin Below(p)
    BY <1>1, <2>1 DEF TodoIn
  <2>3. ASSUME NEW j \in DOMAIN z, j # i PROVE z[j].path \notin Below(z[i].path)
    <3>1. j + 1 \in DOMAIN s /\ z[j] = s[j + 1] /\ j + 1 # i + 1
      BY <1>1, <2>3
    <3> QED
      BY <2>1, <3>1 DEF TodoIn
  <2> QED
    BY <1>1, <2>1, <2>2, <2>3
<1>4. TodoIn(z, T, A)
  BY <1>3 DEF TodoIn
<1>5. ASSUME NEW k, k.path = p PROVE TodoIn(z, T \cup {k}, A \ Below(p))
  <2>1. ASSUME NEW i \in DOMAIN z, z[i].path \in A PROVE z[i].disk = SizeIn(z[i].path, A \ Below(p))
    <3>1. z[i].path \in Paths /\ p \in Paths
      <4>1. z[i] \in Rows
        BY <1>1
      <4> QED
        BY <1>2, <4>1, RowParts
    <3>2. Below(z[i].path) \cap Below(p) = {}
      BY <1>3, <3>1, Nested
    <3>3. Below(z[i].path) \cap (A \ Below(p)) = Below(z[i].path) \cap A
      BY <3>2
    <3> QED
      BY <1>3, <2>1, <3>3 DEF SizeIn
  <2> QED
    BY <1>3, <1>5, <2>1 DEF TodoIn
<1> QED
  BY <1>2, <1>4, <1>5 DEF r, z

LEMMA BatchSlips ==
  ASSUME TypeInv
  PROVE  Batched \in SUBSET Slips /\ deleting.sent \in Seq(Sents) /\ deleting.group \in Seq(Went)
<1>1. deleting.sent \in Seq(Sents) /\ deleting.group \in Seq(Went)
  BY DeletingParts DEF TypeInv, DeleteTypes
<1>2. ASSUME NEW t \in Batched PROVE t \in Slips
  <2>1. PICK s \in {deleting.sent, deleting.group} : t \in Tickets(s)
    BY DEF Batched
  <2>2. PICK i \in DOMAIN s : t \in s[i].got
    BY <2>1 DEF Tickets
  <2>3. s[i] \in Sents
    BY <1>1, <2>2 DEF Went
  <2> QED
    BY <2>2, <2>3 DEF Sents
<1> QED
  BY <1>1, <1>2

(* The row in hand, sent with a ticket or without.                         *)
LEMMA SentSizes ==
  ASSUME TypeInv, Sizes, deleting.on, NEW m \in Sents, \A a, b \in m.got : a = b, Bundle(m),
         UNCHANGED <<jobs, cache, undo, events>>,
         deleting'.on = deleting.on, deleting'.group = deleting.group,
         deleting'.sent = Append(deleting.sent, m),
         Closed(alive'), alive' \cup HeldIn(m.got) = alive,
         Absent(Batched \cup m.got, alive'),
         TodoIn(deleting'.todo, Batched \cup m.got, alive')
  PROVE  Sizes'
<1> DEFINE S == deleting.sent
           G == deleting.group
<1>1. S \in Seq(Sents)
  BY BatchSlips
<1> HIDE DEF S
<1>2. Tickets(Append(S, m)) = Tickets(S) \cup m.got
  BY <1>1, AppendTicket
<1>3. Batched' = Batched \cup m.got
  BY <1>2 DEF Batched, S
<1>4. /\ \A T : HeldIn(T \cup m.got) = HeldIn(T) \cup HeldIn(m.got)
  BY DEF HeldIn
<1>5. Seen' = Seen
  <2>1. Seen' = alive' \cup HeldIn(Tickets(S) \cup m.got)
    BY <1>2 DEF Seen, S
  <2>2. Seen = alive \cup HeldIn(Tickets(S))
    BY DEF Seen, S
  <2>3. HeldIn(Tickets(S) \cup m.got) = HeldIn(Tickets(S)) \cup HeldIn(m.got)
    BY <1>4
  <2> QED
    BY <2>1, <2>2, <2>3
<1>6. \A k : Later(k)' = Later(k)
  <2>1. alive' \cup HeldIn(Batched') = alive \cup HeldIn(Batched)
    <3>1. HeldIn(Batched \cup m.got) = HeldIn(Batched) \cup HeldIn(m.got)
      BY <1>4
    <3> QED
      BY <1>3, <3>1
  <2> QED
    BY <2>1 DEF Later
<1>7. Packed(Append(S, m))
  <2>1. Packed(S)
    BY DEF Sizes, AllPacked, S
  <2>2. \A i \in DOMAIN Append(S, m) : (i \in DOMAIN S /\ Append(S, m)[i] = S[i]) \/ Append(S, m)[i] = m
    BY <1>1
  <2> QED
    BY <2>1, <2>2 DEF Packed
<1>8. AllPacked'
  BY <1>7 DEF Sizes, AllPacked, S
<1>9. AllAbsent'
  BY <1>3, <1>6 DEF Sizes, AllAbsent
<1>10. TodoRight'
  BY <1>3 DEF TodoRight, TodoIn
<1>11. JobsRight'
  <2>1. DOMAIN jobs' = {}
    BY DEF Sizes, JobsRight
  <2> QED
    BY <2>1 DEF JobsRight
<1>12. ViewsRight'
  BY <1>5 DEF Sizes, ViewsRight, Sized
<1> QED
  BY <1>8, <1>9, <1>10, <1>11, <1>12 DEF Sizes

LEMMA DeleteRowSizes ==
  ASSUME TypeInv, DeleteInv, Sizes, DeleteRow, ~Tears, UNCHANGED <<jobs, cache, undo, events>>
  PROVE  Sizes'
<1> DEFINE s == deleting.todo
           r == Head(s)
           p == r.path
           B == Batched
<1>1. DeleteTypes /\ deleting.busy /\ deleting.on /\ Root \in alive /\ Closed(alive)
  BY DEF TypeInv, DiskTypes, DeleteRow, DeleteInv, Sizes
<1>2. s \in Seq(Rows) /\ s # <<>>
  BY <1>1, DeletingParts DEF DeleteTypes
<1>3. TodoIn(s, B, alive) /\ Absent(B, alive)
  BY <1>1 DEF Sizes, TodoRight, TodoIn, AllAbsent
<1>4. /\ r \in Rows /\ (p \in alive => r.disk = SizeIn(p, alive))
      /\ \A t \in B : t.path \notin Below(p)
      /\ TodoIn(Tail(s), B, alive)
      /\ \A k : k.path = p => TodoIn(Tail(s), B \cup {k}, alive \ Below(p))
  <2> HIDE DEF s, B
  <2> QED
    BY <1>2, <1>3, TodoTail
<1>5. B \in SUBSET Slips
  BY BatchSlips
<1>6. CASE p \in alive /\ alive' = alive \ Below(p) /\ Done(r, {Ticket(p)})
  <2> DEFINE k == Ticket(p)
             m == [row |-> r, got |-> {k}]
  <2>1. k \in Slips
    <3>1. trash \subseteq Slips /\ IsFiniteSet(trash) /\ alive \subseteq Paths
      BY DEF TypeInv, DiskTypes
    <3> QED
      BY <1>6, <3>1, FreeName
  <2>2. k.path = p /\ k.held = Below(p) \cap alive
    BY DEF Ticket
  <2> HIDE DEF k
  <2>3. m \in Sents /\ m.got = {k}
    BY <1>4, <2>1 DEF Sents
  <2>4. /\ deleting'.on = deleting.on /\ deleting'.group = deleting.group
        /\ deleting'.sent = Append(deleting.sent, m) /\ deleting'.todo = Tail(s)
    <3>1. {k} \in SUBSET Slips /\ Done(Head(deleting.todo), {k}) /\ UNCHANGED undo
      BY <1>6, <2>1 DEF k
    <3> DEFINE got == {k}
    <3> HIDE DEF got
    <3>2. deleting' = [on |-> deleting.on, ended |-> deleting.ended, busy |-> FALSE, stop |-> deleting.stop,
                       todo |-> Tail(deleting.todo),
                       sent |-> Append(deleting.sent, [row |-> Head(deleting.todo), got |-> got]),
                       pending |-> deleting.pending, group |-> deleting.group]
      BY <1>1, <3>1, DoneTypes DEF got
    <3> QED
      BY <3>2 DEF m, got
  <2>5. Bundle(m)
    BY <1>1, <1>4, <1>6, <2>1, <2>2, TrashedBundle
  <2>6. Absent(B \cup {k}, alive \ Below(p)) /\ Closed(alive \ Below(p))
    <3>1. p \in alive \ {Root}
      BY <1>4, <1>6, RowParts
    <3> QED
      BY <1>1, <1>3, <1>4, <1>5, <2>1, <2>2, <3>1, TrashedAbsent
  <2>7. TodoIn(Tail(s), B \cup {k}, alive \ Below(p))
    BY <1>4, <2>2
  <2>8. alive' \cup HeldIn({k}) = alive
    BY <1>6, <2>2 DEF HeldIn
  <2> HIDE DEF m
  <2> QED
    BY <1>1, <1>6, <2>3, <2>4, <2>5, <2>6, <2>7, <2>8, SentSizes
<1>7. CASE alive' = alive /\ Done(r, {})
  <2> DEFINE m == [row |-> r, got |-> {}]
  <2>1. m \in Sents /\ m.got = {} /\ Bundle(m)
    BY <1>4 DEF Sents, Bundle
  <2>2. /\ deleting'.on = deleting.on /\ deleting'.group = deleting.group
        /\ deleting'.sent = Append(deleting.sent, m) /\ deleting'.todo = Tail(s)
    <3>1. {} \in SUBSET Slips /\ Done(Head(deleting.todo), {}) /\ UNCHANGED undo
      BY <1>7
    <3> DEFINE got == {}
    <3> HIDE DEF got
    <3>2. deleting' = [on |-> deleting.on, ended |-> deleting.ended, busy |-> FALSE, stop |-> deleting.stop,
                       todo |-> Tail(deleting.todo),
                       sent |-> Append(deleting.sent, [row |-> Head(deleting.todo), got |-> got]),
                       pending |-> deleting.pending, group |-> deleting.group]
      BY <1>1, <3>1, DoneTypes DEF got
    <3> QED
      BY <3>2 DEF m, got
  <2> HIDE DEF m, s, B
  <2>3. B \cup m.got = B /\ alive' \cup HeldIn(m.got) = alive
    BY <1>7, <2>1, NoneIn
  <2> QED
    BY <1>1, <1>3, <1>4, <1>7, <2>1, <2>2, <2>3, SentSizes DEF B
<1>8. CASE alive' = alive /\ deleting' = [deleting EXCEPT !.busy = FALSE, !.ended = TRUE]
  <2>1. /\ deleting'.on = deleting.on /\ deleting'.todo = deleting.todo
        /\ deleting'.sent = deleting.sent /\ deleting'.group = deleting.group
    BY <1>1, <1>8, RowUndone
  <2> QED
    BY <1>8, <2>1, LightSizes
<1> QED
  <2>1. CASE RowFails(p) /\ (Done(r, {}) \/ deleting' = [deleting EXCEPT !.busy = FALSE, !.ended = TRUE])
    <3>0. trash' = trash
      BY <2>1, FailedRow
    <3>1. alive' = alive
      BY <3>0, Zenon DEF Tears
    <3> QED
      BY <1>7, <1>8, <2>1, <3>1
  <2> QED
    BY <1>6, <2>1 DEF DeleteRow

LEMMA DeleteThreadSizes ==
  ASSUME TypeInv, DeleteInv, Sizes, DeleteThread, ~Tears
  PROVE  Sizes'
<1>1. UNCHANGED <<jobs, cache, undo, events>>
  BY DEF DeleteThread, session, screen, bounds
<1>2. CASE DeleteRow
  BY <1>1, <1>2, DeleteRowSizes
<1>3. CASE DeleteNext
  <2>1. alive' = alive
    BY <1>3 DEF DeleteNext, disk
  <2>2. /\ deleting'.on = deleting.on /\ deleting'.todo = deleting.todo
        /\ deleting'.sent = deleting.sent /\ deleting'.group = deleting.group
    BY <1>3, NextRowStep
  <2> QED
    BY <1>1, <2>1, <2>2, LightSizes
<1> QED
  BY <1>2, <1>3 DEF DeleteThread

LEMMA QuietSizes ==
  ASSUME TypeInv, Sizes, Light \/ StopDelete \/ UNCHANGED vars
  PROVE  Sizes'
<1>1. UNCHANGED <<alive, jobs, cache, undo, events>>
  BY DEF Light, Move, ToggleMark, MarkAll, Unmark, Ask, No, Quit, Draw, StopDelete, vars, disk, session,
     screen, bounds
<1>2. /\ deleting'.on = deleting.on /\ deleting'.todo = deleting.todo
      /\ deleting'.sent = deleting.sent /\ deleting'.group = deleting.group
  <2>1. CASE StopDelete
    <3> DEFINE d == deleting
    <3>1. d = [on |-> d.on, ended |-> d.ended, busy |-> d.busy, stop |-> d.stop, todo |-> d.todo,
               sent |-> d.sent, pending |-> d.pending, group |-> d.group]
      BY DeletingNow DEF TypeInv
    <3>2. d' = [d EXCEPT !.stop = TRUE]
      BY <2>1 DEF StopDelete
    <3> QED
      BY <3>1, <3>2
  <2>2. CASE Light \/ UNCHANGED vars
    BY <2>2 DEF Light, Move, ToggleMark, MarkAll, Unmark, Ask, No, Quit, Draw, vars
  <2> QED
    BY <2>1, <2>2
<1> QED
  BY <1>1, <1>2, LightSizes

LEMMA LastPart ==
  ASSUME NEW W, NEW U \in Seq(W), U # <<>>
  PROVE  /\ Front(U) \in Seq(W) /\ Last(U) \in W /\ U = Append(Front(U), Last(U))
         /\ Len(U) = Len(Front(U)) + 1 /\ Len(U) \in DOMAIN U /\ Last(U) = U[Len(U)]
         /\ \A k \in DOMAIN Front(U) : k \in DOMAIN U /\ Front(U)[k] = U[k]
<1> DEFINE n == Len(U)
           F == Front(U)
<1>1. n \in Nat /\ n # 0 /\ DOMAIN U = 1..n /\ Last(U) = U[n] /\ U[n] \in W
  BY DEF Last
<1>2. F \in Seq(W) /\ Len(F) = n - 1 /\ \A k \in 1..(n - 1) : F[k] = U[k]
  <2>1. 1 \in 1..(Len(U) + 1) /\ n - 1 \in 0..Len(U)
    BY <1>1
  <2>2. SubSeq(U, 1, n - 1) \in Seq(W) /\ Len(SubSeq(U, 1, n - 1)) = n - 1
        /\ \A i \in 1..(n - 1) : SubSeq(U, 1, n - 1)[i] = U[1 + i - 1]
    BY <1>1, SubSeqProperties
  <2>3. \A i \in 1..(n - 1) : 1 + i - 1 = i
    BY <1>1
  <2> QED
    BY <2>2, <2>3 DEF Front
<1> HIDE DEF F
<1>3. DOMAIN F = 1..(n - 1)
  BY <1>2
<1>4. U = Append(F, Last(U))
  <2>0. Last(U) \in W /\ F \in Seq(W) /\ n - 1 + 1 = n
    BY <1>1, <1>2
  <2>1. Append(F, Last(U)) \in Seq(W) /\ Len(Append(F, Last(U))) = Len(U)
    <3> DEFINE x == Last(U)
    <3> HIDE DEF x
    <3>1. Append(F, x) \in Seq(W) /\ Len(Append(F, x)) = Len(F) + 1
      BY <2>0 DEF x
    <3> QED
      BY <1>2, <2>0, <3>1 DEF x
  <2>2. \A i \in 1..Len(U) : Append(F, Last(U))[i] = U[i]
    BY <1>1, <1>2
  <2> QED
    BY <2>1, <2>2
<1> QED
  <2>1. F \in Seq(W) /\ Last(U) \in W /\ n = Len(F) + 1 /\ n \in DOMAIN U
    BY <1>1, <1>2
  <2>2. \A k \in DOMAIN F : k \in DOMAIN U /\ F[k] = U[k]
    BY <1>1, <1>2, <1>3
  <2> QED
    BY <1>1, <1>4, <2>1, <2>2 DEF F

LEMMA NothingUnheard == Unheard(<<>>) = {}
<1>1. DOMAIN <<>> = {}
  OBVIOUS
<1> QED
  BY <1>1 DEF Unheard

(* The views after an undo.                                                *)
LEMMA UndoViews ==
  ASSUME TypeInv, DeleteInv, GhostInv, Untold = {}, UndoLast, Closed(alive), Packed(Last(undo)), Single(Last(undo)),
         Absent(Tickets(Last(undo)), alive), Last(undo) \in Seq(Went)
  PROVE  /\ alive' = alive \cup HeldIn(Tickets(Last(undo))) /\ Closed(alive')
         /\ DOMAIN cache' = DOMAIN cache
         /\ \A e \in DOMAIN cache :
              /\ cache'[e].scanning = cache[e].scanning /\ cache'[e].partial = cache[e].partial
              /\ Tells(cache[e], e, alive) => Tells(cache'[e], e, alive')
<1> DEFINE u0 == [alive |-> alive, trash |-> trash, stuck |-> stuck, cache |-> cache]
           s == Last(undo)
           u == Returned(u0, s)
           c == u.cache
<1>1. /\ alive' = u.alive /\ ~deleting.on /\ cur \in DOMAIN cache
      /\ IF hide THEN Refilter(c, hide) ELSE cache' = c
  BY DEF UndoLast, Returned, Browse, Key, Draws
<1>2. Undoing(u0) /\ u0.alive = alive /\ u0.cache = cache
  BY DEF TypeInv, Undoing, DiskTypes, ScreenTypes
<1>3. DOMAIN cache \subseteq alive
  BY <1>1, NothingUnheard DEF GhostInv, DeleteInv
<1> HIDE DEF u0, s, u
<1>4. /\ s \in Seq(Went) /\ Single(s) /\ Packed(s) /\ Closed(u0.alive) /\ Absent(Tickets(s), u0.alive)
      /\ DOMAIN u0.cache \subseteq u0.alive
  BY <1>2, <1>3 DEF s
<1>5. /\ u.alive = u0.alive \cup HeldIn(Tickets(s)) /\ Closed(u.alive)
      /\ \A e \in DOMAIN u0.cache :
           /\ u.cache[e].partial = u0.cache[e].partial
           /\ Tells(u0.cache[e], e, u0.alive) => Tells(u.cache[e], e, u.alive)
  BY <1>2, <1>4, ReturnAll DEF u
<1>6. Undoing(u) /\ Onward(u0, u)
  BY <1>2, <1>4, ReturnedKeeps DEF u
<1>7. /\ Caches(c) /\ DOMAIN c = DOMAIN cache
      /\ \A e \in DOMAIN cache : /\ c[e].scanning = cache[e].scanning /\ c[e].partial = cache[e].partial
                                 /\ Tells(cache[e], e, alive) => Tells(c[e], e, alive')
  BY <1>1, <1>2, <1>5, <1>6 DEF Undoing, Onward, Same
<1> HIDE DEF c
<1>8. DOMAIN cache' = DOMAIN c
      /\ \A e \in DOMAIN c : /\ cache'[e].scanning = c[e].scanning /\ cache'[e].partial = c[e].partial
                             /\ \A A : Tells(c[e], e, A) => Tells(cache'[e], e, A)
  <2>1. CASE hide
    <3>1. Refilter(c, hide) /\ cur \in DOMAIN c
      BY <1>1, <1>7, <2>1
    <3>2. ASSUME NEW e \in DOMAIN c
          PROVE  /\ cache'[e].partial = c[e].partial /\ cache'[e].scanning = c[e].scanning
                 /\ DOMAIN cache' = DOMAIN c
                 /\ \A A : Tells(c[e], e, A) => Tells(cache'[e], e, A)
      BY <1>7, <3>1, RefilterTells
    <3> QED
      BY <3>1, <3>2
  <2>2. CASE ~hide
    BY <1>1, <2>2
  <2> QED
    BY <2>1, <2>2
<1> QED
  BY <1>1, <1>2, <1>5, <1>7, <1>8 DEF s

LEMMA UndoSizes ==
  ASSUME TypeInv, DeleteInv, GhostInv, TicketInv, Untold = {}, Sizes, UndoLast, ~Tears
  PROVE  Sizes'
<1> DEFINE s == Last(undo)
           U == undo
           F == Front(undo)
           W == Seq(Went)
           H == HeldIn(Tickets(s))
<1>1. /\ undo # <<>> /\ undo' = F /\ jobs' = jobs /\ events' = events /\ deleting' = deleting
      /\ ~deleting.on /\ deleting.sent = <<>> /\ deleting.group = <<>>
  BY DEF UndoLast, DeleteInv, bounds
<1>2. U \in Seq(W) /\ U # <<>>
  BY <1>1 DEF TypeInv, DeleteTypes
<1>3. /\ F \in Seq(W) /\ s \in W /\ U = Append(F, s)
      /\ Len(U) = Len(F) + 1 /\ Len(U) \in DOMAIN U /\ s = U[Len(U)]
      /\ \A k \in DOMAIN F : k \in DOMAIN U /\ F[k] = U[k]
  <2>1. /\ Front(U) \in Seq(W) /\ Last(U) \in W /\ U = Append(Front(U), Last(U))
        /\ Len(U) = Len(Front(U)) + 1 /\ Len(U) \in DOMAIN U /\ Last(U) = U[Len(U)]
        /\ \A k \in DOMAIN Front(U) : k \in DOMAIN U /\ Front(U)[k] = U[k]
    <3> HIDE DEF U, W
    <3> QED
      BY <1>2, LastPart
  <2> QED
    BY <2>1
<1>4. Batched = {} /\ Batched' = {} /\ Seen = alive /\ Seen' = alive'
  BY <1>1, NoRows, NoneIn DEF Batched, Seen
<1> HIDE DEF W, s, F
<1>5. /\ \A k \in DOMAIN F : After(alive, U, k) = After(alive \cup H, F, k)
      /\ After(alive, U, Len(U)) = alive
  <2> DEFINE A == alive
  <2> HIDE DEF U, A
  <2>1. /\ \A k \in DOMAIN F : After(A, Append(F, s), k) = After(A \cup HeldIn(Tickets(s)), F, k)
        /\ After(A, Append(F, s), Len(F) + 1) = A
    BY <1>3, AfterStep
  <2> QED
    BY <1>3, <2>1 DEF A
<1>6. \A k : Later(k) = After(alive, U, k) /\ Later(k)' = After(alive', F, k)
  <2>1. /\ \A k : Later(k) = After(alive \cup HeldIn({}), undo, k)
        /\ \A k : Later(k)' = After(alive' \cup HeldIn({}), undo', k)
    BY <1>4 DEF Later, After
  <2> QED
    BY <1>1, <2>1, NoneIn
<1>7. /\ \A k \in DOMAIN U : Packed(U[k]) /\ Absent(Tickets(U[k]), Later(k))
      /\ Closed(alive)
  BY DEF Sizes, AllPacked, AllAbsent
<1>8. Packed(s) /\ Absent(Tickets(s), alive)
  <2>1. Later(Len(U)) = alive
    BY <1>5, <1>6
  <2> QED
    BY <1>3, <1>7, <2>1
<1>9. Single(s)
  <2>1. Apart(U)
    BY DEF TicketInv, Books
  <2> QED
    BY <1>3, <2>1 DEF Apart
<1>10. /\ alive' = alive \cup H /\ Closed(alive') /\ DOMAIN cache' = DOMAIN cache
       /\ \A e \in DOMAIN cache :
            /\ cache'[e].scanning = cache[e].scanning /\ cache'[e].partial = cache[e].partial
            /\ Tells(cache[e], e, alive) => Tells(cache'[e], e, alive')
  <2>1. Last(undo) \in Seq(Went) /\ Packed(Last(undo)) /\ Single(Last(undo)) /\ Absent(Tickets(Last(undo)), alive)
    BY <1>3, <1>8, <1>9 DEF s, W
  <2>2. /\ alive' = alive \cup HeldIn(Tickets(Last(undo))) /\ Closed(alive')
        /\ DOMAIN cache' = DOMAIN cache
        /\ \A e \in DOMAIN cache :
             /\ cache'[e].scanning = cache[e].scanning /\ cache'[e].partial = cache[e].partial
             /\ Tells(cache[e], e, alive) => Tells(cache'[e], e, alive')
    BY <1>7, <2>1, UndoViews
  <2> QED
    BY <2>2 DEF s
<1>11. \A k \in DOMAIN F : Packed(F[k]) /\ Absent(Tickets(F[k]), Later(k)')
  <2>1. ASSUME NEW k \in DOMAIN F PROVE Later(k)' = Later(k)
    BY <1>5, <1>6, <1>10
  <2> QED
    BY <1>3, <1>7, <2>1
<1>12. AllPacked' /\ AllAbsent'
  <2>1. Packed(<<>>) /\ Absent({}, alive')
    BY NoneIn DEF Packed
  <2> QED
    BY <1>1, <1>4, <1>11, <2>1 DEF AllPacked, AllAbsent
<1>13. JobsRight'
  <2>1. CASE DOMAIN jobs = {}
    BY <1>1, <2>1 DEF JobsRight
  <2>2. CASE alive' = alive
    BY <1>1, <2>2 DEF Sizes, JobsRight, JobRight
  <2> QED
    BY <1>1, <2>1, <2>2 DEF Tears
<1>14. ViewsRight'
  <2>1. ASSUME NEW e \in DOMAIN cache' PROVE ~cache'[e].partial /\ (Sized(e)' => Tells(cache'[e], e, alive'))
    <3>1. Sized(e)' => Sized(e)
      BY <1>1, <1>10 DEF Sized
    <3> QED
      BY <1>4, <1>10, <3>1 DEF Sizes, ViewsRight
  <2> QED
    BY <1>4, <2>1 DEF ViewsRight
<1>15. TodoRight' /\ events' \in Nat
  BY <1>1 DEF TodoRight, Sizes
<1> QED
  BY <1>10, <1>12, <1>13, <1>14, <1>15 DEF Sizes

LEMMA SizesInit ==
  ASSUME Init
  PROVE  SizesInv
<1>1. /\ alive = Paths /\ events = 1 /\ undo = <<>> /\ deleting.on = FALSE
      /\ deleting.sent = <<>> /\ deleting.group = <<>>
      /\ DOMAIN jobs = {Root} /\ DOMAIN cache = {Root}
      /\ jobs[Root] = NewJob(FALSE) /\ cache[Root] = QuickView(Root)
  BY DEF Init, Idle
<1>2. Closed(alive)
  BY <1>1, TreeAssumption DEF Closed
<1>3. JobsRight
  BY <1>1, TreeAssumption DEF JobsRight, JobRight, NewJob
<1>4. ViewsRight
  <2>1. cache[Root].partial = FALSE /\ cache[Root].scanning = TRUE
    BY <1>1, QuickUnsized
  <2>2. jobs[Root].refresh = FALSE
    BY <1>1 DEF NewJob
  <2> QED
    BY <1>1, <2>1, <2>2 DEF ViewsRight, Sized
<1>5. Batched = {} /\ DOMAIN undo = {} /\ Packed(<<>>)
  BY <1>1, NoRows DEF Batched, Packed
<1>6. AllPacked /\ AllAbsent /\ TodoRight
  BY <1>1, <1>5, NoneIn DEF AllPacked, AllAbsent, TodoRight
<1> QED
  BY <1>1, <1>2, <1>3, <1>4, <1>6 DEF SizesInv, Sizes

(* Unless a size may be wrong by now, no row that failed left the disk.    *)
WholeInv == ~torn => Untold = {}

LEMMA WholeStep ==
  ASSUME WholeInv, [Next]_vars
  PROVE  WholeInv'
<1> SUFFICES ASSUME ~torn' PROVE Untold' = {}
  BY DEF WholeInv
<1>1. ~torn /\ Untold = {}
  <2>1. CASE Next
    BY <2>1, Zenon DEF WholeInv, Next
  <2>2. CASE UNCHANGED vars
    BY <2>2 DEF WholeInv, vars
  <2> QED
    BY <2>1, <2>2
<1>2. CASE UNCHANGED strays
  BY <1>1, <1>2 DEF Untold
<1>3. CASE DeleteThread /\ strays' # strays
  <2> DEFINE p == Head(deleting.todo).path
  <2>1. RowFails(p) /\ strays' # strays
    BY <1>3 DEF DeleteThread, DeleteNext, DeleteRow, disk
  <2> HIDE DEF p
  <2>2. trash' = trash
    BY <2>1, FailedRow
  <2>3. ~Tears
    BY <1>3 DEF Next, vars, disk
  <2>4. alive' = alive
    BY <2>2, <2>3, Zenon DEF Tears
  <2>5. PICK s \in Remains(p) :
          /\ alive' = alive \ (Below(p) \ s)
          /\ strays' = strays \cup {[path |-> p, held |-> Below(p) \cap alive, stays |-> s]}
    BY <2>1 DEF RowFails, disk
  <2> DEFINE t == [path |-> p, held |-> Below(p) \cap alive, stays |-> s]
  <2>6. t.held \ t.stays = {}
    BY <2>4, <2>5
  <2> HIDE DEF t
  <2>7. \A k \in strays : k.held \ k.stays = {}
    BY <1>1 DEF Untold
  <2>8. \A k \in strays' : k.held \ k.stays = {}
    BY <2>5, <2>6, <2>7 DEF t
  <2> QED
    BY <2>8 DEF Untold
<1> QED
  BY <1>2, <1>3, StraysStay

LEMMA SizesStep ==
  ASSUME ScanInv, DeleteInv, GhostInv, TicketInv, WholeInv, SizesInv, [Next]_vars
  PROVE  SizesInv'
<1> SUFFICES ASSUME ~torn' PROVE Sizes'
  BY DEF SizesInv
<1>0. TypeInv /\ Untold = {}
  BY DEF ScanInv, WholeInv, Next, vars
<1>1. CASE UNCHANGED vars
  <2>1. Sizes
    BY <1>1 DEF SizesInv, vars
  <2> QED
    BY <1>0, <1>1, <2>1, QuietSizes
<1>2. CASE Next
  <2>0. Sizes /\ ~Tears
    BY <1>2 DEF Next, SizesInv
  <2>1. CASE Loop
    <3>1. ASSUME NEW d \in DOMAIN jobs, TakeJob(d) PROVE Sizes'
      BY <1>0, <2>0, <3>1, TakeJobSizes
    <3>2. CASE TakeRow
      BY <1>0, <2>0, <3>2, TakeRowSizes
    <3>3. CASE Finish
      BY <1>0, <2>0, <3>3, FinishSizes
    <3>4. CASE Draw \/ StopDelete
      BY <1>0, <2>0, <3>4, QuietSizes DEF Light
    <3>5. CASE Leave
      BY <1>0, <2>0, <3>5, LeaveSizes
    <3> QED
      BY <2>1, <3>1, <3>2, <3>3, <3>4, <3>5 DEF Loop
  <2>2. CASE Keys
    <3>1. CASE Open \/ Back \/ Jump
      <4>1. \E d \in Dirs : \E on : Go(d, on)
        BY <1>0, <3>1, OpenStep
      <4>2. PICK d \in Dirs : \E on : Go(d, on)
        BY <4>1
      <4>3. PICK on : Go(d, on)
        BY <4>2
      <4> QED
        BY <1>0, <2>0, <4>3, GoSizes
    <3>2. CASE Refresh
      BY <1>0, <2>0, <3>2, RefreshSizes
    <3>3. CASE StopScan
      BY <1>0, <2>0, <3>3, StopScanSizes
    <3>4. CASE Light
      BY <1>0, <2>0, <3>4, QuietSizes
    <3>5. CASE ToggleDots
      BY <1>0, <2>0, <3>5, DotsSizes
    <3>6. CASE Yes
      BY <2>0, <3>6, YesSizes
    <3>7. CASE UndoLast
      BY <1>0, <2>0, <3>7, UndoSizes
    <3> QED
      BY <2>2, <3>1, <3>2, <3>3, <3>4, <3>5, <3>6, <3>7 DEF Keys, Light
  <2>3. CASE ScanThreads
    <3>1. PICK d \in DOMAIN jobs : ScanThread(d)
      BY <2>3 DEF ScanThreads
    <3> QED
      BY <1>0, <2>0, <3>1, ScanSizes
  <2>4. CASE DeleteThread
    BY <1>0, <2>0, <2>4, DeleteThreadSizes
  <2>5. CASE Meddle
    BY <2>0, <2>5, MeddleTears
  <2> QED
    BY <1>2, <2>1, <2>2, <2>3, <2>4, <2>5 DEF Next
<1> QED
  BY <1>1, <1>2

(* If no scan met a change, no row was trashed by a mark whose view was    *)
(* dropped and none that was reported as failed left the disk, the views   *)
(* agree with the disk (apply_fresh, drop_row, undo_last, refilter): their *)
(* rows, the size of each, and the total, through deletes, undos and       *)
(* rescans of directories at any level, hidden rows included.              *)
THEOREM TotalsStayRight == Spec => []TotalsRight
<1>1. Init => GhostInv /\ WholeInv /\ SizesInv
  <2>1. Init => GhostInv /\ WholeInv
    BY TreeAssumption DEF Init, GhostInv, WholeInv, Untold
  <2> QED
    BY <2>1, SizesInit
<1>2. ScanInv /\ DeleteInv /\ TicketInv /\ GhostInv /\ WholeInv /\ SizesInv /\ [Next]_vars
        => GhostInv' /\ WholeInv' /\ SizesInv'
  BY GhostStep, WholeStep, SizesStep DEF ScanInv
<1>3. DeleteInv /\ SizesInv => TotalsRight
  <2> SUFFICES ASSUME DeleteInv, SizesInv, ~torn, ~deleting.on, NEW d \in DOMAIN cache,
                      ~cache[d].scanning, ~cache[d].partial
               PROVE  /\ cache[d].disk = Disk(d)
                      /\ Listed(cache[d]) = {Row(p, Disk(p)) : p \in In(d, alive)}
    BY DEF TotalsRight
  <2>1. Sizes /\ deleting.sent = <<>>
    BY DEF SizesInv, DeleteInv
  <2>2. Seen = alive
    BY <2>1, NoRows, NoneIn DEF Seen
  <2>3. Tells(cache[d], d, alive)
    BY <2>1, <2>2 DEF Sizes, ViewsRight, Sized
  <2> QED
    BY <2>3 DEF Tells, RowsIn, SizeIn, Disk
<1> QED
  BY <1>1, <1>2, <1>3, ScanInvariant, DeleteInvariant, TicketInvariant, PTL DEF Spec

=============================================================================

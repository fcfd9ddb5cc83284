------------------------------ MODULE Query_proofs ------------------------------
(***************************************************************************)
(* Query for every set of documents, any number of goroutines, every query  *)
(* and any number of edits: the pool handles each path once, a failure has  *)
(* its cause, and the answer is the page that was asked for.                *)
(***************************************************************************)
EXTENDS Query, Integers, FiniteSetTheorems, SequenceTheorems, WellFoundedInduction, TLAPS

-----------------------------------------------------------------------------
\* Counting what goes before: the places of a strict total order.

\* Who has less before them.
LEMMA FewerBefore ==
  ASSUME NEW T, IsFiniteSet(T), NEW R,
         \A x, y, z \in T : <<x, y>> \in R /\ <<y, z>> \in R => <<x, z>> \in R,
         NEW x \in T, NEW y \in T, <<x, y>> \in R, <<x, x>> \notin R
  PROVE  /\ Cardinality({z \in T : <<z, x>> \in R}) \in Nat
         /\ Cardinality({z \in T : <<z, y>> \in R}) \in Nat
         /\ Cardinality({z \in T : <<z, x>> \in R}) < Cardinality({z \in T : <<z, y>> \in R})
<1> DEFINE X == {z \in T : <<z, x>> \in R}
           Y == {z \in T : <<z, y>> \in R}
<1>1. X \in SUBSET Y /\ x \in Y /\ x \notin X
  OBVIOUS
<1>2. Y \in SUBSET T
  OBVIOUS
<1> HIDE DEF X, Y
<1>3. IsFiniteSet(Y)
  BY <1>2, FS_Subset
<1>4. IsFiniteSet(X) /\ Cardinality(X) <= Cardinality(Y)
      /\ (Cardinality(Y) = Cardinality(X) => Y = X)
  BY <1>1, <1>3, FS_Subset
<1>5. Cardinality(X) \in Nat /\ Cardinality(Y) \in Nat
  BY <1>3, <1>4, FS_CardinalityType
<1>6. Cardinality(X) # Cardinality(Y)
  BY <1>1, <1>4
<1> QED BY <1>4, <1>5, <1>6 DEF X, Y

\* R orders the elements of T one after the other; the place of each.
Orders(R, T) ==
  /\ \A x \in T : <<x, x>> \notin R
  /\ \A x, y, z \in T : <<x, y>> \in R /\ <<y, z>> \in R => <<x, z>> \in R
  /\ \A x, y \in T : x = y \/ <<x, y>> \in R \/ <<y, x>> \in R
PlaceIn(R, T) == [x \in T |-> 1 + Cardinality({y \in T : <<y, x>> \in R})]

\* The places are 1 to the number of elements, and follow the order.
LEMMA Places ==
  ASSUME NEW T, IsFiniteSet(T), NEW R, Orders(R, T)
  PROVE  /\ Cardinality(T) \in Nat
         /\ PlaceIn(R, T) \in [T -> 1..Cardinality(T)]
         /\ \A x, y \in T : PlaceIn(R, T)[x] < PlaceIn(R, T)[y] <=> <<x, y>> \in R
         /\ \A x, y \in T : PlaceIn(R, T)[x] = PlaceIn(R, T)[y] => x = y
         /\ PlaceIn(R, T) \in Surjection(T, 1..Cardinality(T))
<1> DEFINE place == PlaceIn(R, T)
<1> USE DEF Orders, PlaceIn
<1> DEFINE n == Cardinality(T)
<1>1. n \in Nat
  BY FS_CardinalityType
<1>2. ASSUME NEW x \in T PROVE place[x] \in 1..n
  <2> DEFINE X == {y \in T : <<y, x>> \in R}
  <2>1. X \in SUBSET (T \ {x})
    OBVIOUS
  <2>2. IsFiniteSet(T \ {x}) /\ Cardinality(T \ {x}) = n - 1
    BY FS_RemoveElement
  <2>3. place[x] = 1 + Cardinality(X)
    OBVIOUS
  <2> HIDE DEF X
  <2>4. IsFiniteSet(X) /\ Cardinality(X) <= n - 1
    BY <2>1, <2>2, FS_Subset
  <2>5. Cardinality(X) \in Nat
    BY <2>4, FS_CardinalityType
  <2> QED BY <1>1, <2>3, <2>4, <2>5
<1>3. ASSUME NEW x \in T, NEW y \in T, <<x, y>> \in R PROVE place[x] < place[y]
  <2>1. <<x, x>> \notin R
    OBVIOUS
  <2>2. /\ Cardinality({z \in T : <<z, x>> \in R}) \in Nat
        /\ Cardinality({z \in T : <<z, y>> \in R}) \in Nat
        /\ Cardinality({z \in T : <<z, x>> \in R}) < Cardinality({z \in T : <<z, y>> \in R})
    BY <1>3, <2>1, FewerBefore
  <2> QED BY <2>2
<1>4. place \in [T -> 1..n]
  BY <1>2
<1>5. \A x, y \in T : place[x] \in Nat /\ place[y] \in Nat
  BY <1>1, <1>2
<1>6. ASSUME NEW x \in T, NEW y \in T
      PROVE  /\ place[x] < place[y] <=> <<x, y>> \in R
             /\ place[x] = place[y] => x = y
  <2>1. x = y \/ <<x, y>> \in R \/ <<y, x>> \in R
    OBVIOUS
  <2>2. CASE x = y
    BY <1>5, <2>2
  <2>3. CASE <<x, y>> \in R
    BY <1>3, <1>5, <2>3
  <2>4. CASE <<y, x>> \in R
    <3>1. <<x, y>> \notin R
      BY <2>4
    <3>2. place[y] < place[x]
      BY <1>3, <2>4
    <3> QED BY <1>5, <3>1, <3>2
  <2> QED BY <2>1, <2>2, <2>3, <2>4
<1> HIDE DEF place
<1>7. place \in Injection(T, 1..n)
  BY <1>4, <1>6 DEF Injection, IsInjective
<1>8. IsFiniteSet(1..n) /\ Cardinality(1..n) = n
  BY <1>1, FS_Interval
<1>9. place \in Surjection(T, 1..n)
  BY <1>7, <1>8, FS_Injection
<1> QED BY <1>1, <1>4, <1>6, <1>9 DEF place

\* Every finite set of paths has its order, and it has each path once.
LEMMA InOrderLists ==
  ASSUME NEW S \in SUBSET Nat, IsFiniteSet(S)
  PROVE  /\ Cardinality(S) \in Nat
         /\ InOrder(S) \in [1..Cardinality(S) -> S]
         /\ \A i, j \in 1..Cardinality(S) : InOrder(S)[i] = InOrder(S)[j] => i = j
         /\ \A x \in S : \E i \in 1..Cardinality(S) : InOrder(S)[i] = x
<1> DEFINE n == Cardinality(S)
           R == {xy \in S \X S : xy[1] < xy[2]}
           place == PlaceIn(R, S)
           s == [k \in 1..n |-> CHOOSE x \in S : place[x] = k]
           Ascends(t) == \A i, j \in 1..n : i < j => t[i] < t[j]
<1>1. \A x, y \in S : <<x, y>> \in R <=> x < y
  OBVIOUS
<1>2. Orders(R, S)
  <2> HIDE DEF R
  <2> QED BY <1>1 DEF Orders
<1>3. /\ n \in Nat
      /\ place \in [S -> 1..n]
      /\ \A x, y \in S : place[x] < place[y] <=> <<x, y>> \in R
      /\ \A k \in 1..n : \E x \in S : place[x] = k
  <2> HIDE DEF R
  <2>1. PlaceIn(R, S) \in [S -> 1..Cardinality(S)]
    BY <1>2, Places
  <2>2. ASSUME NEW x \in S, NEW y \in S
        PROVE  PlaceIn(R, S)[x] < PlaceIn(R, S)[y] <=> <<x, y>> \in R
    BY <1>2, <2>1, Places, FS_CardinalityType
  <2>3. PlaceIn(R, S) \in Surjection(S, 1..Cardinality(S))
    BY <1>2, Places
  <2> QED BY <2>1, <2>2, <2>3, FS_CardinalityType DEF Surjection
<1>4. \A k \in 1..n : s[k] \in S /\ place[s[k]] = k
  <2> HIDE DEF place
  <2> QED BY <1>3
<1>5. s \in [1..n -> S] /\ Ascends(s)
  <2> HIDE DEF place, R
  <2>1. s \in [1..n -> S]
    BY <1>4
  <2> HIDE DEF s
  <2>2. ASSUME NEW i \in 1..n, NEW j \in 1..n, i < j PROVE s[i] < s[j]
    <3>1. place[s[i]] < place[s[j]] /\ s[i] \in S /\ s[j] \in S
      BY <1>4, <2>2
    <3> QED BY <1>1, <1>3, <3>1
  <2> QED BY <2>1, <2>2
<1>6. InOrder(S) = CHOOSE t \in [1..n -> S] : Ascends(t)
  BY DEF InOrder
<1>7. InOrder(S) \in [1..n -> S] /\ Ascends(InOrder(S))
  <2> HIDE DEF s, Ascends
  <2> QED BY <1>5, <1>6
<1>8. ASSUME NEW i \in 1..n, NEW j \in 1..n, InOrder(S)[i] = InOrder(S)[j] PROVE i = j
  <2>1. i < j => InOrder(S)[i] < InOrder(S)[j]
    BY <1>7
  <2>2. j < i => InOrder(S)[j] < InOrder(S)[i]
    BY <1>7
  <2>3. InOrder(S)[i] \in Nat /\ InOrder(S)[j] \in Nat
    BY <1>7
  <2> HIDE DEF Ascends
  <2> QED BY <1>3, <1>8, <2>1, <2>2, <2>3
<1>9. InOrder(S) \in Surjection(1..n, S)
  <2>1. InOrder(S) \in Injection(1..n, S)
    BY <1>7, <1>8 DEF Injection, IsInjective
  <2>2. Cardinality(1..n) = Cardinality(S)
    BY <1>3, FS_Interval
  <2> QED BY <2>1, <2>2, FS_Injection
<1> QED BY <1>3, <1>7, <1>8, <1>9 DEF Surjection

-----------------------------------------------------------------------------
\* Filtering, ordering and paging.

\* t has the records of s at the positions I, each once and none ahead of one it
\* comes after; at[k] is the position of the k-th.
Arranges(at, t, s, I, order) ==
  /\ at \in [1..Cardinality(I) -> I]
  /\ t = [k \in 1..Cardinality(I) |-> s[at[k]]]
  /\ \A j, k \in 1..Cardinality(I) : at[j] = at[k] => j = k
  /\ \A i \in I : \E k \in 1..Cardinality(I) : at[k] = i
  /\ \A j, k \in 1..Cardinality(I) : j < k => ~Before(order, s[at[k]], s[at[j]])

\* Ordering the records does that.
LEMMA SortedArranges ==
  ASSUME NEW s, NEW I \in SUBSET Nat, IsFiniteSet(I),
         \A i \in I : s[i].version.rank \in Nat, NEW order \in {"none", "asc", "desc"}
  PROVE  \E at : Arranges(at, Sorted(s, I, order), s, I, order)
<1> DEFINE n == Cardinality(I)
           First(j, i) == Before(order, s[j], s[i]) \/ (j < i /\ ~Before(order, s[i], s[j]))
           R == {ji \in I \X I : First(ji[1], ji[2])}
           at == [k \in 1..n |-> CHOOSE i \in I : Place(s, I, order, i) = k]
<1>1. \A i, j \in I : <<j, i>> \in R <=> First(j, i)
  OBVIOUS
<1>2. ASSUME NEW i \in I PROVE ~First(i, i)
  BY DEF Before
<1>3. ASSUME NEW i \in I, NEW j \in I, NEW k \in I, First(i, j), First(j, k) PROVE First(i, k)
  <2>1. PICK a \in Nat, b \in Nat, c \in Nat :
          a = s[i].version.rank /\ b = s[j].version.rank /\ c = s[k].version.rank
    OBVIOUS
  <2>2. i \in Nat /\ j \in Nat /\ k \in Nat
    OBVIOUS
  <2> QED BY <1>3, <2>1, <2>2 DEF Before
<1>4. ASSUME NEW i \in I, NEW j \in I PROVE i = j \/ First(i, j) \/ First(j, i)
  <2>1. PICK a \in Nat, b \in Nat : a = s[i].version.rank /\ b = s[j].version.rank
    OBVIOUS
  <2>2. i \in Nat /\ j \in Nat
    OBVIOUS
  <2> QED BY <2>1, <2>2 DEF Before
<1> HIDE DEF First
<1>5. Orders(R, I)
  <2> HIDE DEF R
  <2> QED BY <1>1, <1>2, <1>3, <1>4 DEF Orders
<1>6. ASSUME NEW i \in I PROVE Place(s, I, order, i) = PlaceIn(R, I)[i]
  <2>1. {j \in I : <<j, i>> \in R} = {j \in I : First(j, i)}
    BY <1>1
  <2> HIDE DEF R
  <2>2. PlaceIn(R, I)[i] = 1 + Cardinality({j \in I : First(j, i)})
    BY <2>1 DEF PlaceIn
  <2> QED BY <2>2 DEF Place, First
<1> HIDE DEF R
<1>7. /\ n \in Nat
      /\ PlaceIn(R, I) \in [I -> 1..n]
      /\ \A i, j \in I : PlaceIn(R, I)[i] < PlaceIn(R, I)[j] <=> <<i, j>> \in R
      /\ \A i, j \in I : PlaceIn(R, I)[i] = PlaceIn(R, I)[j] => i = j
      /\ PlaceIn(R, I) \in Surjection(I, 1..n)
  BY <1>5, Places
<1>8. ASSUME NEW k \in 1..n PROVE at[k] \in I /\ PlaceIn(R, I)[at[k]] = k
  <2>1. \E i \in I : Place(s, I, order, i) = k
    BY <1>6, <1>7 DEF Surjection
  <2> QED BY <1>6, <2>1
<1>9. at \in [1..n -> I]
  BY <1>8
<1>10. Sorted(s, I, order) = [k \in 1..n |-> s[at[k]]]
  BY DEF Sorted
<1> HIDE DEF at
<1>11. ASSUME NEW i \in I PROVE \E k \in 1..n : at[k] = i
  <2>1. PICK k \in 1..n : k = PlaceIn(R, I)[i]
    BY <1>7
  <2>2. at[k] \in I /\ PlaceIn(R, I)[at[k]] = k
    BY <1>8
  <2>3. at[k] = i
    BY <1>7, <2>1, <2>2
  <2> QED BY <2>3
<1>12. ASSUME NEW j \in 1..n, NEW k \in 1..n, j < k
       PROVE  ~Before(order, s[at[k]], s[at[j]])
  <2>1. <<at[j], at[k]>> \in R
    BY <1>7, <1>8, <1>12
  <2>2. First(at[j], at[k]) /\ at[j] \in I /\ at[k] \in I
    BY <1>1, <1>8, <2>1
  <2>3. s[at[j]].version.rank \in Nat /\ s[at[k]].version.rank \in Nat
    BY <2>2
  <2> QED BY <2>2, <2>3 DEF First, Before
<1>13. \A j, k \in 1..n : at[j] = at[k] => j = k
  BY <1>8
<1> QED BY <1>9, <1>10, <1>11, <1>12, <1>13 DEF Arranges

\* How many records a page has.
PageLength(all, q) ==
  LET left == IF q.skip > all THEN 0 ELSE all - q.skip IN
  IF q.limit = 0 \/ q.limit > left THEN left ELSE q.limit

\* The page of a list is that many of its records, from skip on.
LEMMA PageOf ==
  ASSUME NEW S, NEW t \in Seq(S), NEW q, q.skip \in Nat, q.limit \in Nat
  PROVE  /\ Page(t, q) \in Seq(S)
         /\ Len(Page(t, q)) = PageLength(Len(t), q)
         /\ \A i \in 1..PageLength(Len(t), q) :
              q.skip + i \in 1..Len(t) /\ Page(t, q)[i] = t[q.skip + i]
<1> DEFINE to == IF q.limit > 0 /\ q.limit < Len(t) - q.skip THEN q.skip + q.limit ELSE Len(t)
<1>1. Len(t) \in Nat
  OBVIOUS
<1>2. CASE q.skip > Len(t)
  BY <1>1, <1>2 DEF Page, PageLength
<1>3. CASE ~(q.skip > Len(t))
  <2>1. /\ to \in Int /\ to <= Len(t) /\ q.skip + 1 \in Int
        /\ PageLength(Len(t), q) = to - q.skip /\ q.skip <= to
    BY <1>1, <1>3 DEF PageLength
  <2>2. Page(t, q) = SubSeq(t, q.skip + 1, to)
    BY <1>3 DEF Page
  <2> HIDE DEF to
  <2>3. \A i \in (q.skip + 1)..to : t[i] \in S
    BY <1>1, <2>1, ElementOfSeq
  <2> DEFINE from == q.skip + 1
  <2>4. from \in Int
    BY <2>1
  <2> HIDE DEF from
  <2>5. \A i \in from..to : t[i] \in S
    BY <2>3 DEF from
  <2>6. /\ SubSeq(t, from, to) \in Seq(S)
        /\ Len(SubSeq(t, from, to)) = IF from <= to THEN to - from + 1 ELSE 0
        /\ \A i \in 1..(to - from + 1) : SubSeq(t, from, to)[i] = t[from + i - 1]
    BY <2>4, <2>1, <2>5, SubSeqProperties
  <2>7. /\ SubSeq(t, q.skip + 1, to) \in Seq(S)
        /\ Len(SubSeq(t, q.skip + 1, to)) = IF q.skip + 1 <= to THEN to - (q.skip + 1) + 1 ELSE 0
        /\ \A i \in 1..(to - (q.skip + 1) + 1) :
              SubSeq(t, q.skip + 1, to)[i] = t[q.skip + 1 + i - 1]
    BY <2>6 DEF from
  <2>8. Len(Page(t, q)) = to - q.skip
    BY <1>1, <2>1, <2>2, <2>7
  <2>9. ASSUME NEW i \in 1..(to - q.skip) PROVE Page(t, q)[i] = t[q.skip + i]
    <3>1. i \in 1..(to - (q.skip + 1) + 1) /\ q.skip + 1 + i - 1 = q.skip + i
      BY <2>1
    <3> QED BY <2>2, <2>7, <3>1
  <2> QED BY SMTT(30), <1>1, <2>1, <2>2, <2>7, <2>8, <2>9
<1> QED BY <1>2, <1>3

-----------------------------------------------------------------------------
\* The pool.

Phases == {"take", "claim", "parse", "done"}
Claimers == {w \in Workers : worker[w].at = "claim"}

\* The types, the slots aside that the goroutines hold.
Shapes ==
  /\ file \in [Docs -> Versions \cup {NoFile, Garbled}]
  /\ listed \in [Docs -> Versions \cup {NoFile, Garbled}]
  /\ stage \in {"start", "walk", "load", "done"}
  /\ jobs \in Seq(Docs)
  /\ slots \in Seq(Slots \cup {Unfilled})
  /\ idx \in Nat
  /\ worker \in [Workers -> [at : Phases, path : Docs \cup {0}, slot : Nat]]
  /\ \A w \in Workers : worker[w].at \in {"claim", "parse"} => worker[w].path \in Docs
  /\ edited \subseteq Docs

Nowhere(d) == Holding(d) = {} /\ SlotsOf(d) = {} /\ Waiting(d) = {}
InOnePlace(d) ==
  \/ (\E w \in Workers : Holding(d) = {w}) /\ SlotsOf(d) = {} /\ Waiting(d) = {}
  \/ Holding(d) = {} /\ (\E i \in DOMAIN slots : SlotsOf(d) = {i}) /\ Waiting(d) = {}
  \/ Holding(d) = {} /\ SlotsOf(d) = {} /\ \E i \in DOMAIN jobs : Waiting(d) = {i}

\* Each listed path is in one place.
PathsInv ==
  \A d \in Docs : IF stage = "start" \/ listed[d] = NoFile THEN Nowhere(d) ELSE InOnePlace(d)

\* The counter has as many slots left as there are paths without one, and a
\* goroutine that parses has a slot of its own.
SlotsInv ==
  /\ IsFiniteSet(Claimers)
  /\ idx + Cardinality(Claimers) + Len(jobs) = Len(slots)
  /\ \A i \in DOMAIN slots : i > idx => slots[i] = Unfilled
  /\ \A w \in Workers :
       IF worker[w].at = "parse"
         THEN worker[w].slot \in 1..idx /\ slots[worker[w].slot] = Unfilled
         ELSE worker[w].slot = 0
  /\ \A v, w \in Workers :
       (worker[v].at = "parse" /\ worker[w].at = "parse" /\ worker[v].slot = worker[w].slot)
         => v = w
  /\ \A w \in Workers : worker[w].at = "done" => jobs = <<>> /\ stage # "start"
  /\ stage = "start" => /\ jobs = <<>> /\ slots = <<>> /\ idx = 0
                        /\ \A w \in Workers : worker[w].at = "take"

PoolInv == Shapes /\ PathsInv /\ SlotsInv

\* The pool comes to no harm when it is left alone.
LEMMA PoolLeftAlone ==
  ASSUME PoolInv, UNCHANGED <<walkVars, listed>>, stage' \in {"start", "walk", "load", "done"},
         stage' = "start" <=> stage = "start",
         file' \in [Docs -> Versions \cup {NoFile, Garbled}], edited' \subseteq Docs
  PROVE  PoolInv'
<1>1. \A d \in Docs : Holding(d)' = Holding(d) /\ SlotsOf(d)' = SlotsOf(d) /\ Waiting(d)' = Waiting(d)
  BY DEF Holding, SlotsOf, Waiting, Filled, walkVars
<1>2. PathsInv'
  BY <1>1 DEF PoolInv, PathsInv, Nowhere, InOnePlace, walkVars
<1>3. Claimers' = Claimers
  BY DEF Claimers, walkVars
<1>4. SlotsInv'
  BY <1>3 DEF PoolInv, SlotsInv, walkVars
<1>5. Shapes'
  BY DEF PoolInv, Shapes, walkVars
<1> QED BY <1>2, <1>4, <1>5 DEF PoolInv

LEMMA PoolInit == Init => PoolInv
<1> SUFFICES ASSUME Init PROVE PoolInv
  OBVIOUS
<1>1. Shapes
  BY DEF Init, Shapes, Phases
<1>2. Claimers = {}
  BY DEF Init, Claimers
<1>3. SlotsInv
  BY <1>2, FS_EmptySet DEF Init, SlotsInv
<1>4. PathsInv
  BY DEF Init, PathsInv, Nowhere, Holding, SlotsOf, Waiting, Filled
<1> QED BY <1>1, <1>3, <1>4 DEF PoolInv

\* The walk puts each path it found into the channel once.
LEMMA ListPool ==
  ASSUME PoolInv, List
  PROVE  PoolInv'
<1> DEFINE S == {d \in Docs : file[d] # NoFile}
           n == Cardinality(S)
<1>1. S \in SUBSET Nat /\ IsFiniteSet(S)
  <2>1. S \in SUBSET Docs
    OBVIOUS
  <2> HIDE DEF S
  <2> QED BY <2>1, QueryAssumption, FS_Subset
<1>2. /\ n \in Nat /\ jobs' = InOrder(S) /\ jobs' \in [1..n -> S]
      /\ \A i, j \in 1..n : jobs'[i] = jobs'[j] => i = j
      /\ \A x \in S : \E i \in 1..n : jobs'[i] = x
  <2>1. jobs' = InOrder(S)
    BY DEF List
  <2> HIDE DEF S
  <2> QED BY <1>1, <2>1, InOrderLists
<1>3. jobs' \in Seq(Docs) /\ Len(jobs') = n /\ DOMAIN jobs' = 1..n
  <2>1. jobs' \in [1..n -> Docs]
    BY <1>2
  <2> HIDE DEF S
  <2> QED BY <1>2, <2>1
<1>4. slots' = [i \in 1..n |-> Unfilled]
  <2>1. DOMAIN InOrder(S) = 1..n
    BY <1>2, <1>3
  <2> QED BY <2>1 DEF List
<1> HIDE DEF n
<1>5. /\ slots' \in Seq(Slots \cup {Unfilled}) /\ Len(slots') = n /\ DOMAIN slots' = 1..n
      /\ \A i \in 1..n : slots'[i] = Unfilled
  BY <1>2, <1>4
<1>6. /\ stage = "start" /\ stage' = "walk" /\ idx = 0 /\ idx' = 0 /\ worker' = worker
      /\ listed' = file /\ file' = file /\ edited' = edited
      /\ \A w \in Workers : worker[w].at = "take"
  BY DEF List, PoolInv, SlotsInv
<1>7. Shapes'
  BY <1>3, <1>5, <1>6 DEF PoolInv, Shapes
<1>8. Claimers' = {}
  BY <1>6 DEF Claimers
<1>9. SlotsInv'
  BY <1>2, <1>3, <1>5, <1>6, <1>8, FS_EmptySet DEF PoolInv, SlotsInv
<1>10. ASSUME NEW d \in Docs
       PROVE  IF listed'[d] = NoFile THEN Nowhere(d)' ELSE InOnePlace(d)'
  <2>1. Holding(d)' = {} /\ SlotsOf(d)' = {}
    BY <1>5, <1>6 DEF Holding, SlotsOf, Filled
  <2>2. CASE file[d] = NoFile
    <3>1. \A i \in 1..n : jobs'[i] # d
      BY <1>2, <2>2
    <3>2. Waiting(d)' = {}
      BY <1>3, <3>1 DEF Waiting
    <3> QED BY <1>6, <2>1, <2>2, <3>2 DEF Nowhere
  <2>3. CASE file[d] # NoFile
    <3>1. PICK i \in 1..n : jobs'[i] = d
      BY <1>2, <2>3
    <3>2. \A j \in 1..n : jobs'[j] = d <=> j = i
      BY <1>2, <3>1
    <3>3. Waiting(d)' = {i}
      BY <1>3, <3>2 DEF Waiting
    <3> QED BY <1>3, <1>6, <2>1, <2>3, <3>3 DEF InOnePlace
  <2> QED BY <2>2, <2>3
<1>11. PathsInv'
  BY <1>6, <1>10 DEF PathsInv
<1> QED BY <1>7, <1>9, <1>11 DEF PoolInv

\* What a goroutine is at.
LEMMA WorkerShape ==
  ASSUME PoolInv, NEW w \in Workers
  PROVE  /\ worker[w].at \in Phases /\ worker[w].path \in Docs \cup {0} /\ worker[w].slot \in Nat
         /\ worker[w] = [at |-> worker[w].at, path |-> worker[w].path, slot |-> worker[w].slot]
         /\ Len(jobs) \in Nat /\ Len(slots) \in Nat /\ DOMAIN slots = 1..Len(slots)
         /\ DOMAIN jobs = 1..Len(jobs) /\ Cardinality(Claimers) \in Nat
BY FS_CardinalityType DEF PoolInv, Shapes, SlotsInv

LEMMA TakeJobPool ==
  ASSUME PoolInv, NEW w \in Workers, TakeJob(w)
  PROVE  PoolInv'
<1> DEFINE d0 == Head(jobs)
           r == [at |-> "claim", path |-> d0, slot |-> 0]
<1>0. /\ worker[w].at \in Phases /\ worker[w].path \in Docs \cup {0} /\ worker[w].slot \in Nat
      /\ worker[w] = [at |-> worker[w].at, path |-> worker[w].path, slot |-> worker[w].slot]
      /\ Len(jobs) \in Nat /\ Len(slots) \in Nat /\ DOMAIN slots = 1..Len(slots)
      /\ DOMAIN jobs = 1..Len(jobs) /\ Cardinality(Claimers) \in Nat
  BY WorkerShape
<1>1. /\ jobs \in Seq(Docs) /\ jobs # <<>> /\ Len(jobs) \in Nat \ {0}
      /\ d0 \in Docs /\ d0 = jobs[1] /\ jobs' \in Seq(Docs)
      /\ Len(jobs') = Len(jobs) - 1
      /\ \A i \in 1..(Len(jobs) - 1) : jobs'[i] = jobs[i + 1]
  BY HeadTailProperties DEF TakeJob, PoolInv, Shapes
<1>2. /\ worker[w].at = "take" /\ \A v \in Workers : worker'[v] = IF v = w THEN r ELSE worker[v]
      /\ worker' \in [Workers -> [at : Phases, path : Docs \cup {0}, slot : Nat]]
      /\ UNCHANGED <<file, listed, stage, slots, idx, edited>>
  BY <1>1 DEF TakeJob, WorkerAt, PoolInv, Shapes, PoolUnchanged, Phases
<1>3. Shapes'
  <2>1. ASSUME NEW v \in Workers, worker'[v].at \in {"claim", "parse"} PROVE worker'[v].path \in Docs
    <3>1. CASE v = w
      BY <1>1, <1>2, <3>1
    <3>2. CASE v # w
      BY <1>2, <2>1, <3>2 DEF PoolInv, Shapes
    <3> QED BY <3>1, <3>2
  <2> QED BY <1>1, <1>2, <2>1 DEF PoolInv, Shapes
<1>4. Claimers' = Claimers \cup {w} /\ w \notin Claimers
  BY <1>2 DEF Claimers
<1>5. IsFiniteSet(Claimers') /\ Cardinality(Claimers') = Cardinality(Claimers) + 1
  BY <1>4, FS_AddElement DEF PoolInv, SlotsInv
<1>6. SlotsInv'
  <2>1. idx' + Cardinality(Claimers') + Len(jobs') = Len(slots')
    BY <1>1, <1>2, <1>5, <1>0 DEF PoolInv, SlotsInv, Shapes
  <2>2. stage # "start" /\ \A v \in Workers : worker[v].at # "done"
    BY <1>1 DEF PoolInv, SlotsInv
  <2> QED BY <1>2, <1>5, <2>1, <2>2 DEF PoolInv, SlotsInv
<1>7. \A d \in Docs : SlotsOf(d)' = SlotsOf(d)
  BY <1>2 DEF SlotsOf, Filled
<1>8. \A d \in Docs : Holding(d)' = IF d = d0 THEN Holding(d) \cup {w} ELSE Holding(d)
  BY <1>2 DEF Holding
<1>9. ASSUME NEW d \in Docs
      PROVE  IF listed'[d] = NoFile THEN Nowhere(d)' ELSE InOnePlace(d)'
  <2>1. stage # "start"
    BY DEF TakeJob, WorkerAt
  <2>2. CASE d = d0
    <3>1. 1 \in Waiting(d)
      BY <1>1, <2>2 DEF Waiting
    <3>2. listed[d] # NoFile /\ Holding(d) = {} /\ SlotsOf(d) = {} /\ Waiting(d) = {1}
      BY <2>1, <3>1 DEF PoolInv, PathsInv, Nowhere, InOnePlace
    <3>3. ASSUME NEW i \in 1..(Len(jobs) - 1) PROVE jobs'[i] # d
      <4>1. i + 1 \notin Waiting(d)
        BY <3>2
      <4> QED BY <1>1, <4>1 DEF Waiting
    <3>4. Waiting(d)' = {}
      BY <1>1, <3>3 DEF Waiting
    <3> QED BY <1>2, <1>7, <1>8, <2>2, <3>2, <3>4 DEF InOnePlace
  <2>3. CASE d # d0
    <3>1. ASSUME NEW i \in Nat PROVE i \in Waiting(d)' <=> i + 1 \in Waiting(d) /\ i # 0
      BY <1>1 DEF Waiting
    <3>2. 1 \notin Waiting(d) /\ Waiting(d) \subseteq Nat /\ Waiting(d)' \subseteq Nat
          /\ Waiting(d)' \subseteq DOMAIN jobs'
      BY <1>1, <2>3 DEF Waiting
    <3>3. Waiting(d) = {} => Waiting(d)' = {}
      BY <3>1, <3>2
    <3>4. ASSUME NEW i \in DOMAIN jobs, Waiting(d) = {i}
          PROVE  \E k \in DOMAIN jobs' : Waiting(d)' = {k}
      <4>1. i \in Nat /\ i # 0 /\ i # 1
        BY <3>2, <3>4, <1>1
      <4>2. i - 1 \in Nat /\ i - 1 # 0 /\ i - 1 + 1 = i
        BY <4>1
      <4>3. i - 1 \in Waiting(d)'
        BY <3>1, <3>4, <4>2
      <4>4. ASSUME NEW k \in Waiting(d)' PROVE k = i - 1
        BY <3>1, <3>2, <3>4, <4>1, <4>4
      <4>5. Waiting(d)' = {i - 1}
        BY <4>3, <4>4
      <4> QED BY <3>2, <4>3, <4>5
    <3> QED BY <1>2, <1>7, <1>8, <2>1, <2>3, <3>3, <3>4 DEF PoolInv, PathsInv, Nowhere, InOnePlace
  <2> QED BY <2>2, <2>3
<1>10. PathsInv'
  <2>1. stage' # "start"
    BY <1>2 DEF TakeJob, WorkerAt
  <2> QED BY <1>9, <2>1 DEF PathsInv
<1> QED BY <1>3, <1>6, <1>10 DEF PoolInv

LEMMA ClaimSlotPool ==
  ASSUME PoolInv, NEW w \in Workers, ClaimSlot(w)
  PROVE  PoolInv'
<1> DEFINE r == [worker[w] EXCEPT !.at = "parse", !.slot = idx + 1]
<1>0. /\ worker[w].at \in Phases /\ worker[w].path \in Docs \cup {0} /\ worker[w].slot \in Nat
      /\ worker[w] = [at |-> worker[w].at, path |-> worker[w].path, slot |-> worker[w].slot]
      /\ Len(jobs) \in Nat /\ Len(slots) \in Nat /\ DOMAIN slots = 1..Len(slots)
      /\ DOMAIN jobs = 1..Len(jobs) /\ Cardinality(Claimers) \in Nat
  BY WorkerShape
<1>1. /\ worker[w].at = "claim" /\ idx' = idx + 1 /\ idx \in Nat /\ worker[w].path \in Docs
      /\ worker' = [worker EXCEPT ![w] = r]
      /\ UNCHANGED <<file, listed, stage, slots, jobs, edited>>
  BY <1>0 DEF ClaimSlot, WorkerAt, PoolInv, Shapes, PoolUnchanged
<1>10. /\ r.at = "parse" /\ r.path = worker[w].path /\ r.slot = idx + 1
      /\ r \in [at : Phases, path : Docs \cup {0}, slot : Nat]
  <2>1. worker[w] \in [at : Phases, path : Docs \cup {0}, slot : Nat]
    BY <1>0
  <2>2. idx + 1 \in Nat /\ "parse" \in Phases
    BY <1>1 DEF Phases
  <2>3. PICK e, k : e = worker[w] /\ k = idx + 1
    OBVIOUS
  <2>4. LET x == [e EXCEPT !.at = "parse", !.slot = k] IN
        /\ x.at = "parse" /\ x.path = e.path /\ x.slot = k
        /\ x \in [at : Phases, path : Docs \cup {0}, slot : Nat]
    BY <2>1, <2>2, <2>3
  <2> QED BY <2>3, <2>4
<1> HIDE DEF r
<1>2. /\ \A v \in Workers : worker'[v] = IF v = w THEN r ELSE worker[v]
      /\ worker' \in [Workers -> [at : Phases, path : Docs \cup {0}, slot : Nat]]
  BY <1>1, <1>10 DEF PoolInv, Shapes
<1>3. Shapes'
  BY <1>1, <1>2, <1>10 DEF PoolInv, Shapes
<1>4. Claimers' = Claimers \ {w} /\ w \in Claimers
  BY <1>1, <1>2, <1>10 DEF Claimers
<1>5. /\ IsFiniteSet(Claimers') /\ Cardinality(Claimers') = Cardinality(Claimers) - 1
      /\ Cardinality(Claimers) # 0
  BY <1>4, FS_RemoveElement, FS_EmptySet DEF PoolInv, SlotsInv
<1>6. idx + 1 \in DOMAIN slots
  BY <1>0, <1>1, <1>5 DEF PoolInv, SlotsInv
<1>7. SlotsInv'
  <2>1. idx' + Cardinality(Claimers') + Len(jobs') = Len(slots')
    BY <1>0, <1>1, <1>5 DEF PoolInv, SlotsInv
  <2>2. \A i \in DOMAIN slots' : i > idx' => slots'[i] = Unfilled
    BY <1>1, <1>0 DEF PoolInv, SlotsInv
  <2>3. slots[idx + 1] = Unfilled
    BY <1>1, <1>6 DEF PoolInv, SlotsInv
  <2>4. ASSUME NEW v \in Workers
        PROVE  IF worker'[v].at = "parse"
                 THEN worker'[v].slot \in 1..idx' /\ slots'[worker'[v].slot] = Unfilled
                 ELSE worker'[v].slot = 0
    BY <1>1, <1>2, <1>10, <2>3 DEF PoolInv, SlotsInv
  <2>5. ASSUME NEW u \in Workers, NEW v \in Workers,
               worker'[u].at = "parse", worker'[v].at = "parse", worker'[u].slot = worker'[v].slot
        PROVE  u = v
    <3>1. \A x \in Workers : x # w /\ worker'[x].at = "parse" => worker'[x].slot # idx + 1
      BY <1>1, <1>2, <1>10 DEF PoolInv, SlotsInv
    <3>2. worker'[w].slot = idx + 1
      BY <1>2, <1>10
    <3>3. (u = w) = (v = w)
      BY <2>5, <3>1, <3>2
    <3> QED BY <1>2, <2>5, <3>3 DEF PoolInv, SlotsInv
  <2>6. stage # "start"
    BY DEF ClaimSlot, WorkerAt
  <2> QED BY <1>1, <1>2, <1>10, <1>5, <2>1, <2>2, <2>4, <2>5, <2>6 DEF PoolInv, SlotsInv
<1>8. \A d \in Docs : Holding(d)' = Holding(d) /\ SlotsOf(d)' = SlotsOf(d) /\ Waiting(d)' = Waiting(d)
  BY <1>1, <1>2, <1>10 DEF Holding, SlotsOf, Filled, Waiting
<1>9. PathsInv'
  BY <1>1, <1>8 DEF PoolInv, PathsInv, Nowhere, InOnePlace
<1> QED BY <1>3, <1>7, <1>9 DEF PoolInv

\* A slot that is filled says which path it is.
LEMMA ParsedShape ==
  ASSUME PoolInv, NEW d \in Docs
  PROVE  Parsed(d) \in Slots /\ Parsed(d).doc = d /\ Parsed(d) # Unfilled
<1>1. Parsed(d) \in Slots /\ Parsed(d).doc = d
  <2>1. Found(d, file[d]).doc = d /\ Failed(d).doc = d
    BY DEF Found, Failed
  <2>2. Failed(d) \in Slots /\ (file[d] \in Versions => Found(d, file[d]) \in Slots)
    BY DEF Slots
  <2> QED BY <2>1, <2>2 DEF Parsed
<1>2. Parsed(d) \in [doc : Docs, version : Versions \cup {NoFile}, error : BOOLEAN]
  BY DEF Parsed, Found, Failed
<1> QED BY <1>1, <1>2, QueryAssumption

LEMMA ParseFilePool ==
  ASSUME PoolInv, NEW w \in Workers, ParseFile(w)
  PROVE  PoolInv'
<1> DEFINE d0 == worker[w].path
           k == worker[w].slot
           r == [at |-> "take", path |-> 0, slot |-> 0]
<1>0. /\ worker[w].at \in Phases /\ worker[w].path \in Docs \cup {0} /\ worker[w].slot \in Nat
      /\ worker[w] = [at |-> worker[w].at, path |-> worker[w].path, slot |-> worker[w].slot]
      /\ Len(jobs) \in Nat /\ Len(slots) \in Nat /\ DOMAIN slots = 1..Len(slots)
      /\ DOMAIN jobs = 1..Len(jobs) /\ Cardinality(Claimers) \in Nat
  BY WorkerShape
<1>1. /\ worker[w].at = "parse" /\ d0 \in Docs /\ k \in 1..idx /\ idx \in Nat
      /\ slots[k] = Unfilled
      /\ worker' = [worker EXCEPT ![w] = r]
      /\ slots' = [slots EXCEPT ![k] = Parsed(d0)]
      /\ UNCHANGED <<file, listed, stage, idx, jobs, edited>>
  BY DEF ParseFile, WorkerAt, PoolInv, Shapes, SlotsInv, PoolUnchanged
<1>2. /\ \A v \in Workers : worker'[v] = IF v = w THEN r ELSE worker[v]
      /\ worker' \in [Workers -> [at : Phases, path : Docs \cup {0}, slot : Nat]]
  BY <1>1 DEF PoolInv, Shapes, Phases
<1>3. k \in DOMAIN slots
  BY <1>1, <1>0 DEF PoolInv, SlotsInv
<1>4. /\ slots' \in Seq(Slots \cup {Unfilled}) /\ Len(slots') = Len(slots)
      /\ DOMAIN slots' = DOMAIN slots
      /\ \A i \in DOMAIN slots : slots'[i] = IF i = k THEN Parsed(d0) ELSE slots[i]
  BY <1>1, <1>3, ParsedShape DEF PoolInv, Shapes
<1>5. Shapes'
  BY <1>1, <1>2, <1>4 DEF PoolInv, Shapes
<1>6. Claimers' = Claimers
  BY <1>1, <1>2 DEF Claimers
<1>7. SlotsInv'
  <2>1. \A i \in DOMAIN slots' : i > idx' => slots'[i] = Unfilled
    BY <1>1, <1>4 DEF PoolInv, SlotsInv
  <2>2. ASSUME NEW v \in Workers
        PROVE  IF worker'[v].at = "parse"
                 THEN worker'[v].slot \in 1..idx' /\ slots'[worker'[v].slot] = Unfilled
                 ELSE worker'[v].slot = 0
    <3>1. CASE v = w
      BY <1>2, <3>1
    <3>2. CASE v # w /\ worker[v].at = "parse"
      <4>1. worker[v].slot \in 1..idx /\ slots[worker[v].slot] = Unfilled /\ worker[v].slot # k
        BY <1>1, <3>2 DEF PoolInv, SlotsInv
      <4>2. worker[v].slot \in DOMAIN slots
        BY <1>1, <4>1, <1>0 DEF PoolInv, SlotsInv
      <4> QED BY <1>1, <1>2, <1>4, <3>2, <4>1, <4>2
    <3>3. CASE v # w /\ worker[v].at # "parse"
      BY <1>2, <3>3 DEF PoolInv, SlotsInv
    <3> QED BY <3>1, <3>2, <3>3
  <2>3. stage # "start"
    BY DEF ParseFile, WorkerAt
  <2> QED BY <1>1, <1>2, <1>4, <1>6, <2>1, <2>2, <2>3 DEF PoolInv, SlotsInv
<1>8. Filled' = Filled \cup {k} /\ k \notin Filled
  BY <1>1, <1>3, <1>4, ParsedShape DEF Filled
<1>9. \A d \in Docs : SlotsOf(d)' = IF d = d0 THEN SlotsOf(d) \cup {k} ELSE SlotsOf(d)
  BY <1>1, <1>3, <1>4, <1>8, ParsedShape DEF SlotsOf, Filled
<1>10. \A d \in Docs : Holding(d)' = IF d = d0 THEN Holding(d) \ {w} ELSE Holding(d)
  BY <1>1, <1>2 DEF Holding
<1>11. \A d \in Docs : Waiting(d)' = Waiting(d)
  BY <1>1 DEF Waiting
<1>12. ASSUME NEW d \in Docs
       PROVE  IF listed'[d] = NoFile THEN Nowhere(d)' ELSE InOnePlace(d)'
  <2>1. stage # "start"
    BY DEF ParseFile, WorkerAt
  <2>2. CASE d = d0
    <3>1. w \in Holding(d)
      BY <1>1, <2>2 DEF Holding
    <3>2. listed[d] # NoFile /\ Holding(d) = {w} /\ SlotsOf(d) = {} /\ Waiting(d) = {}
      BY <2>1, <3>1 DEF PoolInv, PathsInv, Nowhere, InOnePlace
    <3> QED BY <1>1, <1>3, <1>4, <1>9, <1>10, <1>11, <2>2, <3>2 DEF InOnePlace
  <2>3. CASE d # d0
    BY <1>1, <1>4, <1>9, <1>10, <1>11, <2>1, <2>3 DEF PoolInv, PathsInv, Nowhere, InOnePlace
  <2> QED BY <2>2, <2>3
<1>13. PathsInv'
  BY <1>1, <1>12 DEF PathsInv, ParseFile, WorkerAt
<1> QED BY <1>5, <1>7, <1>13 DEF PoolInv

LEMMA LastJobPool ==
  ASSUME PoolInv, NEW w \in Workers, LastJob(w)
  PROVE  PoolInv'
<1> DEFINE r == [at |-> "done", path |-> worker[w].path, slot |-> worker[w].slot]
<1>0. /\ worker[w].at \in Phases /\ worker[w].path \in Docs \cup {0} /\ worker[w].slot \in Nat
      /\ worker[w] = [at |-> worker[w].at, path |-> worker[w].path, slot |-> worker[w].slot]
      /\ Len(jobs) \in Nat /\ Len(slots) \in Nat /\ DOMAIN slots = 1..Len(slots)
      /\ DOMAIN jobs = 1..Len(jobs) /\ Cardinality(Claimers) \in Nat
  BY WorkerShape
<1>1. /\ worker[w].at = "take" /\ stage = "walk" /\ jobs = <<>>
      /\ worker' = [worker EXCEPT ![w] = r]
      /\ UNCHANGED <<file, listed, stage, idx, jobs, slots, edited>>
  <2>1. r = [worker[w] EXCEPT !.at = "done"]
    BY <1>0
  <2>2. worker' = [worker EXCEPT ![w] = [worker[w] EXCEPT !.at = "done"]]
    BY DEF LastJob
  <2> QED BY <2>1, <2>2 DEF LastJob, WorkerAt, PoolUnchanged
<1>2. /\ \A v \in Workers : worker'[v] = IF v = w THEN r ELSE worker[v]
      /\ worker' \in [Workers -> [at : Phases, path : Docs \cup {0}, slot : Nat]]
  BY <1>1, <1>0 DEF PoolInv, Shapes, Phases
<1>3. Shapes'
  BY <1>1, <1>2 DEF PoolInv, Shapes
<1>4. Claimers' = Claimers
  BY <1>1, <1>2 DEF Claimers
<1>5. SlotsInv'
  BY <1>1, <1>2, <1>4 DEF PoolInv, SlotsInv
<1>6. \A d \in Docs : Holding(d)' = Holding(d) /\ SlotsOf(d)' = SlotsOf(d) /\ Waiting(d)' = Waiting(d)
  BY <1>1, <1>2 DEF Holding, SlotsOf, Filled, Waiting
<1>7. PathsInv'
  BY <1>1, <1>6 DEF PoolInv, PathsInv, Nowhere, InOnePlace
<1> QED BY <1>3, <1>5, <1>7 DEF PoolInv

\* Every step keeps the pool in order.
LEMMA PoolStep ==
  ASSUME PoolInv, [Next]_queryVars
  PROVE  PoolInv'
<1>1. ASSUME NEW w \in Workers, WorkerStep(w) PROVE PoolInv'
  BY <1>1, TakeJobPool, ClaimSlotPool, ParseFilePool, LastJobPool DEF WorkerStep
<1>2. ASSUME NEW q \in Queries, Gather(q) PROVE PoolInv'
  <2>1. /\ file' \in [Docs -> Versions \cup {NoFile, Garbled}] /\ edited' \subseteq Docs
    BY <1>2 DEF Gather, PoolInv, Shapes
  <2>2. stage = "walk" /\ stage' \in {"load", "done"} /\ UNCHANGED <<walkVars, listed>>
    BY <1>2 DEF Gather
  <2> QED BY <2>1, <2>2, PoolLeftAlone
<1>3. CASE Load
  <2>1. /\ file' \in [Docs -> Versions \cup {NoFile, Garbled}] /\ edited' \subseteq Docs
    BY <1>3 DEF Load, PoolInv, Shapes
  <2>2. stage = "load" /\ stage' \in {"load", "done"} /\ UNCHANGED <<walkVars, listed>>
    BY <1>3 DEF Load
  <2> QED BY <2>1, <2>2, PoolLeftAlone
<1>4. ASSUME NEW d \in Docs, NEW v \in Versions \cup {NoFile, Garbled}, Edit(d, v) PROVE PoolInv'
  <2>1. /\ file' \in [Docs -> Versions \cup {NoFile, Garbled}] /\ edited' \subseteq Docs
        /\ stage' = stage /\ stage \in {"start", "walk", "load", "done"}
    BY <1>4 DEF Edit, PoolInv, Shapes
  <2>2. UNCHANGED <<walkVars, listed>>
    BY <1>4 DEF Edit
  <2> QED BY <2>1, <2>2, PoolLeftAlone
<1>5. CASE UNCHANGED queryVars
  <2>1. /\ file' \in [Docs -> Versions \cup {NoFile, Garbled}] /\ edited' \subseteq Docs
        /\ stage' = stage /\ stage \in {"start", "walk", "load", "done"}
    BY <1>5 DEF queryVars, PoolInv, Shapes
  <2>2. UNCHANGED <<walkVars, listed>>
    BY <1>5 DEF queryVars
  <2> QED BY <2>1, <2>2, PoolLeftAlone
<1> QED BY <1>1, <1>2, <1>3, <1>4, <1>5, ListPool DEF Next

\* What the pool's order says to the run.
LEMMA PoolCounts ==
  ASSUME PoolInv
  PROVE  EachPathOnce /\ QueryTypeOK
<1>1. \A x : IsFiniteSet({x}) /\ Cardinality({x}) = 1
  BY FS_Singleton
<1>2. Cardinality({}) = 0
  BY FS_EmptySet
<1>3. ASSUME stage = "walk", NEW d \in Docs
      PROVE  Cardinality(Holding(d)) + Cardinality(SlotsOf(d)) + Cardinality(Waiting(d))
               = IF listed[d] = NoFile THEN 0 ELSE 1
  <2>1. CASE listed[d] = NoFile
    BY <1>2, <1>3, <2>1 DEF PoolInv, PathsInv, Nowhere
  <2>2. CASE listed[d] # NoFile
    <3>1. InOnePlace(d)
      BY <1>3, <2>2 DEF PoolInv, PathsInv
    <3>2. PICK h, o, a : h = Holding(d) /\ o = SlotsOf(d) /\ a = Waiting(d)
      OBVIOUS
    <3>3. \/ (\E x : h = {x}) /\ o = {} /\ a = {}
          \/ h = {} /\ (\E x : o = {x}) /\ a = {}
          \/ h = {} /\ o = {} /\ \E x : a = {x}
      BY <3>1, <3>2 DEF InOnePlace
    <3>4. /\ \/ Cardinality(h) = 1 /\ Cardinality(o) = 0 /\ Cardinality(a) = 0
             \/ Cardinality(h) = 0 /\ Cardinality(o) = 1 /\ Cardinality(a) = 0
             \/ Cardinality(h) = 0 /\ Cardinality(o) = 0 /\ Cardinality(a) = 1
      BY <1>1, <1>2, <3>3, Zenon
    <3> QED BY <2>2, <3>2, <3>4
  <2> QED BY <2>1, <2>2
<1>4. EachPathOnce
  BY <1>3 DEF EachPathOnce, PoolInv, SlotsInv
<1>5. /\ Len(jobs) \in Nat /\ Len(slots) \in Nat /\ Cardinality(Claimers) \in Nat
      /\ idx \in Nat /\ idx + Cardinality(Claimers) + Len(jobs) = Len(slots)
  BY FS_CardinalityType DEF PoolInv, Shapes, SlotsInv
<1>6. idx \in 0..Len(slots)
  BY <1>5
<1>7. \A w \in Workers : worker[w].slot \in 0..Len(slots)
  BY <1>5, <1>6 DEF PoolInv, SlotsInv
<1>8. worker \in [Workers -> [at : Phases, path : Docs \cup {0}, slot : 0..Len(slots)]]
  BY <1>7 DEF PoolInv, Shapes
<1> QED BY <1>4, <1>6, <1>8 DEF QueryTypeOK, PoolInv, Shapes, Phases

-----------------------------------------------------------------------------
\* What the slots hold.

\* What the walk makes of d as it was listed, and why it may fail on d.
Record(d) == IF listed[d] \in Versions THEN Found(d, listed[d]) ELSE Failed(d)
Cause(d) == listed[d] = Garbled \/ (d \in edited /\ file[d] \notin Versions)

TruthInv ==
  /\ \A d \in Docs : d \notin edited => file[d] = listed[d]
  /\ \A i \in Filled : /\ slots[i].doc \notin edited => slots[i] = Record(slots[i].doc)
                       /\ slots[i].error => Cause(slots[i].doc)

LEMMA TruthInit == Init => TruthInv
BY DEF Init, TruthInv, Filled

\* A step that leaves the files and the slots alone.
LEMMA TruthStays ==
  ASSUME TruthInv, UNCHANGED <<file, listed, slots, edited>>
  PROVE  TruthInv'
BY DEF TruthInv, Filled, Record, Cause, Found, Failed

LEMMA TruthStep ==
  ASSUME PoolInv, TruthInv, [Next]_queryVars
  PROVE  TruthInv'
<1>1. CASE List
  <2>1. Filled' = {}
    <3>1. \A i \in DOMAIN slots' : slots'[i] = Unfilled
      BY <1>1 DEF List
    <3> QED BY <3>1 DEF Filled
  <2> QED BY <1>1, <2>1 DEF List, TruthInv
<1>2. ASSUME NEW w \in Workers, ParseFile(w) PROVE TruthInv'
  <2> DEFINE d0 == worker[w].path
             k == worker[w].slot
  <2>1. /\ worker[w].at = "parse" /\ d0 \in Docs /\ stage # "start"
        /\ slots' = [slots EXCEPT ![k] = Parsed(d0)]
        /\ UNCHANGED <<file, listed, edited>>
    BY <1>2 DEF ParseFile, WorkerAt, PoolInv, Shapes, PoolUnchanged
  <2>2. \A i \in Filled' : i = k \/ (i \in Filled /\ slots'[i] = slots[i])
    BY <2>1 DEF Filled
  <2>3. k \in Filled' => slots'[k] = Parsed(d0)
    BY <2>1 DEF Filled
  <2>4. listed[d0] # NoFile
    <3>1. w \in Holding(d0)
      BY <2>1 DEF Holding
    <3> QED BY <2>1, <3>1 DEF PoolInv, PathsInv, Nowhere
  <2>5. Parsed(d0).doc = d0 /\ (d0 \notin edited => Parsed(d0) = Record(d0))
    BY <2>1, ParsedShape DEF TruthInv, Parsed, Record
  <2>6. Parsed(d0).error => Cause(d0)
    <3>1. Parsed(d0).error => file[d0] \notin Versions
      BY DEF Parsed, Found
    <3>2. listed[d0] \in Versions \cup {NoFile, Garbled}
      BY <2>1 DEF PoolInv, Shapes
    <3> QED BY <2>1, <2>4, <3>1, <3>2 DEF Cause, TruthInv
  <2>7. \A d : Record(d)' = Record(d) /\ Cause(d)' = Cause(d)
    BY <2>1 DEF Record, Cause
  <2>8. ASSUME NEW i \in Filled'
        PROVE  /\ slots'[i].doc \notin edited' => slots'[i] = Record(slots'[i].doc)
               /\ slots'[i].error => Cause(slots'[i].doc)
    BY <2>1, <2>2, <2>3, <2>5, <2>6 DEF TruthInv
  <2> QED BY <2>1, <2>7, <2>8 DEF TruthInv, Record, Cause
<1>3. ASSUME NEW d \in Docs, NEW v \in Versions \cup {NoFile, Garbled}, Edit(d, v) PROVE TruthInv'
  <2>1. /\ UNCHANGED <<listed, slots>> /\ d \notin edited /\ edited' = edited \cup {d}
        /\ \A c \in Docs : c # d => file'[c] = file[c]
    BY <1>3 DEF Edit, walkVars, PoolInv, Shapes
  <2>2. \A i \in Filled : slots[i].doc \in Docs
    BY DEF PoolInv, Shapes, Filled, Slots, Found, Failed
  <2>3. ASSUME NEW i \in Filled
        PROVE  /\ slots[i].doc \notin edited' => slots[i] = Record(slots[i].doc)
               /\ slots[i].error =>
                    \/ listed[slots[i].doc] = Garbled
                    \/ slots[i].doc \in edited' /\ file'[slots[i].doc] \notin Versions
    BY <2>1, <2>2 DEF TruthInv, Cause
  <2>4. \A c \in Docs : c \notin edited' => file'[c] = listed'[c]
    BY <2>1 DEF TruthInv
  <2>5. Filled' = Filled
    BY <2>1 DEF Filled
  <2> QED BY <2>1, <2>3, <2>4, <2>5 DEF TruthInv, Record, Cause
<1>4. CASE UNCHANGED <<file, listed, slots, edited>>
  BY <1>4, TruthStays
<1>5. ASSUME NEW w \in Workers, TakeJob(w) \/ ClaimSlot(w) \/ LastJob(w)
      PROVE  UNCHANGED <<file, listed, slots, edited>>
  BY <1>5 DEF TakeJob, ClaimSlot, LastJob, PoolUnchanged
<1>6. ASSUME Load \/ UNCHANGED queryVars \/ \E q \in Queries : Gather(q)
      PROVE  UNCHANGED <<file, listed, slots, edited>>
  BY <1>6 DEF Load, queryVars, Gather, walkVars
<1> QED BY <1>1, <1>2, <1>3, <1>4, <1>5, <1>6 DEF Next, WorkerStep

-----------------------------------------------------------------------------
\* The answer.

Texts == {v.text : v \in Versions}
Rows == [doc : Docs, version : [rank : Nat, text : Texts], error : BOOLEAN]

\* r is the record f, but for a document that changed its text.
Copies(r, f) ==
  r.doc = f.doc /\ r.version.rank = f.version.rank /\ (r.doc \notin edited => r = f)

\* No file failed, and the records of the page are those answered, one after the
\* other, and those still to load.
Clean == \A i \in Filled : ~slots[i].error
Pages ==
  /\ Clean /\ rows \in Seq(Rows) /\ answer.rows \in Seq(Rows)
  /\ Len(answer.rows) + Len(rows) = Len(Evaluate(query))
  /\ \A k \in 1..Len(answer.rows) : Copies(answer.rows[k], Evaluate(query)[k])
  /\ \A k \in 1..Len(rows) : rows[k] = Evaluate(query)[Len(answer.rows) + k]

AnswerInv ==
  /\ stage \in {"start", "walk"} => rows = <<>> /\ answer = NoAnswer
  /\ stage \in {"load", "done"} => query \in Queries /\ \A w \in Workers : worker[w].at = "done"
  /\ stage = "load" => Pages /\ rows # <<>> /\ answer.status = "none"
  /\ stage = "done" => \/ answer.status = "error" /\ Cause(answer.rows[1].doc)
                       \/ answer.status = "ok" /\ Pages /\ rows = <<>>

\* A version of a document is its rank and its text.
LEMMA VersionShape ==
  ASSUME NEW v \in Versions
  PROVE  v = [rank |-> v.rank, text |-> v.text] /\ v \in [rank : Nat, text : Texts]
<1>1. v = [rank |-> v.rank, text |-> v.text] /\ v.rank \in Nat
  BY QueryAssumption
<1>2. v.text \in Texts
  BY DEF Texts
<1>3. [rank |-> v.rank, text |-> v.text] \in [rank : Nat, text : Texts]
  BY <1>1, <1>2
<1> QED BY <1>1, <1>3

\* A filled slot without an error has a document and a version of it.
LEMMA FilledShape ==
  ASSUME PoolInv, NEW i \in Filled
  PROVE  /\ i \in DOMAIN slots /\ slots[i].doc \in Docs
         /\ ~slots[i].error => \E v \in Versions : slots[i] = Found(slots[i].doc, v)
<1>1. i \in DOMAIN slots /\ slots[i] \in Slots
  BY DEF PoolInv, Shapes, Filled
<1>2. CASE \E d \in Docs, v \in Versions : slots[i] = Found(d, v)
  <2>1. PICK d \in Docs, v \in Versions : slots[i] = Found(d, v)
    BY <1>2
  <2>2. slots[i].doc = d
    BY <2>1 DEF Found
  <2> QED BY <1>1, <2>1, <2>2
<1>3. CASE \E d \in Docs : slots[i] = Failed(d)
  BY <1>1, <1>3 DEF Failed
<1> QED BY <1>1, <1>2, <1>3 DEF Slots

\* A query with no error is asked of records that have their versions.
LEMMA MatchingShape ==
  ASSUME PoolInv, Clean, NEW q \in Queries
  PROVE  /\ Matching(q) \in SUBSET Nat /\ IsFiniteSet(Matching(q))
         /\ Matching(q) \subseteq Filled
         /\ \A i \in Matching(q) : slots[i] \in Rows /\ slots[i].version.rank \in q.wanted
         /\ q.skip \in Nat /\ q.limit \in Nat /\ q.order \in {"none", "asc", "desc"}
<1>1. DOMAIN slots = 1..Len(slots) /\ Len(slots) \in Nat
  BY DEF PoolInv, Shapes
<1>2. Matching(q) \in SUBSET (1..Len(slots)) /\ Matching(q) \subseteq Filled
  BY <1>1 DEF Matching, Filled
<1>3. IsFiniteSet(1..Len(slots))
  BY <1>1, FS_Interval
<1>4. IsFiniteSet(Matching(q))
  BY <1>2, <1>3, FS_Subset
<1>5. ASSUME NEW i \in Matching(q) PROVE slots[i] \in Rows /\ slots[i].version.rank \in q.wanted
  <2>1. i \in Filled /\ Wanted(q, slots[i]) /\ ~slots[i].error
    BY <1>2 DEF Matching, Clean
  <2>2. PICK v \in Versions : slots[i] = Found(slots[i].doc, v) /\ slots[i].doc \in Docs
    BY <2>1, FilledShape
  <2>3. Found(slots[i].doc, v) \in Rows
    BY <2>2, VersionShape DEF Found, Rows
  <2> QED BY <2>1, <2>2, <2>3 DEF Wanted
<1> QED BY <1>2, <1>4, <1>5, QueryAssumption

\* A page has as many records as the query leaves room for; what it says of them
\* it takes from the slots, in an order the query allows.
LEMMA EvaluateShape ==
  ASSUME PoolInv, Clean, NEW q \in Queries
  PROVE  LET all == Cardinality(Matching(q)) IN
         /\ all \in Nat
         /\ Evaluate(q) \in Seq(Rows)
         /\ Len(Evaluate(q)) = PageLength(all, q)
         /\ \E at : /\ Arranges(at, Sorted(slots, Matching(q), q.order), slots, Matching(q), q.order)
                    /\ \A k \in 1..PageLength(all, q) :
                         /\ q.skip + k \in 1..all
                         /\ at[q.skip + k] \in Matching(q)
                         /\ Evaluate(q)[k] = slots[at[q.skip + k]]
<1> DEFINE I == Matching(q)
           n == Cardinality(I)
           t == Sorted(slots, I, q.order)
<1>1. /\ I \in SUBSET Nat /\ IsFiniteSet(I)
      /\ \A i \in I : slots[i] \in Rows
      /\ q.skip \in Nat /\ q.limit \in Nat /\ q.order \in {"none", "asc", "desc"}
  BY MatchingShape
<1>2. n \in Nat
  BY <1>1, FS_CardinalityType
<1>3. \A i \in I : slots[i].version.rank \in Nat
  BY <1>1 DEF Rows
<1>4. PICK at : Arranges(at, t, slots, I, q.order)
  BY <1>1, <1>3, SortedArranges
<1>5. at \in [1..n -> I] /\ t = [k \in 1..n |-> slots[at[k]]]
  BY <1>4 DEF Arranges
<1> HIDE DEF I
<1>6. t \in [1..n -> Rows]
  <2>1. \A k \in 1..n : slots[at[k]] \in Rows
    BY <1>1, <1>5
  <2> QED BY <1>5, <2>1
<1> HIDE DEF t, n
<1>7. t \in Seq(Rows) /\ Len(t) = n
  BY <1>2, <1>6
<1>8. /\ Page(t, q) \in Seq(Rows) /\ Len(Page(t, q)) = PageLength(n, q)
      /\ \A k \in 1..PageLength(n, q) : q.skip + k \in 1..n /\ Page(t, q)[k] = t[q.skip + k]
  <2>1. q.skip \in Nat /\ q.limit \in Nat
    BY <1>1
  <2> QED BY <1>7, <2>1, PageOf
<1>9. Evaluate(q) = Page(t, q)
  BY DEF Evaluate, t, I
<1>10. \A k \in 1..PageLength(n, q) : at[q.skip + k] \in I /\ Evaluate(q)[k] = slots[at[q.skip + k]]
  BY <1>5, <1>8, <1>9
<1> QED BY <1>2, <1>4, <1>8, <1>9, <1>10 DEF n, I, t

\* The errors of a walk have a first one.
LEMMA FirstError ==
  ASSUME NEW n \in Nat, NEW I, I \subseteq 1..n, I # {}
  PROVE  \E i \in I : \A j \in I : i <= j
<1>1. I \subseteq Nat
  OBVIOUS
<1>2. PICK i \in I : \A j \in I : ~ <<j, i>> \in OpToRel(<, Nat)
  BY <1>1, NatLessThanWellFounded, WFMin
<1>3. \A j \in Nat, k \in Nat : j < k => <<j, k>> \in OpToRel(<, Nat)
  BY Zenon DEF OpToRel
<1>4. ASSUME NEW j \in I PROVE i <= j
  <2>1. i \in Nat /\ j \in Nat /\ ~(j < i)
    BY <1>1, <1>2, <1>3
  <2> QED BY <2>1
<1> QED BY <1>4

LEMMA AnswerInit == Init => AnswerInv
BY DEF Init, AnswerInv

LEMMA GatherAnswer ==
  ASSUME PoolInv, TruthInv, AnswerInv, NEW q \in Queries, Gather(q)
  PROVE  AnswerInv'
<1> DEFINE errors == {i \in Filled : slots[i].error}
           e == CHOOSE i \in errors : \A j \in errors : i <= j
<1>1. /\ query' = q /\ stage = "walk" /\ \A w \in Workers : worker[w].at = "done"
      /\ UNCHANGED <<file, walkVars, listed, edited>>
      /\ rows = <<>> /\ answer = NoAnswer /\ stage' \in {"load", "done"}
  BY DEF Gather, AnswerInv
<1>2. UNCHANGED <<worker, slots>>
  BY <1>1 DEF walkVars
<1>3. \A d : Cause(d)' = Cause(d)
  BY <1>1 DEF Cause
<1>4. CASE errors # {}
  <2>1. stage' = "done" /\ answer' = [status |-> "error", rows |-> <<slots[e]>>]
    BY <1>4 DEF Gather
  <2>2. e \in errors
    <3>1. Len(slots) \in Nat /\ errors \subseteq 1..Len(slots)
      BY DEF PoolInv, Shapes, Filled
    <3> HIDE DEF errors
    <3> QED BY <1>4, <3>1, FirstError
  <2>3. Cause(slots[e].doc)
    <3> HIDE DEF e
    <3> QED BY <2>2 DEF TruthInv
  <2>4. answer'.status = "error" /\ answer'.rows[1].doc = slots[e].doc
    BY <2>1
  <2> HIDE DEF e
  <2>5. Cause(answer.rows[1].doc)'
    BY <1>1, <2>3, <2>4 DEF Cause
  <2> QED BY <1>1, <1>2, <2>1, <2>4, <2>5 DEF AnswerInv
<1>5. CASE errors = {}
  <2>1. Clean /\ Clean'
    BY <1>2, <1>5 DEF Clean, Filled
  <2>2. Evaluate(q) \in Seq(Rows)
    BY <2>1, EvaluateShape
  <2>3. Evaluate(query)' = Evaluate(q)
    BY <1>1, <1>2 DEF Evaluate, Matching, Filled
  <2> DEFINE found == Evaluate(q)
  <2>4. CASE stage' = "load"
    <3>1. rows' = found /\ found # <<>> /\ answer' = NoAnswer
      BY <1>1, <1>5, <2>4 DEF Gather
    <3> HIDE DEF found
    <3>2. answer'.rows = <<>> /\ answer'.status = "none"
      BY <3>1 DEF NoAnswer
    <3>3. Pages'
      BY <2>1, <2>2, <2>3, <3>1, <3>2 DEF Pages, found
    <3> QED BY <1>1, <1>2, <2>4, <3>1, <3>2, <3>3 DEF AnswerInv
  <2>5. CASE stage' = "done"
    <3>1. answer' = [status |-> "ok", rows |-> found] /\ rows' = <<>>
      BY <1>1, <1>5, <2>5 DEF Gather
    <3> HIDE DEF found
    <3>2. answer'.rows = found /\ answer'.status = "ok"
      BY <3>1
    <3>3. Pages'
      BY <2>1, <2>2, <2>3, <3>1, <3>2 DEF Pages, Copies, found
    <3> QED BY <1>1, <1>2, <2>5, <3>1, <3>2, <3>3 DEF AnswerInv
  <2> QED BY <1>1, <2>4, <2>5
<1> QED BY <1>4, <1>5

\* A record that is still to be loaded is the listed version, or of a document
\* that changed.
LEMMA RowShape ==
  ASSUME PoolInv, TruthInv, AnswerInv, stage = "load"
  PROVE  /\ Head(rows) = rows[1] /\ rows[1] \in Rows /\ rows[1].doc \in Docs
         /\ rows[1].doc \notin edited =>
              /\ file[rows[1].doc] = listed[rows[1].doc] /\ listed[rows[1].doc] \in Versions
              /\ rows[1] = Found(rows[1].doc, listed[rows[1].doc])
<1>1. rows \in Seq(Rows) /\ rows # <<>> /\ Clean /\ query \in Queries /\ answer.rows \in Seq(Rows)
      /\ Len(answer.rows) + Len(rows) = Len(Evaluate(query))
      /\ \A k \in 1..Len(rows) : rows[k] = Evaluate(query)[Len(answer.rows) + k]
  BY DEF AnswerInv, Pages
<1>2. Head(rows) = rows[1] /\ rows[1] \in Rows /\ 1 \in 1..Len(rows) /\ Len(rows) \in Nat
      /\ Len(answer.rows) \in Nat
  BY <1>1
<1>3. rows[1].doc \in Docs
  BY <1>2 DEF Rows
<1> DEFINE all == Cardinality(Matching(query))
           k == Len(answer.rows) + 1
<1>4. /\ Len(Evaluate(query)) = PageLength(all, query)
      /\ \E at : \A m \in 1..PageLength(all, query) :
            /\ at[query.skip + m] \in Matching(query)
            /\ Evaluate(query)[m] = slots[at[query.skip + m]]
  BY <1>1, EvaluateShape
<1>5. k \in 1..PageLength(all, query) /\ rows[1] = Evaluate(query)[k]
  BY <1>1, <1>2, <1>4
<1>6. PICK i \in Matching(query) : rows[1] = slots[i]
  <2> HIDE DEF k, all
  <2> QED BY <1>4, <1>5
<1>7. i \in Filled /\ ~slots[i].error
  BY <1>1, <1>6 DEF Matching, Clean
<1>8. ASSUME rows[1].doc \notin edited
      PROVE  /\ file[rows[1].doc] = listed[rows[1].doc] /\ listed[rows[1].doc] \in Versions
             /\ rows[1] = Found(rows[1].doc, listed[rows[1].doc])
  <2>1. rows[1] = Record(rows[1].doc) /\ file[rows[1].doc] = listed[rows[1].doc]
    BY <1>3, <1>6, <1>7, <1>8 DEF TruthInv
  <2>2. listed[rows[1].doc] \in Versions
    BY <1>6, <1>7, <2>1 DEF Record, Failed
  <2> QED BY <2>1, <2>2 DEF Record
<1> QED BY <1>2, <1>3, <1>8

LEMMA LoadAnswer ==
  ASSUME PoolInv, TruthInv, AnswerInv, Load
  PROVE  AnswerInv'
<1> DEFINE r == rows[1]
<1>1. /\ stage = "load" /\ UNCHANGED <<file, worker, slots, query, listed, edited>>
      /\ query \in Queries /\ \A w \in Workers : worker[w].at = "done"
      /\ Pages /\ rows # <<>>
  BY DEF Load, walkVars, AnswerInv
<1>2. /\ Head(rows) = r /\ r \in Rows /\ r.doc \in Docs
      /\ r.doc \notin edited =>
           /\ file[r.doc] = listed[r.doc] /\ listed[r.doc] \in Versions
           /\ r = Found(r.doc, listed[r.doc])
  BY <1>1, RowShape
<1>3. CASE file[r.doc] \notin Versions
  <2>1. stage' = "done" /\ answer' = [status |-> "error", rows |-> <<Failed(r.doc)>>]
    BY <1>2, <1>3 DEF Load
  <2>2. answer'.status = "error" /\ answer'.rows[1].doc = r.doc
    BY <2>1 DEF Failed
  <2>3. r.doc \in edited
    BY <1>2, <1>3
  <2> HIDE DEF r
  <2> QED BY <1>1, <1>3, <2>1, <2>2, <2>3 DEF AnswerInv, Cause
<1>4. CASE file[r.doc] \in Versions
  <2> DEFINE c == Reloaded(r)
  <2>1. /\ stage' = IF Len(rows) = 1 THEN "done" ELSE "load"
        /\ rows' = Tail(rows)
        /\ answer' = [status |-> IF Len(rows) = 1 THEN "ok" ELSE "none",
                      rows |-> Append(answer.rows, c)]
    BY <1>2, <1>4 DEF Load
  <2>2. c \in Rows /\ c.doc = r.doc /\ c.version.rank = r.version.rank
    <3>1. file[r.doc].text \in Texts
      BY <1>4 DEF Texts
    <3> QED BY <1>2, <3>1 DEF Reloaded, Found, Rows
  <2>3. r.doc \notin edited => c = r
    <3>1. ASSUME r.doc \notin edited PROVE c = r
      <4>1. PICK v \in Versions : v = listed[r.doc] /\ r = Found(r.doc, v) /\ file[r.doc] = v
        BY <1>2, <3>1
      <4>2. r.version = v
        BY <4>1 DEF Found
      <4>3. v = [rank |-> v.rank, text |-> v.text]
        BY VersionShape
      <4>4. c = Found(r.doc, v)
        BY <4>1, <4>2, <4>3 DEF Reloaded
      <4> QED BY <4>1, <4>4
    <3> QED BY <3>1
  <2>4. Copies(c, r)
    BY <2>2, <2>3 DEF Copies
  <2> HIDE DEF c
  <2> DEFINE found == Evaluate(query)
             m == Len(answer.rows)
             n == Len(rows)
  <2>5. /\ rows \in Seq(Rows) /\ answer.rows \in Seq(Rows) /\ m + n = Len(found)
        /\ \A k \in 1..m : Copies(answer.rows[k], found[k])
        /\ \A k \in 1..n : rows[k] = found[m + k]
    BY <1>1 DEF Pages
  <2>6. Evaluate(query)' = found
    BY <1>1 DEF Evaluate, Matching, Filled
  <2> HIDE DEF found
  <2>7. /\ rows' \in Seq(Rows) /\ Len(rows') = n - 1 /\ m \in Nat /\ n \in Nat \ {0}
        /\ \A k \in 1..(n - 1) : rows'[k] = rows[k + 1]
    BY <1>1, <2>1, <2>5
  <2>8. /\ answer'.rows \in Seq(Rows) /\ Len(answer'.rows) = m + 1
        /\ \A k \in 1..(m + 1) : answer'.rows[k] = IF k <= m THEN answer.rows[k] ELSE c
        /\ answer'.status = IF n = 1 THEN "ok" ELSE "none"
    BY <2>1, <2>2, <2>5, AppendProperties
  <2> HIDE DEF m, n
  <2>9. \A k \in 1..(m + 1) : Copies(answer'.rows[k], found[k])
    <3>1. r = found[m + 1]
      BY <2>5, <2>7
    <3>2. ASSUME NEW k \in 1..(m + 1) PROVE Copies(answer'.rows[k], found[k])
      <4>1. CASE k <= m
        <5>1. k \in 1..m /\ answer'.rows[k] = answer.rows[k]
          BY <2>7, <2>8, <4>1
        <5> QED BY <2>5, <5>1
      <4>2. CASE ~(k <= m)
        <5>1. k = m + 1 /\ answer'.rows[k] = c
          BY <2>7, <2>8, <4>2
        <5> QED BY <2>4, <3>1, <5>1
      <4> QED BY <4>1, <4>2
    <3> QED BY <3>2
  <2>10. \A k \in 1..(n - 1) : rows'[k] = found[m + 1 + k]
    BY <2>5, <2>7
  <2>11. Clean'
    BY <1>1 DEF Pages, Clean, Filled
  <2>12. Pages'
    <3>1. \A x, y : Copies(x, y)' = Copies(x, y)
      BY <1>1 DEF Copies
    <3>2. \A k \in 1..Len(answer'.rows) : Copies(answer.rows[k], Evaluate(query)[k])'
      BY <1>1, <2>6, <2>8, <2>9 DEF Copies
    <3>3. Len(answer'.rows) + Len(rows') = Len(found)
      BY <2>5, <2>7, <2>8
    <3>4. \A k \in 1..Len(rows') : rows'[k] = found[Len(answer'.rows) + k]
      BY <2>7, <2>8, <2>10
    <3> QED BY <2>6, <2>7, <2>8, <2>11, <3>2, <3>3, <3>4 DEF Pages
  <2>13. CASE n = 1
    <3>1. stage' = "done" /\ rows' = <<>> /\ answer'.status = "ok"
      BY <2>1, <2>7, <2>8, <2>13 DEF n
    <3> QED BY <1>1, <2>12, <3>1 DEF AnswerInv
  <2>14. CASE n # 1
    <3>1. stage' = "load" /\ rows' # <<>> /\ answer'.status = "none"
      <4>1. Len(rows') # 0
        BY <2>7, <2>14
      <4>2. rows' # <<>>
        BY <4>1
      <4> QED BY <2>1, <2>8, <2>14, <4>2 DEF n
    <3> QED BY <1>1, <2>12, <3>1 DEF AnswerInv
  <2> QED BY <2>13, <2>14
<1> QED BY <1>3, <1>4

LEMMA AnswerStep ==
  ASSUME PoolInv, TruthInv, AnswerInv, [Next]_queryVars
  PROVE  AnswerInv'
<1>1. CASE List
  <2>1. stage' = "walk" /\ rows' = <<>> /\ answer' = NoAnswer
    BY <1>1 DEF List, AnswerInv
  <2> QED BY <2>1 DEF AnswerInv
<1>2. ASSUME NEW w \in Workers, WorkerStep(w) PROVE AnswerInv'
  <2>1. stage' = "walk" /\ rows' = <<>> /\ answer' = NoAnswer
    BY <1>2 DEF WorkerStep, TakeJob, ClaimSlot, ParseFile, LastJob, WorkerAt, PoolUnchanged, AnswerInv
  <2> QED BY <2>1 DEF AnswerInv
<1>3. ASSUME NEW d \in Docs, NEW v \in Versions \cup {NoFile, Garbled}, Edit(d, v) PROVE AnswerInv'
  <2>1. /\ stage \in {"walk", "load"} /\ edited \subseteq edited'
        /\ UNCHANGED <<stage, worker, slots, query, rows, answer>>
    BY <1>3 DEF Edit, walkVars
  <2>2. CASE stage = "walk"
    BY <2>1, <2>2 DEF AnswerInv
  <2>3. CASE stage = "load"
    <3>1. Pages /\ rows # <<>> /\ answer.status = "none"
      BY <2>3 DEF AnswerInv
    <3>2. \A r, f : Copies(r, f) => r.doc = f.doc /\ r.version.rank = f.version.rank
                                    /\ (r.doc \notin edited' => r = f)
      BY <2>1 DEF Copies
    <3>3. Evaluate(query)' = Evaluate(query) /\ Clean'
      BY <2>1, <3>1 DEF Evaluate, Matching, Filled, Pages, Clean
    <3>4. \A k \in 1..Len(answer.rows) : Copies(answer.rows[k], Evaluate(query)[k])'
      BY <2>1, <3>1, <3>2, <3>3 DEF Pages, Copies
    <3>5. Pages'
      BY <2>1, <3>1, <3>3, <3>4 DEF Pages
    <3> QED BY <2>1, <2>3, <3>1, <3>5 DEF AnswerInv
  <2> QED BY <2>1, <2>2, <2>3
<1>4. CASE UNCHANGED queryVars
  BY <1>4 DEF queryVars, walkVars, AnswerInv, Pages, Clean, Copies, Cause, Evaluate, Matching, Filled
<1> QED BY <1>1, <1>2, <1>3, <1>4, GatherAnswer, LoadAnswer DEF Next

-----------------------------------------------------------------------------
\* What the answer says.

QueryInv == PoolInv /\ TruthInv /\ AnswerInv

LEMMA QueryInvAlways == Spec => []QueryInv
<1>1. Init => QueryInv
  BY PoolInit, TruthInit, AnswerInit DEF QueryInv
<1>2. QueryInv /\ [Next]_queryVars => QueryInv'
  BY PoolStep, TruthStep, AnswerStep DEF QueryInv
<1> QED BY <1>1, <1>2, PTL DEF Spec

\* Once the records are gathered, every file that was listed has its slot.
LEMMA AllGathered ==
  ASSUME QueryInv, stage \in {"load", "done"}, NEW d \in Docs
  PROVE  /\ listed[d] # NoFile => \E i \in DOMAIN slots : SlotsOf(d) = {i}
         /\ listed[d] = NoFile => SlotsOf(d) = {}
<1>1. PICK w \in Workers : TRUE
  BY QueryAssumption
<1>2. \A v \in Workers : worker[v].at = "done"
  BY DEF QueryInv, AnswerInv
<1>3. jobs = <<>>
  BY <1>1, <1>2 DEF QueryInv, PoolInv, SlotsInv
<1>4. Holding(d) = {}
  BY <1>2 DEF Holding
<1>5. DOMAIN jobs = {}
  BY <1>3
<1> QED BY <1>4, <1>5 DEF QueryInv, PoolInv, PathsInv, InOnePlace, Nowhere

\* A file that the walk matched was listed that way, unless it changed; and a file
\* that was listed that way and did not change is matched, by one slot.
LEMMA MatchedSlots ==
  ASSUME QueryInv, stage \in {"load", "done"}, Clean
  PROVE  /\ \A i \in Matching(query) :
              /\ slots[i].doc \in Docs
              /\ Steady(slots[i].doc) => /\ Matches(slots[i].doc)
                                         /\ slots[i] = Found(slots[i].doc, listed[slots[i].doc])
         /\ \A d \in Docs : Steady(d) /\ Matches(d) =>
              \E i \in Matching(query) : slots[i].doc = d
         /\ \A i, j \in Matching(query) : slots[i].doc = slots[j].doc => i = j
         /\ \A d \in Docs : Steady(d) => listed[d] # Garbled
<1>1. Matching(query) \subseteq Filled
  BY DEF Matching
<1>2. \A i \in Filled : /\ i \in SlotsOf(slots[i].doc) /\ slots[i].doc \in Docs
                        /\ ~slots[i].error
                        /\ Steady(slots[i].doc) => slots[i] = Record(slots[i].doc)
  BY FilledShape DEF SlotsOf, QueryInv, TruthInv, Steady, Clean
<1>3. \A d \in Docs : Failed(d).error /\ \A v : Found(d, v).version = v /\ Found(d, v).doc = d
  BY DEF Failed, Found
<1>4. ASSUME NEW i \in Filled, Steady(slots[i].doc)
      PROVE  /\ listed[slots[i].doc] \in Versions
             /\ slots[i] = Found(slots[i].doc, listed[slots[i].doc])
             /\ slots[i].version = listed[slots[i].doc]
  BY <1>2, <1>3, <1>4 DEF Record
<1>5. ASSUME NEW i \in Matching(query), Steady(slots[i].doc) PROVE Matches(slots[i].doc)
  BY <1>1, <1>4, <1>5 DEF Matching, Wanted, Matches
<1>6. ASSUME NEW d \in Docs, listed[d] # NoFile PROVE \E i \in Filled : slots[i].doc = d
  BY <1>6, AllGathered DEF SlotsOf
<1>7. ASSUME NEW d \in Docs, Steady(d), Matches(d)
      PROVE  \E i \in Matching(query) : slots[i].doc = d
  <2>1. listed[d] # NoFile
    BY <1>7, QueryAssumption DEF Matches
  <2>2. PICK i \in Filled : slots[i].doc = d
    BY <1>6, <2>1
  <2>3. slots[i].version = listed[d]
    BY <1>4, <1>7, <2>2
  <2>4. i \in Matching(query)
    BY <1>7, <2>3 DEF Matching, Wanted, Matches
  <2> QED BY <2>2, <2>4
<1>8. ASSUME NEW i \in Filled, NEW j \in Filled, slots[i].doc = slots[j].doc PROVE i = j
  <2>1. i \in SlotsOf(slots[i].doc) /\ j \in SlotsOf(slots[i].doc) /\ slots[i].doc \in Docs
    BY <1>2, <1>8
  <2>2. PICK k : SlotsOf(slots[i].doc) = {k}
    BY <2>1, AllGathered
  <2> QED BY <2>1, <2>2
<1>9. ASSUME NEW d \in Docs, Steady(d) PROVE listed[d] # Garbled
  <2>1. SUFFICES ASSUME listed[d] = Garbled PROVE FALSE
    OBVIOUS
  <2>2. PICK i \in Filled : slots[i].doc = d
    BY <1>6, <2>1, QueryAssumption
  <2>3. listed[d] \in Versions
    BY <1>4, <1>9, <2>2
  <2> QED BY <2>1, <2>3, QueryAssumption
<1> QED BY <1>1, <1>2, <1>4, <1>5, <1>7, <1>8, <1>9

\* The i-th record of an answer is that of the slot at its place in the order.
LEMMA AnswerShape ==
  ASSUME QueryInv, Answered
  PROVE  LET all == Cardinality(Matching(query)) IN
         /\ stage = "done" /\ Clean /\ query \in Queries /\ all \in Nat
         /\ DOMAIN answer.rows = 1..Len(answer.rows)
         /\ Len(answer.rows) = PageLength(all, query)
         /\ \E at : /\ Arranges(at, Sorted(slots, Matching(query), query.order),
                                slots, Matching(query), query.order)
                    /\ \A k \in 1..PageLength(all, query) :
                         /\ query.skip + k \in 1..all
                         /\ at[query.skip + k] \in Matching(query)
                         /\ Copies(answer.rows[k], slots[at[query.skip + k]])
<1>1. stage = "done" /\ Pages /\ rows = <<>> /\ query \in Queries
  BY DEF Answered, QueryInv, AnswerInv
<1>2. Clean /\ answer.rows \in Seq(Rows)
      /\ Len(answer.rows) + 0 = Len(Evaluate(query))
      /\ \A k \in 1..Len(answer.rows) : Copies(answer.rows[k], Evaluate(query)[k])
  BY <1>1 DEF Pages
<1> DEFINE all == Cardinality(Matching(query))
<1>3. PoolInv
  BY DEF QueryInv
<1>4. /\ all \in Nat /\ Len(Evaluate(query)) = PageLength(all, query)
      /\ \E at : /\ Arranges(at, Sorted(slots, Matching(query), query.order),
                             slots, Matching(query), query.order)
                 /\ \A k \in 1..PageLength(all, query) :
                      /\ query.skip + k \in 1..all
                      /\ at[query.skip + k] \in Matching(query)
                      /\ Evaluate(query)[k] = slots[at[query.skip + k]]
  BY <1>1, <1>2, <1>3, EvaluateShape
<1>5. Len(answer.rows) \in Nat /\ DOMAIN answer.rows = 1..Len(answer.rows)
      /\ Len(answer.rows) = PageLength(all, query)
  BY <1>2, <1>4
<1>6. PICK at : /\ Arranges(at, Sorted(slots, Matching(query), query.order),
                            slots, Matching(query), query.order)
                /\ \A k \in 1..PageLength(all, query) :
                      /\ query.skip + k \in 1..all
                      /\ at[query.skip + k] \in Matching(query)
                      /\ Evaluate(query)[k] = slots[at[query.skip + k]]
  BY <1>4
<1>7. \A k \in 1..PageLength(all, query) : Copies(answer.rows[k], slots[at[query.skip + k]])
  BY <1>2, <1>5, <1>6
<1> QED BY <1>1, <1>2, <1>4, <1>5, <1>6, <1>7

\* An injection bounds a set of documents by a set of places.
LEMMA FewerThan ==
  ASSUME NEW D, NEW a \in Int, NEW b \in Int, NEW pos, NEW n \in Nat, n = IF a > b THEN 0 ELSE b - a + 1,
         \A d \in D : pos[d] \in a..b, \A c, d \in D : pos[c] = pos[d] => c = d
  PROVE  Cardinality(D) <= n /\ Cardinality(D) \in Nat
<1> DEFINE f == [d \in D |-> pos[d]]
<1>1. f \in Injection(D, a..b)
  BY DEF Injection, IsInjective
<1>2. IsFiniteSet(a..b) /\ Cardinality(a..b) = n
  BY FS_Interval
<1>3. IsFiniteSet(D) /\ Cardinality(D) <= Cardinality(a..b)
  <2> HIDE DEF f
  <2> QED BY <1>1, <1>2, FS_Injection
<1> QED BY <1>2, <1>3, FS_CardinalityType

\* When nothing changed, the records matched are the documents that match.
LEMMA NothingChanged ==
  ASSUME QueryInv, Answered, edited = {}
  PROVE  /\ Cardinality({d \in Docs : Matches(d)}) = Cardinality(Matching(query))
         /\ \A i \in Matching(query) :
              /\ slots[i].doc \in Docs /\ Matches(slots[i].doc)
              /\ slots[i] = Found(slots[i].doc, listed[slots[i].doc])
         /\ \A d \in Docs : Matches(d) => \E i \in Matching(query) : slots[i].doc = d
         /\ \A i, j \in Matching(query) : slots[i].doc = slots[j].doc => i = j
<1> DEFINE I == Matching(query)
           all == {d \in Docs : Matches(d)}
           f == [i \in I |-> slots[i].doc]
<1>1. stage = "done" /\ Clean /\ query \in Queries /\ PoolInv
  BY AnswerShape DEF QueryInv
<1>2. \A d : Steady(d)
  BY DEF Steady
<1>3. /\ \A i \in I : /\ slots[i].doc \in Docs /\ Matches(slots[i].doc)
                      /\ slots[i] = Found(slots[i].doc, listed[slots[i].doc])
      /\ \A d \in Docs : Matches(d) => \E i \in I : slots[i].doc = d
      /\ \A i, j \in I : slots[i].doc = slots[j].doc => i = j
  BY <1>1, <1>2, MatchedSlots
<1>4. IsFiniteSet(I)
  BY <1>1, MatchingShape
<1> HIDE DEF I
<1>5. f \in [I -> all] /\ \A d \in all : \E i \in I : f[i] = d
  BY <1>3
<1>6. \A i, j \in I : f[i] = f[j] => i = j
  BY <1>3
<1> HIDE DEF f, all
<1>7. f \in Bijection(I, all)
  BY <1>5, <1>6 DEF Bijection, Injection, Surjection, IsInjective
<1>8. Cardinality(all) = Cardinality(I)
  BY <1>4, <1>7, FS_Bijection DEF ExistsBijection
<1> QED BY <1>3, <1>8 DEF I, all

\* The places of the documents around the place p of the record of i.
LEMMA PlacesAround ==
  ASSUME QueryInv, Answered, edited = {}, NEW at,
         Arranges(at, Sorted(slots, Matching(query), query.order),
                  slots, Matching(query), query.order),
         NEW p \in 1..Cardinality(Matching(query))
  PROVE  LET all == {d \in Docs : Matches(d)}
             rank == slots[at[p]].version.rank IN
         /\ Cardinality({d \in all : Ahead(d, rank)}) < p
         /\ Cardinality({d \in all : Behind(d, rank)}) <= Cardinality(all) - p
<1> DEFINE I == Matching(query)
           n == Cardinality(I)
           all == {d \in Docs : Matches(d)}
           pos == [d \in all |-> CHOOSE k \in 1..n : slots[at[k]].doc = d]
           rank == slots[at[p]].version.rank
<1>1. /\ Cardinality(all) = n
      /\ \A i \in I : slots[i].doc \in Docs /\ Matches(slots[i].doc)
                      /\ slots[i] = Found(slots[i].doc, listed[slots[i].doc])
      /\ \A d \in all : \E i \in I : slots[i].doc = d
  BY NothingChanged
<1>2. n \in Nat
  BY AnswerShape
<1>3. /\ at \in [1..n -> I]
      /\ \A i \in I : \E k \in 1..n : at[k] = i
      /\ \A j, k \in 1..n : j < k => ~Before(query.order, slots[at[k]], slots[at[j]])
  BY DEF Arranges
<1>4. p \in 1..n
  OBVIOUS
<1> HIDE DEF I, n
<1>5. ASSUME NEW d \in all PROVE pos[d] \in 1..n /\ slots[at[pos[d]]].doc = d
  <2>1. \E k \in 1..n : slots[at[k]].doc = d
    BY <1>1, <1>3
  <2> HIDE DEF all
  <2> QED BY <2>1
<1>6. ASSUME NEW d \in all PROVE slots[at[pos[d]]].version = listed[d] /\ listed[d].rank \in Nat
  <2>1. at[pos[d]] \in I
    BY <1>3, <1>5
  <2>2. slots[at[pos[d]]] = Found(d, listed[d])
    BY <1>1, <1>5, <2>1
  <2>3. listed[d].rank \in Nat
    BY QueryAssumption DEF Matches
  <2> HIDE DEF pos
  <2> QED BY <2>2, <2>3 DEF Found
<1>7. \A c, d \in all : pos[c] = pos[d] => c = d
  <2> HIDE DEF pos, all
  <2> QED BY <1>5
<1> HIDE DEF pos, all
<1>8. rank \in Nat
  <2>1. at[p] \in I
    BY <1>3, <1>4
  <2>2. slots[at[p]].doc \in all
    BY <1>1, <2>1 DEF all
  <2>3. slots[at[p]].version = listed[slots[at[p]].doc]
    <3>1. slots[at[p]] = Found(slots[at[p]].doc, listed[slots[at[p]].doc])
      BY <1>1, <2>1
    <3> QED BY <3>1 DEF Found
  <2> QED BY <1>6, <2>2, <2>3
<1> HIDE DEF rank
<1>9. ASSUME NEW d \in all, Ahead(d, rank) PROVE pos[d] \in 1..(p - 1)
  <2>1. Before(query.order, slots[at[pos[d]]], slots[at[p]])
    BY <1>6, <1>9 DEF Ahead, Before, rank
  <2>2. ~Before(query.order, slots[at[p]], slots[at[p]])
    BY <1>8 DEF Before, rank
  <2>3. pos[d] # p
    BY <2>1, <2>2
  <2>4. ~(p < pos[d])
    BY <1>3, <1>4, <1>5, <2>1
  <2> QED BY <1>2, <1>4, <1>5, <2>3, <2>4
<1>10. ASSUME NEW d \in all, Behind(d, rank) PROVE pos[d] \in (p + 1)..n
  <2>1. Before(query.order, slots[at[p]], slots[at[pos[d]]])
    BY <1>6, <1>10 DEF Behind, Before, rank
  <2>2. ~Before(query.order, slots[at[p]], slots[at[p]])
    BY <1>8 DEF Before, rank
  <2>3. pos[d] # p
    BY <2>1, <2>2
  <2>4. ~(pos[d] < p)
    BY <1>3, <1>4, <1>5, <2>1
  <2> QED BY <1>2, <1>4, <1>5, <2>3, <2>4
<1>11. /\ Cardinality({d \in all : Ahead(d, rank)}) <= p - 1
       /\ Cardinality({d \in all : Ahead(d, rank)}) \in Nat
  <2> DEFINE D == {d \in all : Ahead(d, rank)}
  <2>1. /\ \A d \in D : pos[d] \in 1..(p - 1)
        /\ \A c, d \in D : pos[c] = pos[d] => c = d
    BY <1>7, <1>9
  <2>2. p - 1 \in Nat /\ p - 1 \in Int /\ 1 \in Int
        /\ p - 1 = IF 1 > p - 1 THEN 0 ELSE p - 1 - 1 + 1
    BY <1>2, <1>4
  <2> HIDE DEF D
  <2>3. Cardinality(D) <= p - 1 /\ Cardinality(D) \in Nat
    BY <2>1, <2>2, FewerThan
  <2> QED BY <2>3 DEF D
<1>12. Cardinality({d \in all : Behind(d, rank)}) <= n - p
  <2> DEFINE D == {d \in all : Behind(d, rank)}
  <2>1. /\ \A d \in D : pos[d] \in (p + 1)..n
        /\ \A c, d \in D : pos[c] = pos[d] => c = d
    BY <1>7, <1>10
  <2>2. n - p \in Nat /\ p + 1 \in Int /\ n \in Int
        /\ n - p = IF p + 1 > n THEN 0 ELSE n - (p + 1) + 1
    BY <1>2, <1>4
  <2> HIDE DEF D
  <2>3. Cardinality(D) <= n - p
    BY <2>1, <2>2, FewerThan
  <2> QED BY <2>3 DEF D
<1>13. Cardinality({d \in all : Ahead(d, rank)}) < p
  BY <1>2, <1>4, <1>11
<1> QED BY <1>1, <1>12, <1>13 DEF all, rank, n, I

LEMMA PageRight == QueryInv => PageIsRight
<1> SUFFICES ASSUME QueryInv PROVE PageIsRight
  OBVIOUS
<1>1. ASSUME Answered, NEW i \in DOMAIN answer.rows
      PROVE  answer.rows[i].version.rank \in query.wanted
  <2>1. PICK j \in Matching(query) : Copies(answer.rows[i], slots[j])
    BY <1>1, AnswerShape
  <2>2. slots[j].version.rank \in query.wanted
    BY <1>1, AnswerShape, MatchingShape DEF QueryInv
  <2> QED BY <2>1, <2>2 DEF Copies
<1>2. ASSUME Answered, edited = {}
      PROVE  LET all == {d \in Docs : Matches(d)}
                 left == IF query.skip > Cardinality(all) THEN 0 ELSE Cardinality(all) - query.skip
                 n == IF query.limit = 0 \/ query.limit > left THEN left ELSE query.limit IN
             /\ Len(answer.rows) = n
             /\ \A i \in 1..n :
                  LET r == answer.rows[i] IN
                  /\ r.doc \in all
                  /\ \A j \in 1..n : answer.rows[j].doc = r.doc => i = j
                  /\ Cardinality({d \in all : Ahead(d, r.version.rank)}) < query.skip + i
                  /\ Cardinality({d \in all : Behind(d, r.version.rank)})
                       <= Cardinality(all) - query.skip - i
  <2> DEFINE I == Matching(query)
             all == {d \in Docs : Matches(d)}
             n == PageLength(Cardinality(all), query)
  <2>1. /\ Cardinality(all) = Cardinality(I)
        /\ \A i \in I : slots[i].doc \in all
        /\ \A i, j \in I : slots[i].doc = slots[j].doc => i = j
    BY <1>2, NothingChanged
  <2>2. /\ Cardinality(I) \in Nat /\ query \in Queries
        /\ DOMAIN answer.rows = 1..Len(answer.rows)
        /\ Len(answer.rows) = PageLength(Cardinality(I), query)
    BY <1>2, AnswerShape
  <2>3. PICK at : /\ Arranges(at, Sorted(slots, I, query.order), slots, I, query.order)
                  /\ \A k \in 1..PageLength(Cardinality(I), query) :
                         /\ query.skip + k \in 1..Cardinality(I)
                         /\ at[query.skip + k] \in I
                         /\ Copies(answer.rows[k], slots[at[query.skip + k]])
    BY <1>2, AnswerShape
  <2>4. query.skip \in Nat
    BY <2>2, QueryAssumption
  <2>5. \A j, k \in 1..Cardinality(I) : at[j] = at[k] => j = k
    BY <2>3 DEF Arranges
  <2>6. ASSUME NEW i \in 1..n
        PROVE  /\ answer.rows[i].doc \in all
               /\ \A j \in 1..n : answer.rows[j].doc = answer.rows[i].doc => i = j
               /\ Cardinality({d \in all : Ahead(d, answer.rows[i].version.rank)}) < query.skip + i
               /\ Cardinality({d \in all : Behind(d, answer.rows[i].version.rank)})
                    <= Cardinality(all) - query.skip - i
    <3> DEFINE p == query.skip + i
    <3>1. /\ p \in 1..Cardinality(I) /\ at[p] \in I /\ Copies(answer.rows[i], slots[at[p]])
          /\ i \in Int
      BY <2>1, <2>3
    <3>2. answer.rows[i].doc = slots[at[p]].doc
          /\ answer.rows[i].version.rank = slots[at[p]].version.rank
      BY <3>1 DEF Copies
    <3>3. ASSUME NEW j \in 1..n, answer.rows[j].doc = answer.rows[i].doc PROVE i = j
      <4>1. /\ query.skip + j \in 1..Cardinality(I) /\ at[query.skip + j] \in I
            /\ Copies(answer.rows[j], slots[at[query.skip + j]]) /\ j \in Int
        BY <2>1, <2>3
      <4>2. slots[at[query.skip + j]].doc = slots[at[p]].doc
        BY <3>2, <3>3, <4>1 DEF Copies
      <4>3. query.skip + j = p
        BY <2>1, <2>5, <3>1, <4>1, <4>2
      <4> QED BY <2>4, <3>1, <4>1, <4>3
    <3>4. /\ Cardinality({d \in all : Ahead(d, slots[at[p]].version.rank)}) < p
          /\ Cardinality({d \in all : Behind(d, slots[at[p]].version.rank)}) <= Cardinality(all) - p
      <4> HIDE DEF p
      <4> QED BY <1>2, <2>3, <3>1, PlacesAround
    <3>5. Cardinality(all) - p = Cardinality(all) - query.skip - i
      BY <2>1, <2>2, <2>4, <3>1
    <3> HIDE DEF all
    <3> QED BY <2>1, <3>1, <3>2, <3>3, <3>4, <3>5
  <2>7. Len(answer.rows) = n
    BY <2>1, <2>2
  <2> QED BY <2>6, <2>7 DEF PageLength
<1> QED BY <1>1, <1>2 DEF PageIsRight

LEMMA SteadyListed == QueryInv => SteadyDocsAreListed
<1> SUFFICES ASSUME QueryInv, Answered, query.skip = 0, query.limit = 0,
                    NEW d \in Docs, Steady(d), Matches(d)
             PROVE  \E i \in DOMAIN answer.rows :
                      /\ answer.rows[i] = Found(d, listed[d])
                      /\ \A j \in DOMAIN answer.rows : answer.rows[j].doc = d => i = j
  BY DEF SteadyDocsAreListed
<1> DEFINE I == Matching(query)
           n == Cardinality(I)
<1>1. /\ n \in Nat /\ stage = "done" /\ Clean
      /\ DOMAIN answer.rows = 1..Len(answer.rows) /\ Len(answer.rows) = PageLength(n, query)
  BY AnswerShape
<1>2. PageLength(n, query) = n
  BY <1>1 DEF PageLength
<1>3. PICK at : /\ Arranges(at, Sorted(slots, I, query.order), slots, I, query.order)
                /\ \A k \in 1..n : at[query.skip + k] \in I
                                   /\ Copies(answer.rows[k], slots[at[query.skip + k]])
  BY <1>2, AnswerShape
<1>4. /\ \A k \in 1..n : at[k] \in I /\ Copies(answer.rows[k], slots[at[k]])
      /\ \A i \in I : \E k \in 1..n : at[k] = i
      /\ \A j, k \in 1..n : at[j] = at[k] => j = k
  <2>1. \A k \in 1..n : query.skip + k = k
    OBVIOUS
  <2> QED BY <1>3, <2>1 DEF Arranges
<1>5. PICK i \in I : slots[i].doc = d
  BY <1>1, MatchedSlots
<1>6. slots[i] = Found(d, listed[d]) /\ \A j \in I : slots[j].doc = d => i = j
  BY <1>1, <1>5, MatchedSlots
<1>7. PICK k \in 1..n : at[k] = i
  BY <1>4
<1>8. answer.rows[k] = Found(d, listed[d])
  BY <1>4, <1>5, <1>6, <1>7 DEF Copies, Steady
<1>9. ASSUME NEW j \in 1..n, answer.rows[j].doc = d PROVE k = j
  <2>1. at[j] \in I /\ slots[at[j]].doc = d
    BY <1>4, <1>9 DEF Copies
  <2> QED BY <1>4, <1>6, <1>7, <2>1
<1> QED BY <1>1, <1>2, <1>8, <1>9

LEMMA CauseKnown == QueryInv => ErrorsHaveCause
<1> SUFFICES ASSUME QueryInv PROVE ErrorsHaveCause
  OBVIOUS
<1>1. ASSUME stage = "done", answer.status = "error" PROVE Cause(answer.rows[1].doc)
  BY <1>1 DEF QueryInv, AnswerInv
<1>2. ASSUME Answered, NEW d \in Docs, Steady(d) PROVE listed[d] # Garbled
  <2>1. stage = "done" /\ Clean
    BY <1>2, AnswerShape
  <2> QED BY <1>2, <2>1, MatchedSlots
<1> QED BY <1>1, <1>2 DEF ErrorsHaveCause, Cause

-----------------------------------------------------------------------------

\* The types hold of every behaviour.
THEOREM QueryTypeCorrect == Spec => []QueryTypeOK
<1>1. QueryInv => QueryTypeOK
  BY PoolCounts DEF QueryInv
<1> QED BY <1>1, QueryInvAlways, PTL

\* However many goroutines walk however many files, in whatever schedule: no path
\* is lost or handled twice, and no two goroutines write to a slot.
THEOREM EachPathAlwaysOnce == Spec => []EachPathOnce
<1>1. QueryInv => EachPathOnce
  BY PoolCounts DEF QueryInv
<1> QED BY <1>1, QueryInvAlways, PTL

\* A query fails of a file that gave it cause, and does fail when one was damaged
\* from the beginning.
THEOREM ErrorsAlwaysHaveCause == Spec => []ErrorsHaveCause
<1>1. QueryInv => ErrorsHaveCause
  BY CauseKnown
<1> QED BY <1>1, QueryInvAlways, PTL

\* Whatever is edited meanwhile, a query without a page lists every matching
\* document that did not change, once and as it is on disk.
THEOREM SteadyDocsAlwaysListed == Spec => []SteadyDocsAreListed
<1>1. QueryInv => SteadyDocsAreListed
  BY SteadyListed
<1> QED BY <1>1, QueryInvAlways, PTL

\* The answer to a query that nobody disturbs is the page it asked for, of any
\* number of documents, whatever slots they came in.
THEOREM PageAlwaysRight == Spec => []PageIsRight
<1>1. QueryInv => PageIsRight
  BY PageRight
<1> QED BY <1>1, QueryInvAlways, PTL
=============================================================================

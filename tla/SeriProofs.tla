------------------------------ MODULE SeriProofs ------------------------------
(***************************************************************************)
(* Proofs about lua-seri, for graphs with any number of tables of any      *)
(* contents, and any limits: its invariants, and what the writer leaves in *)
(* the stream.                                                             *)
(***************************************************************************)
EXTENDS Seri, SequenceTheorems, FiniteSetTheorems, WellFoundedInduction,
        TLAPS

------------------------------------------------------------------------------
(* Induction: a set of natural numbers that is not empty has a least one.   *)

\* < as a set of pairs.
Less == {ss \in Nat \X Nat : ss[1] < ss[2]}

\* There is no infinite descent.
LEMMA LessIsWellFounded == IsWellFoundedOn(Less, Nat)
BY NatLessThanWellFounded DEF OpToRel, Less

\* The least number of a set.
LEMMA Least ==
  ASSUME NEW N \in SUBSET Nat, N # {}
  PROVE  \E n \in N : \A m \in N : n <= m
<1>1. PICK x \in N : \A y \in N : ~ (<<y, x>> \in Less)
  BY LessIsWellFounded, WFMin
<1>2. \A y \in N : ~(y < x)
  BY <1>1 DEF Less
<1>. QED
  BY <1>2

------------------------------------------------------------------------------
(* What a table's items are.                                                *)

\* A step of the function in Kept.
KeptStep(ps, size, f, n) ==
  IF n = 0 THEN <<>> ELSE IF InArray(ps[n][1], size) THEN f[n - 1] ELSE Append(f[n - 1], ps[n])

\* Kept is the last of the lists its function makes, each from the one before.
LEMMA KeptSteps ==
  ASSUME NEW S, NEW ps \in Seq(S), NEW size
  PROVE  \E K : /\ \A n \in 0..Len(ps) : K[n] = KeptStep(ps, size, K, n) /\ K[n] \in Seq(S)
                /\ Kept(ps, size) = K[Len(ps)]
<1> DEFINE len == Len(ps)
           Is(f, m) == /\ f \in [0..m -> Seq(S)]
                       /\ \A n \in 0..m : f[n] = KeptStep(ps, size, f, n)
           Bad == {m \in 0..len : ~\E f : Is(f, m)}
<1>1. len \in Nat /\ \A n \in 1..len : ps[n] \in S
  BY LenProperties, ElementOfSeq
<1>2. \E f : Is(f, len)
  <2>1. ASSUME Bad # {}
        PROVE  FALSE
    <3>1. PICK m \in Bad : \A k \in Bad : m <= k
      <4>1. Bad \in SUBSET Nat
        BY <1>1
      <4>. QED
        BY <2>1, <4>1, Least
    <3>2. m \in 0..len /\ ~\E f : Is(f, m)
      BY <3>1
    <3>3. CASE m = 0
      <4>1. PICK f : f = [n \in 0..0 |-> <<>>]
        OBVIOUS
      <4>2. f \in [0..0 -> Seq(S)] /\ \A n \in 0..0 : f[n] = <<>>
        BY <4>1
      <4>3. Is(f, 0)
        BY <4>2 DEF KeptStep
      <4>. QED
        BY <3>2, <3>3, <4>3
    <3>4. CASE m # 0
      <4>1. m - 1 \in 0..len /\ m \in 1..len /\ m \in Nat
        BY <1>1, <3>2, <3>4
      <4>2. m - 1 \notin Bad
        <5>1. ~(m <= m - 1)
          BY <4>1
        <5>. QED
          BY <3>1, <5>1
      <4>3. PICK f : Is(f, m - 1)
        BY <4>1, <4>2
      <4>4. PICK g : g = [n \in 0..m |-> IF n = m THEN KeptStep(ps, size, f, m) ELSE f[n]]
        OBVIOUS
      <4>5. \A n \in 0 .. m - 1 : g[n] = f[n]
        BY <4>1, <4>4
      <4>6. \A n \in 0..m : g[n] = KeptStep(ps, size, g, n)
        <5>1. ASSUME NEW n \in 0..m, n # m
              PROVE  g[n] = KeptStep(ps, size, g, n)
          <6>1. n \in 0 .. m - 1 /\ (n # 0 => n - 1 \in 0 .. m - 1)
            BY <4>1, <5>1
          <6>. QED
            BY <4>3, <4>5, <6>1 DEF KeptStep
        <5>2. g[m] = KeptStep(ps, size, g, m)
          <6>1. m \in 0..m /\ m - 1 \in 0 .. m - 1
            BY <4>1
          <6>. QED
            BY <4>4, <4>5, <6>1 DEF KeptStep
        <5>. QED
          BY <5>1, <5>2
      <4>7. KeptStep(ps, size, f, m) \in Seq(S)
        <5>1. f[m - 1] \in Seq(S) /\ ps[m] \in S
          BY <1>1, <4>1, <4>3
        <5>. QED
          BY <5>1, AppendProperties DEF KeptStep
      <4>8. g \in [0..m -> Seq(S)]
        <5>1. ASSUME NEW n \in 0..m
              PROVE  (IF n = m THEN KeptStep(ps, size, f, m) ELSE f[n]) \in Seq(S)
          <6>1. n # m => n \in 0 .. m - 1
            BY <4>1
          <6>. QED
            BY <4>3, <4>7, <6>1
        <5>. QED
          BY <4>4, <5>1
      <4>. QED
        BY <3>2, <4>6, <4>8
    <3>. QED
      BY <3>3, <3>4
  <2>2. len \in 0..len
    BY <1>1
  <2>. QED
    BY <2>1, <2>2
<1>3. PICK f : Is(f, len)
  BY <1>2
<1>4. f = [n \in 0..len |-> KeptStep(ps, size, f, n)]
  BY <1>3
<1> DEFINE K == CHOOSE g : g = [n \in 0..len |-> KeptStep(ps, size, g, n)]
<1>5. K = [n \in 0..len |-> KeptStep(ps, size, K, n)]
  BY <1>4
<1>6. Kept(ps, size) = K[len]
  BY DEF Kept, KeptStep
<1> HIDE DEF K
<1>7. \A n \in 0..len : K[n] = KeptStep(ps, size, K, n)
  BY <1>5
<1>8. \A n \in 0..len : K[n] \in Seq(S)
  <2> DEFINE Odd == {n \in 0..len : K[n] \notin Seq(S)}
  <2>1. ASSUME Odd # {}
        PROVE  FALSE
    <3>1. PICK m \in Odd : \A k \in Odd : m <= k
      <4>1. Odd \in SUBSET Nat
        BY <1>1
      <4>. QED
        BY <2>1, <4>1, Least
    <3>2. m \in 0..len /\ K[m] \notin Seq(S)
      BY <3>1
    <3>6. m # 0
      <4>1. KeptStep(ps, size, K, 0) \in Seq(S)
        BY DEF KeptStep
      <4>. QED
        BY <1>7, <3>2, <4>1
    <3>3. m - 1 \in 0..len /\ m - 1 \notin Odd /\ m \in 1..len
      <4>1. m - 1 \in 0..len /\ m \in 1..len /\ ~(m <= m - 1)
        BY <1>1, <3>2, <3>6
      <4>. QED
        BY <3>1, <4>1
    <3>4. K[m - 1] \in Seq(S) /\ ps[m] \in S
      BY <1>1, <3>3
    <3>5. K[m] \in Seq(S)
      <4>1. Append(K[m - 1], ps[m]) \in Seq(S)
        BY <3>4, AppendProperties
      <4>2. K[m] \in {K[m - 1], Append(K[m - 1], ps[m])}
        <5>1. K[m] = KeptStep(ps, size, K, m)
          BY <1>7, <3>2
        <5>. QED
          BY <3>6, <5>1 DEF KeptStep
      <4>. QED
        BY <3>4, <4>1, <4>2
    <3>. QED
      BY <3>2, <3>5
  <2>. QED
    BY <2>1
<1>. QED
  BY <1>6, <1>7, <1>8

\* What is kept of a list of pairs is a list of pairs.
LEMMA KeptIsSequence ==
  ASSUME NEW S, NEW ps \in Seq(S), NEW size
  PROVE  Kept(ps, size) \in Seq(S)
<1>1. Len(ps) \in 0..Len(ps)
  BY LenProperties
<1>. QED
  BY <1>1, KeptSteps

\* No key comes twice.
OneEach(ps) == \A x, y \in 1..Len(ps) : ps[x][1] = ps[y][1] => x = y

\* ks are the pairs of ps whose key is not in the array.
Keeps(ks, ps, size) ==
  /\ \A x \in 1..Len(ks) : \E y \in 1..Len(ps) : ks[x] = ps[y] /\ ~InArray(ps[y][1], size)
  /\ \A y \in 1..Len(ps) : ~InArray(ps[y][1], size) => \E x \in 1..Len(ks) : ks[x] = ps[y]

\* Kept are the pairs whose key is not in the array, each once.
LEMMA KeptMembers ==
  ASSUME NEW S, NEW ps \in Seq(S), NEW size, OneEach(ps)
  PROVE  /\ Kept(ps, size) \in Seq(S)
         /\ Keeps(Kept(ps, size), ps, size) /\ OneEach(Kept(ps, size))
<1>0. PICK ks : ks = Kept(ps, size)
  OBVIOUS
<1>1. PICK len \in Nat : len = Len(ps) /\ \A n \in 1..len : ps[n] \in S
  BY LenProperties, ElementOfSeq
<1>2. PICK K : /\ \A n \in 0..len : K[n] = KeptStep(ps, size, K, n) /\ K[n] \in Seq(S)
               /\ ks = K[len]
  BY <1>0, <1>1, KeptSteps
<1> DEFINE Good(n) ==
      /\ \A x \in 1..Len(K[n]) : \E y \in 1..n : K[n][x] = ps[y] /\ ~InArray(ps[y][1], size)
      /\ \A y \in 1..n : ~InArray(ps[y][1], size) => \E x \in 1..Len(K[n]) : K[n][x] = ps[y]
      /\ \A x, z \in 1..Len(K[n]) : K[n][x][1] = K[n][z][1] => x = z
<1>3. Good(0)
  <2>1. K[0] = <<>>
    BY <1>1, <1>2 DEF KeptStep
  <2>. QED
    BY <2>1
<1>4. ASSUME NEW n \in 1..len, Good(n - 1)
      PROVE  Good(n)
  <2>1. PICK f : f = K[n - 1] /\ f \in Seq(S) /\ Len(f) \in Nat
    <3>1. n - 1 \in 0..len
      BY <1>1
    <3>. QED
      BY <1>2, <3>1, LenProperties
  <2>2. K[n] = IF InArray(ps[n][1], size) THEN f ELSE Append(f, ps[n])
    <3>1. n \in 0..len /\ n # 0
      BY <1>1
    <3>. QED
      BY <1>2, <2>1, <3>1 DEF KeptStep
  <2>3. /\ \A x \in 1..Len(f) : \E y \in 1 .. n - 1 : f[x] = ps[y] /\ ~InArray(ps[y][1], size)
        /\ \A y \in 1 .. n - 1 : ~InArray(ps[y][1], size) => \E x \in 1..Len(f) : f[x] = ps[y]
        /\ \A x, z \in 1..Len(f) : f[x][1] = f[z][1] => x = z
    BY <1>4, <2>1
  <2>4. \A y \in 1..n : y = n \/ y \in 1 .. n - 1
    BY <1>1
  <2>5. \A y \in 1 .. n - 1 : y \in 1..n /\ y \in 1..len /\ y # n
    BY <1>1
  <2>6. CASE InArray(ps[n][1], size)
    <3>1. K[n] = f
      BY <2>2, <2>6
    <3>2. \A x \in 1..Len(f) : \E y \in 1..n : f[x] = ps[y] /\ ~InArray(ps[y][1], size)
      BY <2>3, <2>5
    <3>3. \A y \in 1..n : ~InArray(ps[y][1], size) => \E x \in 1..Len(f) : f[x] = ps[y]
      BY <2>3, <2>4, <2>6
    <3>. QED
      BY <2>3, <3>1, <3>2, <3>3
  <2>7. CASE ~InArray(ps[n][1], size)
    <3>1. PICK g : g = Append(f, ps[n])
      OBVIOUS
    <3>2. K[n] = g
      BY <2>2, <2>7, <3>1
    <3>3. PICK m \in Nat : /\ Len(f) = m /\ Len(g) = m + 1 /\ g[m + 1] = ps[n]
                           /\ \A x \in 1..m : g[x] = f[x]
      <4>1. /\ Len(Append(f, ps[n])) = Len(f) + 1 /\ Append(f, ps[n])[Len(f) + 1] = ps[n]
            /\ \A x \in 1..Len(f) : Append(f, ps[n])[x] = f[x]
        BY <1>1, <2>1, AppendProperties
      <4>. QED
        BY <2>1, <3>1, <4>1
    <3>4. \A x \in 1 .. m + 1 : x = m + 1 \/ x \in 1..m
      OBVIOUS
    <3>5. m + 1 \in 1 .. m + 1 /\ n \in 1..n /\ \A x \in 1..m : x \in 1 .. m + 1
      BY <1>1
    <3>6. \A x \in 1 .. m + 1 : \E y \in 1..n : g[x] = ps[y] /\ ~InArray(ps[y][1], size)
      <4>1. ASSUME NEW x \in 1..m
            PROVE  \E y \in 1..n : g[x] = ps[y] /\ ~InArray(ps[y][1], size)
        <5>1. PICK y \in 1 .. n - 1 : f[x] = ps[y] /\ ~InArray(ps[y][1], size)
          BY <2>3, <3>3
        <5>. QED
          BY <2>5, <3>3, <5>1
      <4>2. \E y \in 1..n : g[m + 1] = ps[y] /\ ~InArray(ps[y][1], size)
        BY <2>7, <3>3, <3>5
      <4>. QED
        BY <3>4, <4>1, <4>2
    <3>7. \A y \in 1..n : ~InArray(ps[y][1], size) => \E x \in 1 .. m + 1 : g[x] = ps[y]
      <4>1. ASSUME NEW y \in 1 .. n - 1, ~InArray(ps[y][1], size)
            PROVE  \E x \in 1 .. m + 1 : g[x] = ps[y]
        <5>1. PICK x \in 1..m : f[x] = ps[y]
          BY <2>3, <3>3, <4>1
        <5>. QED
          BY <3>3, <3>5, <5>1
      <4>2. \E x \in 1 .. m + 1 : g[x] = ps[n]
        BY <3>3, <3>5
      <4>. QED
        BY <2>4, <4>1, <4>2
    <3>8. \A x \in 1..m : g[x][1] # ps[n][1]
      BY <1>1, <2>3, <2>5, <3>3 DEF OneEach
    <3>9. \A x, z \in 1 .. m + 1 : g[x][1] = g[z][1] => x = z
      <4>1. ASSUME NEW x \in 1..m, NEW z \in 1..m, g[x][1] = g[z][1]
            PROVE  x = z
        BY <2>3, <3>3, <4>1
      <4>. QED
        BY <3>3, <3>4, <3>8, <4>1
    <3>. QED
      BY <3>2, <3>3, <3>6, <3>7, <3>9
  <2>. QED
    BY <2>6, <2>7
<1> HIDE DEF Good
<1>5. Good(len)
  <2> DEFINE Odd == {n \in 0..len : ~Good(n)}
  <2>1. ASSUME Odd # {}
        PROVE  FALSE
    <3>1. PICK m \in Odd : \A k \in Odd : m <= k
      <4>1. Odd \in SUBSET Nat
        BY <1>1
      <4>. QED
        BY <2>1, <4>1, Least
    <3>2. m \in 0..len /\ ~Good(m) /\ m # 0
      BY <1>3, <3>1
    <3>3. m - 1 \in 0..len /\ m \in 1..len /\ ~(m <= m - 1)
      BY <1>1, <3>2
    <3>4. Good(m - 1)
      BY <3>1, <3>3
    <3>. QED
      BY <1>4, <3>2, <3>3, <3>4
  <2>2. len \in 0..len
    BY <1>1
  <2>. QED
    BY <2>1, <2>2
<1>6. ks \in Seq(S)
  BY <1>1, <1>2
<1>7. Keeps(ks, ps, size) /\ OneEach(ks)
  BY <1>1, <1>2, <1>5 DEF Good, Keeps, OneEach
<1>. QED
  BY <1>0, <1>6, <1>7

\* A function on 1..m is a sequence.
LEMMA FunctionIsSequence ==
  ASSUME NEW S, NEW m \in Nat, NEW f \in [1..m -> S]
  PROVE  f \in Seq(S)
BY SeqDef

\* The keys and values of pairs, one after the other.
LEMMA FlattenIsSequence ==
  ASSUME NEW ps \in Seq(Values \X Values)
  PROVE  Flatten(ps) \in Seq(Values)
<1>1. Len(ps) \in Nat /\ \A n \in 1..Len(ps) : ps[n] \in Values \X Values
  BY LenProperties, ElementOfSeq
<1>2. ASSUME NEW x \in 1 .. 2 * Len(ps)
      PROVE  ps[(x + 1) \div 2][2 - (x % 2)] \in Values
  <2>1. (x + 1) \div 2 \in 1..Len(ps) /\ 2 - (x % 2) \in {1, 2}
    BY <1>1
  <2>2. ps[(x + 1) \div 2] \in Values \X Values
    BY <1>1, <2>1
  <2>. QED
    BY <2>1, <2>2
<1>3. Flatten(ps) \in [1 .. 2 * Len(ps) -> Values]
  BY <1>2 DEF Flatten
<1>4. PICK m \in Nat : m = 2 * Len(ps)
  BY <1>1
<1>5. Flatten(ps) \in [1..m -> Values]
  BY <1>3, <1>4
<1>. QED
  BY <1>4, <1>5, FunctionIsSequence

\* What a table holds.
LEMMA ContentsTyped ==
  ASSUME heap \in Heaps, NEW t \in Tables
  PROVE  /\ heap[t].array \in Seq(Values) /\ heap[t].hash \in Seq(Values \X Values)
         /\ Len(heap[t].array) \in Nat /\ ArraySize(t) \in Nat
         /\ ArraySize(t) <= Len(heap[t].array)
<1>1. heap[t] \in Contents
  BY ContentsAssumption
<1>2. heap[t].array \in Seq(Values) /\ heap[t].hash \in Seq(Values \X Values)
  <2>1. heap[t].hash \in Seq(Fields) /\ heap[t].array \in Seq(Values)
    BY <1>1 DEF Contents
  <2>2. Fields \subseteq Values \X Values
    BY DEF Fields
  <2>. QED
    BY <2>1, <2>2, SeqMonotonic
<1>. QED
  BY <1>2, LenProperties DEF ArraySize

\* A table's items are values.
LEMMA ItemsTyped ==
  ASSUME heap \in Heaps, NEW t \in Tables
  PROVE  Items(t) \in Seq(Values)
<1> DEFINE array == heap[t].array
           all == [n \in 1..Len(array) |-> <<Index(n), array[n]>>] \o heap[t].hash
<1>1. /\ array \in Seq(Values) /\ heap[t].hash \in Seq(Values \X Values)
      /\ Len(array) \in Nat /\ ArraySize(t) \in Nat /\ ArraySize(t) <= Len(array)
  BY ContentsTyped
<1>2. \A n \in 1..Len(array) : array[n] \in Values /\ Index(n) \in Values
  BY <1>1, ElementOfSeq DEF Index, Values, Atoms
<1>3. [n \in 1..Len(array) |-> <<Index(n), array[n]>>] \in Seq(Values \X Values)
  <2>1. [n \in 1..Len(array) |-> <<Index(n), array[n]>>] \in [1..Len(array) -> Values \X Values]
    BY <1>2
  <2>. QED
    BY <1>1, <2>1
<1>4. all \in Seq(Values \X Values)
  BY <1>1, <1>3, ConcatProperties
<1> HIDE DEF all
<1>5. Pairs(t) \in Seq(Values \X Values)
  <2>1. Kept(all, Len(array)) \in Seq(Values \X Values)
    BY <1>4, KeptIsSequence
  <2>. QED
    BY <1>4, <2>1 DEF Pairs, all
<1>6. Flatten(Pairs(t)) \in Seq(Values)
  BY <1>5, FlattenIsSequence
<1>7. SubSeq(array, 1, ArraySize(t)) \in Seq(Values)
  <2>1. \A n \in 1..ArraySize(t) : array[n] \in Values
    BY <1>1, <1>2
  <2>. QED
    BY <1>1, <2>1, SubSeqProperties
<1>. QED
  BY <1>6, <1>7, ConcatProperties DEF Items

------------------------------------------------------------------------------
(* The inductive invariant.                                                 *)

Numbers == [width : {0, 1, 2, 4}, bytes : Nat]
Tags == [type : {"table", "mark", "ref"}, cookie : 0 .. MAX_COOKIE - 1, n : Numbers]
Elements == Atoms \cup Tags

\* The writer's stack has one list for every table being written, and one more.
SeriTypeOK ==
  /\ heap \in Heaps
  /\ todo \in Seq(Seq(Values))
  /\ path \in Seq(Tables)
  /\ Len(todo) = Len(path) + 1
  /\ out \in Seq(Elements)
  /\ objectid \in Nat

\* The array of references, or the two tables that replace it, belong to the
\* tables numbered so far.
RefsTypeOK ==
  /\ ~InTables => r \in Seq([object : Tables, address : Nat]) /\ Len(r) = objectid
  /\ InTables => /\ DOMAIN idOf \subseteq Tables
                 /\ \A id \in DOMAIN addressOf : addressOf[id] \in Nat

\* Every number is that of one table.
NumbersInv ==
  /\ \A t \in Tables : NumbersOf(t) \subseteq 1..objectid
  /\ \A t \in Tables : \A x, y \in NumbersOf(t) : x = y
  /\ IsFiniteSet(Packed) /\ Cardinality(Packed) = objectid

\* An address that was not forgotten is that of a tag not changed yet, and of one
\* table only.
AddressInv ==
  /\ \A id \in 1..objectid : Address(id) \in Nat
  /\ AddressesAreTags
  /\ \A x, y \in 1..objectid : Address(x) = Address(y) /\ Address(x) # NoAddress => x = y

SeriInv ==
  /\ SeriTypeOK
  /\ RefsTypeOK
  /\ NumbersInv
  /\ AddressInv
  /\ CookiesFit

------------------------------------------------------------------------------
(* What the array and the tables stand for, whichever is used.              *)

\* A table gets the next number, and its tag will be behind the stream.
Marks(t) ==
  /\ objectid' = objectid + 1
  /\ \A u \in Tables : NumbersOf(u)' = IF u = t THEN {objectid + 1} ELSE NumbersOf(u)
  /\ \A id \in 1..objectid : Address(id)' = Address(id)
  /\ Address(objectid)' = Len(out) + 1

\* The tag of table id will not be changed again.
Forgets(id) ==
  /\ objectid' = objectid
  /\ \A u \in Tables : NumbersOf(u)' = NumbersOf(u)
  /\ \A x \in 1..objectid : Address(x)' = IF x = id THEN NoAddress ELSE Address(x)

\* An entry is added to the two tables F and A.
LEMMA TablesGrow ==
  ASSUME NEW t \in Tables, NEW F, NEW A,
         objectid \in Nat, objectid' = objectid + 1, InTables',
         idOf' = With(F, t, objectid + 1), addressOf' = With(A, objectid + 1, Len(out) + 1),
         DOMAIN F \subseteq Tables, Len(out) \in Nat, \A x \in DOMAIN A : A[x] \in Nat,
         \A u \in Tables : NumbersOf(u) = {F[x] : x \in DOMAIN F \cap {u}},
         \A x \in 1..objectid : Address(x) = IF x \in DOMAIN A THEN A[x] ELSE NoAddress
  PROVE  RefsTypeOK' /\ Marks(t)
<1>1. /\ DOMAIN idOf' = DOMAIN F \cup {t}
      /\ \A u \in DOMAIN F \cup {t} : idOf'[u] = IF u = t THEN objectid + 1 ELSE F[u]
  BY DEF With
<1>2. /\ DOMAIN addressOf' = DOMAIN A \cup {objectid + 1}
      /\ \A x \in DOMAIN A \cup {objectid + 1} :
           addressOf'[x] = IF x = objectid + 1 THEN Len(out) + 1 ELSE A[x]
  BY DEF With
<1>3. RefsTypeOK'
  BY <1>1, <1>2 DEF RefsTypeOK
<1>4. ASSUME NEW u \in Tables
      PROVE  NumbersOf(u)' = IF u = t THEN {objectid + 1} ELSE NumbersOf(u)
  <2>1. NumbersOf(u)' = {idOf'[x] : x \in DOMAIN idOf' \cap {u}}
    BY DEF NumbersOf
  <2>2. CASE u = t
    BY <1>1, <2>1, <2>2
  <2>3. CASE u # t
    <3>1. DOMAIN idOf' \cap {u} = DOMAIN F \cap {u}
      BY <1>1, <2>3
    <3>2. \A x \in DOMAIN F \cap {u} : idOf'[x] = F[x]
      BY <1>1, <2>3
    <3>. QED
      BY <2>1, <2>3, <3>1, <3>2
  <2>. QED
    BY <2>2, <2>3
<1>5. \A x : Address(x)' = IF x \in DOMAIN addressOf' THEN addressOf'[x] ELSE NoAddress
  BY DEF Address
<1>6. ASSUME NEW x \in 1..objectid
      PROVE  Address(x)' = Address(x)
  <2>1. x # objectid + 1
    OBVIOUS
  <2>. QED
    BY <1>2, <1>5, <2>1
<1>7. Address(objectid)' = Len(out) + 1
  <2>1. PICK k : k = objectid'
    OBVIOUS
  <2>2. k \in DOMAIN addressOf' /\ addressOf'[k] = Len(out) + 1
    BY <1>2, <2>1
  <2>3. Address(k)' = Len(out) + 1
    BY <2>2 DEF Address
  <2>. QED
    BY <2>1, <2>3
<1>. QED
  BY <1>3, <1>4, <1>6, <1>7 DEF Marks

\* mark_table adds to the array, or to the tables, or makes the tables.
LEMMA MarkTable ==
  ASSUME SeriTypeOK, RefsTypeOK, NumbersInv, NEW t \in Tables, NumbersOf(t) = {}, mark_table(t)
  PROVE  RefsTypeOK' /\ Marks(t)
<1>1. /\ objectid \in Nat /\ objectid' = objectid + 1 /\ MAX_REFERENCE \in Nat \ {0}
      /\ Len(out) \in Nat
  BY LenProperties, LimitsAssumption DEF SeriTypeOK, mark_table
<1>2. CASE objectid < MAX_REFERENCE
  <2> DEFINE e == [object |-> t, address |-> Len(out) + 1]
             R == [object : Tables, address : Nat]
  <2>1. ~InTables /\ ~InTables'
    BY <1>1, <1>2 DEF InTables
  <2>2. r \in Seq(R) /\ Len(r) = objectid /\ e \in R /\ r' = Append(r, e)
    BY <1>1, <1>2, <2>1 DEF RefsTypeOK, mark_table, wb_address
  <2>3. /\ r' \in Seq(R) /\ Len(r') = objectid + 1 /\ r'[objectid + 1] = e
        /\ \A x \in 1..objectid : r'[x] = r[x]
    BY <2>2, AppendProperties
  <2>4. DOMAIN r = 1..objectid /\ DOMAIN r' = 1 .. objectid + 1
    BY <2>2, <2>3, LenProperties
  <2>5. RefsTypeOK'
    BY <1>1, <2>1, <2>3 DEF RefsTypeOK
  <2>6. ASSUME NEW u \in Tables
        PROVE  NumbersOf(u)' = IF u = t THEN {objectid + 1} ELSE NumbersOf(u)
    <3>1. /\ NumbersOf(u) = {x \in 1..objectid : r[x].object = u}
          /\ NumbersOf(u)' = {x \in 1 .. objectid + 1 : r'[x].object = u}
      BY <2>1, <2>4 DEF NumbersOf
    <3>2. 1 .. objectid + 1 = 1..objectid \cup {objectid + 1}
      BY <1>1
    <3>3. u = t => {x \in 1..objectid : r[x].object = u} = {}
      BY <3>1
    <3>. QED
      BY <2>3, <3>1, <3>2, <3>3
  <2>7. \A x \in 1 .. objectid + 1 : Address(x)' = r'[x].address
    BY <2>1 DEF Address
  <2>8. \A x \in 1..objectid : Address(x) = r[x].address
    BY <2>1 DEF Address
  <2>9. \A x \in 1..objectid : x \in 1 .. objectid + 1
    BY <1>1
  <2>10. \A x \in 1..objectid : Address(x)' = Address(x)
    BY <2>3, <2>7, <2>8, <2>9
  <2>11. Address(objectid)' = Len(out) + 1
    <3>1. PICK k : k = objectid'
      OBVIOUS
    <3>2. k = objectid + 1 /\ k \in 1 .. objectid + 1 /\ e.address = Len(out) + 1
      BY <1>1, <3>1
    <3>3. Address(k)' = r'[k].address /\ r'[k] = e
      BY <2>3, <3>1, <3>2, <2>1 DEF Address
    <3>. QED
      BY <3>1, <3>2, <3>3
  <2>. QED
    BY <1>1, <2>5, <2>6, <2>10, <2>11 DEF Marks
<1>3. CASE objectid > MAX_REFERENCE
  <2>1. InTables /\ InTables'
    BY <1>1, <1>3 DEF InTables
  <2>2. /\ idOf' = With(idOf, t, objectid + 1)
        /\ addressOf' = With(addressOf, objectid + 1, Len(out) + 1)
    BY <1>1, <1>3, <2>1 DEF mark_table, wb_address
  <2>3. DOMAIN idOf \subseteq Tables /\ \A x \in DOMAIN addressOf : addressOf[x] \in Nat
    BY <2>1 DEF RefsTypeOK
  <2>4. \A u \in Tables : NumbersOf(u) = {idOf[x] : x \in DOMAIN idOf \cap {u}}
    BY <2>1 DEF NumbersOf
  <2>5. \A x \in 1..objectid :
          Address(x) = IF x \in DOMAIN addressOf THEN addressOf[x] ELSE NoAddress
    BY <2>1 DEF Address
  <2>. QED
    BY <1>1, <2>1, <2>2, <2>3, <2>4, <2>5, TablesGrow
<1>4. CASE objectid = MAX_REFERENCE
  <2>1. ~InTables /\ InTables'
    BY <1>1, <1>4 DEF InTables
  <2>2. /\ idOf' = With(MigratedIds, t, objectid + 1)
        /\ addressOf' = With(MigratedAddresses, objectid + 1, Len(out) + 1)
    BY <1>1, <1>4, <2>1 DEF mark_table, wb_address
  <2>3. /\ DOMAIN r = 1..objectid
        /\ \A x \in 1..objectid : r[x].object \in Tables /\ r[x].address \in Nat
    <3> DEFINE R == [object : Tables, address : Nat]
    <3>1. r \in Seq(R) /\ Len(r) = objectid
      BY <2>1 DEF RefsTypeOK
    <3>2. DOMAIN r = 1..objectid
      BY <3>1, LenProperties
    <3>3. \A x \in 1..objectid : r[x] \in R
      <4> HIDE DEF R
      <4>. QED
        BY <3>1, ElementOfSeq
    <3>. QED
      BY <3>2, <3>3
  <2>4. /\ DOMAIN MigratedIds = {r[x].object : x \in 1..objectid}
        /\ \A u \in DOMAIN MigratedIds :
             MigratedIds[u] = CHOOSE x \in 1..objectid : r[x].object = u
    BY <2>3 DEF MigratedIds
  <2>5. /\ DOMAIN MigratedAddresses = {x \in 1..objectid : r[x].address # NoAddress}
        /\ \A x \in DOMAIN MigratedAddresses : MigratedAddresses[x] = r[x].address
    BY <2>3 DEF MigratedAddresses
  <2>6. ASSUME NEW u \in Tables
        PROVE  NumbersOf(u) = {MigratedIds[x] : x \in DOMAIN MigratedIds \cap {u}}
    <3>1. NumbersOf(u) = {x \in 1..objectid : r[x].object = u}
      BY <2>1, <2>3 DEF NumbersOf
    <3>2. CASE u \in DOMAIN MigratedIds
      <4>1. \E x \in 1..objectid : r[x].object = u
        BY <2>4, <3>2
      <4>2. MigratedIds[u] \in 1..objectid /\ r[MigratedIds[u]].object = u
        BY <2>4, <3>2, <4>1
      <4>3. MigratedIds[u] \in NumbersOf(u)
        BY <3>1, <4>2
      <4>4. NumbersOf(u) = {MigratedIds[u]}
        BY <4>3 DEF NumbersInv
      <4>. QED
        BY <3>2, <4>4
    <3>3. CASE u \notin DOMAIN MigratedIds
      BY <2>4, <3>1, <3>3
    <3>. QED
      BY <3>2, <3>3
  <2>7. ASSUME NEW x \in 1..objectid
        PROVE  Address(x) =
                 IF x \in DOMAIN MigratedAddresses THEN MigratedAddresses[x] ELSE NoAddress
    <3>1. Address(x) = r[x].address
      BY <2>1 DEF Address
    <3>. QED
      BY <2>5, <3>1
  <2>8. DOMAIN MigratedIds \subseteq Tables /\ \A x \in DOMAIN MigratedAddresses : MigratedAddresses[x] \in Nat
    BY <2>3, <2>4, <2>5
  <2>. QED
    BY <1>1, <2>1, <2>2, <2>6, <2>7, <2>8, TablesGrow
<1>. QED
  BY <1>1, <1>2, <1>3, <1>4

\* A reference forgets the address, in the array or in the table.
LEMMA Forgotten ==
  ASSUME SeriTypeOK, RefsTypeOK, NEW id \in 1..objectid, Forget(id), UNCHANGED <<objectid, idOf>>
  PROVE  RefsTypeOK' /\ Forgets(id)
<1>1. objectid \in Nat /\ (InTables <=> InTables')
  BY DEF SeriTypeOK, InTables
<1>2. CASE InTables
  <2>1. /\ DOMAIN addressOf' = DOMAIN addressOf \ {id}
        /\ \A x \in DOMAIN addressOf \ {id} : addressOf'[x] = addressOf[x]
    BY <1>2 DEF Forget, Without
  <2>2. RefsTypeOK'
    BY <1>1, <1>2, <2>1 DEF RefsTypeOK
  <2>3. \A u \in Tables : NumbersOf(u)' = NumbersOf(u)
    BY <1>1, <1>2 DEF NumbersOf
  <2>4. \A x \in 1..objectid : Address(x)' = IF x = id THEN NoAddress ELSE Address(x)
    BY <1>1, <1>2, <2>1 DEF Address
  <2>. QED
    BY <2>2, <2>3, <2>4 DEF Forgets
<1>3. CASE ~InTables
  <2> DEFINE R == [object : Tables, address : Nat]
             e == [r[id] EXCEPT !.address = NoAddress]
  <2>1. r \in Seq(R) /\ Len(r) = objectid /\ r' = [r EXCEPT ![id] = e]
    BY <1>3 DEF RefsTypeOK, Forget
  <2>2. r[id] \in R
    BY <2>1, ElementOfSeq
  <2>3. e \in R /\ e.object = r[id].object /\ e.address = NoAddress
    BY <2>2 DEF NoAddress
  <2> HIDE DEF e
  <2>4. /\ r' \in Seq(R) /\ Len(r') = objectid
        /\ \A x \in 1..objectid : r'[x] = IF x = id THEN e ELSE r[x]
    BY <2>1, <2>3, ExceptSeq
  <2>5. DOMAIN r = 1..objectid /\ DOMAIN r' = 1..objectid
    BY <2>1, <2>4, LenProperties
  <2>6. RefsTypeOK'
    BY <1>1, <1>3, <2>4 DEF RefsTypeOK
  <2>7. \A x \in 1..objectid : r'[x].object = r[x].object
    BY <2>3, <2>4
  <2>8. \A u \in Tables : NumbersOf(u)' = NumbersOf(u)
    BY <1>1, <1>3, <2>5, <2>7 DEF NumbersOf
  <2>9. \A x \in 1..objectid : Address(x) = r[x].address /\ Address(x)' = r'[x].address
    BY <1>1, <1>3 DEF Address
  <2>10. \A x \in 1..objectid : Address(x)' = IF x = id THEN NoAddress ELSE Address(x)
    BY <2>3, <2>4, <2>9
  <2>. QED
    BY <2>6, <2>8, <2>10 DEF Forgets
<1>. QED
  BY <1>2, <1>3

------------------------------------------------------------------------------
(* The writer's stack and the stream.                                       *)

\* What is left of the list being written.
LEMMA RestTyped ==
  ASSUME SeriTypeOK, Top(todo) # <<>>
  PROVE  Value \in Values /\ Rest \in Seq(Seq(Values)) /\ Len(Rest) = Len(todo)
<1>1. Len(path) \in Nat
  BY LenProperties DEF SeriTypeOK
<1>2. Len(todo) \in 1..Len(todo)
  BY <1>1 DEF SeriTypeOK
<1>3. todo \in Seq(Seq(Values)) /\ todo[Len(todo)] \in Seq(Values)
  BY <1>2, ElementOfSeq DEF SeriTypeOK
<1>4. Head(todo[Len(todo)]) \in Values /\ Tail(todo[Len(todo)]) \in Seq(Values)
  BY <1>3, HeadTailProperties DEF Top
<1>5. Rest = [todo EXCEPT ![Len(todo)] = Tail(todo[Len(todo)])]
  BY DEF Rest
<1>. QED
  BY <1>2, <1>3, <1>4, <1>5, ExceptSeq DEF Value, Top

\* A table's list is done.
LEMMA PopTyped ==
  ASSUME NEW S, NEW s \in Seq(S), s # <<>>
  PROVE  Pop(s, 1) \in Seq(S) /\ Len(Pop(s, 1)) = Len(s) - 1
<1>1. Len(s) \in Nat \ {0} /\ \A k \in 1..Len(s) : s[k] \in S
  BY EmptySeq, ElementOfSeq
<1>2. PICK n \in Nat : n = Len(s) - 1
  BY <1>1
<1>3. \A k \in 1..n : s[k] \in S
  BY <1>1, <1>2
<1>4. SubSeq(s, 1, n) \in Seq(S) /\ Len(SubSeq(s, 1, n)) = IF 1 <= n THEN n - 1 + 1 ELSE 0
  BY <1>3, SubSeqProperties
<1>. QED
  BY <1>2, <1>4 DEF Pop

\* What CookiesFit says of one element.
Fits(e) ==
  e.type \in {"table", "mark", "ref"} =>
    /\ e.cookie \in 0 .. MAX_COOKIE - 1
    /\ e.cookie = EXTEND_NUMBER <=> e.n # NoNumber

\* A number from 1 on is written with one byte at least.
LEMMA NumberFollows ==
  ASSUME NEW v \in Nat \ {0}
  PROVE  wb_integer(v) \in Numbers /\ wb_integer(v) # NoNumber
<1>1. v % 256 \in Nat /\ v % 65536 \in Nat
  OBVIOUS
<1>2. /\ v < 256 => wb_integer(v) = [width |-> 1, bytes |-> v % 256]
      /\ v >= 256 /\ v < 65536 => wb_integer(v) = [width |-> 2, bytes |-> v % 65536]
      /\ v >= 65536 => wb_integer(v) = [width |-> 4, bytes |-> v]
  BY DEF wb_integer
<1>. QED
  BY <1>1, <1>2 DEF Numbers, NoNumber

\* Nothing of the references changes.
LEMMA RefsStay ==
  ASSUME SeriTypeOK, RefsTypeOK, NumbersInv, UNCHANGED <<objectid, r, idOf, addressOf>>
  PROVE  RefsTypeOK' /\ NumbersInv' /\ \A id \in 1..objectid : Address(id)' = Address(id)
<1>1. InTables <=> InTables'
  BY DEF InTables
<1>2. \A id : Address(id)' = Address(id)
  BY <1>1 DEF Address
<1>3. \A u \in Tables : NumbersOf(u)' = NumbersOf(u)
  BY <1>1 DEF NumbersOf
<1>4. Packed' = Packed
  BY <1>3 DEF Packed
<1>5. RefsTypeOK'
  BY <1>1 DEF RefsTypeOK
<1>. QED
  BY <1>2, <1>3, <1>4, <1>5 DEF NumbersInv

\* An element is added, and the addresses stay.
LEMMA StreamGrows ==
  ASSUME SeriTypeOK, AddressInv, CookiesFit, NEW e \in Elements, Fits(e),
         out' = Append(out, e), objectid' = objectid,
         \A id \in 1..objectid : Address(id)' = Address(id)
  PROVE  out' \in Seq(Elements) /\ AddressInv' /\ CookiesFit'
<1>1. out \in Seq(Elements)
  BY DEF SeriTypeOK
<1>2. Len(out) \in Nat /\ DOMAIN out = 1..Len(out)
  BY <1>1, LenProperties
<1>3. /\ out' \in Seq(Elements) /\ Len(out') = Len(out) + 1
      /\ \A p \in 1..Len(out) : out'[p] = out[p]
      /\ out'[Len(out) + 1] = e
  BY <1>1, AppendProperties
<1>4. DOMAIN out' = 1 .. Len(out) + 1
  BY <1>3, LenProperties
<1>5. AddressInv'
  <2>1. ASSUME NEW id \in 1..objectid, Address(id) # NoAddress
        PROVE  Address(id) <= Len(out') /\ out'[Address(id)].type = "table"
    <3>1. Address(id) \in 1..Len(out) /\ out[Address(id)].type = "table"
      BY <1>2, <2>1 DEF AddressInv, AddressesAreTags, NoAddress
    <3>. QED
      BY <1>2, <1>3, <3>1
  <2>2. AddressesAreTags'
    BY <2>1 DEF AddressesAreTags
  <2>. QED
    BY <2>2 DEF AddressInv
<1>6. ASSUME NEW p \in DOMAIN out'
      PROVE  Fits(out'[p])
  <2>1. CASE p = Len(out) + 1
    BY <1>3, <2>1
  <2>2. CASE p \in 1..Len(out)
    BY <1>2, <1>3, <2>2 DEF CookiesFit, Fits
  <2>. QED
    BY <1>2, <1>4, <2>1, <2>2
<1>7. CookiesFit'
  BY <1>6 DEF CookiesFit, Fits
<1>. QED
  BY <1>3, <1>5, <1>7

------------------------------------------------------------------------------
(* The steps.                                                               *)

\* At the start nothing is written and no table has a number.
LEMMA InitHolds == Init => SeriInv
<1> SUFFICES ASSUME Init
             PROVE  SeriInv
  OBVIOUS
<1>1. ~InTables /\ MAX_REFERENCE \in Nat \ {0} /\ objectid = 0
  BY LimitsAssumption DEF Init, InTables
<1>2. DOMAIN r = {} /\ DOMAIN out = {} /\ 1..0 = {} /\ Len(r) = 0 /\ Len(path) = 0
  BY EmptySeq DEF Init
<1>3. \A t \in Tables : NumbersOf(t) = {}
  BY <1>1, <1>2 DEF NumbersOf
<1>4. args \in Seq(Values) /\ heap \in Heaps
  BY ContentsAssumption DEF Init
<1>5. todo \in Seq(Seq(Values)) /\ Len(todo) = 1
  BY <1>4 DEF Init
<1>6. SeriTypeOK
  BY <1>1, <1>2, <1>4, <1>5, EmptySeq DEF SeriTypeOK, Init
<1>7. RefsTypeOK
  BY <1>1, <1>2, EmptySeq DEF RefsTypeOK, Init
<1>8. Packed = {}
  BY <1>3 DEF Packed
<1>9. NumbersInv
  BY <1>1, <1>3, <1>8, FS_EmptySet DEF NumbersInv
<1>10. AddressInv /\ CookiesFit
  BY <1>1, <1>2 DEF AddressInv, AddressesAreTags, CookiesFit
<1>. QED
  BY <1>6, <1>7, <1>9, <1>10 DEF SeriInv

\* What the writer keeps and the stream do not change.
LEMMA WriterStays ==
  ASSUME SeriInv, UNCHANGED <<heap, out, writer>>
  PROVE  SeriInv'
<1>1. UNCHANGED <<todo, path, objectid, r, idOf, addressOf>>
  BY DEF writer
<1>2. /\ RefsTypeOK' /\ NumbersInv' /\ objectid' = objectid /\ out' = out
      /\ \A id \in 1..objectid : Address(id)' = Address(id)
  BY <1>1, RefsStay DEF SeriInv
<1>3. SeriTypeOK' /\ CookiesFit'
  BY <1>1, <1>2 DEF SeriInv, SeriTypeOK, CookiesFit
<1>4. AddressInv'
  BY <1>2 DEF SeriInv, AddressInv, AddressesAreTags
<1>. QED
  BY <1>2, <1>3, <1>4 DEF SeriInv

\* One element is added to the stream, and no table.
LEMMA ElementAdded ==
  ASSUME SeriInv, NEW e \in Elements, Fits(e), out' = Append(out, e),
         UNCHANGED <<heap, objectid, r, idOf, addressOf>>,
         todo' \in Seq(Seq(Values)), path' \in Seq(Tables), Len(todo') = Len(path') + 1
  PROVE  SeriInv'
<1>1. /\ RefsTypeOK' /\ NumbersInv' /\ objectid' = objectid
      /\ \A id \in 1..objectid : Address(id)' = Address(id)
  BY RefsStay DEF SeriInv
<1>2. out' \in Seq(Elements) /\ AddressInv' /\ CookiesFit'
  BY <1>1, StreamGrows DEF SeriInv
<1>3. SeriTypeOK'
  BY <1>2 DEF SeriInv, SeriTypeOK
<1>. QED
  BY <1>1, <1>2, <1>3 DEF SeriInv

\* A value that is one element.
LEMMA PackValueKeeps ==
  ASSUME SeriInv, PackValue
  PROVE  SeriInv'
<1>1. /\ Value \in Values /\ Rest \in Seq(Seq(Values)) /\ Len(Rest) = Len(todo)
  BY RestTyped DEF SeriInv, PackValue, Packing
<1>2. Value \in Elements /\ Fits(Value)
  BY <1>1 DEF PackValue, Values, Atoms, Elements, Fits
<1>3. path \in Seq(Tables) /\ Len(todo) = Len(path) + 1
  BY DEF SeriInv, SeriTypeOK
<1>. QED
  BY <1>1, <1>2, <1>3, ElementAdded DEF PackValue

\* The depth of an ancestor is below MAX_DEPTH, and never the escape code.
LEMMA PackAncestorKeeps ==
  ASSUME SeriInv, PackAncestor
  PROVE  SeriInv'
<1>1. /\ Rest \in Seq(Seq(Values)) /\ Len(Rest) = Len(todo)
  BY RestTyped DEF SeriInv, PackAncestor, Packing
<1>2. path \in Seq(Tables) /\ Len(path) \in Nat /\ Len(todo) = Len(path) + 1
  BY LenProperties DEF SeriInv, SeriTypeOK
<1>3. PICK d \in AncestorDepths(Value.v) : out' = Append(out, Ref(d, NoNumber))
  BY DEF PackAncestor
<1>4. d \in 0 .. Len(path) - 1 /\ Len(path) < MAX_DEPTH
  BY <1>2, LimitsAssumption DEF AncestorDepths
<1>5. d \in 0 .. MAX_COOKIE - 1 /\ d # EXTEND_NUMBER
  BY <1>2, <1>4, LimitsAssumption DEF EXTEND_NUMBER
<1>6. Ref(d, NoNumber) \in Elements /\ Fits(Ref(d, NoNumber))
  BY <1>5 DEF Ref, Elements, Tags, Numbers, NoNumber, Fits
<1>. QED
  BY <1>1, <1>2, <1>3, <1>6, ElementAdded DEF PackAncestor

\* The nil behind the last item.
LEMMA PackEndKeeps ==
  ASSUME SeriInv, PackEnd
  PROVE  SeriInv'
<1>1. /\ path \in Seq(Tables) /\ path # <<>> /\ todo \in Seq(Seq(Values))
      /\ Len(path) \in Nat /\ Len(todo) = Len(path) + 1
  BY LenProperties DEF SeriInv, SeriTypeOK, PackEnd
<1>2. todo # <<>>
  <2>1. Len(todo) # 0
    BY <1>1
  <2>. QED
    BY <2>1, EmptySeq
<1>3. /\ todo' \in Seq(Seq(Values)) /\ path' \in Seq(Tables)
      /\ Len(todo') = Len(todo) - 1 /\ Len(path') = Len(path) - 1
  BY <1>1, <1>2, PopTyped DEF PackEnd
<1>4. Len(todo') = Len(path') + 1
  BY <1>1, <1>3
<1>5. Nil \in Elements /\ Fits(Nil)
  BY DEF Nil, Elements, Atoms, Fits
<1>. QED
  BY <1>3, <1>4, <1>5, ElementAdded DEF PackEnd

\* A reference to a table written before changes the tag of the table, at the one
\* address that is then forgotten.
LEMMA PackObjectKeeps ==
  ASSUME SeriInv, PackObject
  PROVE  SeriInv'
<1>1. /\ Value \in Values /\ Rest \in Seq(Seq(Values)) /\ Len(Rest) = Len(todo)
  BY RestTyped DEF SeriInv, PackObject, Packing
<1>2. Value.v \in Tables
  BY <1>1 DEF PackObject, IsTable, Values, Atoms
<1>3. PICK id \in NumbersOf(Value.v) :
        out' = Append(change_mark(id), Ref(EXTEND_NUMBER, wb_integer(id))) /\ Forget(id)
  BY DEF PackObject
<1>4. id \in 1..objectid /\ objectid \in Nat
  BY <1>2, <1>3 DEF SeriInv, NumbersInv, SeriTypeOK
<1>5. UNCHANGED <<heap, objectid, idOf, path>> /\ todo' = Rest
  BY DEF PackObject
<1>6. RefsTypeOK' /\ Forgets(id)
  BY <1>3, <1>4, <1>5, Forgotten DEF SeriInv
<1>7. NumbersInv'
  <2>1. \A u \in Tables : NumbersOf(u)' = NumbersOf(u)
    BY <1>6 DEF Forgets
  <2>2. Packed' = Packed
    BY <2>1 DEF Packed
  <2>. QED
    BY <1>5, <2>1, <2>2 DEF SeriInv, NumbersInv
<1> DEFINE a == Address(id)
           c == change_mark(id)
           e == Ref(EXTEND_NUMBER, wb_integer(id))
<1>8. out \in Seq(Elements) /\ Len(out) \in Nat /\ DOMAIN out = 1..Len(out)
  BY LenProperties DEF SeriInv, SeriTypeOK
<1>9. a \in Nat /\ (a # NoAddress => a \in 1..Len(out) /\ out[a].type = "table")
  BY <1>4, <1>8 DEF SeriInv, AddressInv, AddressesAreTags, NoAddress
<1>10. /\ c \in Seq(Elements) /\ Len(c) = Len(out)
       /\ \A p \in 1..Len(out) : p # a => c[p] = out[p]
       /\ a # NoAddress => c[a] = [out[a] EXCEPT !.type = "mark"]
  <2>1. CASE a = NoAddress
    BY <1>8, <2>1 DEF change_mark
  <2>2. CASE a # NoAddress
    <3> DEFINE x == [out[a] EXCEPT !.type = "mark"]
    <3>1. a \in 1..Len(out) /\ out[a].type = "table"
      BY <1>9, <2>2
    <3>2. out[a] \in Elements
      BY <1>8, <3>1, ElementOfSeq
    <3>3. x \in Elements
      BY <3>1, <3>2 DEF Elements, Atoms, Tags
    <3>4. c = [out EXCEPT ![a] = x]
      BY <2>2 DEF change_mark
    <3> HIDE DEF x
    <3>5. /\ c \in Seq(Elements) /\ Len(c) = Len(out)
          /\ \A p \in 1..Len(out) : c[p] = IF p = a THEN x ELSE out[p]
      BY <1>8, <3>1, <3>3, <3>4, ExceptSeq
    <3>. QED
      BY <3>1, <3>5 DEF x
  <2>. QED
    BY <2>1, <2>2
<1>11. e \in Elements /\ Fits(e)
  <2>1. wb_integer(id) \in Numbers /\ wb_integer(id) # NoNumber
    BY <1>4, NumberFollows
  <2>2. EXTEND_NUMBER \in 0 .. MAX_COOKIE - 1
    BY LimitsAssumption DEF EXTEND_NUMBER
  <2>. QED
    BY <2>1, <2>2 DEF Ref, Elements, Tags, Fits
<1> HIDE DEF a, c, e
<1>12. out' = Append(c, e)
  BY <1>3 DEF c, e
<1>13. /\ out' \in Seq(Elements) /\ Len(out') = Len(out) + 1
       /\ \A p \in 1..Len(out) : out'[p] = c[p]
       /\ out'[Len(out) + 1] = e
  BY <1>10, <1>11, <1>12, AppendProperties
<1>14. DOMAIN out' = 1 .. Len(out) + 1
  BY <1>13, LenProperties
<1>15. CookiesFit'
  <2>1. ASSUME NEW p \in DOMAIN out'
        PROVE  Fits(out'[p])
    <3>1. CASE p = Len(out) + 1
      BY <1>11, <1>13, <3>1
    <3>2. CASE p \in 1..Len(out)
      <4>1. Fits(out[p])
        BY <1>8, <3>2 DEF SeriInv, CookiesFit, Fits
      <4>2. CASE p # a
        BY <1>10, <1>13, <3>2, <4>1, <4>2
      <4>3. CASE p = a
        <5>1. a # NoAddress
          BY <3>2, <4>3 DEF NoAddress
        <5>2. out[a] \in Elements /\ out[a].type = "table"
          BY <1>8, <1>9, <5>1, ElementOfSeq
        <5>3. out[a] \in Tags
          BY <5>2 DEF Elements, Atoms
        <5>4. c[a].cookie = out[a].cookie /\ c[a].n = out[a].n
          BY <1>10, <5>1, <5>3 DEF Tags
        <5>. QED
          BY <1>13, <3>2, <4>1, <4>3, <5>2, <5>4 DEF Fits
      <4>. QED
        BY <4>2, <4>3
    <3>. QED
      BY <1>8, <1>14, <2>1, <3>1, <3>2
  <2>. QED
    BY <2>1 DEF CookiesFit, Fits
<1>16. AddressInv'
  <2>1. objectid' = objectid
        /\ \A x \in 1..objectid : Address(x)' = IF x = id THEN NoAddress ELSE Address(x)
    BY <1>6 DEF Forgets
  <2>2. ASSUME NEW x \in 1..objectid, Address(x)' # NoAddress
        PROVE  /\ Address(x)' = Address(x) /\ Address(x)' <= Len(out')
               /\ out'[Address(x)'].type = "table"
    <3>1. x # id /\ Address(x)' = Address(x) /\ Address(x) # NoAddress
      BY <2>1, <2>2
    <3>2. Address(x) \in 1..Len(out) /\ out[Address(x)].type = "table"
      BY <1>8, <3>1 DEF SeriInv, AddressInv, AddressesAreTags, NoAddress
    <3>3. Address(x) # a
      BY <1>4, <3>1 DEF SeriInv, AddressInv, a
    <3>4. out'[Address(x)] = out[Address(x)]
      BY <1>10, <1>13, <3>2, <3>3
    <3>. QED
      BY <1>8, <1>13, <3>1, <3>2, <3>4
  <2>3. AddressesAreTags'
    BY <2>1, <2>2 DEF AddressesAreTags
  <2>4. \A x \in 1..objectid : Address(x)' \in Nat
    BY <2>1 DEF SeriInv, AddressInv, NoAddress
  <2>5. \A x, y \in 1..objectid : Address(x)' = Address(y)' /\ Address(x)' # NoAddress => x = y
    BY <2>2 DEF SeriInv, AddressInv
  <2>. QED
    BY <2>1, <2>3, <2>4, <2>5 DEF AddressInv
<1>17. SeriTypeOK'
  BY <1>1, <1>5, <1>13 DEF SeriInv, SeriTypeOK
<1>. QED
  BY <1>6, <1>7, <1>15, <1>16, <1>17 DEF SeriInv

\* A size that is not below the escape code follows the tag.
LEMMA TagTyped ==
  ASSUME NEW size \in Nat
  PROVE  TableTag(size) \in Tags /\ TableTag(size).type = "table" /\ Fits(TableTag(size))
<1>1. EXTEND_NUMBER \in Nat \ {0} /\ EXTEND_NUMBER \in 0 .. MAX_COOKIE - 1 /\ MAX_COOKIE \in Nat
  BY LimitsAssumption DEF EXTEND_NUMBER
<1>2. CASE size >= EXTEND_NUMBER
  <2>1. wb_integer(size) \in Numbers /\ wb_integer(size) # NoNumber
    BY <1>1, <1>2, NumberFollows
  <2>2. TableTag(size) = [type |-> "table", cookie |-> EXTEND_NUMBER, n |-> wb_integer(size)]
    BY <1>2 DEF TableTag
  <2>. QED
    BY <1>1, <2>1, <2>2 DEF Tags, Fits
<1>3. CASE size < EXTEND_NUMBER
  <2>1. size \in 0 .. MAX_COOKIE - 1 /\ size # EXTEND_NUMBER
    BY <1>1, <1>3 DEF EXTEND_NUMBER
  <2>2. TableTag(size) = [type |-> "table", cookie |-> size, n |-> NoNumber]
    BY <1>1, <1>3 DEF TableTag
  <2>3. NoNumber \in Numbers
    BY DEF NoNumber, Numbers
  <2>. QED
    BY <2>1, <2>2, <2>3 DEF Tags, Fits
<1>. QED
  BY <1>1, <1>2, <1>3

\* A new table gets the next number, its tag is at the address that is kept, and
\* its items are the list to write first.
LEMMA PackTableKeeps ==
  ASSUME SeriInv, PackTable
  PROVE  SeriInv'
<1>1. /\ Value \in Values /\ Rest \in Seq(Seq(Values)) /\ Len(Rest) = Len(todo)
  BY RestTyped DEF SeriInv, PackTable, Packing
<1>2. PICK t \in Tables : t = Value.v
  BY <1>1 DEF PackTable, IsTable, Values, Atoms
<1>3. /\ NumbersOf(t) = {} /\ mark_table(t) /\ UNCHANGED heap
      /\ out' = Append(out, TableTag(ArraySize(t)))
      /\ todo' = Append(Rest, Items(t)) /\ path' = Append(path, t)
  BY <1>2 DEF PackTable
<1>4. RefsTypeOK' /\ Marks(t)
  BY <1>3, MarkTable DEF SeriInv
<1>5. heap \in Heaps /\ objectid \in Nat /\ path \in Seq(Tables) /\ Len(path) \in Nat
  BY LenProperties DEF SeriInv, SeriTypeOK
<1>6. Items(t) \in Seq(Values) /\ ArraySize(t) \in Nat
  BY <1>5, ItemsTyped, ContentsTyped
<1> DEFINE e == TableTag(ArraySize(t))
<1>7. e \in Elements /\ e.type = "table" /\ Fits(e)
  BY <1>6, TagTyped DEF Elements
<1> HIDE DEF e
<1>8. out \in Seq(Elements) /\ Len(out) \in Nat /\ DOMAIN out = 1..Len(out) /\ out' = Append(out, e)
  BY <1>3, LenProperties DEF SeriInv, SeriTypeOK, e
<1>9. /\ out' \in Seq(Elements) /\ Len(out') = Len(out) + 1
      /\ \A p \in 1..Len(out) : out'[p] = out[p]
      /\ out'[Len(out) + 1] = e
  BY <1>7, <1>8, AppendProperties
<1>10. DOMAIN out' = 1 .. Len(out) + 1
  BY <1>9, LenProperties
<1>11. SeriTypeOK'
  <2>1. todo' \in Seq(Seq(Values)) /\ Len(todo') = Len(todo) + 1
    BY <1>1, <1>3, <1>6, AppendProperties
  <2>2. path' \in Seq(Tables) /\ Len(path') = Len(path) + 1
    BY <1>3, <1>5, AppendProperties
  <2>3. objectid' \in Nat /\ heap' \in Heaps
    BY <1>3, <1>4, <1>5 DEF Marks
  <2>4. Len(todo) = Len(path) + 1
    BY DEF SeriInv, SeriTypeOK
  <2>. QED
    BY <1>5, <1>9, <2>1, <2>2, <2>3, <2>4 DEF SeriTypeOK
<1>12. CookiesFit'
  <2>1. ASSUME NEW p \in DOMAIN out'
        PROVE  Fits(out'[p])
    <3>1. CASE p = Len(out) + 1
      BY <1>7, <1>9, <3>1
    <3>2. CASE p \in 1..Len(out)
      BY <1>8, <1>9, <3>2 DEF SeriInv, CookiesFit, Fits
    <3>. QED
      BY <1>8, <1>10, <2>1, <3>1, <3>2
  <2>. QED
    BY <2>1 DEF CookiesFit, Fits
<1>13. objectid' = objectid + 1 /\ 1..objectid' = 1..objectid \cup {objectid'}
  BY <1>4, <1>5 DEF Marks
<1>14. NumbersInv'
  <2>1. \A u \in Tables : NumbersOf(u)' = IF u = t THEN {objectid'} ELSE NumbersOf(u)
    BY <1>4, <1>13 DEF Marks
  <2>2. \A u \in Tables : NumbersOf(u)' \subseteq 1..objectid'
    BY <1>13, <2>1 DEF SeriInv, NumbersInv
  <2>3. \A u \in Tables : \A x, y \in NumbersOf(u)' : x = y
    BY <2>1 DEF SeriInv, NumbersInv
  <2>4. Packed' = Packed \cup {t} /\ t \notin Packed
    BY <1>3, <2>1 DEF Packed
  <2>5. IsFiniteSet(Packed) /\ Cardinality(Packed) = objectid
    BY DEF SeriInv, NumbersInv
  <2>6. IsFiniteSet(Packed') /\ Cardinality(Packed') = objectid'
    BY <1>13, <2>4, <2>5, FS_AddElement
  <2>. QED
    BY <2>2, <2>3, <2>6 DEF NumbersInv
<1>15. AddressInv'
  <2>1. /\ \A x \in 1..objectid : Address(x)' = Address(x)
        /\ Address(objectid)' = Len(out) + 1
    BY <1>4 DEF Marks
  <2>2. ASSUME NEW x \in 1..objectid
        PROVE  /\ Address(x)' \in Nat /\ Address(x)' # Len(out) + 1
               /\ Address(x)' # NoAddress =>
                    Address(x)' \in 1..Len(out) /\ out[Address(x)'].type = "table"
    BY <1>8, <2>1 DEF SeriInv, AddressInv, AddressesAreTags, NoAddress
  <2>3. PICK k : k = objectid'
    OBVIOUS
  <2>4. Address(k)' = Len(out) + 1 /\ 1..objectid' = 1..objectid \cup {k}
    BY <1>13, <2>1, <2>3
  <2>5. \A x \in 1..objectid' : Address(x)' \in Nat
    BY <1>8, <2>2, <2>4
  <2>6. ASSUME NEW x \in 1..objectid', Address(x)' # NoAddress
        PROVE  Address(x)' <= Len(out') /\ out'[Address(x)'].type = "table"
    <3>1. CASE x = k
      BY <1>7, <1>8, <1>9, <2>4, <3>1
    <3>2. CASE x \in 1..objectid
      BY <1>8, <1>9, <2>2, <2>6, <3>2
    <3>. QED
      BY <2>4, <2>6, <3>1, <3>2
  <2>7. ASSUME NEW x \in 1..objectid', NEW y \in 1..objectid',
               Address(x)' = Address(y)', Address(x)' # NoAddress
        PROVE  x = y
    <3>1. CASE x \in 1..objectid /\ y \in 1..objectid
      BY <2>1, <2>7, <3>1 DEF SeriInv, AddressInv
    <3>2. CASE x = k \/ y = k
      BY <2>2, <2>4, <2>7, <3>2
    <3>. QED
      BY <2>4, <2>7, <3>1, <3>2
  <2>8. AddressesAreTags'
    BY <2>6 DEF AddressesAreTags
  <2>. QED
    BY <2>5, <2>7, <2>8 DEF AddressInv
<1>. QED
  BY <1>4, <1>11, <1>12, <1>14, <1>15 DEF SeriInv

------------------------------------------------------------------------------
(* The theorems.                                                            *)

\* SeriInv holds in every state.
LEMMA SeriInvHolds == Spec => []SeriInv
<1>1. Init => SeriInv
  BY InitHolds
<1>2. SeriInv /\ [Next]_vars => SeriInv'
  <2> SUFFICES ASSUME SeriInv, [Next]_vars
               PROVE  SeriInv'
    OBVIOUS
  <2>1. CASE PackValue
    BY <2>1, PackValueKeeps
  <2>2. CASE PackAncestor
    BY <2>2, PackAncestorKeeps
  <2>3. CASE PackObject
    BY <2>3, PackObjectKeeps
  <2>4. CASE PackTable
    BY <2>4, PackTableKeeps
  <2>5. CASE PackEnd
    BY <2>5, PackEndKeeps
  <2>6. CASE PackUnsupported \/ PackDone
    BY <2>6, WriterStays DEF PackUnsupported, PackDone
  <2>7. CASE ReadValue \/ ReadTable \/ ReadAncestor \/ ReadObject
    BY <2>7, WriterStays DEF ReadValue, ReadTable, ReadAncestor, ReadObject, Push, Refuse
  <2>8. CASE StoreElement \/ StoreKey \/ StoreEnd \/ StoreValue \/ UnpackDone
    BY <2>8, WriterStays DEF StoreElement, StoreKey, StoreEnd, StoreValue, UnpackDone
  <2>9. CASE UNCHANGED vars
    BY <2>9, WriterStays DEF vars
  <2>. QED
    BY <2>1, <2>2, <2>3, <2>4, <2>5, <2>6, <2>7, <2>8, <2>9 DEF Next
<1>. QED
  BY <1>1, <1>2, PTL DEF Spec

\* The assert of change_mark never fails: an address that is remembered is that of
\* a table's tag which was not changed before.
THEOREM AddressesAreUnmarkedTags == Spec => []AddressesAreTags
<1>1. SeriInv => AddressesAreTags
  BY DEF SeriInv, AddressInv
<1>. QED
  BY <1>1, SeriInvHolds, PTL

\* lookup_ref knows every table mark_table has numbered, by one number, before and
\* after the array is full: no table is written twice.
THEOREM EveryTableHasOneNumber == Spec => []TablesAreWrittenOnce
<1>1. SeriInv => TablesAreWrittenOnce
  <2> SUFFICES ASSUME SeriInv
               PROVE  TablesAreWrittenOnce
    OBVIOUS
  <2>1. Cardinality({t \in Tables : NumbersOf(t) # {}}) = objectid
    BY DEF SeriInv, NumbersInv, Packed
  <2>2. ASSUME NEW t \in Tables
        PROVE  Cardinality(NumbersOf(t)) <= 1
    <3>1. CASE NumbersOf(t) = {}
      BY <3>1, FS_EmptySet
    <3>2. CASE NumbersOf(t) # {}
      <4>1. PICK n : NumbersOf(t) = {n}
        BY <3>2 DEF SeriInv, NumbersInv
      <4>. QED
        BY <4>1, FS_Singleton, SMTT(30)
    <3>. QED
      BY <3>1, <3>2
  <2>. QED
    BY <2>1, <2>2 DEF TablesAreWrittenOnce
<1>. QED
  BY <1>1, SeriInvHolds, PTL

\* COMBINE_TYPE's cookie is in its range in every tag, and it is the escape code
\* EXTEND_NUMBER exactly when wb_integer's bytes follow.
THEOREM CookiesAlwaysFit == Spec => []CookiesFit
<1>1. SeriInv => CookiesFit
  BY DEF SeriInv
<1>. QED
  BY <1>1, SeriInvHolds, PTL

------------------------------------------------------------------------------
(* The reader follows the writer.                                           *)

\* What a place in the stream means to the reader: for each table that is open
\* there, the number of its values before its next key.  One value more:
Advance(off) == IF off = 0 THEN 1 ELSE off - 1
Advanced(f) == IF f = <<>> THEN f ELSE [f EXCEPT ![Len(f)] = Advance(f[Len(f)])]

\* What an element makes of it.
SizeOf(e) == IF e.cookie = EXTEND_NUMBER THEN get_integer(e.n) ELSE e.cookie
Parsed(f, e) ==
  IF e.type \in {"table", "mark"} THEN Append(f, SizeOf(e))
  ELSE IF e = Nil /\ f # <<>> /\ Top(f) = 0 THEN Advanced(Pop(f, 1))
  ELSE Advanced(f)

\* No table and no reference is a key, and a reference to an ancestor is to one
\* that is open.
Readable(f, e) ==
  /\ e.type \in {"table", "mark", "ref"} /\ f # <<>> => Top(f) # 0
  /\ e.type = "ref" /\ e.cookie # EXTEND_NUMBER => e.cookie < Len(f)

\* S is what the places of a stream mean.
Parse(S, stream) ==
  /\ S \in [0..Len(stream) -> Seq(Nat)]
  /\ S[0] = <<>>
  /\ \A p \in 1..Len(stream) :
       S[p] = Parsed(S[p - 1], stream[p]) /\ Readable(S[p - 1], stream[p])

\* Behind off values items are pairs whose keys are no tables and not nil.
Matches(off, items) ==
  /\ off <= Len(items) /\ (Len(items) - off) % 2 = 0
  /\ \A j \in 1..Len(items) :
       j > off /\ (j - off) % 2 = 1 => items[j].type # "table" /\ items[j] # Nil

\* The tables being written are those that are open, and what is left of each is
\* what its place in the stream says.
WriterAt(f) ==
  /\ Len(f) = Len(path)
  /\ \A k \in 1..Len(path) :
       IF k = Len(path) THEN Matches(f[k], todo[k + 1])
       ELSE f[k] # 0 /\ Matches(Advance(f[k]), todo[k + 1])

\* A value is taken from a list of items.
LEMMA ItemTaken ==
  ASSUME NEW off \in Nat, NEW items \in Seq(Values), items # <<>>, Matches(off, items)
  PROVE  /\ Advance(off) \in Nat /\ Matches(Advance(off), Tail(items))
         /\ Head(items).type = "table" \/ Head(items) = Nil => off # 0
<1>1. /\ Tail(items) \in Seq(Values) /\ Len(items) \in Nat \ {0}
      /\ Len(Tail(items)) = Len(items) - 1
      /\ \A j \in 1..Len(Tail(items)) : Tail(items)[j] = items[j + 1]
  BY HeadTailProperties, EmptySeq
<1>2. Head(items) = items[1]
  OBVIOUS
<1>3. PICK l \in Nat \ {0} : l = Len(items)
  BY <1>1
<1>4. /\ off <= l /\ (l - off) % 2 = 0
      /\ \A j \in 1..l : j > off /\ (j - off) % 2 = 1 => items[j].type # "table" /\ items[j] # Nil
  BY <1>3 DEF Matches
<1>5. PICK b \in Nat : b = Advance(off) /\ b <= l - 1 /\ (l - 1 - b) % 2 = 0
                       /\ \A j \in 1 .. l - 1 :
                            j > b /\ (j - b) % 2 = 1 =>
                              j + 1 > off /\ (j + 1 - off) % 2 = 1
  <2>1. CASE off = 0
    <3>1. l # 1 /\ 1 <= l - 1 /\ (l - 1 - 1) % 2 = 0
      BY <1>4, <2>1
    <3>2. \A j \in 1 .. l - 1 : j > 1 /\ (j - 1) % 2 = 1 => j + 1 > off /\ (j + 1 - off) % 2 = 1
      BY <2>1
    <3>. QED
      BY <2>1, <3>1, <3>2 DEF Advance
  <2>2. CASE off # 0
    <3>1. off - 1 \in Nat /\ off - 1 <= l - 1 /\ (l - 1 - (off - 1)) % 2 = 0
      BY <1>4, <2>2
    <3>2. \A j \in 1 .. l - 1 :
            j > off - 1 /\ (j - (off - 1)) % 2 = 1 => j + 1 > off /\ (j + 1 - off) % 2 = 1
      OBVIOUS
    <3>. QED
      BY <2>2, <3>1, <3>2 DEF Advance
  <2>. QED
    BY <2>1, <2>2
<1>6. Len(Tail(items)) = l - 1 /\ \A j \in 1 .. l - 1 : j + 1 \in 1..l /\ Tail(items)[j] = items[j + 1]
  BY <1>1, <1>3
<1>7. Matches(b, Tail(items))
  BY <1>4, <1>5, <1>6 DEF Matches
<1>8. off = 0 => Head(items).type # "table" /\ Head(items) # Nil
  BY <1>2, <1>4
<1>. QED
  BY <1>5, <1>7, <1>8

\* A list without items has no values before its next key.
LEMMA NothingLeft ==
  ASSUME NEW off \in Nat, Matches(off, <<>>)
  PROVE  off = 0
BY EmptySeq DEF Matches

\* The elements of what Pop leaves.
LEMMA PopElements ==
  ASSUME NEW S, NEW s \in Seq(S), s # <<>>
  PROVE  /\ Pop(s, 1) \in Seq(S) /\ Len(Pop(s, 1)) = Len(s) - 1 /\ Len(s) \in Nat \ {0}
         /\ \A k \in 1 .. Len(s) - 1 : Pop(s, 1)[k] = s[k]
<1>1. Len(s) \in Nat \ {0} /\ \A k \in 1..Len(s) : s[k] \in S
  BY EmptySeq, ElementOfSeq
<1>2. PICK n \in Nat : n = Len(s) - 1
  BY <1>1
<1>3. \A k \in 1..n : s[k] \in S
  BY <1>1, <1>2
<1>4. \A k \in 1..n : SubSeq(s, 1, n)[k] = s[k]
  <2>1. \A k \in 1 .. n - 1 + 1 : SubSeq(s, 1, n)[k] = s[1 + k - 1]
    BY <1>3, SubSeqProperties
  <2>2. \A k \in 1..n : k \in 1 .. n - 1 + 1 /\ 1 + k - 1 = k
    OBVIOUS
  <2>. QED
    BY <2>1, <2>2
<1>. QED
  BY <1>1, <1>2, <1>4, PopTyped DEF Pop

\* One value more changes the number of the table on top.
LEMMA AdvancedIs ==
  ASSUME NEW f \in Seq(Nat)
  PROVE  /\ Advanced(f) \in Seq(Nat) /\ Len(Advanced(f)) = Len(f) /\ Len(f) \in Nat
         /\ \A k \in 1..Len(f) : Advanced(f)[k] = IF k = Len(f) THEN Advance(f[k]) ELSE f[k]
<1>1. Len(f) \in Nat
  BY LenProperties
<1>2. CASE f = <<>>
  BY <1>2, EmptySeq DEF Advanced
<1>3. CASE f # <<>>
  <2>1. Len(f) \in Nat \ {0}
    BY <1>3, EmptySeq
  <2>2. PICK n \in Nat \ {0} : n = Len(f)
    BY <2>1
  <2>3. f[n] \in Nat /\ n \in 1..Len(f)
    BY <2>2, ElementOfSeq
  <2>4. Advance(f[n]) \in Nat
    BY <2>3 DEF Advance
  <2>5. PICK x \in Nat : x = Advance(f[n])
    BY <2>4
  <2>6. Advanced(f) = [f EXCEPT ![n] = x]
    BY <1>3, <2>2, <2>5 DEF Advanced
  <2>. QED
    BY <2>2, <2>3, <2>5, <2>6, ExceptSeq
<1>. QED
  BY <1>1, <1>2, <1>3

\* The size in a table's tag.
LEMMA SizeTyped ==
  ASSUME NEW e \in Tags
  PROVE  SizeOf(e) \in Nat
BY LimitsAssumption DEF SizeOf, get_integer, Tags, Numbers

\* The elements that are no values are tags.
LEMMA TagOrAtom ==
  ASSUME NEW e \in Elements
  PROVE  e \in Tags <=> e.type \in {"table", "mark", "ref"}
BY DEF Elements, Atoms, Tags

\* What an element makes of a place is typed.
LEMMA ParsedTyped ==
  ASSUME NEW f \in Seq(Nat), NEW e \in Elements
  PROVE  Parsed(f, e) \in Seq(Nat)
<1>1. CASE e.type \in {"table", "mark"}
  <2>1. SizeOf(e) \in Nat
    BY <1>1, TagOrAtom, SizeTyped
  <2>. QED
    BY <1>1, <2>1, AppendProperties DEF Parsed
<1>2. Advanced(f) \in Seq(Nat)
  BY AdvancedIs
<1>3. ASSUME f # <<>>
      PROVE  Advanced(Pop(f, 1)) \in Seq(Nat)
  <2>1. Pop(f, 1) \in Seq(Nat)
    BY <1>3, PopTyped
  <2>. QED
    BY <2>1, AdvancedIs
<1>. QED
  BY <1>1, <1>2, <1>3 DEF Parsed

\* An element is added to a stream.
LEMMA ParseExtended ==
  ASSUME NEW stream \in Seq(Elements), NEW e \in Elements, NEW S, Parse(S, stream),
         Readable(S[Len(stream)], e)
  PROVE  \E T : /\ Parse(T, Append(stream, e))
                /\ T[Len(Append(stream, e))] = Parsed(S[Len(stream)], e)
<1>1. PICK n \in Nat : n = Len(stream)
  BY LenProperties
<1> DEFINE new == Append(stream, e)
           T == [p \in 0 .. n + 1 |-> IF p = n + 1 THEN Parsed(S[n], e) ELSE S[p]]
<1>2. /\ Len(new) = n + 1 /\ new[n + 1] = e
      /\ \A p \in 1..n : new[p] = stream[p]
  BY <1>1, AppendProperties
<1>3. /\ S \in [0..n -> Seq(Nat)] /\ S[0] = <<>> /\ Readable(S[n], e)
      /\ \A p \in 1..n : S[p] = Parsed(S[p - 1], stream[p]) /\ Readable(S[p - 1], stream[p])
  BY <1>1 DEF Parse
<1>4. Parsed(S[n], e) \in Seq(Nat)
  BY <1>3, ParsedTyped
<1>5. T \in [0 .. n + 1 -> Seq(Nat)]
  <2>1. \A p \in 0 .. n + 1 : p = n + 1 \/ p \in 0..n
    OBVIOUS
  <2>. QED
    BY <1>3, <1>4, <2>1
<1>6. /\ \A p \in 0..n : T[p] = S[p]
      /\ T[n + 1] = Parsed(S[n], e)
  BY <1>1
<1> HIDE DEF T, new
<1>7. ASSUME NEW p \in 1 .. n + 1
      PROVE  T[p] = Parsed(T[p - 1], new[p]) /\ Readable(T[p - 1], new[p])
  <2>1. CASE p = n + 1
    <3>1. p - 1 = n /\ T[n] = S[n]
      BY <1>6, <2>1
    <3>. QED
      BY <1>2, <1>3, <1>6, <2>1, <3>1
  <2>2. CASE p \in 1..n
    <3>1. p - 1 \in 0..n /\ p \in 0..n
      BY <2>2
    <3>. QED
      BY <1>2, <1>3, <1>6, <2>2, <3>1
  <2>. QED
    BY <2>1, <2>2
<1>8. T[0] = <<>>
  BY <1>3, <1>6
<1>9. Parse(T, new)
  BY <1>2, <1>5, <1>7, <1>8 DEF Parse
<1>. QED
  BY <1>1, <1>2, <1>6, <1>9 DEF new

\* A table's tag that is changed to a marked one means the same.
LEMMA ParseMarked ==
  ASSUME NEW stream \in Seq(Elements), NEW c \in Seq(Elements), Len(c) = Len(stream), NEW S,
         Parse(S, stream),
         \A p \in 1..Len(stream) :
           \/ c[p] = stream[p]
           \/ stream[p].type = "table" /\ c[p] = [stream[p] EXCEPT !.type = "mark"]
  PROVE  Parse(S, c)
<1>1. ASSUME NEW p \in 1..Len(stream), NEW f, stream[p].type = "table",
             c[p] = [stream[p] EXCEPT !.type = "mark"]
      PROVE  Parsed(f, c[p]) = Parsed(f, stream[p]) /\ (Readable(f, stream[p]) => Readable(f, c[p]))
  <2>1. PICK e \in Tags : e = stream[p]
    <3>1. stream[p] \in Elements
      BY ElementOfSeq
    <3>. QED
      BY <1>1, <3>1, TagOrAtom
  <2>2. e.type = "table" /\ c[p] = [e EXCEPT !.type = "mark"]
    BY <1>1, <2>1
  <2>3. c[p].type = "mark" /\ c[p].cookie = e.cookie /\ c[p].n = e.n
    BY <2>2 DEF Tags
  <2>4. SizeOf(c[p]) = SizeOf(e)
    BY <2>3 DEF SizeOf
  <2>. QED
    BY <2>1, <2>2, <2>3, <2>4 DEF Parsed, Readable
<1>2. ASSUME NEW p \in 1..Len(stream)
      PROVE  S[p] = Parsed(S[p - 1], c[p]) /\ Readable(S[p - 1], c[p])
  BY <1>1 DEF Parse
<1>. QED
  BY <1>2 DEF Parse

\* A size is read as it was written.
LEMMA SizeReadBack ==
  ASSUME NEW size \in Nat
  PROVE  SizeOf(TableTag(size)) = size
<1>1. EXTEND_NUMBER \in Nat \ {0}
  BY LimitsAssumption DEF EXTEND_NUMBER
<1>2. CASE size >= EXTEND_NUMBER
  <2>1. wb_integer(size).bytes = size
    <3>1. size < 256 => size % 256 = size
      OBVIOUS
    <3>2. size < 65536 => size % 65536 = size
      OBVIOUS
    <3>. QED
      BY <1>1, <1>2, <3>1, <3>2 DEF wb_integer
  <2>2. TableTag(size) = [type |-> "table", cookie |-> EXTEND_NUMBER, n |-> wb_integer(size)]
    BY <1>2 DEF TableTag
  <2>. QED
    BY <2>1, <2>2 DEF SizeOf, get_integer
<1>3. CASE size < EXTEND_NUMBER
  <2>1. TableTag(size) = [type |-> "table", cookie |-> size, n |-> NoNumber]
    BY <1>1, <1>3 DEF TableTag
  <2>2. size # EXTEND_NUMBER
    BY <1>1, <1>3
  <2>. QED
    BY <2>1, <2>2 DEF SizeOf
<1>. QED
  BY <1>1, <1>2, <1>3

\* Values that can be keys of a table that has no tables as keys.
PlainKeys == {x \in Values : x.type # "table" /\ x # Nil}

\* Without tables as keys, the pairs written have none.
LEMMA PairsHavePlainKeys ==
  ASSUME heap \in Heaps, NEW t \in Tables, ~TableKeys
  PROVE  Pairs(t) \in Seq(PlainKeys \X Values)
<1> DEFINE array == heap[t].array
           listed == [n \in 1..Len(array) |-> <<Index(n), array[n]>>]
           all == listed \o heap[t].hash
<1>1. /\ array \in Seq(Values) /\ Len(array) \in Nat
      /\ heap[t].hash \in Seq(Fields)
  BY ContentsTyped, ContentsAssumption DEF Contents
<1>2. ASSUME NEW n \in 1..Len(array)
      PROVE  array[n] \in Values /\ Index(n) \in PlainKeys
  <2>1. Index(n) \in Values /\ Index(n).type # "table" /\ Index(n) # Nil
    BY DEF Index, Values, Atoms, Nil
  <2>. QED
    BY <1>1, <2>1, ElementOfSeq DEF PlainKeys
<1>3. listed \in Seq(PlainKeys \X Values)
  <2>1. listed \in [1..Len(array) -> PlainKeys \X Values]
    BY <1>2
  <2>. QED
    BY <1>1, <2>1, FunctionIsSequence
<1>4. heap[t].hash \in Seq(PlainKeys \X Values)
  <2>1. PICK h : h = heap[t].hash
    OBVIOUS
  <2>2. h \in Seq(Fields) /\ Len(h) \in Nat /\ DOMAIN h = 1..Len(h)
    BY <1>1, <2>1, LenProperties
  <2>3. ASSUME NEW j \in 1..Len(h)
        PROVE  h[j] \in PlainKeys \X Values
    <3>1. h[j] \in (Values \ {Nil}) \X (Values \ {Nil})
      BY <2>2, ElementOfSeq DEF Fields
    <3>2. ~IsTable(h[j][1])
      BY <2>1, <2>2 DEF TableKeys
    <3>. QED
      BY <3>1, <3>2 DEF PlainKeys, IsTable
  <2>4. h \in [1..Len(h) -> PlainKeys \X Values]
    <3>1. h = [j \in 1..Len(h) |-> h[j]]
      BY <2>2
    <3>. QED
      BY <2>3, <3>1
  <2>. QED
    BY <2>1, <2>2, <2>4, FunctionIsSequence
<1>5. all \in Seq(PlainKeys \X Values)
  BY <1>3, <1>4, ConcatProperties
<1> HIDE DEF all
<1>6. Kept(all, Len(array)) \in Seq(PlainKeys \X Values)
  BY <1>5, KeptIsSequence
<1>. QED
  BY <1>5, <1>6 DEF Pairs, all

\* Intervals from 1 on that are the same have the same end.
LEMMA SameInterval ==
  ASSUME NEW n \in Nat, NEW k \in Nat, 1..n = 1..k
  PROVE  n = k
<1>1. n # 0 => n \in 1..k
  OBVIOUS
<1>2. k # 0 => k \in 1..n
  OBVIOUS
<1>. QED
  BY <1>1, <1>2

\* A table's items are as its tag says.
LEMMA ItemsMatch ==
  ASSUME heap \in Heaps, NEW t \in Tables, ~TableKeys
  PROVE  Matches(ArraySize(t), Items(t))
<1>1. PICK ps : ps = Pairs(t) /\ ps \in Seq(PlainKeys \X Values)
  BY PairsHavePlainKeys
<1>2. PICK l \in Nat : l = Len(ps)
  BY <1>1, LenProperties
<1>3. \A n \in 1..l : ps[n] \in PlainKeys \X Values
  BY <1>1, <1>2, ElementOfSeq
<1>4. PICK fl : fl = Flatten(ps)
  OBVIOUS
<1>5. /\ fl \in Seq(Values) /\ Len(fl) = 2 * l
      /\ \A x \in 1 .. 2 * l : fl[x] = ps[(x + 1) \div 2][2 - (x % 2)]
  <2>1. ps \in Seq(Values \X Values)
    <3>1. PlainKeys \X Values \subseteq Values \X Values
      BY DEF PlainKeys
    <3>. QED
      BY <1>1, <3>1, SeqMonotonic
  <2>2. fl \in Seq(Values)
    BY <1>4, <2>1, FlattenIsSequence
  <2>3. fl = [x \in 1 .. 2 * l |-> ps[(x + 1) \div 2][2 - (x % 2)]]
    BY <1>2, <1>4 DEF Flatten
  <2>4. PICK k \in Nat : k = 2 * l
    OBVIOUS
  <2>5. PICK n \in Nat : n = Len(fl) /\ DOMAIN fl = 1..n
    BY <2>2, LenProperties
  <2>6. DOMAIN fl = 1..k
    BY <2>3, <2>4
  <2>7. n = k
    BY <2>5, <2>6, SameInterval
  <2>. QED
    BY <2>2, <2>3, <2>4, <2>5, <2>7
<1>6. PICK a \in Nat : a = ArraySize(t) /\ a <= Len(heap[t].array)
  BY ContentsTyped
<1>7. PICK sub : sub = SubSeq(heap[t].array, 1, a) /\ sub \in Seq(Values) /\ Len(sub) = a
  <2>1. heap[t].array \in Seq(Values) /\ Len(heap[t].array) \in Nat
    BY ContentsTyped
  <2>2. \A n \in 1..a : heap[t].array[n] \in Values
    BY <1>6, <2>1, ElementOfSeq
  <2>3. SubSeq(heap[t].array, 1, a) \in Seq(Values) /\ Len(SubSeq(heap[t].array, 1, a)) = a
    BY <1>6, <2>2, SubSeqProperties
  <2>. QED
    BY <2>3
<1>8. PICK items : items = sub \o fl /\ Items(t) = items
  BY <1>1, <1>4, <1>6, <1>7 DEF Items
<1>9. /\ Len(items) = a + 2 * l
      /\ \A j \in 1 .. a + 2 * l : j > a => items[j] = fl[j - a]
  <2>1. /\ Len(sub \o fl) = Len(sub) + Len(fl)
        /\ \A j \in 1 .. Len(sub) + Len(fl) :
             (sub \o fl)[j] = IF j <= Len(sub) THEN sub[j] ELSE fl[j - Len(sub)]
    BY <1>5, <1>7, ConcatProperties
  <2>2. /\ Len(items) = a + 2 * l
        /\ \A j \in 1 .. a + 2 * l : items[j] = IF j <= a THEN sub[j] ELSE fl[j - a]
    BY <1>5, <1>7, <1>8, <2>1
  <2>3. \A j \in 1 .. a + 2 * l : j > a => ~(j <= a)
    OBVIOUS
  <2>. QED
    BY <2>2, <2>3
<1>10. ASSUME NEW j \in 1 .. a + 2 * l, j > a, (j - a) % 2 = 1
       PROVE  items[j].type # "table" /\ items[j] # Nil
  <2>1. PICK x \in 1 .. 2 * l : x = j - a /\ x % 2 = 1
    BY <1>10
  <2>2. (x + 1) \div 2 \in 1..l /\ 2 - (x % 2) = 1
    BY <2>1
  <2>3. items[j] = ps[(x + 1) \div 2][1]
    BY <1>5, <1>9, <1>10, <2>1, <2>2
  <2>4. ps[(x + 1) \div 2] \in PlainKeys \X Values
    BY <1>3, <2>2
  <2>. QED
    BY <2>3, <2>4 DEF PlainKeys
<1>11. a <= a + 2 * l /\ (a + 2 * l - a) % 2 = 0
  OBVIOUS
<1>12. Matches(a, items)
  BY <1>9, <1>10, <1>11 DEF Matches
<1>. QED
  BY <1>6, <1>8, <1>12

------------------------------------------------------------------------------
(* The writer.                                                              *)

\* The list on top loses its first value, and the other lists stay.
LEMMA RestIs ==
  ASSUME SeriTypeOK, Packing, NEW n \in Nat, n = Len(path)
  PROVE  /\ \A k \in 0..n : todo[k + 1] \in Seq(Values)
         /\ todo[n + 1] \in Seq(Values) /\ todo[n + 1] # <<>> /\ Value = Head(todo[n + 1])
         /\ Rest \in Seq(Seq(Values)) /\ Len(Rest) = n + 1
         /\ \A k \in 0..n : k # n => Rest[k + 1] = todo[k + 1]
         /\ Rest[n + 1] = Tail(todo[n + 1])
<1>1. todo \in Seq(Seq(Values)) /\ Len(todo) = n + 1
  BY DEF SeriTypeOK
<1>2. \A k \in 1 .. n + 1 : todo[k] \in Seq(Values)
  BY <1>1, ElementOfSeq
<1>3. n + 1 \in 1 .. n + 1 /\ \A k \in 0..n : k + 1 \in 1 .. n + 1 /\ (k # n => k + 1 # n + 1)
  OBVIOUS
<1>4. todo[n + 1] # <<>> /\ Value = Head(todo[n + 1])
  BY <1>1 DEF Packing, Top, Value
<1>5. Tail(todo[n + 1]) \in Seq(Values)
  BY <1>2, <1>3, <1>4, HeadTailProperties
<1>6. Rest = [todo EXCEPT ![n + 1] = Tail(todo[n + 1])]
  BY <1>1 DEF Rest
<1>7. /\ Rest \in Seq(Seq(Values)) /\ Len(Rest) = n + 1
      /\ \A k \in 1 .. n + 1 : Rest[k] = IF k = n + 1 THEN Tail(todo[n + 1]) ELSE todo[k]
  <2>1. PICK m \in 1 .. n + 1 : m = n + 1
    BY <1>3
  <2>2. PICK x \in Seq(Values) : x = Tail(todo[n + 1])
    BY <1>5
  <2>. QED
    BY <1>1, <1>6, <2>1, <2>2, ExceptSeq
<1>. QED
  BY <1>2, <1>3, <1>4, <1>7

\* What is left of the tables being written after a value that is no new table.
LEMMA ValueWritten ==
  ASSUME SeriTypeOK, Packing, NEW f \in Seq(Nat), WriterAt(f), todo' = Rest, path' = path
  PROVE  /\ WriterAt(Advanced(f))'
         /\ (Value.type = "table" \/ Value = Nil) /\ f # <<>> => Top(f) # 0
<1>1. PICK n \in Nat : n = Len(path)
  BY LenProperties DEF SeriTypeOK
<1>2. /\ \A k \in 1..n : todo[k + 1] \in Seq(Values)
      /\ todo[n + 1] \in Seq(Values) /\ todo[n + 1] # <<>> /\ Value = Head(todo[n + 1])
      /\ \A k \in 1..n : k # n => Rest[k + 1] = todo[k + 1]
      /\ n # 0 => Rest[n + 1] = Tail(todo[n + 1])
  BY <1>1, RestIs
<1>3. /\ Len(f) = n /\ \A k \in 1..n : f[k] \in Nat
      /\ \A k \in 1..n : IF k = n THEN Matches(f[k], todo[k + 1])
                         ELSE f[k] # 0 /\ Matches(Advance(f[k]), todo[k + 1])
  BY <1>1, ElementOfSeq DEF WriterAt
<1>4. PICK g \in Seq(Nat) :
        /\ g = Advanced(f) /\ Len(g) = n
        /\ \A k \in 1..n : g[k] = IF k = n THEN Advance(f[k]) ELSE f[k]
  <2>1. /\ Advanced(f) \in Seq(Nat) /\ Len(Advanced(f)) = Len(f)
        /\ \A k \in 1..Len(f) :
             Advanced(f)[k] = IF k = Len(f) THEN Advance(f[k]) ELSE f[k]
    BY AdvancedIs
  <2>. QED
    BY <1>3, <2>1
<1>5. ASSUME n # 0
      PROVE  /\ Matches(Advance(f[n]), Tail(todo[n + 1]))
             /\ Value.type = "table" \/ Value = Nil => f[n] # 0
  <2>1. n \in 1..n
    BY <1>5
  <2>2. f[n] \in Nat /\ Matches(f[n], todo[n + 1])
    BY <1>3, <2>1
  <2>. QED
    BY <1>2, <2>2, ItemTaken
<1>6. ASSUME NEW k \in 1..n
      PROVE  IF k = n THEN Matches(g[k], todo'[k + 1])
             ELSE g[k] # 0 /\ Matches(Advance(g[k]), todo'[k + 1])
  <2>1. CASE k = n
    BY <1>2, <1>4, <1>5, <2>1
  <2>2. CASE k # n
    BY <1>2, <1>3, <1>4, <2>2
  <2>. QED
    BY <2>1, <2>2
<1>7. WriterAt(g)'
  BY <1>1, <1>4, <1>6 DEF WriterAt
<1>8. (Value.type = "table" \/ Value = Nil) /\ f # <<>> => Top(f) # 0
  <2>1. f # <<>> => n # 0
    BY <1>3, EmptySeq
  <2>. QED
    BY <1>3, <1>5, <2>1 DEF Top
<1>. QED
  BY <1>4, <1>7, <1>8

\* The stream so far can be read, and what is left to write fits behind it; the
\* reader has not begun.
WriterFollows == \E S : Parse(S, out) /\ WriterAt(S[Len(out)])
ReaderIdle == pos = 1 /\ lstack = <<>> /\ frames = <<>> /\ ready = FALSE

\* Before anything is written.
LEMMA WriterBegins ==
  ASSUME Init
  PROVE  WriterFollows /\ ReaderIdle
<1>1. PICK S : S = [p \in 0..0 |-> <<>>]
  OBVIOUS
<1>2. Len(out) = 0 /\ Len(path) = 0 /\ S[0] = <<>>
  BY <1>1, EmptySeq DEF Init
<1>3. S \in [0..0 -> Seq(Nat)]
  BY <1>1
<1>4. Parse(S, out)
  BY <1>2, <1>3 DEF Parse
<1>5. WriterAt(S[Len(out)])
  BY <1>2, EmptySeq DEF WriterAt
<1>. QED
  BY <1>4, <1>5 DEF WriterFollows, ReaderIdle, Init

\* An element is written.
LEMMA WriterGoesOn ==
  ASSUME NEW stream \in Seq(Elements), NEW e \in Elements, NEW S, Parse(S, stream),
         NEW f, f = S[Len(stream)], Readable(f, e), out' = Append(stream, e),
         WriterAt(Parsed(f, e))'
  PROVE  WriterFollows'
<1>1. PICK T : /\ Parse(T, Append(stream, e))
               /\ T[Len(Append(stream, e))] = Parsed(f, e)
  BY ParseExtended
<1>2. PICK new : new = Append(stream, e)
  OBVIOUS
<1>3. PICK g : g = Parsed(f, e) /\ WriterAt(g)'
  OBVIOUS
<1>4. Parse(T, new) /\ T[Len(new)] = g /\ out' = new
  BY <1>1, <1>2, <1>3
<1>. QED
  BY <1>3, <1>4 DEF WriterFollows

\* What the writer's invariant gives in a step.
LEMMA StreamIs ==
  ASSUME SeriTypeOK, NEW S, Parse(S, out)
  PROVE  out \in Seq(Elements) /\ Len(out) \in Nat /\ S[Len(out)] \in Seq(Nat)
<1>1. out \in Seq(Elements) /\ Len(out) \in Nat
  BY LenProperties DEF SeriTypeOK
<1>2. Len(out) \in 0..Len(out)
  BY <1>1
<1>. QED
  BY <1>1, <1>2 DEF Parse

\* A value that is one element.
LEMMA PackValueFollows ==
  ASSUME SeriInv, PackValue, WriterFollows
  PROVE  WriterFollows'
<1>1. PICK S : Parse(S, out) /\ WriterAt(S[Len(out)])
  BY DEF WriterFollows
<1>2. SeriTypeOK /\ Packing /\ todo' = Rest /\ path' = path /\ out' = Append(out, Value)
  BY DEF SeriInv, PackValue
<1>3. PICK f \in Seq(Nat) : f = S[Len(out)]
  BY <1>1, <1>2, StreamIs
<1>4. PICK e \in Elements : e = Value /\ e.type \in {"nil", "number", "string"}
  <2>1. Value \in Values /\ Value.type \in {"nil", "number", "string"}
    BY <1>2, RestTyped DEF Packing, PackValue
  <2>2. Value \in Elements
    BY <2>1 DEF Values, Atoms, Elements
  <2>. QED
    BY <2>1, <2>2
<1>5. WriterAt(Advanced(f))' /\ (e = Nil /\ f # <<>> => Top(f) # 0)
  BY <1>1, <1>2, <1>3, <1>4, ValueWritten
<1>6. Parsed(f, e) = Advanced(f)
  BY <1>4, <1>5 DEF Parsed
<1>7. Readable(f, e)
  BY <1>4 DEF Readable
<1>8. WriterAt(Parsed(f, e))'
  BY <1>5, <1>6
<1>. QED
  BY <1>1, <1>2, <1>3, <1>4, <1>7, <1>8, WriterGoesOn DEF SeriTypeOK

\* What an element that is a reference makes of a place.
LEMMA ReferenceIs ==
  ASSUME NEW cookie, NEW n, NEW f
  PROVE  /\ Parsed(f, Ref(cookie, n)) = Advanced(f)
         /\ (f # <<>> => Top(f) # 0) /\ (cookie # EXTEND_NUMBER => cookie < Len(f)) =>
              Readable(f, Ref(cookie, n))
<1>1. PICK e : e = Ref(cookie, n)
  OBVIOUS
<1>2. e.type = "ref" /\ e.cookie = cookie
  BY <1>1 DEF Ref
<1>3. e # Nil
  BY <1>2 DEF Nil
<1>. QED
  BY <1>1, <1>2, <1>3 DEF Parsed, Readable

\* The ancestors are the tables that are open.
LEMMA PackAncestorFollows ==
  ASSUME SeriInv, PackAncestor, WriterFollows
  PROVE  WriterFollows'
<1>1. PICK S : Parse(S, out) /\ WriterAt(S[Len(out)])
  BY DEF WriterFollows
<1>2. PICK d \in AncestorDepths(Value.v) :
        /\ SeriTypeOK /\ Packing /\ todo' = Rest /\ path' = path
        /\ out' = Append(out, Ref(d, NoNumber)) /\ Value.type = "table"
  BY DEF SeriInv, PackAncestor, IsTable
<1>3. PICK f \in Seq(Nat) : f = S[Len(out)]
  BY <1>1, <1>2, StreamIs
<1>4. /\ d \in 0 .. Len(path) - 1 /\ Len(path) < MAX_DEPTH /\ Len(path) \in Nat
  <2>1. Len(path) \in Nat
    BY <1>2, LenProperties DEF SeriTypeOK
  <2>. QED
    BY <1>2, <2>1, LimitsAssumption DEF AncestorDepths
<1>5. d \in 0 .. MAX_COOKIE - 1 /\ d < Len(f)
  BY <1>1, <1>3, <1>4, LimitsAssumption DEF EXTEND_NUMBER, WriterAt
<1>6. PICK e \in Elements : e = Ref(d, NoNumber)
  <2>1. Ref(d, NoNumber) \in Elements
    BY <1>5 DEF Ref, Elements, Tags, Numbers, NoNumber
  <2>. QED
    BY <2>1
<1>7. WriterAt(Advanced(f))' /\ (f # <<>> => Top(f) # 0)
  BY <1>1, <1>2, <1>3, ValueWritten
<1>8. Parsed(f, e) = Advanced(f) /\ Readable(f, e)
  BY <1>5, <1>6, <1>7, ReferenceIs
<1>9. WriterAt(Parsed(f, e))'
  BY <1>7, <1>8
<1>. QED
  BY <1>1, <1>2, <1>3, <1>6, <1>8, <1>9, WriterGoesOn DEF SeriTypeOK

\* Changing a table's tag to a marked one leaves what the stream means.
LEMMA ChangedMark ==
  ASSUME SeriInv, NEW id \in 1..objectid, NEW S, Parse(S, out)
  PROVE  /\ change_mark(id) \in Seq(Elements) /\ Len(change_mark(id)) = Len(out)
         /\ Parse(S, change_mark(id))
<1>1. out \in Seq(Elements) /\ Len(out) \in Nat /\ objectid \in Nat
  BY LenProperties DEF SeriInv, SeriTypeOK
<1>2. PICK a : a = Address(id)
  OBVIOUS
<1>3. a \in Nat /\ (a # NoAddress => a \in 1..Len(out) /\ out[a].type = "table")
  BY <1>1, <1>2 DEF SeriInv, AddressInv, AddressesAreTags, NoAddress
<1>4. CASE a = NoAddress
  BY <1>1, <1>2, <1>4 DEF change_mark
<1>5. CASE a # NoAddress
  <2>1. a \in 1..Len(out) /\ out[a].type = "table" /\ out[a] \in Elements
    BY <1>1, <1>3, <1>5, ElementOfSeq
  <2>2. PICK x : x = [out[a] EXCEPT !.type = "mark"]
    OBVIOUS
  <2>3. x \in Elements
    BY <2>1, <2>2 DEF Elements, Atoms, Tags
  <2>4. PICK c : c = change_mark(id)
    OBVIOUS
  <2>5. c = [out EXCEPT ![a] = x]
    BY <1>2, <1>5, <2>2, <2>4 DEF change_mark
  <2>6. /\ c \in Seq(Elements) /\ Len(c) = Len(out)
        /\ \A p \in 1..Len(out) : c[p] = IF p = a THEN x ELSE out[p]
    BY <1>1, <2>1, <2>3, <2>5, ExceptSeq
  <2>7. \A p \in 1..Len(out) :
          \/ c[p] = out[p]
          \/ out[p].type = "table" /\ c[p] = [out[p] EXCEPT !.type = "mark"]
    BY <2>1, <2>2, <2>6
  <2>8. Parse(S, c)
    BY <1>1, <2>6, <2>7, ParseMarked
  <2>. QED
    BY <2>4, <2>6, <2>8
<1>. QED
  BY <1>4, <1>5

\* A table written before.
LEMMA PackObjectFollows ==
  ASSUME SeriInv, PackObject, WriterFollows
  PROVE  WriterFollows'
<1>1. PICK S : Parse(S, out) /\ WriterAt(S[Len(out)])
  BY DEF WriterFollows
<1>2. PICK id \in NumbersOf(Value.v) :
        /\ SeriTypeOK /\ Packing /\ todo' = Rest /\ path' = path /\ Value.type = "table"
        /\ out' = Append(change_mark(id), Ref(EXTEND_NUMBER, wb_integer(id)))
  BY DEF SeriInv, PackObject, IsTable
<1>3. PICK f \in Seq(Nat) : f = S[Len(out)]
  BY <1>1, <1>2, StreamIs
<1>4. Value.v \in Tables
  <2>1. Value \in Values /\ Value.type = "table"
    BY <1>2, RestTyped DEF Packing
  <2>. QED
    BY <2>1 DEF Values, Atoms
<1>5. id \in 1..objectid /\ id \in Nat \ {0}
  BY <1>2, <1>4 DEF SeriInv, NumbersInv, SeriTypeOK
<1>6. PICK c \in Seq(Elements) : c = change_mark(id) /\ Len(c) = Len(out) /\ Parse(S, c)
  BY <1>1, <1>5, ChangedMark
<1>7. PICK e \in Elements : e = Ref(EXTEND_NUMBER, wb_integer(id))
  <2>1. wb_integer(id) \in Numbers
    BY <1>5, NumberFollows
  <2>2. EXTEND_NUMBER \in 0 .. MAX_COOKIE - 1
    BY LimitsAssumption DEF EXTEND_NUMBER
  <2>3. Ref(EXTEND_NUMBER, wb_integer(id)) \in Elements
    BY <2>1, <2>2 DEF Ref, Tags, Elements
  <2>. QED
    BY <2>3
<1>8. WriterAt(Advanced(f))' /\ (f # <<>> => Top(f) # 0)
  BY <1>1, <1>2, <1>3, ValueWritten
<1>9. Parsed(f, e) = Advanced(f) /\ Readable(f, e)
  BY <1>7, <1>8, ReferenceIs
<1>10. WriterAt(Parsed(f, e))'
  BY <1>8, <1>9
<1>11. f = S[Len(c)] /\ out' = Append(c, e)
  BY <1>2, <1>3, <1>6, <1>7
<1>. QED
  BY <1>6, <1>7, <1>9, <1>10, <1>11, WriterGoesOn

\* A new table: its tag says what its items are.
LEMMA PackTableFollows ==
  ASSUME SeriInv, PackTable, WriterFollows, ~TableKeys
  PROVE  WriterFollows'
<1>1. PICK S : Parse(S, out) /\ WriterAt(S[Len(out)])
  BY DEF WriterFollows
<1>2. SeriTypeOK /\ Packing /\ Value.type = "table"
  BY DEF SeriInv, PackTable, IsTable
<1>3. PICK f \in Seq(Nat) : f = S[Len(out)]
  BY <1>1, <1>2, StreamIs
<1>4. PICK t \in Tables : t = Value.v
  <2>1. Value \in Values
    BY <1>2, RestTyped DEF Packing
  <2>. QED
    BY <1>2, <2>1 DEF Values, Atoms
<1>5. PICK size \in Nat : size = ArraySize(t) /\ Matches(size, Items(t)) /\ Items(t) \in Seq(Values)
  <2>1. heap \in Heaps
    BY <1>2 DEF SeriTypeOK
  <2>. QED
    BY <2>1, ContentsTyped, ItemsMatch, ItemsTyped
<1>6. PICK e \in Tags : e = TableTag(size) /\ e.type = "table" /\ SizeOf(e) = size
  BY TagTyped, SizeReadBack
<1>7. /\ out' = Append(out, e) /\ todo' = Append(Rest, Items(t)) /\ path' = Append(path, t)
  BY <1>4, <1>5, <1>6 DEF PackTable
<1>8. PICK n \in Nat : n = Len(path)
  BY <1>2, LenProperties DEF SeriTypeOK
<1>9. /\ \A k \in 1..n : todo[k + 1] \in Seq(Values)
      /\ todo[n + 1] \in Seq(Values) /\ todo[n + 1] # <<>> /\ Value = Head(todo[n + 1])
      /\ Rest \in Seq(Seq(Values)) /\ Len(Rest) = n + 1
      /\ \A k \in 1..n : k # n => Rest[k + 1] = todo[k + 1]
      /\ n # 0 => Rest[n + 1] = Tail(todo[n + 1])
  <2>1. /\ \A k \in 0..n : todo[k + 1] \in Seq(Values)
        /\ todo[n + 1] \in Seq(Values) /\ todo[n + 1] # <<>> /\ Value = Head(todo[n + 1])
        /\ Rest \in Seq(Seq(Values)) /\ Len(Rest) = n + 1
        /\ \A k \in 0..n : k # n => Rest[k + 1] = todo[k + 1]
        /\ Rest[n + 1] = Tail(todo[n + 1])
    BY <1>2, <1>8, RestIs
  <2>. QED
    BY <2>1
<1>10. /\ Len(f) = n /\ \A k \in 1..n : f[k] \in Nat
       /\ \A k \in 1..n : IF k = n THEN Matches(f[k], todo[k + 1])
                          ELSE f[k] # 0 /\ Matches(Advance(f[k]), todo[k + 1])
  BY <1>1, <1>3, <1>8, ElementOfSeq DEF WriterAt
<1>11. ASSUME n # 0
       PROVE  Matches(Advance(f[n]), Tail(todo[n + 1])) /\ f[n] # 0
  <2>1. n \in 1..n
    BY <1>11
  <2>2. f[n] \in Nat /\ Matches(f[n], todo[n + 1])
    BY <1>10, <2>1
  <2>. QED
    BY <1>2, <1>9, <2>2, ItemTaken
<1>12. PICK g : g = Append(f, size)
  OBVIOUS
<1>13. Len(g) = n + 1 /\ g[n + 1] = size /\ \A k \in 1..n : g[k] = f[k]
  BY <1>10, <1>12, AppendProperties
<1>14. todo'[n + 2] = Items(t) /\ \A k \in 1..n : todo'[k + 1] = Rest[k + 1]
  <2>1. /\ \A k \in 1 .. n + 1 : Append(Rest, Items(t))[k] = Rest[k]
        /\ Append(Rest, Items(t))[n + 1 + 1] = Items(t)
    BY <1>5, <1>9, AppendProperties
  <2>2. n + 1 + 1 = n + 2 /\ \A k \in 1..n : k + 1 \in 1 .. n + 1
    OBVIOUS
  <2>. QED
    BY <1>7, <2>1, <2>2
<1>15. Len(path') = n + 1
  BY <1>2, <1>4, <1>7, <1>8, AppendProperties DEF SeriTypeOK
<1>16. ASSUME NEW k \in 1 .. n + 1
       PROVE  IF k = n + 1 THEN Matches(g[k], todo'[k + 1])
              ELSE g[k] # 0 /\ Matches(Advance(g[k]), todo'[k + 1])
  <2>1. CASE k = n + 1
    <3>1. k + 1 = n + 2
      BY <2>1
    <3>. QED
      BY <1>5, <1>13, <1>14, <2>1, <3>1
  <2>2. CASE k # n + 1
    <3>1. k \in 1..n
      BY <2>2
    <3>2. CASE k = n
      BY <1>9, <1>11, <1>13, <1>14, <2>2, <3>1, <3>2
    <3>3. CASE k # n
      BY <1>9, <1>10, <1>13, <1>14, <2>2, <3>1, <3>3
    <3>. QED
      BY <3>2, <3>3
  <2>. QED
    BY <2>1, <2>2
<1>17. WriterAt(g)'
  BY <1>13, <1>15, <1>16 DEF WriterAt
<1>18. Parsed(f, e) = g
  BY <1>6, <1>12 DEF Parsed
<1>19. Readable(f, e)
  <2>1. f # <<>> => n # 0
    BY <1>10, EmptySeq
  <2>. QED
    BY <1>6, <1>10, <1>11, <2>1 DEF Readable, Top
<1>20. WriterAt(Parsed(f, e))' /\ e \in Elements /\ out \in Seq(Elements)
  BY <1>2, <1>17, <1>18 DEF Elements, SeriTypeOK
<1>. QED
  BY <1>1, <1>3, <1>7, <1>19, <1>20, WriterGoesOn

\* The nil behind the last item is where a key could be, and ends the table.
LEMMA PackEndFollows ==
  ASSUME SeriInv, PackEnd, WriterFollows
  PROVE  WriterFollows'
<1>1. PICK S : Parse(S, out) /\ WriterAt(S[Len(out)])
  BY DEF WriterFollows
<1>2. /\ SeriTypeOK /\ path # <<>> /\ Top(todo) = <<>> /\ out' = Append(out, Nil)
      /\ todo' = Pop(todo, 1) /\ path' = Pop(path, 1)
  BY DEF SeriInv, PackEnd
<1>3. PICK f \in Seq(Nat) : f = S[Len(out)]
  BY <1>1, <1>2, StreamIs
<1>4. PICK n \in Nat \ {0} : n = Len(path)
  BY <1>2, EmptySeq DEF SeriTypeOK
<1>5. todo \in Seq(Seq(Values)) /\ Len(todo) = n + 1 /\ todo # <<>> /\ todo[n + 1] = <<>>
  <2>1. todo \in Seq(Seq(Values)) /\ Len(todo) = n + 1
    BY <1>2, <1>4 DEF SeriTypeOK
  <2>2. Len(todo) # 0
    BY <2>1
  <2>. QED
    BY <1>2, <2>1, <2>2, EmptySeq DEF Top
<1>6. /\ Len(f) = n /\ \A k \in 1..n : f[k] \in Nat
      /\ \A k \in 1..n : IF k = n THEN Matches(f[k], todo[k + 1])
                         ELSE f[k] # 0 /\ Matches(Advance(f[k]), todo[k + 1])
  BY <1>1, <1>3, <1>4, ElementOfSeq DEF WriterAt
<1>7. f # <<>> /\ f[n] = 0 /\ Top(f) = 0
  <2>1. n \in 1..n /\ n # 0
    OBVIOUS
  <2>2. f[n] = 0
    BY <1>5, <1>6, <2>1, NothingLeft
  <2>. QED
    BY <1>6, <2>1, <2>2, EmptySeq DEF Top
<1>8. PICK m \in Nat : m = n - 1
  OBVIOUS
<1>9. PICK h \in Seq(Nat) : h = Pop(f, 1) /\ Len(h) = m /\ \A k \in 1..m : h[k] = f[k]
  <2>1. /\ Pop(f, 1) \in Seq(Nat) /\ Len(Pop(f, 1)) = Len(f) - 1
        /\ \A k \in 1 .. Len(f) - 1 : Pop(f, 1)[k] = f[k]
    BY <1>7, PopElements
  <2>2. Len(f) - 1 = m
    BY <1>6, <1>8
  <2>. QED
    BY <2>1, <2>2
<1>10. PICK g \in Seq(Nat) :
         /\ g = Advanced(h) /\ Len(g) = m
         /\ \A k \in 1..m : g[k] = IF k = m THEN Advance(h[k]) ELSE h[k]
  <2>1. /\ Advanced(h) \in Seq(Nat) /\ Len(Advanced(h)) = Len(h)
        /\ \A k \in 1..Len(h) :
             Advanced(h)[k] = IF k = Len(h) THEN Advance(h[k]) ELSE h[k]
    BY AdvancedIs
  <2>. QED
    BY <1>9, <2>1
<1>11. \A k \in 1..m : todo'[k + 1] = todo[k + 1]
  <2>1. \A k \in 1 .. n + 1 - 1 : Pop(todo, 1)[k] = todo[k]
    <3>1. \A k \in 1 .. Len(todo) - 1 : Pop(todo, 1)[k] = todo[k]
      BY <1>5, PopElements
    <3>. QED
      BY <1>5, <3>1
  <2>2. \A k \in 1..m : k + 1 \in 1 .. n + 1 - 1
    BY <1>8
  <2>. QED
    BY <1>2, <2>1, <2>2
<1>12. Len(path') = m
  BY <1>2, <1>4, <1>8, PopElements DEF SeriTypeOK
<1>13. ASSUME NEW k \in 1..m
       PROVE  IF k = m THEN Matches(g[k], todo'[k + 1])
              ELSE g[k] # 0 /\ Matches(Advance(g[k]), todo'[k + 1])
  <2>1. k \in 1..n /\ k # n
    BY <1>8
  <2>2. f[k] # 0 /\ Matches(Advance(f[k]), todo'[k + 1])
    BY <1>6, <1>11, <2>1
  <2>. QED
    BY <1>9, <1>10, <2>2
<1>14. WriterAt(g)'
  BY <1>10, <1>12, <1>13 DEF WriterAt
<1>15. Parsed(f, Nil) = g /\ Readable(f, Nil)
  BY <1>7, <1>9, <1>10 DEF Parsed, Readable, Nil
<1>16. WriterAt(Parsed(f, Nil))' /\ Nil \in Elements /\ out \in Seq(Elements)
  BY <1>2, <1>14, <1>15 DEF Elements, SeriTypeOK, Nil, Atoms
<1>. QED
  BY <1>1, <1>2, <1>3, <1>15, <1>16, WriterGoesOn

------------------------------------------------------------------------------
(* The reader.                                                              *)

\* A call of unpack_table, and the number of values before its next key.
Frame == [base : Nat, size : Nat, i : Nat, stage : {"array", "key", "value"}]
Off(g) == IF g.stage = "array" THEN g.size - g.i + 1 ELSE IF g.stage = "key" THEN 0 ELSE 1
Offs(fs) == [k \in 1..Len(fs) |-> Off(fs[k])]

\* Each table is one deeper than the one before, and is no key of it.
FramesOK(fs) ==
  /\ fs \in Seq(Frame)
  /\ \A k \in 1..Len(fs) :
       /\ fs[k].base = k - 1
       /\ fs[k].stage = "array" => fs[k].i \in 1..fs[k].size
       /\ k # Len(fs) => Off(fs[k]) # 0

\* What the calls in progress say of the place in the stream; unless ready, x is a
\* value that was read but not stored.
Meant(fs, rdy, x) ==
  IF ~rdy THEN Offs(fs)
  ELSE IF Top(fs).stage = "key" /\ x = Nil THEN Advanced(Pop(Offs(fs), 1))
  ELSE Advanced(Offs(fs))

\* The reader knows what its place in the stream means.
ReaderAt(S) ==
  /\ pos \in 1 .. Len(out) + 1
  /\ FramesOK(frames)
  /\ \E T : lstack \in Seq(T)
  /\ ready \in BOOLEAN
  /\ ready => frames # <<>>
  /\ S[pos - 1] = Meant(frames, ready, Top(lstack))
ReaderFollows == \E S : Parse(S, out) /\ S[Len(out)] = <<>> /\ ReaderAt(S)

\* A frame's number is a natural number, 0 where a key comes next.
LEMMA OffIs ==
  ASSUME NEW g \in Frame, g.stage = "array" => g.i \in 1..g.size
  PROVE  Off(g) \in Nat /\ (Off(g) = 0 <=> g.stage = "key")
<1>1. g.size \in Nat /\ g.i \in Nat /\ g.stage \in {"array", "key", "value"}
  BY DEF Frame
<1>2. g.stage = "array" => g.size - g.i + 1 \in Nat \ {0}
  BY <1>1
<1>. QED
  BY <1>1, <1>2 DEF Off

\* The numbers of frames, and that of the top one.
LEMMA OffsIs ==
  ASSUME NEW fs, FramesOK(fs)
  PROVE  /\ Len(fs) \in Nat /\ Offs(fs) \in Seq(Nat) /\ Len(Offs(fs)) = Len(fs)
         /\ \A k \in 1..Len(fs) : Offs(fs)[k] = Off(fs[k]) /\ Off(fs[k]) \in Nat
         /\ IF fs = <<>> THEN Offs(fs) = <<>>
            ELSE /\ Len(fs) \in Nat \ {0} /\ Offs(fs) # <<>> /\ Top(fs) \in Frame
                 /\ Top(fs).stage = "array" => Top(fs).i \in 1..Top(fs).size
                 /\ Top(fs).base = Len(fs) - 1
                 /\ Top(Offs(fs)) = Off(Top(fs))
                 /\ Off(Top(fs)) = 0 <=> Top(fs).stage = "key"
<1>1. fs \in Seq(Frame)
  BY DEF FramesOK
<1>2. PICK n \in Nat : n = Len(fs)
  BY <1>1, LenProperties
<1>3. /\ \A k \in 1..n : fs[k] \in Frame
      /\ \A k \in 1..n : fs[k].stage = "array" => fs[k].i \in 1..fs[k].size
      /\ \A k \in 1..n : fs[k].base = k - 1
  BY <1>1, <1>2, ElementOfSeq DEF FramesOK
<1>4. \A k \in 1..n : Off(fs[k]) \in Nat /\ (Off(fs[k]) = 0 <=> fs[k].stage = "key")
  BY <1>3, OffIs
<1>5. PICK o : o = Offs(fs)
  OBVIOUS
<1>6. o = [k \in 1..n |-> Off(fs[k])]
  BY <1>2, <1>5 DEF Offs
<1>7. o \in [1..n -> Nat] /\ \A k \in 1..n : o[k] = Off(fs[k])
  BY <1>4, <1>6
<1>8. o \in Seq(Nat) /\ Len(o) = n
  <2>1. o \in Seq(Nat)
    BY <1>7, FunctionIsSequence
  <2>. QED
    BY <1>7, <2>1
<1>9. ASSUME fs = <<>>
      PROVE  o = <<>>
  <2>1. n = 0
    BY <1>2, <1>9, EmptySeq
  <2>. QED
    BY <1>8, <2>1, EmptySeq
<1>10. ASSUME fs # <<>>
       PROVE  /\ n \in Nat \ {0} /\ o # <<>> /\ n \in 1..n
              /\ Top(fs) = fs[n] /\ Top(o) = o[n]
  <2>1. n # 0
    BY <1>1, <1>2, <1>10, EmptySeq
  <2>2. o # <<>>
    BY <1>8, <2>1, EmptySeq
  <2>. QED
    BY <1>2, <1>8, <2>1, <2>2 DEF Top
<1>11. CASE fs = <<>>
  BY <1>2, <1>4, <1>5, <1>7, <1>8, <1>9, <1>11
<1>12. CASE fs # <<>>
  BY <1>2, <1>3, <1>4, <1>5, <1>7, <1>8, <1>10, <1>12
<1>. QED
  BY <1>11, <1>12

\* A table begins.
LEMMA FramePushed ==
  ASSUME NEW fs, FramesOK(fs), fs # <<>> => Off(Top(fs)) # 0, NEW size \in Nat,
         NEW g, g = [base |-> Len(fs), size |-> size, i |-> 1,
                     stage |-> IF size > 0 THEN "array" ELSE "key"]
  PROVE  FramesOK(Append(fs, g)) /\ Offs(Append(fs, g)) = Append(Offs(fs), size)
<1>1. PICK n \in Nat : n = Len(fs) /\ fs \in Seq(Frame)
  BY OffsIs DEF FramesOK
<1>2. /\ g \in Frame /\ g.base = n /\ Off(g) = size
      /\ g.stage = "array" => g.i \in 1..g.size
  <2>1. /\ g.base = n /\ g.size = size /\ g.i = 1
        /\ g.stage = IF size > 0 THEN "array" ELSE "key"
    BY <1>1
  <2>2. g \in Frame
    BY <1>1 DEF Frame
  <2>. QED
    BY <2>1, <2>2 DEF Off
<1>3. PICK gs : gs = Append(fs, g)
  OBVIOUS
<1>4. /\ gs \in Seq(Frame) /\ Len(gs) = n + 1 /\ gs[n + 1] = g
      /\ \A k \in 1..n : gs[k] = fs[k]
  BY <1>1, <1>2, <1>3, AppendProperties
<1>5. ASSUME NEW k \in 1 .. n + 1
      PROVE  /\ gs[k].base = k - 1
             /\ gs[k].stage = "array" => gs[k].i \in 1..gs[k].size
             /\ k # n + 1 => Off(gs[k]) # 0
  <2>1. CASE k = n + 1
    BY <1>2, <1>4, <2>1
  <2>2. CASE k # n + 1
    <3>1. k \in 1..n /\ gs[k] = fs[k]
      BY <1>4, <2>2
    <3>2. fs[k].base = k - 1 /\ (fs[k].stage = "array" => fs[k].i \in 1..fs[k].size)
      BY <1>1, <3>1 DEF FramesOK
    <3>3. Off(fs[k]) # 0
      <4>1. CASE k = n
        <5>1. fs # <<>>
          BY <1>1, <3>1, EmptySeq
        <5>. QED
          BY <1>1, <4>1, <5>1 DEF Top
      <4>2. CASE k # n
        BY <1>1, <3>1, <4>2 DEF FramesOK
      <4>. QED
        BY <4>1, <4>2
    <3>. QED
      BY <3>1, <3>2, <3>3
  <2>. QED
    BY <2>1, <2>2
<1>6. FramesOK(gs)
  BY <1>4, <1>5 DEF FramesOK
<1>7. PICK o \in Seq(Nat) : o = Offs(fs) /\ Len(o) = n /\ \A k \in 1..n : o[k] = Off(fs[k])
  <2>1. /\ Offs(fs) \in Seq(Nat) /\ Len(Offs(fs)) = Len(fs)
        /\ \A k \in 1..Len(fs) : Offs(fs)[k] = Off(fs[k])
    BY <1>1, OffsIs
  <2>. QED
    BY <1>1, <2>1
<1>8. PICK q \in Seq(Nat) : q = Offs(gs) /\ Len(q) = n + 1 /\ \A k \in 1 .. n + 1 : q[k] = Off(gs[k])
  <2>1. /\ Offs(gs) \in Seq(Nat) /\ Len(Offs(gs)) = Len(gs)
        /\ \A k \in 1..Len(gs) : Offs(gs)[k] = Off(gs[k])
    BY <1>6, OffsIs
  <2>. QED
    BY <1>4, <2>1
<1>9. PICK b : b = Append(o, size)
  OBVIOUS
<1>10. b \in Seq(Nat) /\ Len(b) = n + 1 /\ b[n + 1] = size /\ \A k \in 1..n : b[k] = o[k]
  BY <1>7, <1>9, AppendProperties
<1>11. ASSUME NEW k \in 1 .. n + 1
       PROVE  q[k] = b[k]
  <2>1. k = n + 1 \/ k \in 1..n
    OBVIOUS
  <2>. QED
    BY <1>2, <1>4, <1>7, <1>8, <1>10, <2>1
<1>12. q = b
  BY <1>8, <1>10, <1>11, SeqEqual
<1>. QED
  BY <1>3, <1>6, <1>7, <1>8, <1>9, <1>12

\* One less is nothing for one.
LEMMA OneLess ==
  ASSUME NEW n \in Nat, NEW l \in Nat, n = l - 1
  PROVE  n = 0 <=> ~(l > 1)
OBVIOUS

\* A table ends; the one that is then on top expects no key.
LEMMA FramePopped ==
  ASSUME NEW fs, FramesOK(fs), fs # <<>>
  PROVE  /\ FramesOK(Pop(fs, 1)) /\ Offs(Pop(fs, 1)) = Pop(Offs(fs), 1)
         /\ Pop(fs, 1) # <<>> => Top(Pop(fs, 1)).stage # "key"
         /\ Pop(fs, 1) = <<>> <=> ~(Len(fs) > 1)
<1>1. PICK n \in Nat : n = Len(fs) - 1 /\ fs \in Seq(Frame) /\ Len(fs) \in Nat
  BY EmptySeq DEF FramesOK
<1>2. PICK gs \in Seq(Frame) : gs = Pop(fs, 1) /\ Len(gs) = n /\ \A k \in 1..n : gs[k] = fs[k]
  BY <1>1, PopElements
<1>3. \A k \in 1..n :
        /\ gs[k].base = k - 1
        /\ gs[k].stage = "array" => gs[k].i \in 1..gs[k].size
        /\ Off(gs[k]) # 0
  <2>1. \A k \in 1..n : k \in 1..Len(fs) /\ k # Len(fs)
    BY <1>1
  <2>. QED
    BY <1>2, <2>1 DEF FramesOK
<1>4. FramesOK(gs)
  BY <1>2, <1>3 DEF FramesOK
<1>5. PICK o \in Seq(Nat) : o = Offs(fs) /\ Len(o) = n + 1 /\ \A k \in 1 .. n + 1 : o[k] = Off(fs[k])
  <2>1. /\ Offs(fs) \in Seq(Nat) /\ Len(Offs(fs)) = Len(fs)
        /\ \A k \in 1..Len(fs) : Offs(fs)[k] = Off(fs[k])
    BY OffsIs
  <2>2. Len(fs) = n + 1
    BY <1>1
  <2>. QED
    BY <2>1, <2>2
<1>6. PICK q \in Seq(Nat) : q = Offs(gs) /\ Len(q) = n /\ \A k \in 1..n : q[k] = Off(gs[k])
  <2>1. /\ Offs(gs) \in Seq(Nat) /\ Len(Offs(gs)) = Len(gs)
        /\ \A k \in 1..Len(gs) : Offs(gs)[k] = Off(gs[k])
    BY <1>2, <1>4, OffsIs
  <2>. QED
    BY <1>2, <1>4, <2>1
<1>7. PICK b \in Seq(Nat) : b = Pop(o, 1) /\ Len(b) = n /\ \A k \in 1..n : b[k] = o[k]
  <2>1. o # <<>>
    <3>1. Len(o) # 0
      BY <1>5
    <3>. QED
      BY <3>1, EmptySeq
  <2>2. /\ Pop(o, 1) \in Seq(Nat) /\ Len(Pop(o, 1)) = Len(o) - 1
        /\ \A k \in 1 .. Len(o) - 1 : Pop(o, 1)[k] = o[k]
    BY <2>1, PopElements
  <2>3. Len(o) - 1 = n
    BY <1>5
  <2>. QED
    BY <2>2, <2>3
<1>8. \A k \in 1..n : q[k] = b[k]
  <2>1. \A k \in 1..n : k \in 1 .. n + 1
    OBVIOUS
  <2>. QED
    BY <1>2, <1>5, <1>6, <1>7, <2>1
<1>9. q = b
  BY <1>6, <1>7, <1>8, SeqEqual
<1>10. gs = <<>> <=> ~(Len(fs) > 1)
  <2>1. gs = <<>> <=> n = 0
    BY <1>2, EmptySeq
  <2>2. PICK l \in Nat : l = Len(fs) /\ n = l - 1
    BY <1>1
  <2>3. n = 0 <=> ~(l > 1)
    BY <2>2, OneLess
  <2>. QED
    BY <2>1, <2>2, <2>3
<1>11. ASSUME gs # <<>>
       PROVE  Top(gs).stage # "key"
  <2>1. n # 0 /\ n \in 1..n
    BY <1>2, <1>11, EmptySeq
  <2>2. Off(gs[n]) # 0
    BY <1>3, <2>1
  <2>. QED
    BY <1>2, <2>1, <2>2 DEF Top, Off
<1>. QED
  BY <1>2, <1>4, <1>5, <1>6, <1>7, <1>9, <1>10, <1>11

\* The call on top takes its next value.
LEMMA FrameChanged ==
  ASSUME NEW fs, FramesOK(fs), fs # <<>>, NEW g \in Frame, g.base = Top(fs).base,
         g.stage = "array" => g.i \in 1..g.size, Off(g) = Advance(Off(Top(fs))),
         NEW gs, gs = [fs EXCEPT ![Len(fs)] = g]
  PROVE  FramesOK(gs) /\ gs # <<>> /\ Offs(gs) = Advanced(Offs(fs))
<1>1. PICK n \in Nat \ {0} : n = Len(fs) /\ fs \in Seq(Frame) /\ n \in 1..n
  BY EmptySeq DEF FramesOK
<1>2. /\ gs \in Seq(Frame) /\ Len(gs) = n
      /\ \A k \in 1..n : gs[k] = IF k = n THEN g ELSE fs[k]
  BY <1>1, ExceptSeq
<1>3. ASSUME NEW k \in 1..n
      PROVE  /\ gs[k].base = k - 1
             /\ gs[k].stage = "array" => gs[k].i \in 1..gs[k].size
             /\ k # n => Off(gs[k]) # 0
  BY <1>1, <1>2 DEF FramesOK, Top
<1>4. FramesOK(gs)
  BY <1>2, <1>3 DEF FramesOK
<1>5. PICK o \in Seq(Nat) : o = Offs(fs) /\ Len(o) = n /\ \A k \in 1..n : o[k] = Off(fs[k])
  <2>1. /\ Offs(fs) \in Seq(Nat) /\ Len(Offs(fs)) = Len(fs)
        /\ \A k \in 1..Len(fs) : Offs(fs)[k] = Off(fs[k])
    BY <1>1, OffsIs
  <2>. QED
    BY <1>1, <2>1
<1>6. PICK q \in Seq(Nat) : q = Offs(gs) /\ Len(q) = n /\ \A k \in 1..n : q[k] = Off(gs[k])
  <2>1. /\ Offs(gs) \in Seq(Nat) /\ Len(Offs(gs)) = Len(gs)
        /\ \A k \in 1..Len(gs) : Offs(gs)[k] = Off(gs[k])
    BY <1>4, OffsIs
  <2>. QED
    BY <1>2, <2>1
<1>7. PICK b \in Seq(Nat) :
        /\ b = Advanced(o) /\ Len(b) = n
        /\ \A k \in 1..n : b[k] = IF k = n THEN Advance(o[k]) ELSE o[k]
  <2>1. /\ Advanced(o) \in Seq(Nat) /\ Len(Advanced(o)) = Len(o)
        /\ \A k \in 1..Len(o) :
             Advanced(o)[k] = IF k = Len(o) THEN Advance(o[k]) ELSE o[k]
    BY AdvancedIs
  <2>. QED
    BY <1>5, <2>1
<1>8. Off(g) = Advance(o[n])
  BY <1>1, <1>5 DEF Top
<1>9. ASSUME NEW k \in 1..n
      PROVE  q[k] = b[k]
  <2>1. q[k] = Off(gs[k]) /\ o[k] = Off(fs[k])
    BY <1>5, <1>6
  <2>2. /\ gs[k] = IF k = n THEN g ELSE fs[k]
        /\ b[k] = IF k = n THEN Advance(o[k]) ELSE o[k]
    BY <1>2, <1>7
  <2>3. CASE k = n
    BY <1>8, <2>1, <2>2, <2>3
  <2>4. CASE k # n
    BY <2>1, <2>2, <2>4
  <2>. QED
    BY <2>3, <2>4
<1>10. q = b
  BY <1>6, <1>7, <1>9, SeqEqual
<1>11. gs # <<>>
  BY <1>2, EmptySeq
<1>. QED
  BY <1>4, <1>5, <1>6, <1>7, <1>10, <1>11

\* An array element or a value is one deeper than its table.
LEMMA DepthIs ==
  ASSUME FramesOK(frames), frames # <<>> => Top(frames).stage # "key"
  PROVE  Depth = Len(frames)
<1>1. CASE frames = <<>>
  BY <1>1, EmptySeq DEF Depth
<1>2. CASE frames # <<>>
  <2>1. Top(frames).base = Len(frames) - 1 /\ Len(frames) \in Nat
    BY <1>2, OffsIs
  <2>. QED
    BY <1>2, <2>1 DEF Depth
<1>. QED
  BY <1>1, <1>2

\* The stack after an element was pushed, or n were popped.
LEMMA StackTyped ==
  ASSUME NEW T, NEW s \in Seq(T)
  PROVE  /\ \A x : Append(s, x) \in Seq(T \cup {x}) /\ Top(Append(s, x)) = x
         /\ \A n \in Nat : Pop(s, n) \in Seq(T)
<1>1. Len(s) \in Nat /\ \A k \in 1..Len(s) : s[k] \in T
  BY LenProperties, ElementOfSeq
<1>2. ASSUME NEW x
      PROVE  Append(s, x) \in Seq(T \cup {x}) /\ Top(Append(s, x)) = x
  <2>1. s \in Seq(T \cup {x})
    BY SeqMonotonic
  <2>2. /\ Append(s, x) \in Seq(T \cup {x}) /\ Len(Append(s, x)) = Len(s) + 1
        /\ Append(s, x)[Len(s) + 1] = x
    BY <2>1, AppendProperties
  <2>. QED
    BY <2>2 DEF Top
<1>3. ASSUME NEW n \in Nat
      PROVE  Pop(s, n) \in Seq(T)
  <2>1. PICK l : l = Len(s) - n /\ l \in Int /\ l <= Len(s)
    BY <1>1
  <2>2. \A k \in 1..l : s[k] \in T
    BY <1>1, <2>1
  <2>3. SubSeq(s, 1, l) \in Seq(T)
    BY <2>1, <2>2, SubSeqProperties
  <2>. QED
    BY <2>1, <2>3 DEF Pop
<1>. QED
  BY <1>2, <1>3

\* The element at the reader's place.
LEMMA TokenIs ==
  ASSUME SeriTypeOK, NEW S, Parse(S, out), ReaderAt(S), Reading
  PROVE  /\ pos \in Nat /\ pos + 1 \in 1 .. Len(out) + 1 /\ Token \in Elements
         /\ S[pos] = Parsed(Offs(frames), Token) /\ Readable(Offs(frames), Token)
<1>1. out \in Seq(Elements) /\ Len(out) \in Nat
  BY LenProperties DEF SeriTypeOK
<1>2. pos \in 1..Len(out) /\ pos + 1 \in 1 .. Len(out) + 1
  BY <1>1 DEF ReaderAt, Reading
<1>3. S[pos - 1] = Offs(frames)
  BY DEF ReaderAt, Reading, Meant
<1>. QED
  BY <1>1, <1>2, <1>3, ElementOfSeq DEF Parse, Token

\* The reader is where S says after a step.
LEMMA ReaderGoesOn ==
  ASSUME NEW S, Parse(S, out), S[Len(out)] = <<>>, out' = out, ReaderAt(S)'
  PROVE  ReaderFollows'
BY DEF ReaderFollows

\* An element other than a table is pushed.
LEMMA Pushed ==
  ASSUME SeriTypeOK, NEW S, Parse(S, out), ReaderAt(S), Reading, NEW x, Push(x),
         S[pos] = Meant(frames, frames # <<>>, x)
  PROVE  ReaderAt(S)'
<1>1. /\ pos' = pos + 1 /\ lstack' = Append(lstack, x) /\ frames' = frames /\ out' = out
      /\ ready' = (frames # <<>>)
  BY DEF Push
<1>2. pos \in Nat /\ pos + 1 \in 1 .. Len(out) + 1
  BY TokenIs
<1>3. PICK T : lstack \in Seq(T)
  BY DEF ReaderAt
<1>4. lstack' \in Seq(T \cup {x}) /\ Top(lstack') = x
  BY <1>1, <1>3, StackTyped
<1>5. pos' - 1 = pos
  BY <1>1, <1>2
<1>6. S[pos' - 1] = Meant(frames', ready', Top(lstack'))
  BY <1>1, <1>4, <1>5
<1>7. FramesOK(frames') /\ ready' \in BOOLEAN /\ (ready' => frames' # <<>>)
  BY <1>1 DEF ReaderAt
<1>8. \E U : lstack' \in Seq(U)
  BY <1>4
<1>. QED
  BY <1>1, <1>2, <1>6, <1>7, <1>8 DEF ReaderAt

\* A value was read, or a reference where no key comes next.
LEMMA MeantRead ==
  ASSUME NEW fs, FramesOK(fs), NEW e, e.type \notin {"table", "mark"}, NEW x,
         x = e \/ (e.type = "ref" /\ (fs # <<>> => Top(fs).stage # "key"))
  PROVE  Parsed(Offs(fs), e) = Meant(fs, fs # <<>>, x)
<1>1. CASE fs = <<>>
  <2>1. Offs(fs) = <<>>
    BY <1>1, OffsIs
  <2>. QED
    BY <1>1, <2>1 DEF Parsed, Meant, Advanced
<1>2. CASE fs # <<>>
  <2>1. Offs(fs) # <<>> /\ (Top(Offs(fs)) = 0 <=> Top(fs).stage = "key")
    BY <1>2, OffsIs
  <2>2. Parsed(Offs(fs), e) = IF e = Nil /\ Top(fs).stage = "key" THEN Advanced(Pop(Offs(fs), 1))
                              ELSE Advanced(Offs(fs))
    BY <2>1 DEF Parsed
  <2>3. Meant(fs, fs # <<>>, x) = IF Top(fs).stage = "key" /\ x = Nil
                                  THEN Advanced(Pop(Offs(fs), 1)) ELSE Advanced(Offs(fs))
    BY <1>2 DEF Meant
  <2>4. e = Nil => e.type # "ref"
    BY DEF Nil
  <2>. QED
    BY <1>2, <2>2, <2>3, <2>4
<1>. QED
  BY <1>1, <1>2

\* unpack_one reads a value.
LEMMA ReadValueFollows ==
  ASSUME SeriTypeOK, ReadValue, ReaderFollows
  PROVE  ReaderFollows'
<1>1. PICK S : Parse(S, out) /\ S[Len(out)] = <<>> /\ ReaderAt(S)
  BY DEF ReaderFollows
<1>2. Reading /\ Push(Token) /\ Token.type \in {"nil", "number", "string"}
  BY DEF ReadValue
<1>3. S[pos] = Parsed(Offs(frames), Token) /\ FramesOK(frames)
  BY <1>1, <1>2, TokenIs DEF ReaderAt
<1>4. S[pos] = Meant(frames, frames # <<>>, Token)
  BY <1>2, <1>3, MeantRead
<1>5. ReaderAt(S)'
  BY <1>1, <1>2, <1>4, Pushed
<1>. QED
  BY <1>1, <1>2, <1>5, ReaderGoesOn DEF Push

\* Where a tag is read, no key comes next.
LEMMA NoKeyNext ==
  ASSUME NEW fs, FramesOK(fs), NEW e, e.type \in {"table", "mark", "ref"}, Readable(Offs(fs), e)
  PROVE  fs # <<>> => Top(fs).stage # "key" /\ Off(Top(fs)) # 0
<1> SUFFICES ASSUME fs # <<>>
             PROVE  Top(fs).stage # "key" /\ Off(Top(fs)) # 0
  OBVIOUS
<1>1. Offs(fs) # <<>> /\ Top(Offs(fs)) = Off(Top(fs)) /\ (Off(Top(fs)) = 0 <=> Top(fs).stage = "key")
  BY OffsIs
<1>. QED
  BY <1>1 DEF Readable

\* unpack_one reads a reference to an ancestor: the table is open.
LEMMA ReadAncestorFollows ==
  ASSUME SeriInv, ReadAncestor, ReaderFollows
  PROVE  ReaderFollows' /\ phase' = "unpack"
<1>1. PICK S : Parse(S, out) /\ S[Len(out)] = <<>> /\ ReaderAt(S)
  BY DEF ReaderFollows
<1>2. Reading /\ Token.type = "ref" /\ Token.cookie # EXTEND_NUMBER /\ SeriTypeOK
  BY DEF SeriInv, ReadAncestor
<1>3. /\ S[pos] = Parsed(Offs(frames), Token) /\ FramesOK(frames) /\ Token \in Elements
      /\ Readable(Offs(frames), Token)
  BY <1>1, <1>2, TokenIs DEF ReaderAt
<1>4. frames # <<>> => Top(frames).stage # "key"
  BY <1>2, <1>3, NoKeyNext
<1>5. Depth = Len(frames) /\ Len(frames) = Len(Offs(frames)) /\ Len(frames) \in Nat
  BY <1>3, <1>4, DepthIs, OffsIs
<1>6. Token.cookie < Depth /\ Token.cookie \in Nat
  <2>1. Token.cookie < Len(Offs(frames))
    BY <1>2, <1>3 DEF Readable
  <2>2. Token \in Tags
    BY <1>2, <1>3, TagOrAtom
  <2>3. Token.cookie \in Nat
    BY <2>2 DEF Tags
  <2>. QED
    BY <1>5, <2>1, <2>3
<1>7. PICK x : x = lstack[ancestor[Token.cookie]]
  OBVIOUS
<1>8. Push(x)
  BY <1>5, <1>6, <1>7 DEF ReadAncestor
<1>9. S[pos] = Meant(frames, frames # <<>>, x)
  BY <1>2, <1>3, <1>4, MeantRead
<1>10. ReaderAt(S)'
  BY <1>1, <1>2, <1>8, <1>9, Pushed
<1>. QED
  BY <1>1, <1>2, <1>8, <1>10, ReaderGoesOn DEF Push, Reading

\* unpack_one reads a reference to a table's number: nil, or an error.
LEMMA ReadObjectFollows ==
  ASSUME SeriInv, ReadObject, ReaderFollows
  PROVE  IF phase' = "refused" THEN Token' = Ref(EXTEND_NUMBER, Token'.n) ELSE ReaderFollows'
<1>1. PICK S : Parse(S, out) /\ S[Len(out)] = <<>> /\ ReaderAt(S)
  BY DEF ReaderFollows
<1>2. /\ Reading /\ Token.type = "ref" /\ Token.cookie = EXTEND_NUMBER /\ SeriTypeOK
      /\ Refuse \/ Push(Nil)
  BY DEF SeriInv, ReadObject
<1>3. /\ S[pos] = Parsed(Offs(frames), Token) /\ FramesOK(frames) /\ Token \in Elements
      /\ Readable(Offs(frames), Token)
  BY <1>1, <1>2, TokenIs DEF ReaderAt
<1>4. CASE Refuse
  <2>1. PICK e \in Tags : e = Token
    BY <1>2, <1>3, TagOrAtom
  <2>2. e.type = "ref" /\ e.cookie = EXTEND_NUMBER
    BY <1>2, <2>1
  <2>3. e = [type |-> "ref", cookie |-> EXTEND_NUMBER, n |-> e.n]
    BY <2>2 DEF Tags
  <2>4. Token = Ref(EXTEND_NUMBER, Token.n)
    BY <2>1, <2>3 DEF Ref
  <2>5. Token' = Token /\ phase' = "refused"
    BY <1>4 DEF Refuse, reader, Token
  <2>6. PICK u : u = Token'
    OBVIOUS
  <2>. QED
    BY <2>4, <2>5, <2>6
<1>5. CASE Push(Nil)
  <2>1. frames # <<>> => Top(frames).stage # "key"
    BY <1>2, <1>3, NoKeyNext
  <2>2. S[pos] = Meant(frames, frames # <<>>, Nil)
    BY <1>2, <1>3, <2>1, MeantRead
  <2>3. ReaderAt(S)'
    BY <1>1, <1>2, <1>5, <2>2, Pushed
  <2>4. ReaderFollows'
    BY <1>1, <1>5, <2>3, ReaderGoesOn DEF Push
  <2>5. phase' = "unpack"
    BY <1>2, <1>5 DEF Push, Reading
  <2>. QED
    BY <2>4, <2>5
<1>. QED
  BY <1>2, <1>4, <1>5

\* unpack_table begins a table, one deeper than the one it is in.
LEMMA ReadTableFollows ==
  ASSUME SeriTypeOK, ReadTable, ReaderFollows
  PROVE  ReaderFollows'
<1>1. PICK S : Parse(S, out) /\ S[Len(out)] = <<>> /\ ReaderAt(S)
  BY DEF ReaderFollows
<1>2. Reading /\ Token.type \in {"table", "mark"}
  BY DEF ReadTable
<1>3. /\ pos \in Nat /\ pos + 1 \in 1 .. Len(out) + 1 /\ Token \in Elements
      /\ S[pos] = Parsed(Offs(frames), Token) /\ Readable(Offs(frames), Token)
      /\ FramesOK(frames)
  BY <1>1, <1>2, TokenIs DEF ReaderAt
<1>4. frames # <<>> => Top(frames).stage # "key" /\ Off(Top(frames)) # 0
  BY <1>2, <1>3, NoKeyNext
<1>5. Depth = Len(frames)
  BY <1>3, <1>4, DepthIs
<1>6. PICK size \in Nat : size = SizeOf(Token)
  <2>1. Token \in Tags
    BY <1>2, <1>3, TagOrAtom
  <2>. QED
    BY <2>1, SizeTyped
<1>7. PICK g : g = [base |-> Len(frames), size |-> size, i |-> 1,
                    stage |-> IF size > 0 THEN "array" ELSE "key"]
  OBVIOUS
<1>8. /\ pos' = pos + 1 /\ out' = out /\ ready' = ready
      /\ lstack' = Append(lstack, Copy(Len(copies) + 1))
      /\ frames' = Append(frames, g)
  BY <1>5, <1>6, <1>7 DEF ReadTable, SizeOf
<1>9. FramesOK(frames') /\ Offs(frames') = Append(Offs(frames), size)
  BY <1>3, <1>4, <1>7, <1>8, FramePushed
<1>10. ready' \in BOOLEAN /\ ~ready'
  BY <1>1, <1>2, <1>8 DEF ReaderAt, Reading
<1>11. S[pos' - 1] = Meant(frames', ready', Top(lstack'))
  <2>1. pos' - 1 = pos
    BY <1>3, <1>8
  <2>2. S[pos] = Offs(frames')
    BY <1>2, <1>3, <1>6, <1>9 DEF Parsed
  <2>. QED
    BY <1>10, <2>1, <2>2 DEF Meant
<1>12. \E U : lstack' \in Seq(U)
  <2>1. PICK T : lstack \in Seq(T)
    BY <1>1 DEF ReaderAt
  <2>. QED
    BY <1>8, <2>1, StackTyped
<1>13. ReaderAt(S)'
  BY <1>3, <1>8, <1>9, <1>10, <1>11, <1>12 DEF ReaderAt
<1>. QED
  BY <1>1, <1>8, <1>13, ReaderGoesOn

\* unpack_table has stored a value, or found a key, and reads the next value.
LEMMA Stored ==
  ASSUME NEW S, ReaderAt(S), ready, ~(Top(frames).stage = "key" /\ Top(lstack) = Nil),
         NEW g \in Frame, g.base = Top(frames).base, g.stage = "array" => g.i \in 1..g.size,
         Off(g) = Advance(Off(Top(frames))), frames' = [frames EXCEPT ![Len(frames)] = g],
         ready' = FALSE, UNCHANGED <<pos, out>>, \E T : lstack' \in Seq(T)
  PROVE  ReaderAt(S)'
<1>1. FramesOK(frames) /\ frames # <<>> /\ S[pos - 1] = Advanced(Offs(frames))
  BY DEF ReaderAt, Meant
<1>2. PICK gs : gs = frames'
  OBVIOUS
<1>3. FramesOK(gs) /\ gs # <<>> /\ Offs(gs) = Advanced(Offs(frames))
  BY <1>1, <1>2, FrameChanged
<1>5. S[pos' - 1] = Meant(gs, ready', Top(lstack'))
  BY <1>1, <1>3 DEF Meant
<1>6. pos' \in 1 .. Len(out') + 1 /\ ready' \in BOOLEAN /\ (ready' => gs # <<>>)
  BY DEF ReaderAt
<1>. QED
  BY <1>2, <1>3, <1>5, <1>6 DEF ReaderAt

\* The call on top and its number.
LEMMA TopFrame ==
  ASSUME NEW S, ReaderAt(S), ready
  PROVE  /\ Top(frames) \in Frame /\ frames # <<>> /\ FramesOK(frames)
         /\ Top(frames).stage = "array" => Top(frames).i \in 1..Top(frames).size
BY OffsIs DEF ReaderAt

\* The loop over the array part.
LEMMA StoreElementFollows ==
  ASSUME StoreElement, ReaderFollows
  PROVE  ReaderFollows'
<1>1. PICK S : Parse(S, out) /\ S[Len(out)] = <<>> /\ ReaderAt(S)
  BY DEF ReaderFollows
<1>2. PICK f \in Frame : f = Top(frames) /\ f.stage = "array" /\ f.i \in 1..f.size
  BY <1>1, TopFrame DEF StoreElement, Storing
<1>3. PICK g : g = [f EXCEPT !.i = f.i + 1, !.stage = IF f.i = f.size THEN "key" ELSE "array"]
  OBVIOUS
<1>4. f.size \in Nat /\ f.i \in Nat \ {0}
  BY <1>2 DEF Frame
<1>5. /\ g \in Frame /\ g.base = f.base /\ g.size = f.size /\ g.i = f.i + 1
      /\ g.stage = IF f.i = f.size THEN "key" ELSE "array"
  <2>1. PICK j \in Nat : j = f.i + 1
    BY <1>4
  <2>2. PICK st \in {"array", "key", "value"} : st = IF f.i = f.size THEN "key" ELSE "array"
    OBVIOUS
  <2>3. g = [f EXCEPT !.i = j, !.stage = st]
    BY <1>3, <2>1, <2>2
  <2>4. g \in Frame /\ g.base = f.base /\ g.size = f.size /\ g.i = j /\ g.stage = st
    BY <2>3 DEF Frame
  <2>. QED
    BY <2>1, <2>2, <2>4
<1>6. g.stage = "array" => g.i \in 1..g.size
  BY <1>2, <1>4, <1>5
<1>7. Off(g) = Advance(Off(f))
  <2>1. Off(f) = f.size - f.i + 1 /\ Off(f) # 0 /\ Advance(Off(f)) = f.size - f.i
    <3>1. Off(f) = f.size - f.i + 1
      BY <1>2 DEF Off
    <3>2. f.size - f.i + 1 # 0 /\ f.size - f.i + 1 - 1 = f.size - f.i
      BY <1>2, <1>4
    <3>3. PICK o : o = f.size - f.i + 1
      OBVIOUS
    <3>4. Advance(o) = o - 1
      BY <3>2, <3>3 DEF Advance
    <3>. QED
      BY <1>4, <3>1, <3>2, <3>3, <3>4
  <2>2. CASE f.i = f.size
    BY <1>4, <1>5, <2>1, <2>2 DEF Off
  <2>3. CASE f.i # f.size
    <3>1. Off(g) = f.size - (f.i + 1) + 1
      BY <1>5, <2>3 DEF Off
    <3>. QED
      BY <1>4, <2>1, <3>1
  <2>. QED
    BY <2>2, <2>3
<1>8. /\ ready /\ frames' = [frames EXCEPT ![Len(frames)] = g] /\ ready' = FALSE
      /\ UNCHANGED <<pos, out>> /\ lstack' = Pop(lstack, 1)
  <2>1. frames' = [frames EXCEPT ![Len(frames)] = [@ EXCEPT !.i = f.i + 1,
                     !.stage = IF f.i = f.size THEN "key" ELSE "array"]]
    BY <1>2 DEF StoreElement
  <2>2. frames' = [frames EXCEPT ![Len(frames)] = g]
    BY <1>2, <1>3, <2>1 DEF Top
  <2>. QED
    BY <2>2 DEF StoreElement, Storing
<1>9. \E T : lstack' \in Seq(T)
  <2>1. PICK T : lstack \in Seq(T)
    BY <1>1 DEF ReaderAt
  <2>. QED
    BY <1>8, <2>1, StackTyped
<1>10. ReaderAt(S)'
  BY <1>1, <1>2, <1>5, <1>6, <1>7, <1>8, <1>9, Stored
<1>. QED
  BY <1>1, <1>8, <1>10, ReaderGoesOn

\* A key waits for its value.
LEMMA StoreKeyFollows ==
  ASSUME StoreKey, ReaderFollows
  PROVE  ReaderFollows'
<1>1. PICK S : Parse(S, out) /\ S[Len(out)] = <<>> /\ ReaderAt(S)
  BY DEF ReaderFollows
<1>2. PICK f \in Frame : f = Top(frames) /\ f.stage = "key"
  BY <1>1, TopFrame DEF StoreKey, Storing
<1>3. PICK g : g = [f EXCEPT !.stage = "value"]
  OBVIOUS
<1>4. g \in Frame /\ g.base = f.base /\ g.stage = "value"
  BY <1>3 DEF Frame
<1>5. Off(g) = Advance(Off(f))
  BY <1>2, <1>4 DEF Off, Advance
<1>6. /\ ready /\ frames' = [frames EXCEPT ![Len(frames)] = g] /\ ready' = FALSE
      /\ UNCHANGED <<pos, out>> /\ Top(lstack) # Nil
  <2>1. frames' = [frames EXCEPT ![Len(frames)].stage = "value"]
    BY DEF StoreKey
  <2>2. frames' = [frames EXCEPT ![Len(frames)] = g]
    BY <1>2, <1>3, <2>1 DEF Top
  <2>. QED
    BY <2>2 DEF StoreKey, Storing
<1>7. \E T : lstack' \in Seq(T)
  BY <1>1 DEF ReaderAt, StoreKey
<1>8. ReaderAt(S)'
  BY <1>1, <1>2, <1>4, <1>5, <1>6, <1>7, Stored
<1>. QED
  BY <1>1, <1>6, <1>8, ReaderGoesOn

\* lua_rawset of a key and its value.
LEMMA StoreValueFollows ==
  ASSUME StoreValue, ReaderFollows
  PROVE  ReaderFollows'
<1>1. PICK S : Parse(S, out) /\ S[Len(out)] = <<>> /\ ReaderAt(S)
  BY DEF ReaderFollows
<1>2. PICK f \in Frame : f = Top(frames) /\ f.stage = "value"
  BY <1>1, TopFrame DEF StoreValue, Storing
<1>3. PICK g : g = [f EXCEPT !.stage = "key"]
  OBVIOUS
<1>4. g \in Frame /\ g.base = f.base /\ g.stage = "key"
  BY <1>3 DEF Frame
<1>5. Off(g) = Advance(Off(f))
  BY <1>2, <1>4 DEF Off, Advance
<1>6. /\ ready /\ frames' = [frames EXCEPT ![Len(frames)] = g] /\ ready' = FALSE
      /\ UNCHANGED <<pos, out>> /\ lstack' = Pop(lstack, 2)
  <2>1. frames' = [frames EXCEPT ![Len(frames)].stage = "key"]
    BY DEF StoreValue
  <2>2. frames' = [frames EXCEPT ![Len(frames)] = g]
    BY <1>2, <1>3, <2>1 DEF Top
  <2>. QED
    BY <2>2 DEF StoreValue, Storing
<1>7. \E T : lstack' \in Seq(T)
  <2>1. PICK T : lstack \in Seq(T)
    BY <1>1 DEF ReaderAt
  <2>. QED
    BY <1>6, <2>1, StackTyped
<1>8. ReaderAt(S)'
  BY <1>1, <1>2, <1>4, <1>5, <1>6, <1>7, Stored
<1>. QED
  BY <1>1, <1>6, <1>8, ReaderGoesOn

\* A table ends, and is a value of the one it is in, never a key.
LEMMA StoreEndFollows ==
  ASSUME StoreEnd, ReaderFollows
  PROVE  ReaderFollows'
<1>1. PICK S : Parse(S, out) /\ S[Len(out)] = <<>> /\ ReaderAt(S)
  BY DEF ReaderFollows
<1>2. /\ ready /\ Top(frames).stage = "key" /\ Top(lstack) = Nil
      /\ lstack' = Pop(lstack, 1) /\ frames' = Pop(frames, 1)
      /\ ready' = (Len(frames) > 1) /\ UNCHANGED <<pos, out>>
  BY DEF StoreEnd, Storing
<1>3. FramesOK(frames) /\ frames # <<>> /\ S[pos - 1] = Advanced(Pop(Offs(frames), 1))
  BY <1>1, <1>2 DEF ReaderAt, Meant
<1>4. PICK gs : gs = frames'
  OBVIOUS
<1>5. /\ FramesOK(gs) /\ Offs(gs) = Pop(Offs(frames), 1)
      /\ gs # <<>> => Top(gs).stage # "key"
      /\ gs = <<>> <=> ~(Len(frames) > 1)
  BY <1>2, <1>3, <1>4, FramePopped
<1>6. S[pos' - 1] = Meant(gs, ready', Top(lstack'))
  <2>1. S[pos' - 1] = Advanced(Offs(gs))
    BY <1>2, <1>3, <1>5
  <2>2. CASE gs = <<>>
    <3>1. ~ready' /\ Offs(gs) = <<>>
      BY <1>2, <1>5, <2>2, OffsIs
    <3>. QED
      BY <2>1, <3>1 DEF Meant, Advanced
  <2>3. CASE gs # <<>>
    <3>1. ready' /\ Top(gs).stage # "key"
      BY <1>2, <1>5, <2>3
    <3>. QED
      BY <2>1, <3>1 DEF Meant
  <2>. QED
    BY <2>2, <2>3
<1>7. pos' \in 1 .. Len(out') + 1 /\ ready' \in BOOLEAN /\ (ready' => gs # <<>>)
  <2>1. pos' \in 1 .. Len(out') + 1
    BY <1>1, <1>2 DEF ReaderAt
  <2>2. ready' \in BOOLEAN
    BY <1>2
  <2>3. ready' => gs # <<>>
    BY <1>2, <1>5
  <2>. QED
    BY <2>1, <2>2, <2>3
<1>8. \E U : lstack' \in Seq(U)
  <2>1. PICK T : lstack \in Seq(T)
    BY <1>1 DEF ReaderAt
  <2>. QED
    BY <1>2, <2>1, StackTyped
<1>9. ReaderAt(S)'
  BY <1>4, <1>5, <1>6, <1>7, <1>8 DEF ReaderAt
<1>. QED
  BY <1>1, <1>2, <1>9, ReaderGoesOn

------------------------------------------------------------------------------
(* Only references to numbers are refused.                                  *)

\* Without tables as keys, what is written can be read, and what the reader has
\* read is what was written.
FollowInv ==
  ~TableKeys =>
    /\ phase = "pack" => WriterFollows /\ ReaderIdle
    /\ phase = "unpack" => ReaderFollows
    /\ OnlyNumbersAreRefused

\* Nothing that FollowInv speaks of changes.
LEMMA FollowStays ==
  ASSUME FollowInv, UNCHANGED vars
  PROVE  FollowInv'
<1>1. /\ UNCHANGED <<heap, phase, out>> /\ UNCHANGED <<todo, path>>
      /\ UNCHANGED <<pos, lstack, frames, ready>>
  BY DEF vars, writer, reader
<1>2. TableKeys' = TableKeys
  BY <1>1 DEF TableKeys
<1>3. WriterFollows => WriterFollows'
  <2>1. ASSUME NEW f, WriterAt(f)
        PROVE  WriterAt(f)'
    BY <1>1, <2>1 DEF WriterAt
  <2>. QED
    BY <1>1, <2>1 DEF WriterFollows
<1>4. ReaderFollows => ReaderFollows'
  <2>1. ASSUME NEW S, ReaderAt(S)
        PROVE  ReaderAt(S)'
    BY <1>1, <2>1 DEF ReaderAt
  <2>. QED
    BY <1>1, <2>1 DEF ReaderFollows
<1>5. ReaderIdle => ReaderIdle'
  BY <1>1 DEF ReaderIdle
<1>6. OnlyNumbersAreRefused => OnlyNumbersAreRefused'
  <2>1. Token' = Token
    BY <1>1 DEF Token
  <2>2. PICK u : u = Token'
    OBVIOUS
  <2>. QED
    BY <1>1, <1>2, <2>1, <2>2 DEF OnlyNumbersAreRefused
<1>. QED
  BY <1>1, <1>2, <1>3, <1>4, <1>5, <1>6 DEF FollowInv

\* All is written: no table is open, and the reader begins.
LEMMA PackDoneFollows ==
  ASSUME SeriTypeOK, PackDone, WriterFollows, ReaderIdle
  PROVE  ReaderFollows'
<1>1. PICK S : Parse(S, out) /\ WriterAt(S[Len(out)])
  BY DEF WriterFollows
<1>2. S[Len(out)] = <<>>
  <2>1. PICK f \in Seq(Nat) : f = S[Len(out)]
    BY <1>1, StreamIs
  <2>2. Len(f) = 0
    BY <1>1, <2>1, EmptySeq DEF WriterAt, PackDone
  <2>. QED
    BY <2>1, <2>2, EmptySeq
<1>3. /\ pos' = 1 /\ lstack' = <<>> /\ frames' = <<>> /\ ready' = FALSE /\ out' = out
  BY DEF PackDone, ReaderIdle, reader
<1>4. ready' \in BOOLEAN
  BY <1>3
<1>5. FramesOK(<<>>) /\ Offs(<<>>) = <<>>
  <2>1. FramesOK(<<>>)
    BY EmptySeq DEF FramesOK
  <2>. QED
    BY <2>1, OffsIs
<1>6. pos' \in 1 .. Len(out') + 1
  <2>1. Len(out) \in Nat
    BY LenProperties DEF SeriTypeOK
  <2>. QED
    BY <1>3, <2>1
<1>7. S[pos' - 1] = Meant(frames', ready', Top(lstack'))
  <2>1. pos' - 1 = 0 /\ S[0] = <<>>
    BY <1>1, <1>3 DEF Parse
  <2>. QED
    BY <1>3, <1>5, <2>1 DEF Meant
<1>8. \E T : lstack' \in Seq(T)
  BY <1>3, EmptySeq
<1>9. ReaderAt(S)'
  BY <1>3, <1>4, <1>5, <1>6, <1>7, <1>8 DEF ReaderAt
<1>. QED
  BY <1>1, <1>2, <1>3, <1>9, ReaderGoesOn

\* The stream is at its end: so is the last table.
LEMMA UnpackDoneFollows ==
  ASSUME SeriTypeOK, UnpackDone, ReaderFollows
  PROVE  phase' = "done"
<1>1. PICK S : Parse(S, out) /\ S[Len(out)] = <<>> /\ ReaderAt(S)
  BY DEF ReaderFollows
<1>2. Len(out) \in Nat
  BY LenProperties DEF SeriTypeOK
<1>3. pos \in 1 .. Len(out) + 1 /\ pos > Len(out) /\ ~ready
  BY <1>1 DEF UnpackDone, ReaderAt
<1>4. pos - 1 = Len(out)
  BY <1>2, <1>3
<1>5. Offs(frames) = <<>> /\ FramesOK(frames)
  BY <1>1, <1>3, <1>4 DEF ReaderAt, Meant
<1>6. frames = <<>>
  BY <1>5, OffsIs
<1>. QED
  BY <1>6 DEF UnpackDone

\* FollowInv holds at the start.
LEMMA FollowBegins == Init => FollowInv
<1> SUFFICES ASSUME Init
             PROVE  FollowInv
  OBVIOUS
<1>1. WriterFollows /\ ReaderIdle
  BY WriterBegins
<1>2. phase = "pack"
  BY DEF Init
<1>. QED
  BY <1>1, <1>2 DEF FollowInv, OnlyNumbersAreRefused

\* Every step keeps FollowInv.
LEMMA FollowKept ==
  ASSUME SeriInv, FollowInv, [Next]_vars
  PROVE  FollowInv'
<1>1. CASE UNCHANGED vars
  BY <1>1, FollowStays
<1>2. CASE Next
  <2>1. heap' = heap
    BY <1>2 DEF Next, PackValue, PackUnsupported, PackAncestor, PackObject, PackTable, PackEnd,
       PackDone, ReadValue, ReadTable, ReadAncestor, ReadObject, StoreElement, StoreKey, StoreEnd,
       StoreValue, UnpackDone, Push, Refuse
  <2>2. TableKeys' = TableKeys
    BY <2>1 DEF TableKeys
  <2> SUFFICES ASSUME ~TableKeys
               PROVE  FollowInv'
    BY <2>2 DEF FollowInv
  <2>3. /\ phase = "pack" => WriterFollows /\ ReaderIdle
        /\ phase = "unpack" => ReaderFollows
        /\ SeriTypeOK
    BY DEF FollowInv, SeriInv
  <2>4. ASSUME phase' = "pack", WriterFollows', ReaderIdle'
        PROVE  FollowInv'
    BY <2>4 DEF FollowInv, OnlyNumbersAreRefused
  <2>5. ASSUME phase' = "unpack", ReaderFollows'
        PROVE  FollowInv'
    BY <2>5 DEF FollowInv, OnlyNumbersAreRefused
  <2>6. ASSUME phase' \in {"failed", "done"}
        PROVE  FollowInv'
    BY <2>6 DEF FollowInv, OnlyNumbersAreRefused
  <2>7. ASSUME phase' = "refused", Token' = Ref(EXTEND_NUMBER, Token'.n)
        PROVE  FollowInv'
    <3>1. OnlyNumbersAreRefused'
      BY <2>7 DEF OnlyNumbersAreRefused
    <3>. QED
      BY <2>7, <3>1 DEF FollowInv
  <2>8. UNCHANGED reader /\ ReaderIdle => ReaderIdle'
    BY DEF reader, ReaderIdle
  <2>9. CASE PackValue
    <3>1. phase' = "pack" /\ phase = "pack" /\ UNCHANGED reader
      BY <2>9 DEF PackValue, Packing
    <3>. QED
      BY <2>3, <2>4, <2>8, <2>9, <3>1, PackValueFollows
  <2>10. CASE PackAncestor
    <3>1. phase' = "pack" /\ phase = "pack" /\ UNCHANGED reader
      BY <2>10 DEF PackAncestor, Packing
    <3>. QED
      BY <2>3, <2>4, <2>8, <2>10, <3>1, PackAncestorFollows
  <2>11. CASE PackObject
    <3>1. phase' = "pack" /\ phase = "pack" /\ UNCHANGED reader
      BY <2>11 DEF PackObject, Packing
    <3>. QED
      BY <2>3, <2>4, <2>8, <2>11, <3>1, PackObjectFollows
  <2>12. CASE PackTable
    <3>1. phase' = "pack" /\ phase = "pack" /\ UNCHANGED reader
      BY <2>12 DEF PackTable, Packing
    <3>. QED
      BY <2>3, <2>4, <2>8, <2>12, <3>1, PackTableFollows
  <2>13. CASE PackEnd
    <3>1. phase' = "pack" /\ phase = "pack" /\ UNCHANGED reader
      BY <2>13 DEF PackEnd
    <3>. QED
      BY <2>3, <2>4, <2>8, <2>13, <3>1, PackEndFollows
  <2>14. CASE PackUnsupported
    BY <2>6, <2>14 DEF PackUnsupported
  <2>15. CASE PackDone
    <3>1. phase' = "unpack" /\ phase = "pack"
      BY <2>15 DEF PackDone
    <3>. QED
      BY <2>3, <2>5, <2>15, <3>1, PackDoneFollows
  <2>16. CASE ReadValue
    <3>1. phase' = "unpack" /\ phase = "unpack"
      BY <2>16 DEF ReadValue, Reading, Push
    <3>. QED
      BY <2>3, <2>5, <2>16, <3>1, ReadValueFollows
  <2>17. CASE ReadTable
    <3>1. phase' = "unpack" /\ phase = "unpack"
      BY <2>17 DEF ReadTable, Reading
    <3>. QED
      BY <2>3, <2>5, <2>17, <3>1, ReadTableFollows
  <2>18. CASE ReadAncestor
    <3>1. phase = "unpack"
      BY <2>18 DEF ReadAncestor, Reading
    <3>. QED
      BY <2>3, <2>5, <2>18, <3>1, ReadAncestorFollows
  <2>19. CASE ReadObject
    <3>1. phase = "unpack"
      BY <2>19 DEF ReadObject, Reading
    <3>2. IF phase' = "refused" THEN Token' = Ref(EXTEND_NUMBER, Token'.n) ELSE ReaderFollows'
      BY <2>3, <2>19, <3>1, ReadObjectFollows
    <3>3. phase' \in {"refused", "unpack"}
      BY <2>19, <3>1 DEF ReadObject, Refuse, Push
    <3>. QED
      BY <2>5, <2>7, <3>2, <3>3
  <2>20. CASE StoreElement
    <3>1. phase' = "unpack" /\ phase = "unpack"
      BY <2>20 DEF StoreElement, Storing
    <3>. QED
      BY <2>3, <2>5, <2>20, <3>1, StoreElementFollows
  <2>21. CASE StoreKey
    <3>1. phase' = "unpack" /\ phase = "unpack"
      BY <2>21 DEF StoreKey, Storing
    <3>. QED
      BY <2>3, <2>5, <2>21, <3>1, StoreKeyFollows
  <2>22. CASE StoreEnd
    <3>1. phase' = "unpack" /\ phase = "unpack"
      BY <2>22 DEF StoreEnd, Storing
    <3>. QED
      BY <2>3, <2>5, <2>22, <3>1, StoreEndFollows
  <2>23. CASE StoreValue
    <3>1. phase' = "unpack" /\ phase = "unpack"
      BY <2>23 DEF StoreValue, Storing
    <3>. QED
      BY <2>3, <2>5, <2>23, <3>1, StoreValueFollows
  <2>24. CASE UnpackDone
    <3>1. phase' = "done"
      BY <2>3, <2>24, UnpackDoneFollows DEF UnpackDone
    <3>. QED
      BY <2>6, <3>1
  <2>. QED
    BY <1>2, <2>9, <2>10, <2>11, <2>12, <2>13, <2>14, <2>15, <2>16, <2>17, <2>18, <2>19, <2>20,
       <2>21, <2>22, <2>23, <2>24 DEF Next
<1>. QED
  BY <1>1, <1>2

\* When no tables are keys, a reference to an ancestor is never refused, and the
\* reader never runs out of the stream inside a table: the only error of
\* unpack_ref and unpack_table is that of a reference to a table's number.
THEOREM OnlyNumbersRefused == Spec => []OnlyNumbersAreRefused
<1>1. SeriInv /\ FollowInv /\ [Next]_vars => FollowInv'
  BY FollowKept
<1>2. FollowInv => OnlyNumbersAreRefused
  BY DEF FollowInv, OnlyNumbersAreRefused
<1>. QED
  BY <1>1, <1>2, FollowBegins, SeriInvHolds, PTL DEF Spec

------------------------------------------------------------------------------
(* The story of the stream: what is written where.                          *)

\* A list of items whose first a values are an array, and whose others are keys and
\* values by turns: where the values are, and their keys.
IsValue(a, j) == j <= a \/ (j - a) % 2 = 0
KeyAt(list, a, j) == IF j <= a THEN Index(j) ELSE list[j - 1]

\* No key is a table or nil, and none comes twice.
Proper(list, a) ==
  /\ list \in Seq(Values) /\ a \in Nat
  /\ Matches(a, list)
  /\ \A j, k \in 1..Len(list) :
       IsValue(a, j) /\ IsValue(a, k) /\ KeyAt(list, a, j) = KeyAt(list, a, k) => j = k

\* T[m] is the m-th table: which one it is, its items, the number of tables it is
\* in, and which tables those are, itself last.  T[0] stands for the arguments.
TableOK(T, m) ==
  /\ T[m].list \in Seq(Values)
  /\ T[m].depth \in Nat /\ T[m].chain[0] = 0 /\ T[m].chain[T[m].depth] = m
  /\ \A k \in 0..T[m].depth : T[m].chain[k] \in 0..m

\* L[p] is a place in the stream: the table of which an item comes there, which item,
\* and how many tables were begun before.
PlaceOK(L, T, N, p) ==
  /\ L[p].begun \in 0..N /\ L[p].of \in 0..L[p].begun
  /\ L[p].item \in 1 .. Len(T[L[p].of].list) + 1

\* Where table m begins, there is its tag, and it is an item of the table it is in.
TagOK(L, T, s, m, at, o) ==
  /\ at \in 1..Len(s) /\ s[at].type \in {"table", "mark"}
  /\ L[at].begun = m - 1
  /\ T[m].depth = T[o].depth + 1 /\ \A k \in 0..T[o].depth : T[m].chain[k] = T[o].chain[k]
  /\ Proper(T[m].list, T[m].size)
  /\ L[at].item <= Len(T[o].list) /\ T[o].list[L[at].item] = Copy(T[m].table)
BegunOK(L, T, s, m) == TagOK(L, T, s, m, T[m].at, L[T[m].at].of)

\* The elements of a stream.
Place(of, item, begun) == [of |-> of, item |-> item, begun |-> begun]
NextItem(x) == Place(x.of, x.item + 1, x.begun)
IsAtom(x, T, e) ==
  /\ x.item <= Len(T[x.of].list) /\ e = T[x.of].list[x.item]
  /\ e.type \in {"nil", "number", "string"}
IsTableItem(x, T) == x.item <= Len(T[x.of].list) /\ T[x.of].list[x.item].type = "table"
IsAncestor(x, T, e) ==
  /\ IsTableItem(x, T) /\ e.type = "ref" /\ e.cookie # EXTEND_NUMBER
  /\ e.cookie < MAX_DEPTH /\ e.cookie < T[x.of].depth /\ e.cookie \in Nat
  /\ T[x.of].list[x.item] = Copy(T[T[x.of].chain[e.cookie + 1]].table)
IsObject(x, T, s, e) ==
  /\ IsTableItem(x, T) /\ e.type = "ref" /\ e.cookie = EXTEND_NUMBER
  /\ get_integer(e.n) \in 1..x.begun
  /\ s[T[get_integer(e.n)].at].type = "mark"
IsBegin(x, T, N, e, p) ==
  /\ IsTableItem(x, T) /\ e.type \in {"table", "mark"}
  /\ x.begun + 1 <= N /\ T[x.begun + 1].at = p /\ SizeOf(e) = T[x.begun + 1].size
IsEnd(x, T, e) ==
  x.item = Len(T[x.of].list) + 1 /\ x.of # 0 /\ e = Nil

\* The element e, at place x and number p, and the place behind it.
ElementOK(x, y, L, T, N, s, e, p) ==
  \/ (IsAtom(x, T, e) \/ IsAncestor(x, T, e) \/ IsObject(x, T, s, e)) /\ y = NextItem(x)
  \/ IsBegin(x, T, N, e, p) /\ y = Place(x.begun + 1, 1, x.begun + 1)
  \/ IsEnd(x, T, e) /\ y = Place(L[T[x.of].at].of, L[T[x.of].at].item + 1, x.begun)

\* The story of a stream, as far as its first n elements and k tables.
StoryTo(L, T, N, s, n, k) ==
  /\ \A m \in 0..k : TableOK(T, m)
  /\ T[0].depth = 0
  /\ \A p \in 1 .. n + 1 : PlaceOK(L, T, N, p)
  /\ \A m \in 1..k : BegunOK(L, T, s, m)
  /\ L[1] = Place(0, 1, 0)
  /\ \A p \in 1..n : ElementOK(L[p], L[p + 1], L, T, N, s, s[p], p)

Story(L, T, N, s) == StoryTo(L, T, N, s, Len(s), N) /\ L[Len(s) + 1].begun = N

\* The tables of the story are those of the sender, with their numbers.
Told(T) ==
  /\ T[0].list = args
  /\ \A m \in 1..objectid : /\ T[m].table \in Tables /\ NumbersOf(T[m].table) = {m}
                            /\ T[m].list = Items(T[m].table)
                            /\ T[m].size = ArraySize(T[m].table)

\* What is left of a list behind d items.
Left(rest, list, d) ==
  /\ Len(rest) = Len(list) - d /\ \A j \in 1..Len(rest) : rest[j] = list[d + j]

\* The items that come in table cur, of level k, before the table of level k + 1.
Before(L, T, cur, k) == L[T[T[cur].chain[k + 1]].at].item - 1

\* The writer's lists are what is left of the tables it is in.
WriterIn(L, T) ==
  LET x == L[Len(out) + 1]
  IN  /\ Len(path) = T[x.of].depth
      /\ \A k \in 1..Len(path) : path[k] = T[T[x.of].chain[k]].table
      /\ Left(todo[Len(path) + 1], T[x.of].list, x.item - 1)
      /\ \A k \in 0 .. Len(path) - 1 :
           Left(todo[k + 1], T[T[x.of].chain[k]].list, Before(L, T, x.of, k) + 1)

\* A tag is unmarked exactly as long as its address is remembered.
AddressesOf(T) ==
  \A m \in 1..objectid :
    \/ Address(m) = T[m].at /\ out[T[m].at].type = "table"
    \/ Address(m) = NoAddress /\ out[T[m].at].type = "mark"

WriterTells == \E L, T : Story(L, T, objectid, out) /\ Told(T) /\ WriterIn(L, T) /\ AddressesOf(T)

------------------------------------------------------------------------------
(* The items of a story's tables.                                           *)

\* The pairs a table has, those of the array part first.
Listed(t) == [n \in 1..Len(heap[t].array) |-> <<Index(n), heap[t].array[n]>>] \o heap[t].hash

\* The array, the hash part and all pairs of a table, whose a and h are the lengths.
Parts(t, a, h, array, hash, all) ==
  /\ array = heap[t].array /\ hash = heap[t].hash /\ all = Listed(t)
  /\ array \in Seq(Values) /\ all \in Seq(Values \X Values)
  /\ a = Len(array) /\ h = Len(hash) /\ Len(all) = a + h
  /\ DOMAIN array = 1..a /\ DOMAIN hash = 1..h
  /\ \A n \in 1..a : all[n] = <<Index(n), array[n]>>
  /\ \A n \in 1..h : all[a + n] = hash[n] /\ hash[n] \in Fields
  /\ \A x \in 1..a, y \in 1..h : hash[y][1] # Index(x)
  /\ \A x, y \in 1..h : hash[x][1] = hash[y][1] => x = y
  /\ OneEach(all)

\* No key is listed twice.
LEMMA ListedIs ==
  ASSUME heap \in Heaps, NEW t \in Tables
  PROVE  \E a, h \in Nat : \E array, hash, all : Parts(t, a, h, array, hash, all)
<1>. PICK array, hash, all : array = heap[t].array /\ hash = heap[t].hash /\ all = Listed(t)
  OBVIOUS
<1>1. heap[t] \in Contents
  BY ContentsAssumption
<1>2. /\ array \in Seq(Values) /\ hash \in Seq(Fields)
      /\ \A x \in DOMAIN array, y \in DOMAIN hash : hash[y][1] # Index(x)
      /\ \A x, y \in DOMAIN hash : hash[x][1] = hash[y][1] => x = y
  BY <1>1 DEF Contents
<1>3. /\ Len(array) \in Nat /\ DOMAIN array = 1..Len(array)
      /\ Len(hash) \in Nat /\ DOMAIN hash = 1..Len(hash)
  BY <1>2, LenProperties
<1>4. PICK a \in Nat, h \in Nat : a = Len(array) /\ h = Len(hash)
  BY <1>3
<1>5. /\ \A n \in 1..a : array[n] \in Values
      /\ \A n \in 1..h : hash[n] \in Fields
  BY <1>2, <1>4, ElementOfSeq
<1>6. Fields \subseteq Values \X Values
  BY DEF Fields
<1>7. PICK first : first = [n \in 1..a |-> <<Index(n), array[n]>>]
  OBVIOUS
<1>8. first \in Seq(Values \X Values) /\ Len(first) = a
  <2>1. \A n : Index(n) = [type |-> "number", v |-> 2 * n]
    BY DEF Index
  <2>2. \A n \in 1..a : Index(n) \in Values
    BY <2>1 DEF Values, Atoms
  <2>3. first \in [1..a -> Values \X Values]
    BY <1>5, <1>7, <2>2
  <2>. QED
    BY <2>3, FunctionIsSequence
<1>9. hash \in Seq(Values \X Values)
  BY <1>2, <1>6, SeqMonotonic
<1>10. all = first \o hash
  BY <1>4, <1>7 DEF Listed
<1>11. /\ all \in Seq(Values \X Values) /\ Len(all) = a + h
       /\ \A x \in 1 .. a + h : all[x] = IF x <= a THEN first[x] ELSE hash[x - a]
  <2>1. /\ first \o hash \in Seq(Values \X Values) /\ Len(first \o hash) = Len(first) + Len(hash)
        /\ \A x \in 1 .. Len(first) + Len(hash) :
             (first \o hash)[x] = IF x <= Len(first) THEN first[x] ELSE hash[x - Len(first)]
    BY <1>8, <1>9, ConcatProperties
  <2>. QED
    BY <1>4, <1>8, <1>10, <2>1
<1>12. \A n \in 1..a : all[n] = <<Index(n), array[n]>>
  <2>1. \A n \in 1..a : n \in 1 .. a + h /\ n <= a
    OBVIOUS
  <2>. QED
    BY <1>7, <1>11, <2>1
<1>13. \A n \in 1..h : all[a + n] = hash[n]
  <2>1. \A n \in 1..h : a + n \in 1 .. a + h /\ ~(a + n <= a) /\ a + n - a = n
    OBVIOUS
  <2>. QED
    BY <1>11, <2>1
<1>14. ASSUME NEW x \in 1 .. a + h, NEW y \in 1 .. a + h, all[x][1] = all[y][1]
       PROVE  x = y
  <2>1. \A z \in 1 .. a + h : z \in 1..a \/ \E n \in 1..h : z = a + n
    <3>1. ASSUME NEW z \in 1 .. a + h, z \notin 1..a
          PROVE  z - a \in 1..h /\ z = a + (z - a)
      BY <3>1
    <3>. QED
      BY <3>1
  <2>2. CASE x \in 1..a /\ y \in 1..a
    <3>1. Index(x) = Index(y)
      BY <1>12, <1>14, <2>2
    <3>. QED
      BY <2>2, <3>1 DEF Index
  <2>3. ASSUME NEW n \in 1..h, x = a + n, y \in 1..a
        PROVE  FALSE
    <3>1. all[x] = hash[n] /\ all[y] = <<Index(y), array[y]>>
      BY <1>12, <1>13, <2>3
    <3>2. hash[n][1] = Index(y)
      BY <1>14, <3>1
    <3>. QED
      BY <1>2, <1>3, <1>4, <2>3, <3>2
  <2>4. ASSUME NEW n \in 1..h, y = a + n, x \in 1..a
        PROVE  FALSE
    <3>1. all[y] = hash[n] /\ all[x] = <<Index(x), array[x]>>
      BY <1>12, <1>13, <2>4
    <3>2. hash[n][1] = Index(x)
      BY <1>14, <3>1
    <3>. QED
      BY <1>2, <1>3, <1>4, <2>4, <3>2
  <2>5. ASSUME NEW n \in 1..h, NEW k \in 1..h, x = a + n, y = a + k
        PROVE  x = y
    <3>1. all[x] = hash[n] /\ all[y] = hash[k]
      BY <1>13, <2>5
    <3>2. n = k
      <4>1. hash[n][1] = hash[k][1] /\ n \in DOMAIN hash /\ k \in DOMAIN hash
        BY <1>3, <1>4, <1>14, <2>5, <3>1
      <4>. QED
        BY <1>2, <4>1
    <3>. QED
      BY <2>5, <3>2
  <2>. QED
    BY <2>1, <2>2, <2>3, <2>4, <2>5
<1>15. OneEach(all)
  BY <1>11, <1>14 DEF OneEach
<1>16. Parts(t, a, h, array, hash, all)
  <2>1. /\ DOMAIN array = 1..a /\ DOMAIN hash = 1..h
        /\ \A x \in 1..a, y \in 1..h : hash[y][1] # Index(x)
        /\ \A x, y \in 1..h : hash[x][1] = hash[y][1] => x = y
    BY <1>2, <1>3, <1>4
  <2>. QED
    BY <1>2, <1>4, <1>5, <1>11, <1>12, <1>13, <1>15, <2>1 DEF Parts
<1>. QED
  BY <1>16

\* The pairs written are those listed whose key is not in the array.
LEMMA PairsAre ==
  ASSUME heap \in Heaps, NEW t \in Tables
  PROVE  /\ Pairs(t) \in Seq(Values \X Values)
         /\ Keeps(Pairs(t), Listed(t), ArraySize(t)) /\ OneEach(Pairs(t))
<1>1. PICK all : all = Listed(t) /\ all \in Seq(Values \X Values) /\ OneEach(all)
  BY ListedIs DEF Parts
<1>2. CASE heap[t].metapairs
  <2>1. Pairs(t) = all /\ ArraySize(t) = 0
    BY <1>1, <1>2 DEF Pairs, Listed, ArraySize
  <2>2. \A k : ~InArray(k, 0)
    BY DEF InArray
  <2>3. Keeps(all, all, 0)
    BY <2>2 DEF Keeps
  <2>. QED
    BY <1>1, <2>1, <2>3
<1>3. CASE ~heap[t].metapairs
  <2>1. Pairs(t) = Kept(all, ArraySize(t))
    BY <1>1, <1>3 DEF Pairs, Listed, ArraySize
  <2>. QED
    BY <1>1, <2>1, KeptMembers
<1>. QED
  BY <1>2, <1>3
\* The array's values and then the keys and values of pairs.
Arranged(t, a, l, ps, items) ==
  /\ a = ArraySize(t) /\ ps = Pairs(t) /\ items = Items(t) /\ l = Len(ps)
  /\ items \in Seq(Values) /\ ps \in Seq(Values \X Values)
  /\ a <= Len(heap[t].array) /\ Len(items) = a + 2 * l
  /\ \A j \in 1..a : items[j] = heap[t].array[j]
  /\ \A j \in 1..l : items[a + 2 * j - 1] = ps[j][1] /\ items[a + 2 * j] = ps[j][2]

\* A table's items are its array and then its pairs.
LEMMA ItemsAre ==
  ASSUME heap \in Heaps, NEW t \in Tables
  PROVE  \E a, l \in Nat : \E ps, items : Arranged(t, a, l, ps, items)
<1>1. PICK ps : ps = Pairs(t) /\ ps \in Seq(Values \X Values)
  BY PairsAre
<1>2. PICK l \in Nat : l = Len(ps)
  BY <1>1, LenProperties
<1>3. PICK fl : fl = Flatten(ps)
  OBVIOUS
<1>4. /\ fl \in Seq(Values) /\ Len(fl) = 2 * l
      /\ \A x \in 1 .. 2 * l : fl[x] = ps[(x + 1) \div 2][2 - (x % 2)]
  <2>1. fl \in Seq(Values)
    BY <1>1, <1>3, FlattenIsSequence
  <2>2. fl = [x \in 1 .. 2 * l |-> ps[(x + 1) \div 2][2 - (x % 2)]]
    BY <1>2, <1>3 DEF Flatten
  <2>3. PICK k \in Nat : k = 2 * l
    OBVIOUS
  <2>4. PICK n \in Nat : n = Len(fl) /\ DOMAIN fl = 1..n
    BY <2>1, LenProperties
  <2>5. DOMAIN fl = 1..k
    BY <2>2, <2>3
  <2>6. n = k
    BY <2>4, <2>5, SameInterval
  <2>. QED
    BY <2>1, <2>2, <2>3, <2>4, <2>6
<1>5. PICK array \in Seq(Values), a \in Nat :
        array = heap[t].array /\ a = ArraySize(t) /\ a <= Len(array) /\ Len(array) \in Nat
  BY ContentsTyped
<1>6. PICK sub : /\ sub = SubSeq(array, 1, a) /\ sub \in Seq(Values) /\ Len(sub) = a
                 /\ \A j \in 1..a : sub[j] = array[j]
  <2>1. \A n \in 1..a : array[n] \in Values
    BY <1>5, ElementOfSeq
  <2>2. /\ SubSeq(array, 1, a) \in Seq(Values) /\ Len(SubSeq(array, 1, a)) = a
        /\ \A j \in 1 .. a - 1 + 1 : SubSeq(array, 1, a)[j] = array[1 + j - 1]
    BY <1>5, <2>1, SubSeqProperties
  <2>3. \A j \in 1..a : j \in 1 .. a - 1 + 1 /\ 1 + j - 1 = j
    OBVIOUS
  <2>. QED
    BY <2>2, <2>3
<1>7. PICK items : items = sub \o fl /\ Items(t) = items
  BY <1>1, <1>3, <1>5, <1>6 DEF Items
<1>8. /\ items \in Seq(Values) /\ Len(items) = a + 2 * l
      /\ \A j \in 1 .. a + 2 * l : items[j] = IF j <= a THEN sub[j] ELSE fl[j - a]
  <2>1. /\ sub \o fl \in Seq(Values) /\ Len(sub \o fl) = Len(sub) + Len(fl)
        /\ \A j \in 1 .. Len(sub) + Len(fl) :
             (sub \o fl)[j] = IF j <= Len(sub) THEN sub[j] ELSE fl[j - Len(sub)]
    <3>1. sub \in Seq(Values) /\ fl \in Seq(Values)
      BY <1>4, <1>6, Zenon
    <3>. QED
      BY <3>1, ConcatProperties, Zenon
  <2>. QED
    BY <1>4, <1>6, <1>7, <2>1
<1>9. \A j \in 1..a : items[j] = array[j]
  <2>1. \A j \in 1..a : j \in 1 .. a + 2 * l /\ j <= a
    OBVIOUS
  <2>. QED
    BY <1>6, <1>8, <2>1
<1>10. ASSUME NEW j \in 1..l
       PROVE  items[a + 2 * j - 1] = ps[j][1] /\ items[a + 2 * j] = ps[j][2]
  <2>1. PICK x \in Nat : x = 2 * j
    OBVIOUS
  <2>2. /\ x \in 1 .. 2 * l /\ x - 1 \in 1 .. 2 * l
        /\ (x + 1) \div 2 = j /\ (x - 1 + 1) \div 2 = j /\ x % 2 = 0 /\ (x - 1) % 2 = 1
    BY <2>1
  <2>3. fl[x - 1] = ps[j][1] /\ fl[x] = ps[j][2]
    <3>1. fl[x - 1] = ps[(x - 1 + 1) \div 2][2 - ((x - 1) % 2)]
      BY <1>4, <2>2
    <3>2. fl[x] = ps[(x + 1) \div 2][2 - (x % 2)]
      BY <1>4, <2>2
    <3>3. 2 - (x % 2) = 2 /\ 2 - ((x - 1) % 2) = 1
      BY <2>2
    <3>. QED
      BY <2>2, <3>1, <3>2, <3>3
  <2>4. /\ a + x \in 1 .. a + 2 * l /\ ~(a + x <= a) /\ a + x - a = x
        /\ a + x - 1 \in 1 .. a + 2 * l /\ ~(a + x - 1 <= a) /\ a + x - 1 - a = x - 1
    BY <2>2
  <2>5. items[a + x] = fl[x] /\ items[a + x - 1] = fl[x - 1]
    BY <1>8, <2>4
  <2>. QED
    BY <2>1, <2>3, <2>5
<1>11. Arranged(t, a, l, ps, items)
  BY <1>1, <1>2, <1>5, <1>7, <1>8, <1>9, <1>10 DEF Arranged
<1>. QED
  BY <1>11
\* Where the values behind the array are.
LEMMA ValuesAre ==
  ASSUME NEW a \in Nat, NEW l \in Nat
  PROVE  /\ \A j \in 1 .. a + 2 * l : IsValue(a, j) =>
              j \in 1..a \/ \E n \in 1..l : j = a + 2 * n
         /\ \A n \in 1..l : /\ a + 2 * n \in 1 .. a + 2 * l /\ IsValue(a, a + 2 * n)
                            /\ \A list : KeyAt(list, a, a + 2 * n) = list[a + 2 * n - 1]
         /\ \A j \in 1..a : /\ j \in 1 .. a + 2 * l /\ IsValue(a, j)
                            /\ \A list : KeyAt(list, a, j) = Index(j)
<1>1. ASSUME NEW j \in 1 .. a + 2 * l, IsValue(a, j), j \notin 1..a
      PROVE  \E n \in 1..l : j = a + 2 * n
  <2>1. j > a /\ (j - a) % 2 = 0
    BY <1>1 DEF IsValue
  <2>2. PICK x \in Nat : x = j - a
    BY <2>1
  <2>3. x % 2 = 0 /\ x \in 1 .. 2 * l
    BY <2>1, <2>2
  <2>4. x \div 2 \in 1..l /\ x = 2 * (x \div 2)
    BY <2>3
  <2>5. j = a + 2 * (x \div 2)
    BY <2>2, <2>4
  <2>. QED
    BY <2>4, <2>5
<1>2. ASSUME NEW n \in 1..l
      PROVE  /\ a + 2 * n \in 1 .. a + 2 * l /\ IsValue(a, a + 2 * n)
             /\ \A list : KeyAt(list, a, a + 2 * n) = list[a + 2 * n - 1]
  <2>1. PICK x \in Nat : x = 2 * n
    OBVIOUS
  <2>2. x % 2 = 0 /\ x > 0 /\ x <= 2 * l
    BY <2>1
  <2>3. (a + x - a) % 2 = 0 /\ ~(a + x <= a) /\ a + x \in 1 .. a + 2 * l
    BY <2>2
  <2>. QED
    BY <2>1, <2>3 DEF IsValue, KeyAt
<1>3. ASSUME NEW j \in 1..a
      PROVE  j \in 1 .. a + 2 * l /\ IsValue(a, j) /\ \A list : KeyAt(list, a, j) = Index(j)
  BY DEF IsValue, KeyAt
<1>. QED
  BY <1>1, <1>2, <1>3

\* Keys that are indices of the array part are in it.
LEMMA IndexInArray ==
  ASSUME NEW a, NEW j \in Nat
  PROVE  InArray(Index(j), a) <=> j \in 1..a
<1>1. PICK x \in Nat : x = 2 * j
  OBVIOUS
<1>2. x \div 2 = j
  BY <1>1
<1>3. Index(j) = [type |-> "number", v |-> x]
  BY <1>1 DEF Index
<1>. QED
  BY <1>2, <1>3 DEF InArray

\* A table's items are proper.
LEMMA ItemsProper ==
  ASSUME heap \in Heaps, NEW t \in Tables, ~TableKeys
  PROVE  Proper(Items(t), ArraySize(t))
<1>1. PICK a, l, ps, items : a \in Nat /\ l \in Nat /\ Arranged(t, a, l, ps, items)
  BY ItemsAre
<1>. a \in Nat /\ l \in Nat
  BY <1>1
<1>2. /\ a = ArraySize(t) /\ ps = Pairs(t) /\ items = Items(t) /\ l = Len(ps)
      /\ items \in Seq(Values) /\ Len(items) = a + 2 * l
      /\ \A j \in 1..l : items[a + 2 * j - 1] = ps[j][1]
  BY <1>1 DEF Arranged
<1>3. PICK all : all = Listed(t) /\ Keeps(ps, all, a) /\ OneEach(ps)
  BY <1>2, PairsAre
<1>4. \A n \in 1..l : ~InArray(ps[n][1], a)
  BY <1>2, <1>3 DEF Keeps
<1>5. ASSUME NEW j \in 1 .. a + 2 * l, NEW k \in 1 .. a + 2 * l, IsValue(a, j), IsValue(a, k),
             KeyAt(items, a, j) = KeyAt(items, a, k)
      PROVE  j = k
  <2>1. CASE j \in 1..a /\ k \in 1..a
    <3>1. Index(j) = Index(k)
      BY <1>5, <2>1, ValuesAre
    <3>. QED
      BY <2>1, <3>1 DEF Index
  <2>2. ASSUME NEW n \in 1..l, j = a + 2 * n, k \in 1..a
        PROVE  FALSE
    <3>1. KeyAt(items, a, j) = items[a + 2 * n - 1] /\ KeyAt(items, a, k) = Index(k)
      BY <2>2, ValuesAre
    <3>2. ps[n][1] = Index(k)
      BY <1>2, <1>5, <3>1
    <3>3. InArray(Index(k), a)
      BY <2>2, IndexInArray
    <3>. QED
      BY <1>4, <3>2, <3>3
  <2>3. ASSUME NEW n \in 1..l, k = a + 2 * n, j \in 1..a
        PROVE  FALSE
    <3>1. KeyAt(items, a, k) = items[a + 2 * n - 1] /\ KeyAt(items, a, j) = Index(j)
      BY <2>3, ValuesAre
    <3>2. ps[n][1] = Index(j)
      BY <1>2, <1>5, <3>1
    <3>3. InArray(Index(j), a)
      BY <2>3, IndexInArray
    <3>. QED
      BY <1>4, <3>2, <3>3
  <2>4. ASSUME NEW n \in 1..l, NEW m \in 1..l, j = a + 2 * n, k = a + 2 * m
        PROVE  j = k
    <3>1. /\ KeyAt(items, a, j) = items[a + 2 * n - 1]
          /\ KeyAt(items, a, k) = items[a + 2 * m - 1]
      BY <2>4, ValuesAre
    <3>2. ps[n][1] = ps[m][1]
      BY <1>2, <1>5, <3>1
    <3>3. n = m
      BY <1>2, <1>3, <3>2 DEF OneEach
    <3>. QED
      BY <2>4, <3>3
  <2>5. /\ j \in 1..a \/ \E n \in 1..l : j = a + 2 * n
        /\ k \in 1..a \/ \E n \in 1..l : k = a + 2 * n
    BY <1>5, ValuesAre
  <2>. QED
    BY <2>1, <2>2, <2>3, <2>4, <2>5
<1>6. Matches(a, items)
  BY <1>2, ItemsMatch
<1>7. Proper(items, a)
  BY <1>2, <1>5, <1>6 DEF Proper
<1>. QED
  BY <1>2, <1>7
\* A value that is written is that of its key, which is not lost.
LEMMA KeyWritten ==
  ASSUME heap \in Heaps, NEW t \in Tables, NEW list, list = Items(t), NEW a, a = ArraySize(t),
         NEW j \in 1..Len(list), IsValue(a, j), list[j] # Nil
  PROVE  /\ KeyAt(list, a, j) \in Keys(t) \ LostKeys(t)
         /\ ValueAt(t, KeyAt(list, a, j)) = list[j]
<1>1. PICK l, ps : l \in Nat /\ a \in Nat /\ Arranged(t, a, l, ps, list)
  <2>1. PICK b, l, ps, items : b \in Nat /\ l \in Nat /\ Arranged(t, b, l, ps, items)
    BY ItemsAre
  <2>2. b = a /\ items = list
    BY <2>1 DEF Arranged
  <2>. QED
    BY <2>1, <2>2
<1>. a \in Nat /\ l \in Nat
  BY <1>1
<1>2. PICK n, h, array, hash, all : n \in Nat /\ h \in Nat /\ Parts(t, n, h, array, hash, all)
  BY ListedIs
<1>. n \in Nat /\ h \in Nat
  BY <1>2
<1>3. /\ a <= n /\ Len(list) = a + 2 * l /\ l = Len(ps) /\ array = heap[t].array
      /\ \A x \in 1..a : list[x] = array[x]
      /\ \A x \in 1..l : list[a + 2 * x - 1] = ps[x][1] /\ list[a + 2 * x] = ps[x][2]
  BY <1>1, <1>2 DEF Arranged, Parts
<1>4. Keeps(ps, all, a)
  BY <1>1, <1>2, PairsAre DEF Arranged, Parts
<1>5. ASSUME NEW x \in 1..n, array[x] # Nil
      PROVE  Index(x) \in Keys(t) \ LostKeys(t) /\ ValueAt(t, Index(x)) = array[x]
  <2>1. Index(x) \in Keys(t)
    BY <1>2, <1>5 DEF Keys, Parts
  <2>2. PICK v \in Int : v = 2 * x /\ v % 2 = 0 /\ v \div 2 = x
    OBVIOUS
  <2>3. Index(x) = [type |-> "number", v |-> v]
    BY <2>2 DEF Index
  <2>4. Index(x) \notin LostKeys(t)
    BY <2>2, <2>3 DEF LostKeys
  <2>5. ~\E y \in DOMAIN hash : hash[y][1] = Index(x)
    BY <1>2 DEF Parts
  <2>6. ValueAt(t, Index(x)) = array[x]
    BY <1>2, <2>2, <2>3, <2>5 DEF ValueAt, Parts
  <2>. QED
    BY <2>1, <2>4, <2>6
<1>6. ASSUME NEW x \in 1..h, ~InArray(hash[x][1], a)
      PROVE  hash[x][1] \in Keys(t) \ LostKeys(t) /\ ValueAt(t, hash[x][1]) = hash[x][2]
  <2>1. hash[x][1] \in Keys(t)
    BY <1>2 DEF Keys, Parts
  <2>2. hash[x][1] \notin LostKeys(t)
    BY <1>1, <1>6 DEF LostKeys, InArray, Arranged
  <2>3. PICK c : c = CHOOSE y \in DOMAIN hash : hash[y][1] = hash[x][1]
    OBVIOUS
  <2>4. c \in DOMAIN hash /\ hash[c][1] = hash[x][1]
    BY <1>2, <2>3 DEF Parts
  <2>5. c = x
    BY <1>2, <2>4 DEF Parts
  <2>6. ValueAt(t, hash[x][1]) = hash[c][2]
    <3>1. \E y \in DOMAIN hash : hash[y][1] = hash[x][1]
      BY <1>2 DEF Parts
    <3>. QED
      BY <1>2, <2>3, <3>1 DEF ValueAt, Parts
  <2>. QED
    BY <2>1, <2>2, <2>5, <2>6
<1>7. CASE j \in 1..a
  <2>1. KeyAt(list, a, j) = Index(j)
    BY <1>1, <1>7, ValuesAre
  <2>2. list[j] = array[j] /\ j \in 1..n
    BY <1>1, <1>3, <1>7
  <2>. QED
    BY <1>5, <2>1, <2>2
<1>8. ASSUME NEW x \in 1..l, j = a + 2 * x
      PROVE  /\ KeyAt(list, a, j) \in Keys(t) \ LostKeys(t)
             /\ ValueAt(t, KeyAt(list, a, j)) = list[j]
  <2>1. KeyAt(list, a, j) = ps[x][1] /\ list[j] = ps[x][2]
    <3>1. KeyAt(list, a, j) = list[a + 2 * x - 1]
      BY <1>1, <1>8 DEF KeyAt
    <3>. QED
      BY <1>3, <1>8, <3>1
  <2>2. PICK y \in 1..Len(all) : ps[x] = all[y] /\ ~InArray(all[y][1], a)
    BY <1>3, <1>4 DEF Keeps
  <2>3. CASE y \in 1..n
    <3>1. all[y] = <<Index(y), array[y]>>
      BY <1>2, <2>3 DEF Parts
    <3>2. array[y] # Nil
      BY <2>1, <2>2, <3>1
    <3>. QED
      BY <1>5, <2>1, <2>2, <2>3, <3>1, <3>2
  <2>4. ASSUME y \notin 1..n
        PROVE  \E m \in 1..h : y = n + m
    <3>1. Len(all) = n + h
      BY <1>2 DEF Parts
    <3>2. y - n \in 1..h /\ y = n + (y - n)
      BY <2>4, <3>1
    <3>. QED
      BY <3>2
  <2>5. ASSUME NEW m \in 1..h, y = n + m
        PROVE  /\ KeyAt(list, a, j) \in Keys(t) \ LostKeys(t)
               /\ ValueAt(t, KeyAt(list, a, j)) = list[j]
    <3>1. all[y] = hash[m]
      BY <1>2, <2>5 DEF Parts
    <3>. QED
      BY <1>6, <2>1, <2>2, <3>1
  <2>. QED
    BY <2>3, <2>4, <2>5
<1>9. j \in 1..a \/ \E x \in 1..l : j = a + 2 * x
  <2>1. j \in 1 .. a + 2 * l
    BY <1>3
  <2>2. \A i \in 1 .. a + 2 * l : IsValue(a, i) => i \in 1..a \/ \E x \in 1..l : i = a + 2 * x
    BY <1>1, ValuesAre
  <2>. QED
    BY <2>1, <2>2
<1>. QED
  BY <1>7, <1>8, <1>9

\* A key that is not lost is written.
LEMMA KeyFound ==
  ASSUME heap \in Heaps, NEW t \in Tables, NEW list, list = Items(t), NEW a, a = ArraySize(t),
         NEW k, k \in Keys(t) \ LostKeys(t)
  PROVE  \E j \in 1..Len(list) : IsValue(a, j) /\ list[j] # Nil /\ k = KeyAt(list, a, j)
<1>1. PICK l, ps : l \in Nat /\ a \in Nat /\ Arranged(t, a, l, ps, list)
  <2>1. PICK b, l, ps, items : b \in Nat /\ l \in Nat /\ Arranged(t, b, l, ps, items)
    BY ItemsAre
  <2>2. b = a /\ items = list
    BY <2>1 DEF Arranged
  <2>. QED
    BY <2>1, <2>2
<1>. a \in Nat /\ l \in Nat
  BY <1>1
<1>2. PICK n, h, array, hash, all : n \in Nat /\ h \in Nat /\ Parts(t, n, h, array, hash, all)
  BY ListedIs
<1>. n \in Nat /\ h \in Nat
  BY <1>2
<1>3. /\ a <= n /\ Len(list) = a + 2 * l /\ l = Len(ps) /\ array = heap[t].array
      /\ \A x \in 1..a : list[x] = array[x]
      /\ \A x \in 1..l : list[a + 2 * x - 1] = ps[x][1] /\ list[a + 2 * x] = ps[x][2]
  BY <1>1, <1>2 DEF Arranged, Parts
<1>4. Keeps(ps, all, a)
  BY <1>1, <1>2, PairsAre DEF Arranged, Parts
<1>5. Len(all) = n + h
  BY <1>2 DEF Parts
<1>6. ASSUME NEW y \in 1..Len(all), ~InArray(all[y][1], a), all[y][1] = k, all[y][2] # Nil
      PROVE  \E j \in 1..Len(list) : IsValue(a, j) /\ list[j] # Nil /\ k = KeyAt(list, a, j)
  <2>1. PICK x \in 1..l : ps[x] = all[y]
    BY <1>3, <1>4, <1>6 DEF Keeps
  <2>2. a + 2 * x \in 1..Len(list) /\ IsValue(a, a + 2 * x)
    BY <1>1, <1>3, ValuesAre
  <2>3. KeyAt(list, a, a + 2 * x) = list[a + 2 * x - 1]
    BY <1>1 DEF KeyAt
  <2>4. list[a + 2 * x] # Nil /\ k = KeyAt(list, a, a + 2 * x)
    BY <1>3, <1>6, <2>1, <2>3
  <2>. QED
    BY <2>2, <2>4
<1>7. ASSUME NEW i \in 1..n, array[i] # Nil, k = Index(i)
      PROVE  \E j \in 1..Len(list) : IsValue(a, j) /\ list[j] # Nil /\ k = KeyAt(list, a, j)
  <2>1. CASE i \in 1..a
    <3>1. i \in 1..Len(list) /\ IsValue(a, i) /\ KeyAt(list, a, i) = Index(i)
      BY <1>1, <1>3, <2>1 DEF IsValue, KeyAt
    <3>2. list[i] # Nil
      BY <1>3, <1>7, <2>1
    <3>. QED
      BY <1>7, <3>1, <3>2
  <2>2. CASE i \notin 1..a
    <3>1. ~InArray(Index(i), a)
      BY <2>2, IndexInArray
    <3>2. all[i] = <<Index(i), array[i]>>
      BY <1>2 DEF Parts
    <3>3. i \in 1..Len(all)
      BY <1>5
    <3>. QED
      BY <1>6, <1>7, <3>1, <3>2, <3>3
  <2>. QED
    BY <2>1, <2>2
<1>8. ASSUME NEW i \in 1..h, k = hash[i][1]
      PROVE  \E j \in 1..Len(list) : IsValue(a, j) /\ list[j] # Nil /\ k = KeyAt(list, a, j)
  <2>1. hash[i] \in Fields /\ all[n + i] = hash[i]
    BY <1>2 DEF Parts
  <2>2. hash[i] \in Fields /\ all[n + i] = hash[i] /\ n + i \in 1..Len(all)
    BY <1>5, <2>1
  <2>3. k \in Values /\ hash[i][2] # Nil
    BY <1>8, <2>2 DEF Fields
  <2>4. ASSUME InArray(k, a)
        PROVE  FALSE
    <3>1. k.type = "number" /\ k.v \div 2 \in 1..a /\ k.v % 2 = 0
      BY <1>1, <2>4 DEF LostKeys, InArray, Arranged
    <3>2. k.v \in Int /\ k = [type |-> "number", v |-> k.v]
      BY <2>3, <3>1 DEF Values, Atoms
    <3>3. PICK x \in Int : x = k.v
      BY <3>2
    <3>4. PICK y \in 1..a : y = x \div 2 /\ x % 2 = 0
      BY <3>1, <3>3
    <3>5. x = 2 * y
      BY <3>4
    <3>6. k = Index(y)
      BY <3>2, <3>3, <3>5 DEF Index
    <3>7. y \in 1..n
      BY <1>1, <1>3, <3>4
    <3>8. \A u \in 1..n, w \in 1..h : hash[w][1] # Index(u)
      BY <1>2 DEF Parts
    <3>. QED
      BY <1>8, <3>6, <3>7, <3>8
  <2>. QED
    BY <1>6, <1>8, <2>2, <2>3, <2>4
<1>9. (\E i \in 1..n : array[i] # Nil /\ k = Index(i)) \/ \E i \in 1..h : k = hash[i][1]
  <2>1. k \in Keys(t)
    OBVIOUS
  <2>. QED
    BY <1>2, <2>1 DEF Keys, Parts
<1>. QED
  BY <1>7, <1>8, <1>9

------------------------------------------------------------------------------
(* A story goes on.                                                         *)

\* The second story has the first one's tables, places and elements, but for tags
\* that were marked.
GoesOn(L, T, N, s, M, U, K, c) ==
  /\ \A m \in 0..N : U[m] = T[m]
  /\ \A p \in 1 .. Len(s) + 1 : M[p] = L[p]
  /\ Len(s) <= Len(c)
  /\ \A p \in 1..Len(s) :
       c[p] = s[p] \/ (s[p].type = "table" /\ c[p] = [s[p] EXCEPT !.type = "mark"])

\* An element that is marked keeps its meaning.
LEMMA ElementMarked ==
  ASSUME NEW e \in Elements, NEW d, d = e \/ (e.type = "table" /\ d = [e EXCEPT !.type = "mark"])
  PROVE  /\ d.type = "mark" \/ d.type = e.type
         /\ e.type \in {"nil", "number", "string", "ref", "mark"} => d = e
         /\ e.type \in {"table", "mark"} => d.type \in {"table", "mark"} /\ SizeOf(d) = SizeOf(e)
         /\ e = Nil => d = e
<1>1. CASE d = e
  BY <1>1
<1>2. CASE e.type = "table" /\ d = [e EXCEPT !.type = "mark"]
  <2>1. e \in Tags
    BY <1>2 DEF Elements, Atoms
  <2>2. d.type = "mark" /\ d.cookie = e.cookie /\ d.n = e.n
    BY <1>2, <2>1 DEF Tags
  <2>3. e # Nil
    BY <1>2 DEF Nil
  <2>. QED
    BY <1>2, <2>2, <2>3 DEF SizeOf
<1>. QED
  BY <1>1, <1>2

\* What was said of the first elements and tables is still so.
LEMMA StoryKept ==
  ASSUME NEW L, NEW T, NEW N \in Nat, NEW s \in Seq(Elements), Story(L, T, N, s),
         NEW M, NEW U, NEW K \in Nat, N <= K, NEW c, GoesOn(L, T, N, s, M, U, K, c)
  PROVE  StoryTo(M, U, K, c, Len(s), N)
<1>1. PICK n \in Nat : n = Len(s)
  BY LenProperties
<1>2. /\ \A m \in 0..N : U[m] = T[m]
      /\ \A p \in 1 .. n + 1 : M[p] = L[p]
      /\ \A p \in 1..n :
           c[p] = s[p] \/ (s[p].type = "table" /\ c[p] = [s[p] EXCEPT !.type = "mark"])
      /\ n <= Len(c)
  BY <1>1 DEF GoesOn
<1>3. /\ \A m \in 0..N : TableOK(T, m)
      /\ T[0].depth = 0
      /\ \A p \in 1 .. n + 1 : PlaceOK(L, T, N, p)
      /\ \A m \in 1..N : BegunOK(L, T, s, m)
      /\ L[1] = Place(0, 1, 0)
      /\ \A p \in 1..n : ElementOK(L[p], L[p + 1], L, T, N, s, s[p], p)
  BY <1>1 DEF Story, StoryTo
<1>4. \A p \in 1..n : s[p] \in Elements
  BY <1>1, ElementOfSeq
<1>5. \A p \in 1 .. n + 1 :
        /\ L[p].begun \in 0..N /\ L[p].of \in 0..L[p].begun /\ L[p].of \in 0..N
        /\ L[p].item \in 1 .. Len(T[L[p].of].list) + 1
  BY <1>3 DEF PlaceOK
<1>6. \A m \in 1..N : T[m].at \in 1..n /\ s[T[m].at].type \in {"table", "mark"}
  BY <1>1, <1>3 DEF BegunOK, TagOK
<1>7. \A m \in 0..N : TableOK(U, m)
  BY <1>2, <1>3 DEF TableOK
<1>8. \A p \in 1 .. n + 1 : PlaceOK(M, U, K, p)
  <2>1. ASSUME NEW p \in 1 .. n + 1
        PROVE  PlaceOK(M, U, K, p)
    <3>1. M[p] = L[p] /\ U[L[p].of] = T[L[p].of]
      BY <1>2, <1>5
    <3>2. PICK x : x = L[p]
      OBVIOUS
    <3>3. x.begun \in 0..K
      BY <1>5, <3>2
    <3>. QED
      BY <1>5, <3>1, <3>2, <3>3 DEF PlaceOK
  <2>. QED
    BY <2>1
<1>9. ASSUME NEW p \in 1..n
       PROVE  /\ c[p].type = "mark" \/ c[p].type = s[p].type
              /\ s[p].type \in {"nil", "number", "string", "ref", "mark"} => c[p] = s[p]
              /\ s[p].type \in {"table", "mark"} =>
                   c[p].type \in {"table", "mark"} /\ SizeOf(c[p]) = SizeOf(s[p])
              /\ s[p] = Nil => c[p] = s[p]
  <2>1. s[p] \in Elements /\ (c[p] = s[p] \/ (s[p].type = "table" /\ c[p] = [s[p] EXCEPT !.type = "mark"]))
    BY <1>2, <1>4
  <2>. QED
    BY <2>1, ElementMarked
<1>10. ASSUME NEW m \in 1..N
      PROVE  BegunOK(M, U, c, m)
  <2>1. PICK at \in 1..n : at = T[m].at
    BY <1>6
  <2>2. PICK o \in 0..N : o = L[at].of
    BY <1>5
  <2>3. TagOK(L, T, s, m, at, o)
    BY <1>3, <2>1, <2>2 DEF BegunOK
  <2>4. U[m] = T[m] /\ U[o] = T[o] /\ M[at] = L[at]
    BY <1>2
  <2>5. c[at].type \in {"table", "mark"}
    <3>1. c[at].type = "mark" \/ c[at].type = s[at].type
      BY <1>9
    <3>. QED
      BY <1>6, <2>1, <3>1
  <2>6. at \in 1..Len(c)
    BY <1>1, <1>2
  <2>7. TagOK(M, U, c, m, at, o)
    BY <2>3, <2>4, <2>5, <2>6 DEF TagOK
  <2>. QED
    BY <2>1, <2>2, <2>4, <2>7 DEF BegunOK
<1>11. ASSUME NEW p \in 1..n
       PROVE  ElementOK(M[p], M[p + 1], M, U, K, c, c[p], p)
  <2>1. PICK x, y, e, d : x = L[p] /\ y = L[p + 1] /\ e = s[p] /\ d = c[p]
    OBVIOUS
  <2>2. M[p] = x /\ M[p + 1] = y
    BY <1>2, <2>1
  <2>3. /\ x.begun \in 0..N /\ x.of \in 0..N /\ U[x.of] = T[x.of] /\ TableOK(T, x.of)
    BY <1>2, <1>3, <1>5, <2>1
  <2>4. ElementOK(x, y, L, T, N, s, e, p)
    BY <1>3, <2>1
  <2>5. CASE IsAtom(x, T, e) /\ y = NextItem(x)
    <3>1. d = e
      BY <1>9, <2>1, <2>5 DEF IsAtom
    <3>2. IsAtom(x, U, d)
      BY <2>3, <2>5, <3>1 DEF IsAtom
    <3>. QED
      BY <2>1, <2>2, <2>5, <3>2 DEF ElementOK
  <2>6. CASE IsAncestor(x, T, e) /\ y = NextItem(x)
    <3>1. d = e
      BY <1>9, <2>1, <2>6 DEF IsAncestor
    <3>2. e.cookie + 1 \in 0..T[x.of].depth
      BY <2>3, <2>6 DEF IsAncestor, TableOK
    <3>3. PICK h \in 0..N : h = T[x.of].chain[e.cookie + 1]
      BY <2>3, <3>2 DEF TableOK
    <3>4. U[h] = T[h]
      BY <1>2
    <3>5. IsAncestor(x, U, d)
      BY <2>3, <2>6, <3>1, <3>3, <3>4 DEF IsAncestor, IsTableItem
    <3>. QED
      BY <2>1, <2>2, <2>6, <3>5 DEF ElementOK
  <2>7. CASE IsObject(x, T, s, e) /\ y = NextItem(x)
    <3>1. d = e
      BY <1>9, <2>1, <2>7 DEF IsObject
    <3>2. PICK h \in 1..N : h = get_integer(e.n) /\ s[T[h].at].type = "mark" /\ h \in 1..x.begun
      BY <2>3, <2>7 DEF IsObject
    <3>3. U[h] = T[h] /\ T[h].at \in 1..n
      BY <1>2, <1>6
    <3>4. c[T[h].at] = s[T[h].at]
      BY <1>9, <3>2, <3>3
    <3>5. IsObject(x, U, c, d)
      BY <2>3, <2>7, <3>1, <3>2, <3>3, <3>4 DEF IsObject, IsTableItem
    <3>. QED
      BY <2>1, <2>2, <2>7, <3>5 DEF ElementOK
  <2>8. CASE IsBegin(x, T, N, e, p) /\ y = Place(x.begun + 1, 1, x.begun + 1)
    <3>1. d.type \in {"table", "mark"} /\ SizeOf(d) = SizeOf(e)
      BY <1>9, <2>1, <2>8 DEF IsBegin
    <3>2. U[x.begun + 1] = T[x.begun + 1]
      BY <1>2, <2>3, <2>8 DEF IsBegin
    <3>3. IsBegin(x, U, K, d, p)
      BY <2>3, <2>8, <3>1, <3>2 DEF IsBegin, IsTableItem
    <3>. QED
      BY <2>1, <2>2, <2>8, <3>3 DEF ElementOK
  <2>9. CASE IsEnd(x, T, e) /\ y = Place(L[T[x.of].at].of, L[T[x.of].at].item + 1, x.begun)
    <3>1. d = e
      BY <1>9, <2>1, <2>9, Zenon DEF IsEnd
    <3>2. IsEnd(x, U, d)
      BY <2>3, <2>9, <3>1 DEF IsEnd
    <3>3. T[x.of].at \in 1 .. n + 1
      BY <1>6, <2>3, <2>9 DEF IsEnd
    <3>4. M[U[x.of].at] = L[T[x.of].at]
      BY <1>2, <2>3, <3>3
    <3>. QED
      BY <2>1, <2>2, <2>9, <3>2, <3>4, Zenon DEF ElementOK
  <2>. QED
    BY <2>4, <2>5, <2>6, <2>7, <2>8, <2>9 DEF ElementOK
<1>12. U[0].depth = 0 /\ M[1] = Place(0, 1, 0)
  <2>1. 0 \in 0..N /\ 1 \in 1 .. n + 1
    OBVIOUS
  <2>2. U[0] = T[0] /\ M[1] = L[1]
    BY <1>2, <2>1
  <2>. QED
    BY <1>3, <2>2
<1>13. StoryTo(M, U, K, c, n, N)
  BY <1>7, <1>8, <1>10, <1>11, <1>12 DEF StoryTo
<1>. QED
  BY <1>1, <1>13
\* Places L and y are those of a stream that has one element more.
WithPlace(L, n, y, M) == M[n + 2] = y /\ \A p \in 1 .. n + 1 : M[p] = L[p]

\* The story of a stream with one element more, and one table more or none.
LEMMA StoryAppended ==
  ASSUME NEW L, NEW T, NEW N \in Nat, NEW s \in Seq(Elements), Story(L, T, N, s),
         NEW n \in Nat, n = Len(s), NEW c, Len(c) = n + 1,
         NEW U, NEW K \in N .. N + 1, GoesOn(L, T, N, s, L, U, K, c),
         NEW y, y.begun = K, y.of \in 0..K, y.item \in 1 .. Len(U[y.of].list) + 1,
         NEW x, x = L[n + 1],
         K = N + 1 => TableOK(U, K) /\ U[K].at = n + 1 /\ TagOK(L, U, c, K, n + 1, x.of),
         ElementOK(x, y, L, U, K, c, c[n + 1], n + 1)
  PROVE  \E M : Story(M, U, K, c) /\ WithPlace(L, n, y, M)
<1>1. PICK M : M = [p \in 1 .. n + 2 |-> IF p = n + 2 THEN y ELSE L[p]]
  OBVIOUS
<1>2. M[n + 2] = y /\ \A p \in 1 .. n + 1 : M[p] = L[p]
  BY <1>1
<1>3. K \in Nat /\ N <= K /\ (K = N \/ K = N + 1)
  OBVIOUS
<1>4. GoesOn(L, T, N, s, M, U, K, c)
  BY <1>2 DEF GoesOn
<1>5. StoryTo(M, U, K, c, n, N)
  BY <1>3, <1>4, StoryKept
<1>6. /\ \A m \in 0..N : TableOK(U, m)
      /\ U[0].depth = 0
      /\ \A p \in 1 .. n + 1 : PlaceOK(M, U, K, p)
      /\ \A m \in 1..N : BegunOK(M, U, c, m)
      /\ M[1] = Place(0, 1, 0)
      /\ \A p \in 1..n : ElementOK(M[p], M[p + 1], M, U, K, c, c[p], p)
  BY <1>5 DEF StoryTo
<1>7. \A m \in 0..K : TableOK(U, m)
  <2>1. ASSUME NEW m \in 0..K
        PROVE  m \in 0..N \/ (m = K /\ K = N + 1)
    BY <1>3
  <2>. QED
    BY <1>6, <2>1
<1>8. \A m \in 1..K : BegunOK(M, U, c, m)
  <2>1. ASSUME NEW m \in 1..K
        PROVE  m \in 1..N \/ (m = K /\ K = N + 1)
    BY <1>3
  <2>2. ASSUME K = N + 1
        PROVE  BegunOK(M, U, c, K)
    <3>1. M[n + 1] = x
      BY <1>2
    <3>2. TagOK(M, U, c, K, n + 1, x.of)
      BY <2>2, <3>1 DEF TagOK
    <3>. QED
      BY <2>2, <3>1, <3>2 DEF BegunOK
  <2>. QED
    BY <1>6, <2>1, <2>2
<1>9. \A p \in 1 .. n + 2 : PlaceOK(M, U, K, p)
  <2>1. \A p \in 1 .. n + 2 : p \in 1 .. n + 1 \/ p = n + 2
    OBVIOUS
  <2>2. K \in 0..K
    BY <1>3
  <2>3. PlaceOK(M, U, K, n + 2)
    BY <1>2, <2>2 DEF PlaceOK
  <2>. QED
    BY <1>6, <2>1, <2>3
<1>10. ElementOK(x, y, M, U, K, c, c[n + 1], n + 1)
  <2>1. ASSUME IsEnd(x, U, c[n + 1])
        PROVE  M[U[x.of].at] = L[U[x.of].at]
    <3>1. PlaceOK(L, T, N, n + 1) /\ \A m \in 1..N : BegunOK(L, T, s, m)
      BY DEF Story, StoryTo
    <3>2. x.of \in 1..N
      BY <2>1, <3>1 DEF PlaceOK, IsEnd
    <3>3. T[x.of].at \in 1..n
      BY <3>1, <3>2 DEF BegunOK, TagOK
    <3>4. U[x.of] = T[x.of]
      BY <3>2 DEF GoesOn
    <3>5. PICK q \in 1..n : q = T[x.of].at
      BY <3>3
    <3>6. M[q] = L[q]
      BY <1>2
    <3>. QED
      BY <3>4, <3>5, <3>6
  <2>2. PICK e : e = c[n + 1] /\ ElementOK(x, y, L, U, K, c, e, n + 1)
    OBVIOUS
  <2>3. ElementOK(x, y, M, U, K, c, e, n + 1)
    BY <2>1, <2>2 DEF ElementOK
  <2>. QED
    BY <2>2, <2>3
<1>11. \A p \in 1 .. n + 1 : ElementOK(M[p], M[p + 1], M, U, K, c, c[p], p)
  <2>1. \A p \in 1 .. n + 1 : p \in 1..n \/ p = n + 1
    OBVIOUS
  <2>2. M[n + 1] = x /\ M[n + 1 + 1] = y
    BY <1>2
  <2>3. ElementOK(M[n + 1], M[n + 1 + 1], M, U, K, c, c[n + 1], n + 1)
    BY <1>10, <2>2
  <2>. QED
    BY <1>6, <2>1, <2>3
<1>12. StoryTo(M, U, K, c, n + 1, K)
  <2>1. n + 1 + 1 = n + 2
    OBVIOUS
  <2>. QED
    BY <1>6, <1>7, <1>8, <1>9, <1>11, <2>1 DEF StoryTo
<1>13. M[n + 1 + 1].begun = K
  BY <1>2
<1>14. Story(M, U, K, c)
  BY <1>12, <1>13 DEF Story
<1>. QED
  BY <1>2, <1>14 DEF WithPlace

------------------------------------------------------------------------------
(* What a story says of its tables.                                         *)

\* The k-th table of a chain is in k tables.
ChainOK(T, m) ==
  /\ T[m].depth \in Nat /\ (T[m].depth = 0 <=> m = 0)
  /\ \A k \in 0..T[m].depth :
       T[m].chain[k] \in 0..m /\ T[T[m].chain[k]].depth = k /\ (T[m].chain[k] = 0 <=> k = 0)

\* Table o, of which table m is an item.
InTable(L, T, m, o) ==
  /\ o = L[T[m].at].of /\ o \in 0 .. m - 1 /\ T[o].depth \in Nat /\ T[m].depth = T[o].depth + 1
  /\ \A k \in 0..T[o].depth : T[m].chain[k] = T[o].chain[k]
  /\ T[o].chain[T[o].depth] = o /\ T[m].chain[T[m].depth] = m
  /\ L[T[m].at].item \in 1..Len(T[o].list)
  /\ T[o].list[L[T[m].at].item] = Copy(T[m].table)

\* Every table of a story is an item of one that began before.
LEMMA IsInTable ==
  ASSUME NEW L, NEW T, NEW N \in Nat, NEW s \in Seq(Elements), Story(L, T, N, s),
         NEW m \in 1..N, NEW o, o = L[T[m].at].of
  PROVE  InTable(L, T, m, o) /\ T[m].at \in 1..Len(s) /\ L[T[m].at].begun = m - 1
<1>1. PICK n \in Nat : n = Len(s)
  BY LenProperties
<1>2. PICK at : at = T[m].at
  OBVIOUS
<1>3. TagOK(L, T, s, m, at, o)
  BY <1>2 DEF Story, StoryTo, BegunOK
<1>4. at \in 1..n /\ at \in 1 .. n + 1
  <2>1. at \in 1..Len(s)
    BY <1>3, Zenon DEF TagOK
  <2>. QED
    BY <1>1, <2>1
<1>5. PlaceOK(L, T, N, at)
  BY <1>1, <1>4 DEF Story, StoryTo
<1>6. o \in 0 .. m - 1 /\ o \in 0..N
  <2>1. PICK b : b = L[at].begun /\ b = m - 1
    BY <1>3, Zenon DEF TagOK
  <2>2. o \in 0..b
    BY <1>2, <1>5, <2>1 DEF PlaceOK
  <2>. QED
    BY <2>1, <2>2
<1>7. TableOK(T, o) /\ TableOK(T, m)
  BY <1>6 DEF Story, StoryTo
<1>8. L[at].item \in 1..Len(T[o].list)
  <2>1. L[at].item \in 1 .. Len(T[o].list) + 1 /\ L[at].item <= Len(T[o].list)
    BY <1>2, <1>3, <1>5, Zenon DEF PlaceOK, TagOK
  <2>2. Len(T[o].list) \in Nat
    BY <1>7, LenProperties, Zenon DEF TableOK
  <2>. QED
    BY <2>1, <2>2
<1>9. InTable(L, T, m, o)
  BY <1>2, <1>3, <1>6, <1>7, <1>8, Zenon DEF InTable, TagOK, TableOK
<1>. QED
  BY <1>1, <1>2, <1>3, <1>4, <1>9, Zenon DEF TagOK

\* Where the tag of a table is.
LEMMA TagIs ==
  ASSUME NEW L, NEW T, NEW N \in Nat, NEW s \in Seq(Elements), Story(L, T, N, s), NEW m \in 1..N
  PROVE  T[m].at \in 1..Len(s) /\ L[T[m].at].begun = m - 1
<1>1. PICK o : o = L[T[m].at].of
  OBVIOUS
<1>2. InTable(L, T, m, o) /\ T[m].at \in 1..Len(s) /\ L[T[m].at].begun = m - 1
  BY <1>1, IsInTable
<1>. QED
  BY <1>2

\* Every chain leads from the arguments to its table, one deeper at a time.
LEMMA ChainIs ==
  ASSUME NEW L, NEW T, NEW N \in Nat, NEW s \in Seq(Elements), Story(L, T, N, s), NEW m \in 0..N
  PROVE  ChainOK(T, m)
<1> DEFINE Bad == {j \in 0..N : ~ChainOK(T, j)}
<1>1. ASSUME Bad # {}
      PROVE  FALSE
  <2>1. PICK j \in Bad : \A i \in Bad : j <= i
    <3>1. Bad \in SUBSET Nat
      OBVIOUS
    <3>. QED
      BY <1>1, <3>1, Least
  <2>2. j \in 0..N /\ ~ChainOK(T, j) /\ \A i \in 0 .. j - 1 : ChainOK(T, i)
    <3>1. j \in 0..N /\ ~ChainOK(T, j)
      BY <2>1
    <3>2. ASSUME NEW i \in 0 .. j - 1, ~ChainOK(T, i)
          PROVE  FALSE
      <4>1. i \in Bad /\ i < j
        BY <3>1, <3>2
      <4>. QED
        BY <2>1, <3>1, <4>1
    <3>. QED
      BY <3>1, <3>2
  <2>3. CASE j = 0
    <3>1. T[0].depth = 0 /\ T[0].chain[0] = 0
      BY DEF Story, StoryTo, TableOK
    <3>2. \A k \in 0..0 : k = 0
      OBVIOUS
    <3>3. ChainOK(T, 0)
      BY <3>1, <3>2 DEF ChainOK
    <3>. QED
      BY <2>2, <2>3, <3>3
  <2>4. CASE j \in 1..N
    <3>1. PICK o : InTable(L, T, j, o)
      BY <2>4, IsInTable, Zenon
    <3>2. PICK d \in Nat : d = T[o].depth /\ T[j].depth = d + 1
      BY <3>1, Zenon DEF InTable
    <3>3. o \in 0 .. j - 1 /\ ChainOK(T, o)
      BY <2>2, <3>1, Zenon DEF InTable
    <3>4. ASSUME NEW k \in 0 .. d + 1
          PROVE  T[j].chain[k] \in 0..j /\ T[T[j].chain[k]].depth = k /\ (T[j].chain[k] = 0 <=> k = 0)
      <4>1. CASE k \in 0..d
        <5>1. T[j].chain[k] = T[o].chain[k]
          BY <3>1, <3>2, <4>1, Zenon DEF InTable
        <5>2. /\ T[o].chain[k] \in 0..o /\ T[T[o].chain[k]].depth = k
              /\ (T[o].chain[k] = 0 <=> k = 0)
          BY <3>2, <3>3, <4>1 DEF ChainOK
        <5>3. \A i \in 0..o : i \in 0..j
          BY <2>4, <3>3
        <5>. QED
          BY <5>1, <5>2, <5>3
      <4>2. CASE k = d + 1
        <5>1. T[j].chain[k] = j /\ T[j].depth = k
          BY <3>1, <3>2, <4>2, Zenon DEF InTable
        <5>. QED
          BY <2>4, <3>2, <4>2, <5>1
      <4>. QED
        BY <4>1, <4>2
    <3>5. ChainOK(T, j)
      BY <2>4, <3>2, <3>4 DEF ChainOK
    <3>. QED
      BY <2>2, <3>5
  <2>. QED
    BY <2>2, <2>3, <2>4
<1>. QED
  BY <1>1

------------------------------------------------------------------------------
(* The writer tells the story.                                              *)

\* The next value to write is the item of the stream's last place.
LEMMA NextValue ==
  ASSUME SeriTypeOK, Packing, NEW L, NEW T, NEW N \in Nat, Story(L, T, N, out), WriterIn(L, T),
         NEW x, x = L[Len(out) + 1]
  PROVE  /\ x.item \in 1..Len(T[x.of].list) /\ Value = T[x.of].list[x.item]
         /\ x.of \in 0..N /\ x.begun = N /\ TableOK(T, x.of)
<1>1. PICK n \in Nat : n = Len(path) /\ n = T[x.of].depth
  BY LenProperties, Zenon DEF SeriTypeOK, WriterIn
<1>2. PICK rest : rest = todo[n + 1] /\ rest \in Seq(Values) /\ rest # <<>> /\ Value = Head(rest)
  BY <1>1, RestIs
<1>3. PICK m \in Nat \ {0} : m = Len(rest)
  BY <1>2, EmptySeq, LenProperties
<1>4. Head(rest) = rest[1]
  BY <1>2, HeadTailProperties
<1>5. Len(out) \in Nat
  BY LenProperties DEF SeriTypeOK
<1>6. PlaceOK(L, T, N, Len(out) + 1) /\ x.begun = N
  BY <1>5 DEF Story, StoryTo
<1>7. x.of \in 0..N /\ x.item \in 1 .. Len(T[x.of].list) + 1
  BY <1>6 DEF PlaceOK
<1>8. TableOK(T, x.of)
  BY <1>7 DEF Story, StoryTo
<1>9. PICK list : list = T[x.of].list
  OBVIOUS
<1>10. PICK l \in Nat : list = T[x.of].list /\ l = Len(list)
  BY <1>8, <1>9, LenProperties DEF TableOK
<1>11. Left(rest, list, x.item - 1)
  BY <1>1, <1>2, <1>10, Zenon DEF WriterIn
<1>12. m = l - (x.item - 1) /\ \A j \in 1..m : rest[j] = list[x.item - 1 + j]
  BY <1>3, <1>10, <1>11 DEF Left
<1>13. x.item \in 1..l
  <2>1. PICK i \in 1 .. l + 1 : i = x.item
    BY <1>7, <1>10
  <2>2. m = l - (i - 1)
    BY <1>12, <2>1
  <2>. QED
    BY <2>1, <2>2
<1>14. rest[1] = list[x.item]
  <2>1. 1 \in 1..m /\ x.item - 1 + 1 = x.item
    BY <1>13
  <2>. QED
    BY <1>12, <2>1
<1>. QED
  BY <1>2, <1>4, <1>6, <1>7, <1>8, <1>10, <1>13, <1>14

\* An item less is left.
LEMMA OneLessLeft ==
  ASSUME NEW rest \in Seq(Values), rest # <<>>, NEW list \in Seq(Values), NEW d \in Nat,
         Left(rest, list, d)
  PROVE  Left(Tail(rest), list, d + 1)
<1>1. PICK m \in Nat \ {0} : m = Len(rest)
  BY EmptySeq, LenProperties
<1>2. PICK tail : tail = Tail(rest) /\ Len(tail) = m - 1 /\ \A j \in 1 .. m - 1 : tail[j] = rest[j + 1]
  BY <1>1, HeadTailProperties
<1>3. m = Len(list) - d /\ \A j \in 1..m : rest[j] = list[d + j]
  BY <1>1 DEF Left
<1>4. ASSUME NEW j \in 1 .. m - 1
      PROVE  tail[j] = list[d + 1 + j]
  <2>1. j + 1 \in 1..m /\ d + (j + 1) = d + 1 + j
    OBVIOUS
  <2>. QED
    BY <1>2, <1>3, <2>1
<1>5. Len(list) - (d + 1) = m - 1
  <2>1. Len(list) \in Nat
    BY LenProperties
  <2>. QED
    BY <1>3, <2>1
<1>. QED
  BY <1>2, <1>4, <1>5 DEF Left

\* What the writer's stack is while it writes item i of table cur.
Lists(L, T, cur, d, tables, lists) ==
  /\ Len(tables) = T[cur].depth
  /\ \A k \in 1..T[cur].depth : tables[k] = T[T[cur].chain[k]].table
  /\ Left(lists[T[cur].depth + 1], T[cur].list, d)
  /\ \A k \in 0 .. T[cur].depth - 1 :
       Left(lists[k + 1], T[T[cur].chain[k]].list, Before(L, T, cur, k) + 1)

\* The writer is in the place that the stream has come to.
LEMMA WriterInIs ==
  ASSUME NEW L, NEW T
  PROVE  WriterIn(L, T) <=> Lists(L, T, L[Len(out) + 1].of, L[Len(out) + 1].item - 1, path, todo)
BY DEF WriterIn, Lists

\* The lists of the tables that are open do not depend on what comes later.
LEMMA ListsKept ==
  ASSUME NEW L, NEW T, NEW N \in Nat, NEW s \in Seq(Elements), Story(L, T, N, s),
         NEW M, NEW y, WithPlace(L, Len(s), y, M), NEW cur \in 0..N, NEW U,
         \A m \in 0..N : U[m] = T[m], NEW k \in 0 .. T[cur].depth - 1
  PROVE  Before(M, U, cur, k) = Before(L, T, cur, k) /\ U[U[cur].chain[k]] = T[T[cur].chain[k]]
<1>1. ChainOK(T, cur) /\ U[cur] = T[cur]
  BY ChainIs
<1>2. k \in 0..T[cur].depth /\ k + 1 \in 0..T[cur].depth /\ k + 1 # 0
  BY <1>1 DEF ChainOK
<1>3. PICK h \in 1..N : h = T[cur].chain[k + 1]
  BY <1>1, <1>2 DEF ChainOK
<1>4. T[h].at \in 1..Len(s)
  <2>1. PICK o : o = L[T[h].at].of
    OBVIOUS
  <2>2. InTable(L, T, h, o) /\ T[h].at \in 1..Len(s) /\ L[T[h].at].begun = h - 1
    BY <2>1, IsInTable
  <2>. QED
    BY <2>2
<1>5. PICK n \in Nat : n = Len(s)
  BY LenProperties
<1>6. PICK q \in 1..n : q = T[h].at
  BY <1>4, <1>5
<1>7. M[q] = L[q] /\ U[h] = T[h]
  BY <1>5 DEF WithPlace
<1>8. T[cur].chain[k] \in 0..N
  BY <1>1, <1>2 DEF ChainOK
<1>. QED
  BY <1>1, <1>3, <1>6, <1>7, <1>8 DEF Before

\* The writer goes on behind a value that is no new table.
LEMMA ValueGone ==
  ASSUME SeriTypeOK, Packing, NEW L, NEW T, NEW N \in Nat, Story(L, T, N, out), WriterIn(L, T),
         NEW x, x = L[Len(out) + 1], NEW M, WithPlace(L, Len(out), NextItem(x), M),
         todo' = Rest, path' = path, Len(out') = Len(out) + 1
  PROVE  WriterIn(M, T)'
<1>1. PICK n \in Nat : n = Len(path) /\ n = T[x.of].depth
  BY LenProperties, Zenon DEF SeriTypeOK, WriterIn
<1>2. PICK p \in Nat : p = Len(out)
  BY LenProperties DEF SeriTypeOK
<1>3. PICK lists, rest : lists = todo /\ rest = Rest
  OBVIOUS
<1>4. /\ lists[n + 1] \in Seq(Values) /\ lists[n + 1] # <<>>
      /\ \A k \in 0..n : k # n => rest[k + 1] = lists[k + 1]
      /\ rest[n + 1] = Tail(lists[n + 1])
  BY <1>1, <1>3, RestIs
<1>5. /\ x.item \in 1..Len(T[x.of].list) /\ x.of \in 0..N /\ TableOK(T, x.of)
  BY NextValue
<1>6. Lists(L, T, x.of, x.item - 1, path, lists)
  BY <1>3, WriterInIs
<1>7. x.item - 1 \in Nat /\ x.item - 1 + 1 = x.item
  BY <1>5
<1>8. Left(rest[n + 1], T[x.of].list, x.item)
  <2>1. Left(lists[n + 1], T[x.of].list, x.item - 1) /\ T[x.of].list \in Seq(Values)
    BY <1>1, <1>5, <1>6, Zenon DEF Lists, TableOK
  <2>2. Left(Tail(lists[n + 1]), T[x.of].list, x.item - 1 + 1)
    BY <1>4, <1>7, <2>1, OneLessLeft, Zenon
  <2>. QED
    BY <1>4, <1>7, <2>2
<1>9. ASSUME NEW k \in 0 .. n - 1
      PROVE  Left(rest[k + 1], T[T[x.of].chain[k]].list, Before(M, T, x.of, k) + 1)
  <2>1. k \in 0 .. T[x.of].depth - 1 /\ k \in 0..n /\ k # n
    BY <1>1
  <2>2. Before(M, T, x.of, k) = Before(L, T, x.of, k)
    BY <1>5, <2>1, ListsKept DEF SeriTypeOK
  <2>3. Left(lists[k + 1], T[T[x.of].chain[k]].list, Before(L, T, x.of, k) + 1)
    BY <1>6, <2>1, Zenon DEF Lists
  <2>. QED
    BY <1>4, <2>1, <2>2, <2>3, Zenon
<1>10. Lists(M, T, x.of, x.item, path, rest)
  BY <1>1, <1>6, <1>8, <1>9, Zenon DEF Lists
<1>11. M[p + 1 + 1] = NextItem(x)
  BY <1>2 DEF WithPlace
<1>12. NextItem(x).of = x.of /\ NextItem(x).item - 1 = x.item
  BY <1>5 DEF NextItem, Place
<1>13. todo' = rest /\ path' = path /\ Len(out') = p + 1
  BY <1>2, <1>3
<1>14. Lists(M, T, M[Len(out') + 1].of, M[Len(out') + 1].item - 1, path', todo')
  BY <1>10, <1>11, <1>12, <1>13
<1>. QED
  BY <1>14, Zenon DEF WriterIn, Lists

\* The items of a table stay as long as the heap does.
LEMMA ItemsStay ==
  ASSUME heap' = heap, NEW t
  PROVE  Items(t)' = Items(t) /\ ArraySize(t)' = ArraySize(t)
BY DEF Items, ArraySize, Pairs, Flatten

\* The story's tables stay those of the sender.
LEMMA ToldKept ==
  ASSUME heap' = heap, args' = args, objectid' = objectid, NEW T, Told(T),
         \A u \in Tables : NumbersOf(u)' = NumbersOf(u)
  PROVE  Told(T)'
<1>1. ASSUME NEW m \in 1..objectid
      PROVE  /\ T[m].table \in Tables /\ NumbersOf(T[m].table)' = {m}
             /\ T[m].list = Items(T[m].table)' /\ T[m].size = ArraySize(T[m].table)'
  <2>1. PICK t : t = T[m].table
    OBVIOUS
  <2>2. t \in Tables /\ NumbersOf(t) = {m} /\ T[m].list = Items(t) /\ T[m].size = ArraySize(t)
    BY <2>1 DEF Told
  <2>3. NumbersOf(t)' = {m} /\ T[m].list = Items(t)' /\ T[m].size = ArraySize(t)'
    BY <2>2, ItemsStay
  <2>. QED
    BY <2>1, <2>2, <2>3
<1>. QED
  BY <1>1 DEF Told

\* The story goes on behind an item that is no new table; c is the stream, of which a
\* tag may have been marked.
LEMMA ItemTold ==
  ASSUME SeriTypeOK, Packing, NEW L, NEW T, Story(L, T, objectid, out), Told(T), WriterIn(L, T),
         NEW c \in Seq(Elements), Len(c) = Len(out),
         GoesOn(L, T, objectid, out, L, T, objectid, c),
         NEW e \in Elements, NEW s, s = Append(c, e), out' = s, todo' = Rest, path' = path,
         UNCHANGED <<heap, args, objectid>>, \A u \in Tables : NumbersOf(u)' = NumbersOf(u),
         AddressesOf(T)', NEW x, x = L[Len(out) + 1],
         IsAtom(x, T, e) \/ IsAncestor(x, T, e) \/ IsObject(x, T, s, e)
  PROVE  WriterTells'
<1>1. PICK n \in Nat, N \in Nat : n = Len(out) /\ N = objectid
  BY LenProperties DEF SeriTypeOK
<1>2. PICK old \in Seq(Elements) : old = out
  BY DEF SeriTypeOK
<1>3. /\ Len(s) = n + 1 /\ s[n + 1] = e /\ \A p \in 1..n : s[p] = c[p]
  BY <1>1, AppendProperties
<1>4. GoesOn(L, T, N, old, L, T, N, s)
  BY <1>1, <1>2, <1>3 DEF GoesOn
<1>5. /\ x.item \in 1..Len(T[x.of].list) /\ x.of \in 0..N /\ x.begun = N /\ TableOK(T, x.of)
  BY <1>1, NextValue
<1>6. PICK y : y = NextItem(x)
  OBVIOUS
<1>7. y.begun = N /\ y.of \in 0..N /\ y.item \in 1 .. Len(T[y.of].list) + 1
  <2>1. y.begun = N /\ y.of = x.of /\ y.item = x.item + 1
    BY <1>5, <1>6 DEF NextItem, Place
  <2>2. PICK l \in Nat : l = Len(T[x.of].list)
    BY <1>5, LenProperties DEF TableOK
  <2>3. x.item \in 1..l /\ y.item = x.item + 1
    BY <1>5, <2>1, <2>2
  <2>4. y.item \in 1 .. l + 1
    BY <2>3
  <2>. QED
    BY <1>5, <2>1, <2>2, <2>4
<1>8. ElementOK(x, y, L, T, N, s, e, n + 1)
  BY <1>6 DEF ElementOK
<1>9. PICK M : Story(M, T, N, s) /\ WithPlace(L, n, y, M)
  <2>1. N \in N .. N + 1 /\ N # N + 1
    OBVIOUS
  <2>2. x = L[n + 1] /\ Story(L, T, N, old) /\ n = Len(old)
    BY <1>1, <1>2, Zenon
  <2>3. N = N + 1 => TableOK(T, N) /\ T[N].at = n + 1 /\ TagOK(L, T, s, N, n + 1, x.of)
    BY <2>1
  <2>4. ElementOK(x, y, L, T, N, s, s[n + 1], n + 1) /\ Len(s) = n + 1
    BY <1>3, <1>8, Zenon
  <2>. QED
    BY <1>4, <1>7, <2>1, <2>2, <2>3, <2>4, StoryAppended, Zenon
<1>10. WriterIn(M, T)'
  <2>1. WithPlace(L, Len(out), NextItem(x), M) /\ Len(out') = Len(out) + 1 /\ Story(L, T, N, out)
    BY <1>1, <1>3, <1>6, <1>9
  <2>. QED
    BY <2>1, ValueGone
<1>11. Told(T)'
  BY ToldKept
<1>12. Story(M, T, objectid', out')
  BY <1>1, <1>9
<1>. QED
  BY <1>10, <1>11, <1>12 DEF WriterTells

\* The tags stay when an element is added.
LEMMA AddressesStay ==
  ASSUME SeriTypeOK, NEW L, NEW T, Story(L, T, objectid, out), AddressesOf(T),
         objectid' = objectid, \A m \in 1..objectid : Address(m)' = Address(m),
         NEW e \in Elements, out' = Append(out, e)
  PROVE  AddressesOf(T)'
<1>1. PICK n \in Nat : n = Len(out)
  BY LenProperties DEF SeriTypeOK
<1>2. \A p \in 1..n : out'[p] = out[p]
  BY <1>1, AppendProperties DEF SeriTypeOK
<1>3. ASSUME NEW m \in 1..objectid
      PROVE  \/ Address(m)' = T[m].at /\ out'[T[m].at].type = "table"
             \/ Address(m)' = NoAddress /\ out'[T[m].at].type = "mark"
  <2>1. PICK o : o = L[T[m].at].of
    OBVIOUS
  <2>2. InTable(L, T, m, o) /\ T[m].at \in 1..Len(out) /\ L[T[m].at].begun = m - 1
    BY <2>1, IsInTable DEF SeriTypeOK
  <2>3. out'[T[m].at] = out[T[m].at] /\ Address(m)' = Address(m)
    BY <1>1, <1>2, <2>2
  <2>4. \/ Address(m) = T[m].at /\ out[T[m].at].type = "table"
        \/ Address(m) = NoAddress /\ out[T[m].at].type = "mark"
    BY DEF AddressesOf
  <2>. QED
    BY <2>3, <2>4
<1>. QED
  BY <1>3 DEF AddressesOf

\* What a step that adds one element and no table keeps.
LEMMA ElementTold ==
  ASSUME SeriInv, Packing, NEW L, NEW T, Story(L, T, objectid, out), Told(T), WriterIn(L, T),
         AddressesOf(T), NEW e \in Elements, out' = Append(out, e), todo' = Rest, path' = path,
         UNCHANGED <<heap, args, objectid, r, idOf, addressOf>>,
         NEW x, x = L[Len(out) + 1], IsAtom(x, T, e) \/ IsAncestor(x, T, e)
  PROVE  WriterTells'
<1>1. SeriTypeOK /\ out \in Seq(Elements)
  BY DEF SeriInv, SeriTypeOK
<1>2. \A m \in 1..objectid : Address(m)' = Address(m)
  BY RefsStay DEF SeriInv
<1>3. AddressesOf(T)'
  BY <1>1, <1>2, AddressesStay
<1>4. \A u \in Tables : NumbersOf(u)' = NumbersOf(u)
  BY DEF NumbersOf, InTables
<1>5. GoesOn(L, T, objectid, out, L, T, objectid, out)
  <2>1. Len(out) \in Nat
    BY <1>1, LenProperties
  <2>. QED
    BY <2>1 DEF GoesOn
<1>6. PICK s : s = Append(out, e) /\ out' = s
  OBVIOUS
<1>. QED
  BY <1>1, <1>3, <1>4, <1>5, <1>6, ItemTold

\* A value that is one element.
LEMMA PackValueTells ==
  ASSUME SeriInv, PackValue, WriterTells
  PROVE  WriterTells'
<1>1. PICK L, T : Story(L, T, objectid, out) /\ Told(T) /\ WriterIn(L, T) /\ AddressesOf(T)
  BY DEF WriterTells
<1>2. SeriTypeOK /\ Packing /\ todo' = Rest /\ path' = path /\ out' = Append(out, Value)
  BY DEF SeriInv, PackValue
<1>3. PICK e \in Elements : e = Value /\ e.type \in {"nil", "number", "string"}
  <2>1. Value \in Values /\ Value.type \in {"nil", "number", "string"}
    BY <1>2, RestTyped DEF Packing, PackValue
  <2>2. Value \in Elements
    BY <2>1 DEF Values, Atoms, Elements
  <2>. QED
    BY <2>1, <2>2
<1>4. PICK x : x = L[Len(out) + 1]
  OBVIOUS
<1>5. PICK N \in Nat : N = objectid
  BY <1>2 DEF SeriTypeOK
<1>6. x.item \in 1..Len(T[x.of].list) /\ Value = T[x.of].list[x.item] /\ TableOK(T, x.of)
  BY <1>1, <1>2, <1>4, <1>5, NextValue
<1>7. IsAtom(x, T, e)
  <2>1. Len(T[x.of].list) \in Nat
    BY <1>6, LenProperties DEF TableOK
  <2>. QED
    BY <1>3, <1>6, <2>1 DEF IsAtom
<1>8. UNCHANGED <<heap, args, objectid, r, idOf, addressOf>> /\ out' = Append(out, e)
  BY <1>2, <1>3 DEF PackValue
<1>. QED
  BY <1>1, <1>2, <1>4, <1>7, <1>8, ElementTold

\* A reference to a table that is being written.
LEMMA PackAncestorTells ==
  ASSUME SeriInv, PackAncestor, WriterTells
  PROVE  WriterTells'
<1>1. PICK L, T : Story(L, T, objectid, out) /\ Told(T) /\ WriterIn(L, T) /\ AddressesOf(T)
  BY DEF WriterTells
<1>2. PICK d \in AncestorDepths(Value.v) :
        /\ SeriTypeOK /\ Packing /\ todo' = Rest /\ path' = path
        /\ out' = Append(out, Ref(d, NoNumber)) /\ Value.type = "table"
  BY DEF SeriInv, PackAncestor, IsTable
<1>3. PICK n \in Nat : n = Len(path)
  BY <1>2, LenProperties DEF SeriTypeOK
<1>4. d \in 0 .. n - 1 /\ n < MAX_DEPTH /\ path[d + 1] = Value.v
  BY <1>3, LimitsAssumption DEF AncestorDepths
<1>5. d \in Nat /\ d < MAX_DEPTH /\ d # EXTEND_NUMBER /\ d \in 0 .. MAX_COOKIE - 1
  BY <1>4, LimitsAssumption DEF EXTEND_NUMBER
<1>6. PICK e \in Elements : e = Ref(d, NoNumber) /\ e.type = "ref" /\ e.cookie = d
  <2>1. NoNumber \in Numbers
    BY DEF NoNumber, Numbers
  <2>2. Ref(d, NoNumber) \in Elements
    BY <1>5, <2>1 DEF Ref, Elements, Tags
  <2>. QED
    BY <2>2 DEF Ref
<1>7. PICK x : x = L[Len(out) + 1]
  OBVIOUS
<1>8. PICK N \in Nat : N = objectid
  BY <1>2 DEF SeriTypeOK
<1>9. x.item \in 1..Len(T[x.of].list) /\ Value = T[x.of].list[x.item] /\ TableOK(T, x.of)
  BY <1>1, <1>2, <1>7, <1>8, NextValue
<1>10. Value = Copy(Value.v)
  <2>1. Value \in Values
    BY <1>2, RestTyped DEF Packing
  <2>. QED
    BY <1>2, <2>1 DEF Values, Atoms, Copy
<1>11. IsAncestor(x, T, e)
  <2>1. Len(T[x.of].list) \in Nat
    BY <1>9, LenProperties DEF TableOK
  <2>2. IsTableItem(x, T)
    BY <1>2, <1>9, <2>1 DEF IsTableItem
  <2>3. T[x.of].depth = n /\ \A k \in 1..n : path[k] = T[T[x.of].chain[k]].table
    BY <1>1, <1>3, <1>7, Zenon DEF WriterIn
  <2>4. path[d + 1] = T[T[x.of].chain[d + 1]].table /\ d < n
    BY <1>4, <2>3
  <2>. QED
    BY <1>4, <1>5, <1>6, <1>9, <1>10, <2>2, <2>3, <2>4 DEF IsAncestor
<1>12. UNCHANGED <<heap, args, objectid, r, idOf, addressOf>> /\ out' = Append(out, e)
  BY <1>2, <1>6 DEF PackAncestor
<1>. QED
  BY <1>1, <1>2, <1>7, <1>11, <1>12, ElementTold

\* What is read of a number is what was written.
LEMMA NumberReadBack ==
  ASSUME NEW id \in Nat
  PROVE  get_integer(wb_integer(id)) = id
<1>1. CASE id = 0
  BY <1>1 DEF get_integer, wb_integer
<1>2. CASE id # 0 /\ id < 256
  <2>1. id % 256 = id
    BY <1>2
  <2>. QED
    BY <1>2, <2>1 DEF get_integer, wb_integer
<1>3. CASE id >= 256 /\ id < 65536
  <2>1. id % 65536 = id
    BY <1>3
  <2>2. id # 0 /\ ~(id < 256)
    BY <1>3
  <2>. QED
    BY <1>3, <2>1, <2>2 DEF get_integer, wb_integer
<1>4. CASE id >= 65536
  <2>1. id # 0 /\ ~(id < 256) /\ ~(id < 65536)
    BY <1>4
  <2>. QED
    BY <2>1 DEF get_integer, wb_integer
<1>. QED
  BY <1>1, <1>2, <1>3, <1>4

\* A reference to a table's number: its tag is marked.
LEMMA PackObjectTells ==
  ASSUME SeriInv, PackObject, WriterTells
  PROVE  WriterTells'
<1>1. PICK L, T : Story(L, T, objectid, out) /\ Told(T) /\ WriterIn(L, T) /\ AddressesOf(T)
  BY DEF WriterTells
<1>2. PICK id \in NumbersOf(Value.v) :
        /\ SeriTypeOK /\ Packing /\ todo' = Rest /\ path' = path /\ Value.type = "table"
        /\ out' = Append(change_mark(id), Ref(EXTEND_NUMBER, wb_integer(id))) /\ Forget(id)
        /\ UNCHANGED <<heap, args, objectid, idOf>>
  BY DEF SeriInv, PackObject, IsTable
<1>3. Value.v \in Tables
  <2>1. Value \in Values /\ Value.type = "table"
    BY <1>2, RestTyped DEF Packing
  <2>. QED
    BY <2>1 DEF Values, Atoms
<1>4. PICK N \in Nat : N = objectid
  BY <1>2 DEF SeriTypeOK
<1>5. id \in 1..N /\ id \in Nat
  BY <1>2, <1>3, <1>4 DEF SeriInv, NumbersInv
<1>6. PICK n \in Nat : n = Len(out)
  BY <1>2, LenProperties DEF SeriTypeOK
<1>7. PICK at : at = T[id].at
  OBVIOUS
<1>8. at \in 1..n
  <2>1. Story(L, T, N, out) /\ out \in Seq(Elements)
    BY <1>1, <1>2, <1>4 DEF SeriTypeOK
  <2>. QED
    BY <1>5, <1>6, <1>7, <2>1, TagIs
<1>9. \/ Address(id) = at /\ out[at].type = "table"
      \/ Address(id) = NoAddress /\ out[at].type = "mark"
  BY <1>1, <1>4, <1>5, <1>7 DEF AddressesOf
<1>10. PICK c \in Seq(Elements) :
         /\ c = change_mark(id) /\ Len(c) = n /\ c[at].type = "mark"
         /\ \A p \in 1..n : p # at => c[p] = out[p]
         /\ c[at] = out[at] \/ (out[at].type = "table" /\ c[at] = [out[at] EXCEPT !.type = "mark"])
  <2>1. out \in Seq(Elements)
    BY <1>2 DEF SeriTypeOK
  <2>2. CASE Address(id) = NoAddress
    <3>1. out[at].type = "mark"
      BY <1>8, <1>9, <2>2 DEF NoAddress
    <3>2. change_mark(id) = out
      BY <2>2 DEF change_mark
    <3>. QED
      BY <1>6, <2>1, <3>1, <3>2
  <2>3. CASE Address(id) # NoAddress
    <3>1. Address(id) = at /\ out[at].type = "table"
      BY <1>9, <2>3
    <3>2. out[at] \in Elements
      BY <1>6, <1>8, <2>1, ElementOfSeq
    <3>3. out[at] \in Tags
      BY <3>1, <3>2 DEF Elements, Atoms
    <3>4. PICK e : e = [out[at] EXCEPT !.type = "mark"]
      OBVIOUS
    <3>5. e \in Elements /\ e.type = "mark"
      BY <3>3, <3>4 DEF Elements, Tags
    <3>6. change_mark(id) = [out EXCEPT ![at] = e]
      BY <2>3, <3>1, <3>4 DEF change_mark
    <3>7. /\ [out EXCEPT ![at] = e] \in Seq(Elements) /\ Len([out EXCEPT ![at] = e]) = Len(out)
          /\ \A p \in 1..Len(out) : [out EXCEPT ![at] = e][p] = IF p = at THEN e ELSE out[p]
      BY <1>6, <1>8, <2>1, <3>5, ExceptSeq
    <3>8. PICK c : c = change_mark(id)
      OBVIOUS
    <3>9. /\ c \in Seq(Elements) /\ Len(c) = Len(out)
          /\ \A p \in 1..Len(out) : c[p] = IF p = at THEN e ELSE out[p]
      BY <3>6, <3>7, <3>8
    <3>10. /\ c \in Seq(Elements) /\ Len(c) = n /\ c[at] = e
           /\ \A p \in 1..n : p # at => c[p] = out[p]
      BY <1>6, <1>8, <3>9
    <3>. QED
      BY <3>1, <3>4, <3>5, <3>8, <3>10, Zenon
  <2>. QED
    BY <2>2, <2>3
<1>11. PICK e \in Elements :
         /\ e = Ref(EXTEND_NUMBER, wb_integer(id)) /\ e.type = "ref"
         /\ e.cookie = EXTEND_NUMBER /\ e.n = wb_integer(id)
  <2>1. wb_integer(id) \in Numbers
    BY <1>5, NumberFollows
  <2>2. EXTEND_NUMBER \in 0 .. MAX_COOKIE - 1
    BY LimitsAssumption DEF EXTEND_NUMBER
  <2>3. Ref(EXTEND_NUMBER, wb_integer(id)) \in Elements
    BY <2>1, <2>2 DEF Ref, Tags, Elements
  <2>. QED
    BY <2>3 DEF Ref
<1>12. PICK s : s = Append(c, e)
  OBVIOUS
<1>13. out' = s /\ Len(s) = n + 1 /\ \A p \in 1..n : s[p] = c[p]
  BY <1>2, <1>10, <1>11, <1>12, AppendProperties
<1>14. GoesOn(L, T, N, out, L, T, N, c)
  BY <1>6, <1>10 DEF GoesOn
<1>15. Forgets(id)
  BY <1>2, <1>4, <1>5, Forgotten DEF SeriInv
<1>16. AddressesOf(T)'
  <2>1. ASSUME NEW m \in 1..N
        PROVE  \/ Address(m)' = T[m].at /\ s[T[m].at].type = "table"
               \/ Address(m)' = NoAddress /\ s[T[m].at].type = "mark"
    <3>1. CASE m = id
      BY <1>4, <1>7, <1>8, <1>10, <1>13, <1>15, <3>1 DEF Forgets
    <3>2. CASE m # id
      <4>1. Story(L, T, N, out) /\ out \in Seq(Elements)
        BY <1>1, <1>2, <1>4 DEF SeriTypeOK
      <4>2. T[m].at \in 1..Len(out) /\ L[T[m].at].begun = m - 1
        BY <4>1, TagIs
      <4>3. L[at].begun = id - 1
        BY <1>5, <1>7, <4>1, TagIs
      <4>4. T[m].at # at
        BY <1>5, <3>2, <4>2, <4>3
      <4>5. s[T[m].at] = out[T[m].at]
        BY <1>6, <1>10, <1>13, <4>2, <4>4
      <4>6. \/ Address(m) = T[m].at /\ out[T[m].at].type = "table"
            \/ Address(m) = NoAddress /\ out[T[m].at].type = "mark"
        BY <1>1, <1>4 DEF AddressesOf
      <4>7. Address(m)' = Address(m)
        BY <1>4, <1>15, <3>2 DEF Forgets
      <4>. QED
        BY <4>5, <4>6, <4>7
    <3>. QED
      BY <3>1, <3>2
  <2>2. objectid' = N /\ out' = s
    BY <1>2, <1>4, <1>13
  <2>. QED
    BY <2>1, <2>2 DEF AddressesOf
<1>17. PICK x : x = L[Len(out) + 1]
  OBVIOUS
<1>18. /\ x.item \in 1..Len(T[x.of].list) /\ Value = T[x.of].list[x.item] /\ TableOK(T, x.of)
       /\ x.begun = N
  BY <1>1, <1>2, <1>4, <1>17, NextValue
<1>19. IsObject(x, T, s, e)
  <2>1. Len(T[x.of].list) \in Nat
    BY <1>18, LenProperties DEF TableOK
  <2>2. IsTableItem(x, T)
    BY <1>2, <1>18, <2>1 DEF IsTableItem
  <2>3. get_integer(e.n) = id
    BY <1>5, <1>11, NumberReadBack
  <2>4. s[T[id].at].type = "mark"
    BY <1>7, <1>8, <1>10, <1>13
  <2>. QED
    BY <1>5, <1>11, <1>18, <2>2, <2>3, <2>4 DEF IsObject
<1>20. \A u \in Tables : NumbersOf(u)' = NumbersOf(u)
  BY <1>15 DEF Forgets
<1>21. UNCHANGED <<heap, args, objectid>> /\ Len(c) = Len(out)
  BY <1>2, <1>6, <1>10
<1>. QED
  BY <1>1, <1>2, <1>4, <1>12, <1>13, <1>14, <1>16, <1>17, <1>19, <1>20, <1>21, ItemTold

\* U has one table more, an item of table o.
NewTable(T, U, N, o, t, items, size, at) ==
  /\ \A m \in 0..N : U[m] = T[m]
  /\ U[N + 1].table = t /\ U[N + 1].list = items /\ U[N + 1].size = size /\ U[N + 1].at = at
  /\ U[N + 1].depth = T[o].depth + 1 /\ U[N + 1].chain[T[o].depth + 1] = N + 1
  /\ \A k \in 0..T[o].depth : U[N + 1].chain[k] = T[o].chain[k]

\* The story goes on with a new table.
LEMMA TableTold ==
  ASSUME NEW L, NEW T, NEW N \in Nat, NEW s \in Seq(Elements), Story(L, T, N, s),
         NEW n \in Nat, n = Len(s), NEW x, x = L[n + 1], IsTableItem(x, T),
         NEW t, T[x.of].list[x.item] = Copy(t), NEW items, NEW size, Proper(items, size),
         NEW e \in Elements, e.type = "table", SizeOf(e) = size, NEW c, c = Append(s, e)
  PROVE  \E U, M : /\ NewTable(T, U, N, x.of, t, items, size, n + 1) /\ Story(M, U, N + 1, c)
                   /\ WithPlace(L, n, Place(N + 1, 1, N + 1), M)
<1>1. PlaceOK(L, T, N, n + 1) /\ x.begun = N
  BY DEF Story, StoryTo
<1>2. x.of \in 0..N /\ N \in 0..N
  BY <1>1 DEF PlaceOK
<1>3. TableOK(T, x.of) /\ ChainOK(T, x.of)
  BY <1>2, ChainIs DEF Story, StoryTo
<1>4. PICK d \in Nat : d = T[x.of].depth
  BY <1>3 DEF TableOK
<1>5. PICK chain : chain = [k \in 0 .. d + 1 |-> IF k = d + 1 THEN N + 1 ELSE T[x.of].chain[k]]
  OBVIOUS
<1>6. PICK new : new = [table |-> t, list |-> items, size |-> size, at |-> n + 1,
                        depth |-> d + 1, chain |-> chain]
  OBVIOUS
<1>7. PICK U : U = [m \in 0 .. N + 1 |-> IF m = N + 1 THEN new ELSE T[m]]
  OBVIOUS
<1>8. U[N + 1] = new /\ \A m \in 0..N : U[m] = T[m]
  BY <1>7
<1>9. chain[d + 1] = N + 1 /\ \A k \in 0..d : chain[k] = T[x.of].chain[k]
  BY <1>5
<1>10. NewTable(T, U, N, x.of, t, items, size, n + 1)
  BY <1>4, <1>6, <1>8, <1>9 DEF NewTable
<1>11. TableOK(U, N + 1)
  <2>1. items \in Seq(Values)
    BY DEF Proper
  <2>2. chain[0] = 0
    BY <1>3, <1>4, <1>9 DEF TableOK
  <2>3. \A k \in 0 .. d + 1 : chain[k] \in 0 .. N + 1
    <3>1. ASSUME NEW k \in 0..d
          PROVE  chain[k] \in 0 .. N + 1
      <4>1. T[x.of].chain[k] \in 0..x.of
        BY <1>3, <1>4 DEF TableOK
      <4>. QED
        BY <1>2, <1>9, <4>1
    <3>2. \A k \in 0 .. d + 1 : k \in 0..d \/ k = d + 1
      OBVIOUS
    <3>. QED
      BY <1>9, <3>1, <3>2
  <2>. QED
    BY <1>6, <1>8, <1>9, <2>1, <2>2, <2>3 DEF TableOK
<1>12. Len(c) = n + 1 /\ c[n + 1] = e /\ \A p \in 1..n : c[p] = s[p]
  BY AppendProperties
<1>13. GoesOn(L, T, N, s, L, U, N + 1, c)
  BY <1>8, <1>12 DEF GoesOn
<1>14. U[x.of] = T[x.of]
  BY <1>2, <1>8
<1>15. TagOK(L, U, c, N + 1, n + 1, x.of)
  <2>1. n + 1 \in 1..Len(c) /\ c[n + 1].type \in {"table", "mark"}
    BY <1>12
  <2>2. x.begun = N + 1 - 1 /\ x = L[n + 1]
    BY <1>1
  <2>3. new.depth = U[x.of].depth + 1 /\ \A k \in 0..U[x.of].depth : new.chain[k] = U[x.of].chain[k]
    BY <1>4, <1>6, <1>9, <1>14
  <2>4. Proper(new.list, new.size)
    BY <1>6
  <2>5. x.item <= Len(U[x.of].list) /\ U[x.of].list[x.item] = Copy(new.table)
    BY <1>6, <1>14 DEF IsTableItem
  <2>. QED
    BY <1>8, <2>1, <2>2, <2>3, <2>4, <2>5 DEF TagOK
<1>16. PICK y : y = Place(N + 1, 1, N + 1)
  OBVIOUS
<1>17. y.begun = N + 1 /\ y.of \in 0 .. N + 1 /\ y.item \in 1 .. Len(U[y.of].list) + 1
  <2>1. y.begun = N + 1 /\ y.of = N + 1 /\ y.item = 1
    BY <1>16 DEF Place
  <2>2. Len(U[N + 1].list) \in Nat
    BY <1>11, LenProperties DEF TableOK
  <2>. QED
    BY <2>1, <2>2
<1>18. ElementOK(x, y, L, U, N + 1, c, e, n + 1)
  <2>1. IsTableItem(x, U)
    BY <1>14 DEF IsTableItem
  <2>2. x.begun + 1 = N + 1
    BY <1>1
  <2>3. IsBegin(x, U, N + 1, e, n + 1)
    BY <1>6, <1>8, <2>1, <2>2 DEF IsBegin
  <2>. QED
    BY <1>16, <2>2, <2>3 DEF ElementOK
<1>19. PICK K : K = N + 1 /\ K \in N .. N + 1
  OBVIOUS
<1>20. \E M : Story(M, U, K, c) /\ WithPlace(L, n, y, M)
  <2>1. U[K].at = n + 1
    BY <1>6, <1>8, <1>19
  <2>2. TableOK(U, K) /\ TagOK(L, U, c, K, n + 1, x.of) /\ GoesOn(L, T, N, s, L, U, K, c)
    BY <1>11, <1>13, <1>15, <1>19
  <2>3. ElementOK(x, y, L, U, K, c, c[n + 1], n + 1)
    BY <1>12, <1>18, <1>19
  <2>4. y.begun = K /\ y.of \in 0..K /\ y.item \in 1 .. Len(U[y.of].list) + 1 /\ Len(c) = n + 1
    BY <1>12, <1>17, <1>19
  <2>. QED
    BY <1>19, <2>1, <2>2, <2>3, <2>4, StoryAppended
<1>. QED
  BY <1>10, <1>16, <1>19, <1>20

\* A new table: its tag says how many of its items are the array.
LEMMA PackTableTells ==
  ASSUME SeriInv, PackTable, WriterTells, ~TableKeys
  PROVE  WriterTells'
<1>1. PICK L, T : Story(L, T, objectid, out) /\ Told(T) /\ WriterIn(L, T) /\ AddressesOf(T)
  BY DEF WriterTells
<1>2. SeriTypeOK /\ Packing /\ Value.type = "table"
  BY DEF SeriInv, PackTable, IsTable
<1>3. PICK N \in Nat : N = objectid
  BY <1>2 DEF SeriTypeOK
<1>4. PICK n \in Nat : n = Len(out)
  BY <1>2, LenProperties DEF SeriTypeOK
<1>5. PICK s \in Seq(Elements) : s = out
  BY <1>2 DEF SeriTypeOK
<1>6. PICK t \in Tables : t = Value.v /\ Value = Copy(t)
  <2>1. Value \in Values
    BY <1>2, RestTyped DEF Packing
  <2>. QED
    BY <1>2, <2>1 DEF Values, Atoms, Copy
<1>7. PICK items \in Seq(Values), size \in Nat :
        items = Items(t) /\ size = ArraySize(t) /\ Proper(items, size)
  <2>1. heap \in Heaps
    BY <1>2 DEF SeriTypeOK
  <2>. QED
    BY <2>1, ContentsTyped, ItemsTyped, ItemsProper
<1>8. PICK e \in Elements : e = TableTag(size) /\ e.type = "table" /\ SizeOf(e) = size
  <2>1. TableTag(size) \in Elements
    BY TagTyped DEF Elements
  <2>. QED
    BY <2>1, TagTyped, SizeReadBack
<1>9. NumbersOf(t) = {} /\ mark_table(t) /\ UNCHANGED <<heap, args>>
  BY <1>6 DEF PackTable
<1>10. out' = Append(out, e) /\ todo' = Append(Rest, items) /\ path' = Append(path, t)
  BY <1>6, <1>7, <1>8 DEF PackTable
<1>11. Marks(t)
  BY <1>9, MarkTable DEF SeriInv
<1>12. PICK x : x = L[n + 1]
  OBVIOUS
<1>13. /\ x.item \in 1..Len(T[x.of].list) /\ Value = T[x.of].list[x.item]
       /\ x.of \in 0..N /\ TableOK(T, x.of)
  <2>1. Story(L, T, N, out) /\ WriterIn(L, T) /\ x = L[Len(out) + 1]
    BY <1>1, <1>3, <1>4, <1>12
  <2>. QED
    BY <1>2, <2>1, NextValue
<1>14. IsTableItem(x, T)
  <2>1. Len(T[x.of].list) \in Nat
    BY <1>13, LenProperties DEF TableOK
  <2>. QED
    BY <1>2, <1>13, <2>1 DEF IsTableItem
<1>15. Story(L, T, N, s) /\ n = Len(s) /\ T[x.of].list[x.item] = Copy(t)
  BY <1>1, <1>3, <1>4, <1>5, <1>6, <1>13
<1>16. PICK c : c = Append(s, e)
  OBVIOUS
<1>17. PICK U, M : /\ NewTable(T, U, N, x.of, t, items, size, n + 1) /\ Story(M, U, N + 1, c)
                   /\ WithPlace(L, n, Place(N + 1, 1, N + 1), M)
  <2>1. Proper(items, size) /\ e.type = "table" /\ SizeOf(e) = size
    BY <1>7, <1>8
  <2>. QED
    BY <1>12, <1>14, <1>15, <1>16, <2>1, TableTold
<1>18. PICK K \in Nat : K = N + 1
  OBVIOUS
<1>19. /\ \A m \in 0..N : U[m] = T[m]
       /\ U[K].table = t /\ U[K].list = items /\ U[K].size = size /\ U[K].at = n + 1
       /\ U[K].depth = T[x.of].depth + 1 /\ U[K].chain[T[x.of].depth + 1] = K
       /\ \A k \in 0..T[x.of].depth : U[K].chain[k] = T[x.of].chain[k]
  BY <1>17, <1>18 DEF NewTable
<1>20. /\ objectid' = K /\ \A u \in Tables : NumbersOf(u)' = IF u = t THEN {K} ELSE NumbersOf(u)
       /\ \A m \in 1..N : Address(m)' = Address(m)
       /\ Address(objectid)' = n + 1
  BY <1>3, <1>4, <1>11, <1>18 DEF Marks
<1>21. \A m \in 1..K : m \in 1..N \/ m = K
  BY <1>18
<1>22. Told(U)'
  <2>1. U[0].list = args
    <3>1. 0 \in 0..N
      OBVIOUS
    <3>. QED
      BY <1>1, <1>19, <3>1 DEF Told
  <2>2. ASSUME NEW m \in 1..N
        PROVE  /\ U[m].table \in Tables /\ NumbersOf(U[m].table)' = {m}
               /\ U[m].list = Items(U[m].table)' /\ U[m].size = ArraySize(U[m].table)'
    <3>1. PICK u : u = T[m].table
      OBVIOUS
    <3>2. u \in Tables /\ NumbersOf(u) = {m} /\ T[m].list = Items(u) /\ T[m].size = ArraySize(u)
      BY <1>1, <1>3, <3>1 DEF Told
    <3>3. U[m] = T[m] /\ u # t
      <4>1. m \in 0..N /\ m \in NumbersOf(u)
        BY <3>2
      <4>. QED
        BY <1>9, <1>19, <4>1
    <3>4. NumbersOf(u)' = {m} /\ T[m].list = Items(u)' /\ T[m].size = ArraySize(u)'
      BY <1>9, <1>20, <3>2, <3>3, ItemsStay
    <3>. QED
      BY <3>1, <3>2, <3>3, <3>4
  <2>3. /\ U[K].table \in Tables /\ NumbersOf(U[K].table)' = {K}
        /\ U[K].list = Items(U[K].table)' /\ U[K].size = ArraySize(U[K].table)'
    <3>1. NumbersOf(t)' = {K} /\ items = Items(t)' /\ size = ArraySize(t)'
      BY <1>7, <1>9, <1>20, ItemsStay
    <3>. QED
      BY <1>19, <3>1
  <2>. QED
    BY <1>9, <1>20, <1>21, <2>1, <2>2, <2>3 DEF Told
<1>23. Len(c) = n + 1 /\ c[n + 1] = e /\ (\A p \in 1..n : c[p] = s[p]) /\ out' = c
  BY <1>5, <1>10, <1>15, <1>16, AppendProperties
<1>24. AddressesOf(U)'
  <2>1. ASSUME NEW m \in 1..N
        PROVE  \/ Address(m)' = U[m].at /\ c[U[m].at].type = "table"
               \/ Address(m)' = NoAddress /\ c[U[m].at].type = "mark"
    <3>1. T[m].at \in 1..n /\ U[m] = T[m]
      <4>1. T[m].at \in 1..Len(s) /\ L[T[m].at].begun = m - 1
        BY <1>15, TagIs
      <4>2. T[m].at \in 1..Len(s) /\ m \in 0..N
        BY <4>1
      <4>. QED
        BY <1>15, <1>19, <4>2
    <3>2. \/ Address(m) = T[m].at /\ out[T[m].at].type = "table"
          \/ Address(m) = NoAddress /\ out[T[m].at].type = "mark"
      BY <1>1, <1>3 DEF AddressesOf
    <3>. QED
      BY <1>5, <1>20, <1>23, <3>1, <3>2
  <2>2. Address(objectid)' = U[K].at /\ c[U[K].at].type = "table"
    BY <1>8, <1>19, <1>20, <1>23
  <2>3. ASSUME NEW m \in 1..objectid'
        PROVE  \/ Address(m)' = U[m].at /\ c[U[m].at].type = "table"
               \/ Address(m)' = NoAddress /\ c[U[m].at].type = "mark"
    <3>1. CASE m \in 1..N
      BY <2>1, <3>1
    <3>2. CASE m = objectid'
      <4>1. Address(m)' = n + 1
        BY <1>20, <3>2 DEF Address, InTables
      <4>. QED
        BY <1>8, <1>19, <1>20, <1>23, <3>2, <4>1
    <3>. QED
      BY <1>20, <1>21, <3>1, <3>2
  <2>. QED
    BY <1>23, <2>3 DEF AddressesOf
<1>25. WriterIn(M, U)'
  <2>1. PICK d \in Nat : d = Len(path) /\ d = T[x.of].depth
    BY <1>1, <1>2, <1>4, <1>12, LenProperties, Zenon DEF SeriTypeOK, WriterIn
  <2>2. PICK lists, rest : lists = todo /\ rest = Rest
    OBVIOUS
  <2>3. /\ lists[d + 1] \in Seq(Values) /\ lists[d + 1] # <<>>
        /\ \A k \in 0..d : k # d => rest[k + 1] = lists[k + 1]
        /\ rest[d + 1] = Tail(lists[d + 1])
        /\ rest \in Seq(Seq(Values)) /\ Len(rest) = d + 1
    BY <1>2, <2>1, <2>2, RestIs
  <2>4. PICK tables, new : tables = Append(path, t) /\ new = Append(rest, items)
    OBVIOUS
  <2>5. Len(tables) = d + 1 /\ tables[d + 1] = t /\ \A k \in 1..d : tables[k] = path[k]
    <3>1. path \in Seq(Tables)
      BY <1>2 DEF SeriTypeOK
    <3>2. /\ Len(Append(path, t)) = Len(path) + 1 /\ Append(path, t)[Len(path) + 1] = t
          /\ \A k \in 1..Len(path) : Append(path, t)[k] = path[k]
      BY <1>6, <3>1, AppendProperties
    <3>. QED
      BY <2>1, <2>4, <3>2
  <2>6. new[d + 2] = items /\ \A k \in 0..d : new[k + 1] = rest[k + 1]
    <3>1. /\ \A k \in 1 .. d + 1 : new[k] = rest[k]
          /\ new[d + 1 + 1] = items
      BY <2>3, <2>4, AppendProperties
    <3>2. d + 1 + 1 = d + 2 /\ \A k \in 0..d : k + 1 \in 1 .. d + 1
      OBVIOUS
    <3>. QED
      BY <3>1, <3>2
  <2>7. Lists(L, T, x.of, x.item - 1, path, lists)
    BY <1>1, <1>4, <1>12, <2>2, WriterInIs
  <2>8. U[K].depth = d + 1 /\ U[K].chain[d + 1] = K /\ \A k \in 0..d : U[K].chain[k] = T[x.of].chain[k]
    BY <1>19, <2>1
  <2>9. ChainOK(T, x.of) /\ T[x.of].chain[d] = x.of
    BY <1>13, <1>15, <2>1, ChainIs DEF TableOK
  <2>10. ASSUME NEW k \in 0..d
         PROVE  T[x.of].chain[k] \in 0..N /\ U[U[K].chain[k]] = T[T[x.of].chain[k]]
    <3>1. T[x.of].chain[k] \in 0..x.of
      BY <2>1, <2>9 DEF ChainOK
    <3>2. T[x.of].chain[k] \in 0..N
      BY <1>13, <3>1
    <3>. QED
      BY <1>19, <2>8, <3>2
  <2>11. ASSUME NEW k \in 1 .. d + 1
         PROVE  tables[k] = U[U[K].chain[k]].table
    <3>1. CASE k \in 1..d
      <4>1. path[k] = T[T[x.of].chain[k]].table
        BY <2>1, <2>7, <3>1 DEF Lists
      <4>2. k \in 0..d
        BY <3>1
      <4>. QED
        BY <2>5, <2>10, <3>1, <4>1, <4>2
    <3>2. CASE k = d + 1
      BY <1>19, <2>5, <2>8, <3>2
    <3>. QED
      BY <3>1, <3>2
  <2>12. Left(new[d + 1 + 1], U[K].list, 0)
    <3>1. Len(items) \in Nat
      BY LenProperties
    <3>2. Left(items, items, 0)
      BY <3>1 DEF Left
    <3>. QED
      BY <1>19, <2>6, <3>2
  <2>13. ASSUME NEW k \in 0..d
         PROVE  Left(new[k + 1], U[U[K].chain[k]].list, Before(M, U, K, k) + 1)
    <3>1. CASE k = d
      <4>1. Before(M, U, K, k) = x.item - 1
        <5>1. M[n + 1] = L[n + 1]
          BY <1>17 DEF WithPlace
        <5>. QED
          BY <1>12, <1>19, <2>8, <3>1, <5>1 DEF Before
      <4>2. Left(lists[d + 1], T[x.of].list, x.item - 1) /\ T[x.of].list \in Seq(Values)
        BY <1>13, <2>1, <2>7 DEF Lists, TableOK
      <4>3. x.item - 1 \in Nat
        BY <1>13
      <4>4. Left(rest[d + 1], T[x.of].list, x.item - 1 + 1)
        BY <2>3, <4>2, <4>3, OneLessLeft
      <4>. QED
        BY <2>6, <2>9, <2>10, <3>1, <4>1, <4>4
    <3>2. CASE k # d
      <4>1. k \in 0 .. T[x.of].depth - 1 /\ k + 1 \in 0..d
        BY <2>1, <3>2
      <4>2. Before(M, U, x.of, k) = Before(L, T, x.of, k)
        BY <1>13, <1>15, <1>17, <1>19, <4>1, ListsKept
      <4>3. Before(M, U, K, k) = Before(M, U, x.of, k)
        BY <1>13, <1>19, <2>8, <4>1 DEF Before
      <4>4. Left(lists[k + 1], T[T[x.of].chain[k]].list, Before(L, T, x.of, k) + 1)
        BY <2>7, <4>1 DEF Lists
      <4>. QED
        BY <2>3, <2>6, <2>10, <3>2, <4>2, <4>3, <4>4
    <3>. QED
      BY <3>1, <3>2
  <2>14. Lists(M, U, K, 0, tables, new)
    <3>1. \A k \in 0 .. d + 1 - 1 : k \in 0..d
      OBVIOUS
    <3>2. PICK D \in Nat : D = d + 1 /\ U[K].depth = D
      BY <2>8
    <3>3. \A k \in 1..D : tables[k] = U[U[K].chain[k]].table
      BY <2>11, <3>2
    <3>4. \A k \in 0 .. D - 1 : Left(new[k + 1], U[U[K].chain[k]].list, Before(M, U, K, k) + 1)
      BY <2>13, <3>1, <3>2
    <3>5. Len(tables) = D /\ Left(new[D + 1], U[K].list, 0)
      BY <2>5, <2>12, <3>2
    <3>. QED
      BY <3>2, <3>3, <3>4, <3>5 DEF Lists
  <2>15. M[n + 1 + 1] = Place(N + 1, 1, N + 1)
    BY <1>17 DEF WithPlace
  <2>16. M[n + 1 + 1].of = K /\ M[n + 1 + 1].item - 1 = 0
    BY <1>18, <2>15 DEF Place
  <2>17. Lists(M, U, M[Len(out') + 1].of, M[Len(out') + 1].item - 1, path', todo')
    BY <1>10, <1>23, <2>2, <2>4, <2>14, <2>16
  <2>. QED
    BY <2>17, Zenon DEF WriterIn, Lists
<1>26. Story(M, U, objectid', out')
  BY <1>17, <1>18, <1>20, <1>23
<1>. QED
  BY <1>22, <1>24, <1>25, <1>26 DEF WriterTells

\* The nil behind the last item: the writer goes on behind the table.
LEMMA PackEndTells ==
  ASSUME SeriInv, PackEnd, WriterTells
  PROVE  WriterTells'
<1>1. PICK L, T : Story(L, T, objectid, out) /\ Told(T) /\ WriterIn(L, T) /\ AddressesOf(T)
  BY DEF WriterTells
<1>2. /\ SeriTypeOK /\ path # <<>> /\ Top(todo) = <<>> /\ out' = Append(out, Nil)
      /\ todo' = Pop(todo, 1) /\ path' = Pop(path, 1)
      /\ UNCHANGED <<heap, args, objectid, r, idOf, addressOf>>
  BY DEF SeriInv, PackEnd
<1>3. PICK N \in Nat : N = objectid
  BY <1>2 DEF SeriTypeOK
<1>4. PICK n \in Nat : n = Len(out)
  BY <1>2, LenProperties DEF SeriTypeOK
<1>5. PICK s \in Seq(Elements) : s = out
  BY <1>2 DEF SeriTypeOK
<1>6. Story(L, T, N, s) /\ n = Len(s)
  BY <1>1, <1>3, <1>4, <1>5
<1>7. PICK x : x = L[n + 1]
  OBVIOUS
<1>8. PICK lists, tables : lists = todo /\ tables = path
  OBVIOUS
<1>9. Lists(L, T, x.of, x.item - 1, tables, lists)
  BY <1>1, <1>4, <1>7, <1>8, WriterInIs
<1>10. PlaceOK(L, T, N, n + 1) /\ x.begun = N
  BY <1>6, <1>7 DEF Story, StoryTo
<1>11. PICK m \in 0..N : m = x.of
  BY <1>7, <1>10 DEF PlaceOK
<1>12. PICK d \in Nat \ {0} : d = Len(tables) /\ d = T[m].depth
  <2>1. Len(path) \in Nat \ {0}
    BY <1>2, EmptySeq, LenProperties DEF SeriTypeOK
  <2>. QED
    BY <1>8, <1>9, <1>11, <2>1 DEF Lists
<1>13. ChainOK(T, m) /\ m \in 1..N
  <2>1. ChainOK(T, m)
    BY <1>6, ChainIs
  <2>. QED
    BY <1>12, <2>1 DEF ChainOK
<1>14. PICK at : at = T[m].at
  OBVIOUS
<1>15. PICK o : o = L[T[m].at].of
  OBVIOUS
<1>16. InTable(L, T, m, o) /\ at \in 1..n
  <2>1. InTable(L, T, m, o) /\ T[m].at \in 1..Len(s) /\ L[T[m].at].begun = m - 1
    BY <1>6, <1>13, <1>15, IsInTable
  <2>. QED
    BY <1>6, <1>14, <2>1
<1>17. /\ o = L[at].of /\ o \in 0..N /\ T[o].depth = d - 1
       /\ \A k \in 0 .. d - 1 : T[m].chain[k] = T[o].chain[k]
       /\ T[o].chain[d - 1] = o /\ T[m].chain[d] = m
       /\ L[at].item \in 1..Len(T[o].list)
  <2>1. /\ o = L[at].of /\ o \in 0 .. m - 1 /\ T[o].depth \in Nat /\ d = T[o].depth + 1
        /\ \A k \in 0..T[o].depth : T[m].chain[k] = T[o].chain[k]
        /\ T[o].chain[T[o].depth] = o /\ T[m].chain[d] = m
        /\ L[at].item \in 1..Len(T[o].list)
    BY <1>12, <1>14, <1>16, Zenon DEF InTable
  <2>2. T[o].depth = d - 1 /\ o \in 0..N
    BY <1>12, <1>13, <2>1
  <2>. QED
    BY <2>1, <2>2, Zenon
<1>18. /\ lists \in Seq(Seq(Values)) /\ Len(lists) = d + 1 /\ lists # <<>>
       /\ lists[d + 1] = <<>> /\ tables \in Seq(Tables) /\ tables # <<>>
  <2>1. lists \in Seq(Seq(Values)) /\ Len(lists) = d + 1 /\ tables \in Seq(Tables) /\ tables # <<>>
    BY <1>2, <1>8, <1>12 DEF SeriTypeOK
  <2>2. Len(lists) # 0
    BY <1>12, <2>1
  <2>. QED
    BY <1>2, <1>8, <2>1, <2>2, EmptySeq DEF Top
<1>19. x.item = Len(T[m].list) + 1 /\ TableOK(T, m) /\ TableOK(T, o)
  <2>1. TableOK(T, m) /\ TableOK(T, o)
    BY <1>6, <1>11, <1>17 DEF Story, StoryTo
  <2>2. PICK l \in Nat : l = Len(T[m].list)
    BY <2>1, LenProperties DEF TableOK
  <2>3. Left(<<>>, T[m].list, x.item - 1)
    BY <1>9, <1>11, <1>12, <1>18 DEF Lists
  <2>4. 0 = l - (x.item - 1)
    BY <2>2, <2>3, EmptySeq DEF Left
  <2>5. PICK i \in 1 .. l + 1 : i = x.item
    BY <1>7, <1>10, <1>11, <2>2 DEF PlaceOK
  <2>6. i = l + 1
    BY <2>4, <2>5
  <2>. QED
    BY <2>1, <2>2, <2>5, <2>6
<1>20. PICK e \in Elements : e = Nil
  <2>1. Nil \in Atoms
    BY DEF Atoms, Nil
  <2>. QED
    BY <2>1 DEF Elements
<1>21. PICK c : c = Append(s, e)
  OBVIOUS
<1>22. Len(c) = n + 1 /\ c[n + 1] = e /\ (\A p \in 1..n : c[p] = s[p]) /\ out' = c
  <2>1. /\ Len(Append(s, e)) = Len(s) + 1 /\ Append(s, e)[Len(s) + 1] = e
        /\ \A p \in 1..Len(s) : Append(s, e)[p] = s[p]
    BY AppendProperties
  <2>. QED
    BY <1>2, <1>5, <1>6, <1>20, <1>21, <2>1
<1>23. PICK y : y = Place(o, L[at].item + 1, N)
  OBVIOUS
<1>24. y.begun = N /\ y.of \in 0..N /\ y.item \in 1 .. Len(T[y.of].list) + 1
  <2>1. PICK l \in Nat : l = Len(T[o].list)
    BY <1>19, LenProperties DEF TableOK
  <2>2. y.begun = N /\ y.of = o /\ y.item = L[at].item + 1
    BY <1>23 DEF Place
  <2>3. PICK i \in 1..l : i = L[at].item
    BY <1>17, <2>1
  <2>4. i + 1 \in 1 .. l + 1
    OBVIOUS
  <2>5. y.item \in 1 .. Len(T[y.of].list) + 1
    BY <2>1, <2>2, <2>3, <2>4
  <2>. QED
    BY <1>17, <2>2, <2>5
<1>25. PICK M : Story(M, T, N, c) /\ WithPlace(L, n, y, M)
  <2>1. IsEnd(x, T, e)
    BY <1>11, <1>13, <1>19, <1>20 DEF IsEnd
  <2>2. ElementOK(x, y, L, T, N, c, c[n + 1], n + 1)
    BY <1>10, <1>11, <1>14, <1>17, <1>22, <1>23, <2>1, Zenon DEF ElementOK
  <2>3. GoesOn(L, T, N, s, L, T, N, c)
    BY <1>6, <1>22 DEF GoesOn
  <2>4. N \in N .. N + 1 /\ N # N + 1
    OBVIOUS
  <2>. QED
    BY <1>6, <1>7, <1>22, <1>24, <2>2, <2>3, <2>4, StoryAppended
<1>26. PICK h \in Nat : h = d - 1 /\ d = h + 1
  BY <1>12
<1>27. PICK rest, less : rest = Pop(lists, 1) /\ less = Pop(tables, 1)
  OBVIOUS
<1>28. /\ Len(less) = h /\ (\A k \in 1..h : less[k] = tables[k])
       /\ \A k \in 0..h : rest[k + 1] = lists[k + 1]
  <2>1. Len(Pop(tables, 1)) = Len(tables) - 1
        /\ \A k \in 1 .. Len(tables) - 1 : Pop(tables, 1)[k] = tables[k]
    BY <1>18, PopElements
  <2>2. \A k \in 1 .. Len(lists) - 1 : Pop(lists, 1)[k] = lists[k]
    BY <1>18, PopElements
  <2>3. Len(lists) - 1 = h + 1 /\ Len(tables) - 1 = h
    <3>1. Len(lists) = h + 1 + 1 /\ Len(tables) = h + 1
      BY <1>12, <1>18, <1>26
    <3>. QED
      BY <3>1
  <2>4. \A k \in 0..h : k + 1 \in 1 .. h + 1
    OBVIOUS
  <2>5. \A k \in 1 .. h + 1 : rest[k] = lists[k]
    BY <1>27, <2>2, <2>3
  <2>. QED
    BY <1>27, <2>1, <2>3, <2>4, <2>5
<1>29. T[o].depth = h /\ T[o].chain[h] = o /\ \A k \in 0..h : T[m].chain[k] = T[o].chain[k]
  BY <1>17, <1>26
<1>30. ASSUME NEW k \in 0 .. h
       PROVE  Left(lists[k + 1], T[T[o].chain[k]].list, Before(L, T, m, k) + 1)
  <2>1. k \in 0 .. T[m].depth - 1
    BY <1>12, <1>26
  <2>2. Left(lists[k + 1], T[T[m].chain[k]].list, Before(L, T, m, k) + 1)
    BY <1>9, <1>11, <2>1 DEF Lists
  <2>. QED
    BY <1>29, <2>2
<1>31. Left(rest[h + 1], T[o].list, L[at].item)
  <2>1. Before(L, T, m, h) + 1 = L[at].item
    <3>1. T[m].chain[h + 1] = m
      BY <1>17, <1>26
    <3>2. PICK i : i = L[at].item
      OBVIOUS
    <3>3. i \in Int
      <4>1. Len(T[o].list) \in Nat
        BY <1>19, LenProperties DEF TableOK
      <4>. QED
        BY <1>17, <3>2, <4>1
    <3>4. Before(L, T, m, h) = i - 1
      BY <1>14, <3>1, <3>2 DEF Before
    <3>. QED
      BY <3>2, <3>3, <3>4
  <2>2. h \in 0..h
    OBVIOUS
  <2>. QED
    BY <1>28, <1>29, <1>30, <2>1, <2>2
<1>32. ASSUME NEW k \in 0 .. h - 1
       PROVE  Left(rest[k + 1], T[T[o].chain[k]].list, Before(M, T, o, k) + 1)
  <2>1. k \in 0 .. T[o].depth - 1 /\ k \in 0..h /\ k + 1 \in 0..h
    BY <1>29
  <2>2. Before(M, T, o, k) = Before(L, T, o, k)
    BY <1>6, <1>17, <1>25, <2>1, ListsKept
  <2>3. Before(L, T, o, k) = Before(L, T, m, k)
    BY <1>29, <2>1 DEF Before
  <2>. QED
    BY <1>28, <1>30, <2>1, <2>2, <2>3
<1>33. ASSUME NEW k \in 1..h
       PROVE  less[k] = T[T[o].chain[k]].table
  <2>1. tables[k] = T[T[m].chain[k]].table
    BY <1>9, <1>11, <1>12, <1>26 DEF Lists
  <2>2. k \in 0..h
    OBVIOUS
  <2>. QED
    BY <1>28, <1>29, <2>1, <2>2
<1>34. Lists(M, T, o, L[at].item, less, rest)
  BY <1>28, <1>29, <1>31, <1>32, <1>33 DEF Lists
<1>35. M[n + 1 + 1].of = o /\ M[n + 1 + 1].item - 1 = L[at].item
  <2>1. M[n + 1 + 1] = y
    BY <1>25 DEF WithPlace
  <2>2. y.of = o /\ y.item = L[at].item + 1
    BY <1>23 DEF Place
  <2>3. L[at].item \in Nat
    BY <1>17
  <2>. QED
    BY <2>1, <2>2, <2>3
<1>36. Lists(M, T, M[Len(out') + 1].of, M[Len(out') + 1].item - 1, path', todo')
  BY <1>2, <1>8, <1>22, <1>27, <1>34, <1>35
<1>37. WriterIn(M, T)'
  BY <1>36, Zenon DEF WriterIn, Lists
<1>38. AddressesOf(T)'
  <2>1. \A u \in 1..objectid : Address(u)' = Address(u)
    BY <1>2, RefsStay DEF SeriInv
  <2>2. out' = Append(out, e)
    BY <1>2, <1>20
  <2>. QED
    BY <1>1, <1>2, <2>1, <2>2, AddressesStay
<1>39. Told(T)'
  <2>1. \A u \in Tables : NumbersOf(u)' = NumbersOf(u)
    BY <1>2 DEF NumbersOf, InTables
  <2>. QED
    BY <1>1, <1>2, <2>1, ToldKept
<1>40. Story(M, T, objectid', out')
  BY <1>2, <1>3, <1>22, <1>25
<1>. QED
  BY <1>37, <1>38, <1>39, <1>40 DEF WriterTells

\* Before anything is written there is only the place of the first argument.
LEMMA NothingTold ==
  ASSUME Init
  PROVE  WriterTells
<1>1. /\ args \in Seq(Values) /\ out = <<>> /\ todo = <<args>> /\ path = <<>> /\ objectid = 0
  BY ContentsAssumption DEF Init
<1>2. PICK list \in Seq(Values), l \in Nat : list = args /\ l = Len(list)
  BY <1>1, LenProperties
<1>3. PICK first : first = [list |-> list, depth |-> 0, chain |-> [k \in {0} |-> 0]]
  OBVIOUS
<1>4. PICK T : T = [m \in {0} |-> first]
  OBVIOUS
<1>5. PICK x : x = Place(0, 1, 0)
  OBVIOUS
<1>6. PICK L : L = [p \in {1} |-> x]
  OBVIOUS
<1>7. T[0].list = list /\ T[0].depth = 0 /\ T[0].chain[0] = 0
  BY <1>3, <1>4
<1>8. L[1] = x /\ x.of = 0 /\ x.item = 1 /\ x.begun = 0
  BY <1>5, <1>6 DEF Place
<1>9. TableOK(T, 0)
  <2>1. \A k \in 0..0 : k = 0
    OBVIOUS
  <2>. QED
    BY <1>2, <1>7, <2>1 DEF TableOK
<1>10. PlaceOK(L, T, 0, 1)
  BY <1>2, <1>7, <1>8 DEF PlaceOK
<1>11. Story(L, T, 0, <<>>)
  <2>1. Len(<<>>) = 0
    BY EmptySeq
  <2>2. /\ \A m \in 0..0 : m = 0
        /\ \A p \in 1 .. 0 + 1 : p = 1
        /\ \A p \in 1..0 : FALSE
    OBVIOUS
  <2>3. StoryTo(L, T, 0, <<>>, 0, 0)
    BY <1>5, <1>7, <1>8, <1>9, <1>10, <2>2 DEF StoryTo
  <2>4. L[0 + 1].begun = 0
    BY <1>8
  <2>. QED
    BY <2>1, <2>3, <2>4 DEF Story
<1>12. Told(T)
  <2>1. \A m \in 1..0 : FALSE
    OBVIOUS
  <2>. QED
    BY <1>1, <1>2, <1>7, <2>1 DEF Told
<1>13. AddressesOf(T)
  <2>1. \A m \in 1..0 : FALSE
    OBVIOUS
  <2>. QED
    BY <1>1, <2>1 DEF AddressesOf
<1>14. WriterIn(L, T)
  <2>1. Len(out) + 1 = 1 /\ Len(path) = 0 /\ todo[Len(path) + 1] = list
    BY <1>1, <1>2, EmptySeq
  <2>2. Left(list, list, 0)
    <3>1. \A j \in 1..l : 0 + j = j
      OBVIOUS
    <3>. QED
      BY <1>2, <3>1 DEF Left
  <2>3. /\ \A k \in 1..0 : FALSE
        /\ \A k \in 0 .. 0 - 1 : FALSE
    OBVIOUS
  <2>4. x.item - 1 = 0
    BY <1>8
  <2>5. Lists(L, T, 0, 0, path, todo)
    BY <1>7, <2>1, <2>2, <2>3 DEF Lists
  <2>6. Lists(L, T, L[Len(out) + 1].of, L[Len(out) + 1].item - 1, path, todo)
    BY <1>8, <2>1, <2>4, <2>5
  <2>. QED
    BY <2>6, WriterInIs
<1>. QED
  BY <1>1, <1>11, <1>12, <1>13, <1>14 DEF WriterTells

\* What the writer has told stays while nothing of it changes.
LEMMA WriterToldStays ==
  ASSUME WriterTells, UNCHANGED <<heap, args, out, writer>>
  PROVE  WriterTells'
<1>1. PICK L, T : Story(L, T, objectid, out) /\ Told(T) /\ WriterIn(L, T) /\ AddressesOf(T)
  BY DEF WriterTells
<1>2. /\ heap' = heap /\ args' = args /\ out' = out /\ objectid' = objectid
      /\ todo' = todo /\ path' = path /\ r' = r /\ idOf' = idOf /\ addressOf' = addressOf
  BY DEF writer
<1>3. Told(T)'
  <2>1. \A u \in Tables : NumbersOf(u)' = NumbersOf(u)
    BY <1>2 DEF NumbersOf, InTables
  <2>. QED
    BY <1>1, <1>2, <2>1, ToldKept
<1>4. WriterIn(L, T)'
  BY <1>1, <1>2, Zenon DEF WriterIn
<1>5. AddressesOf(T)'
  BY <1>1, <1>2 DEF AddressesOf, Address, InTables
<1>6. Story(L, T, objectid', out')
  BY <1>1, <1>2
<1>. QED
  BY <1>3, <1>4, <1>5, <1>6 DEF WriterTells
==============================================================================

---------------------------- MODULE SeriGraphProofs --------------------------
(***************************************************************************)
(* Proofs about lua-seri: how the reader gets the graph from the stream    *)
(* that the writer left.  What is received is a copy of what was packed,   *)
(* for graphs with any number of tables of any contents, and any limits.   *)
(***************************************************************************)
EXTENDS SeriProofs

------------------------------------------------------------------------------
(* What is read.                                                            *)

\* What the reader makes of a value.
Image(T, N, y, x) ==
  IF x.type = "table" THEN \E m \in 1..N : y = Copy(m) /\ T[m].table = x.v ELSE y = x

\* A copy holds the first d items of a list.
Holds(T, N, copy, list, a, d) ==
  /\ copy = [k \in DOMAIN copy |-> copy[k]]
  /\ \A k : k \in DOMAIN copy <=>
            \E j \in 1..d : IsValue(a, j) /\ list[j] # Nil /\ k = KeyAt(list, a, j)
  /\ \A j \in 1..d : IsValue(a, j) /\ list[j] # Nil => Image(T, N, copy[KeyAt(list, a, j)], list[j])

\* A call of unpack_table that has d items.
Stage(a, d) == IF d < a THEN "array" ELSE IF (d - a) % 2 = 0 THEN "key" ELSE "value"
FrameOf(k, a, d) ==
  [base |-> k - 1, size |-> a, i |-> IF d < a THEN d + 1 ELSE a + 1, stage |-> Stage(a, d)]

\* R is the reader's stack, calls, copies and ancestors.  At level k it has d items of
\* table m, whose copy is at q on the stack; level 0 is the arguments.
Level(T, N, R, m, k, d, q) ==
  IF k = 0 THEN q = 0 /\ m = 0 /\ \A j \in 1..d : Image(T, N, R.lstack[j], T[0].list[j])
  ELSE /\ R.frames[k] = FrameOf(k, T[m].size, d)
       /\ R.lstack[q] = Copy(m)
       /\ Stage(T[m].size, d) = "value" => R.lstack[q + 1] = T[m].list[d]
       /\ Holds(T, N, R.copies[m], T[m].list, T[m].size, d)
       /\ k - 1 < MAX_DEPTH => R.ancestor[k - 1] = q
\* The last stack index of a level.
Last(T, m, k, d, q) ==
  IF k = 0 THEN d ELSE IF Stage(T[m].size, d) = "value" THEN q + 1 ELSE q

\* All levels below that of table cur.
Levels(L, T, N, R, cur, Q) ==
  LET n == T[cur].depth
      end(k) == Last(T, T[cur].chain[k], k, Before(L, T, cur, k), Q[k])
  IN  \A k \in 0 .. n - 1 :
         /\ Level(T, N, R, T[cur].chain[k], k, Before(L, T, cur, k), Q[k])
         /\ Q[k] \in Nat /\ Q[k + 1] = end(k) + 1 /\ \A j \in k + 1 .. n : end(k) < Q[j]

\* The tables that have ended.
Ended(T, N, R, cur, n) ==
  \A m \in 1..n :
    \/ \E k \in 1..T[cur].depth : m = T[cur].chain[k]
    \/ Holds(T, N, R.copies[m], T[m].list, T[m].size, Len(T[m].list))

ReaderTyped(R) ==
  /\ R.frames \in Seq(Frame) /\ (\E S : R.lstack \in Seq(S)) /\ (\E S : R.copies \in Seq(S))
  /\ R.ancestor \in [0 .. MAX_DEPTH - 1 -> Nat]

\* The reader has c items of table cur, and rest more values on the stack.
ReaderHas(L, T, N, R, cur, c, Q, rest) ==
  /\ c \in 0..Len(T[cur].list)
  /\ Len(R.frames) = T[cur].depth
  /\ Levels(L, T, N, R, cur, Q)
  /\ Level(T, N, R, cur, T[cur].depth, c, Q[T[cur].depth])
  /\ Q[T[cur].depth] \in Nat
  /\ Len(R.lstack) = Last(T, cur, T[cur].depth, c, Q[T[cur].depth]) + rest

\* At place x all tables that are begun are there, and the marked ones are remembered.
Remembers(T, R, s, n, ids) ==
  Len(R.copies) = n /\ \A m \in 1..n : s[T[m].at].type = "mark" => m \in ids

\* The reader's place: what comes is the next item; the next item is on the stack; or
\* the nil that ends the table is.
AtItem(x, cur, c) == x.of = cur /\ x.item = c + 1
OnStack(T, N, R, x, cur, c) ==
  /\ cur # 0 /\ x.of = cur /\ x.item = c + 2
  /\ Image(T, N, R.lstack[Len(R.lstack)], T[cur].list[c + 1])
AtEnd(L, T, R, x, cur, c) ==
  /\ cur # 0 /\ c = Len(T[cur].list) /\ R.lstack[Len(R.lstack)] = Nil
  /\ x.of = L[T[cur].at].of /\ x.item = L[T[cur].at].item + 1

ReaderIn(L, T, N, s, R, p, rdy, ids, cur, c, Q) ==
  /\ p \in 1 .. Len(s) + 1 /\ cur \in 0..L[p].begun /\ ReaderTyped(R)
  /\ Remembers(T, R, s, L[p].begun, ids)
  /\ Ended(T, N, R, cur, L[p].begun)
  /\ IF rdy THEN /\ ReaderHas(L, T, N, R, cur, c, Q, 1)
                 /\ OnStack(T, N, R, L[p], cur, c) \/ AtEnd(L, T, R, L[p], cur, c)
            ELSE ReaderHas(L, T, N, R, cur, c, Q, 0) /\ AtItem(L[p], cur, c)

ReaderNow == [frames |-> frames, lstack |-> lstack, copies |-> copies, ancestor |-> ancestor]
ReaderTold ==
  /\ ready \in BOOLEAN
  /\ \E L, T : /\ Story(L, T, objectid, out) /\ Told(T)
            /\ L[Len(out) + 1] = Place(0, Len(args) + 1, objectid)
            /\ \E cur, c, Q : ReaderIn(L, T, objectid, out, ReaderNow, pos, ready, refs, cur, c, Q)

------------------------------------------------------------------------------
(* What a copy that holds all items is.                                     *)

\* What the reader makes of a value is its copy.
LEMMA ImageIs ==
  ASSUME NEW T, Told(T), NEW x, NEW y, Image(T, objectid, y, x)
  PROVE  y = CopyOf(x)
<1>1. CASE x.type = "table"
  <2>1. PICK m \in 1..objectid : y = Copy(m) /\ T[m].table = x.v
    BY <1>1 DEF Image
  <2>2. NumbersOf(x.v) = {m}
    BY <2>1 DEF Told
  <2>3. NumberOf(x.v) = m
    BY <2>2 DEF NumberOf
  <2>. QED
    BY <1>1, <2>1, <2>3 DEF CopyOf, IsTable
<1>2. CASE x.type # "table"
  BY <1>2 DEF Image, CopyOf, IsTable
<1>. QED
  BY <1>1, <1>2

\* A key is its own copy.
LEMMA KeysArePlain ==
  ASSUME heap \in Heaps, NEW t \in Tables, ~TableKeys, NEW k \in Keys(t)
  PROVE  CopyOf(k) = k
<1>1. CASE \E i \in DOMAIN heap[t].array : k = Index(i)
  BY <1>1 DEF CopyOf, IsTable, Index
<1>2. CASE \E j \in DOMAIN heap[t].hash : k = heap[t].hash[j][1]
  BY <1>2 DEF CopyOf, TableKeys, IsTable
<1>. QED
  BY <1>1, <1>2 DEF Keys

\* A copy that holds all items of a table is its copy.
LEMMA ItemsCopied ==
  ASSUME heap \in Heaps, NEW t \in Tables, ~TableKeys, NEW T, Told(T), NumbersOf(t) # {},
         NEW m \in 1..objectid, T[m].table = t,
         Holds(T, objectid, copies[m], Items(t), ArraySize(t), Len(Items(t)))
  PROVE  IsCopied(t, Keys(t) \ LostKeys(t))
<1>1. PICK list, a, n, copy, keys :
        /\ list = Items(t) /\ a = ArraySize(t) /\ n = Len(list) /\ copy = copies[m]
        /\ keys = Keys(t) \ LostKeys(t)
  OBVIOUS
<1>2. /\ copy = [k \in DOMAIN copy |-> copy[k]]
      /\ \A k : k \in DOMAIN copy <=>
                \E j \in 1..n : IsValue(a, j) /\ list[j] # Nil /\ k = KeyAt(list, a, j)
      /\ \A j \in 1..n : IsValue(a, j) /\ list[j] # Nil =>
           Image(T, objectid, copy[KeyAt(list, a, j)], list[j])
  BY <1>1 DEF Holds
<1>3. DOMAIN copy = keys
  <2>1. ASSUME NEW k \in DOMAIN copy
        PROVE  k \in keys
    <3>1. PICK j \in 1..n : IsValue(a, j) /\ list[j] # Nil /\ k = KeyAt(list, a, j)
      BY <1>2
    <3>. QED
      BY <1>1, <3>1, KeyWritten
  <2>2. ASSUME NEW k \in keys
        PROVE  k \in DOMAIN copy
    <3>1. \E j \in 1..n : IsValue(a, j) /\ list[j] # Nil /\ k = KeyAt(list, a, j)
      BY <1>1, KeyFound
    <3>. QED
      BY <1>2, <3>1
  <2>. QED
    BY <2>1, <2>2
<1>4. ASSUME NEW k \in keys
      PROVE  copy[k] = CopyOf(ValueAt(t, k))
  <2>1. PICK j \in 1..n : IsValue(a, j) /\ list[j] # Nil /\ k = KeyAt(list, a, j)
    BY <1>2, <1>3
  <2>2. ValueAt(t, k) = list[j]
    BY <1>1, <2>1, KeyWritten
  <2>3. Image(T, objectid, copy[k], list[j])
    BY <1>2, <2>1
  <2>4. copy[k] = CopyOf(list[j])
    BY <2>3, ImageIs
  <2>. QED
    BY <2>2, <2>4
<1>5. \A k \in keys : CopyOf(k) = k
  BY <1>1, KeysArePlain
<1>6. {CopyOf(k) : k \in keys} = keys
  BY <1>5
<1>7. \A c \in keys : (CHOOSE k \in keys : CopyOf(k) = c) = c
  BY <1>5
<1>8. NumberOf(t) = m
  BY DEF NumberOf, Told
<1>9. copy = [c \in keys |-> copy[c]]
  BY <1>2, <1>3
<1>10. [c \in {CopyOf(k) : k \in keys} |->
          CopyOf(ValueAt(t, CHOOSE k \in keys : CopyOf(k) = c))] = [c \in keys |-> copy[c]]
  BY <1>4, <1>6, <1>7
<1>11. copies[NumberOf(t)] = [c \in {CopyOf(k) : k \in keys} |->
          CopyOf(ValueAt(t, CHOOSE k \in keys : CopyOf(k) = c))]
  BY <1>1, <1>8, <1>9, <1>10
<1>. QED
  BY <1>1, <1>11 DEF IsCopied

------------------------------------------------------------------------------
(* The reader's stack.                                                      *)

\* The last stack index of a level below that of table cur.
End(L, T, cur, Q, k) == Last(T, T[cur].chain[k], k, Before(L, T, cur, k), Q[k])

\* How many items come before the next open table.
LEMMA BeforeIs ==
  ASSUME NEW L, NEW T, NEW N \in Nat, NEW s \in Seq(Elements), Story(L, T, N, s),
         NEW cur \in 0..N, NEW k \in 0 .. T[cur].depth - 1
  PROVE  /\ Before(L, T, cur, k) \in Nat /\ T[cur].chain[k] \in 0..N
         /\ T[cur].chain[k] # cur /\ (T[cur].chain[k] = 0 <=> k = 0)
         /\ T[cur].chain[k] \in 0 .. cur - 1 /\ T[cur].depth \in Nat
<1>1. ChainOK(T, cur)
  BY ChainIs
<1>2. PICK n \in Nat : n = T[cur].depth
  BY <1>1 DEF ChainOK
<1>3. k \in 0..n /\ k + 1 \in 0..n /\ k + 1 # 0 /\ k # n
  BY <1>2
<1>4. PICK h \in 1..N : h = T[cur].chain[k + 1]
  BY <1>1, <1>2, <1>3 DEF ChainOK
<1>5. PICK o : o = L[T[h].at].of
  OBVIOUS
<1>6. InTable(L, T, h, o) /\ T[h].at \in 1..Len(s) /\ L[T[h].at].begun = h - 1
  BY <1>5, IsInTable
<1>7. L[T[h].at].item \in 1..Len(T[o].list)
  BY <1>6, Zenon DEF InTable
<1>8. TableOK(T, o)
  <2>1. o \in 0 .. h - 1
    BY <1>6, Zenon DEF InTable
  <2>. QED
    BY <2>1 DEF Story, StoryTo
<1>9. PICK l \in Nat : l = Len(T[o].list)
  BY <1>8, LenProperties DEF TableOK
<1>10. PICK i \in 1..l : i = L[T[h].at].item
  BY <1>7, <1>9, Zenon
<1>11. i - 1 \in Nat
  OBVIOUS
<1>12. Before(L, T, cur, k) \in Nat
  BY <1>4, <1>10, <1>11 DEF Before
<1>13. /\ T[cur].chain[k] \in 0..cur /\ T[T[cur].chain[k]].depth = k
       /\ T[cur].chain[k] = 0 <=> k = 0
  BY <1>1, <1>2, <1>3 DEF ChainOK
<1>14. T[cur].chain[k] # cur
  BY <1>2, <1>3, <1>13
<1>. QED
  BY <1>2, <1>12, <1>13, <1>14

EndOK(L, T, N, R, cur, Q, k) ==
  /\ End(L, T, cur, Q, k) \in Nat /\ Q[k] \in Nat /\ Q[k + 1] = End(L, T, cur, Q, k) + 1
  /\ Q[k + 1] \in Nat \ {0}
  /\ \A j \in k + 1 .. T[cur].depth : End(L, T, cur, Q, k) < Q[j]
  /\ Level(T, N, R, T[cur].chain[k], k, Before(L, T, cur, k), Q[k])

\* The levels' indices are numbers.
LEMMA EndIs ==
  ASSUME NEW L, NEW T, NEW N \in Nat, NEW s \in Seq(Elements), Story(L, T, N, s),
         NEW cur \in 0..N, NEW R, NEW Q, Levels(L, T, N, R, cur, Q),
         NEW k \in 0 .. T[cur].depth - 1
  PROVE  EndOK(L, T, N, R, cur, Q, k)
<1>1. /\ Level(T, N, R, T[cur].chain[k], k, Before(L, T, cur, k), Q[k])
      /\ Q[k] \in Nat /\ Q[k + 1] = End(L, T, cur, Q, k) + 1
      /\ \A j \in k + 1 .. T[cur].depth : End(L, T, cur, Q, k) < Q[j]
  BY DEF Levels, End
<1>2. Before(L, T, cur, k) \in Nat
  BY BeforeIs
<1>3. PICK q \in Nat : q = Q[k]
  BY <1>1
<1>4. End(L, T, cur, Q, k) \in {Before(L, T, cur, k), q, q + 1}
  BY <1>3 DEF End, Last
<1>5. PICK e \in Nat : e = End(L, T, cur, Q, k)
  BY <1>2, <1>4
<1>6. e + 1 \in Nat \ {0}
  OBVIOUS
<1>. QED
  BY <1>1, <1>5, <1>6 DEF EndOK

\* Where the copies of open tables are.
LEMMA IndexIs ==
  ASSUME NEW L, NEW T, NEW N \in Nat, NEW s \in Seq(Elements), Story(L, T, N, s),
         NEW cur \in 0..N, NEW R, NEW Q, Levels(L, T, N, R, cur, Q),
         NEW k \in 1..T[cur].depth
  PROVE  Q[k] \in Nat \ {0}
<1>1. PICK n \in Nat : n = T[cur].depth
  <2>1. ChainOK(T, cur)
    BY ChainIs
  <2>. QED
    BY <2>1 DEF ChainOK
<1>2. PICK j \in 0 .. n - 1 : k = j + 1
  <2>1. k - 1 \in 0 .. n - 1 /\ k = k - 1 + 1
    BY <1>1
  <2>. QED
    BY <2>1
<1>3. EndOK(L, T, N, R, cur, Q, j)
  BY <1>1, EndIs
<1>. QED
  BY <1>2, <1>3 DEF EndOK

\* A level depends on its part of the stack, its call and its copy only.
LEMMA LevelStays ==
  ASSUME NEW T, NEW N, NEW R, NEW S, NEW m, NEW k \in Nat, NEW d \in Nat, NEW q \in Nat,
         Level(T, N, R, m, k, d, q), k # 0 => q # 0,
         NEW e, e = Last(T, m, k, d, q), \A j \in 1..e : S.lstack[j] = R.lstack[j],
         k # 0 => /\ S.frames[k] = R.frames[k] /\ S.copies[m] = R.copies[m]
                  /\ k - 1 < MAX_DEPTH => S.ancestor[k - 1] = R.ancestor[k - 1]
  PROVE  Level(T, N, S, m, k, d, q)
<1>1. CASE k = 0
  <2>1. e = d
    BY <1>1 DEF Last
  <2>. QED
    BY <1>1, <2>1 DEF Level
<1>2. CASE k # 0
  <2>1. q \in 1..e
    BY <1>2 DEF Last
  <2>2. Stage(T[m].size, d) = "value" => q + 1 \in 1..e
    BY <1>2 DEF Last
  <2>3. S.lstack[q] = Copy(m)
    BY <1>2, <2>1 DEF Level
  <2>4. Stage(T[m].size, d) = "value" => S.lstack[q + 1] = T[m].list[d]
    BY <1>2, <2>2 DEF Level
  <2>. QED
    BY <1>2, <2>3, <2>4 DEF Level
<1>. QED
  BY <1>1, <1>2

\* What is at table cur may change, and the levels below stay.
Below(T, R, S, cur, Q) ==
  LET n == T[cur].depth
  IN  /\ \A j \in 1 .. Q[n] - 1 : S.lstack[j] = R.lstack[j]
      /\ \A k \in 1 .. n - 1 : S.frames[k] = R.frames[k] /\ S.ancestor[k - 1] = R.ancestor[k - 1]
      /\ \A m \in 1 .. cur - 1 : S.copies[m] = R.copies[m]

\* The levels of the open tables do not depend on what is above them.
LEMMA LevelsStay ==
  ASSUME NEW L, NEW T, NEW N \in Nat, NEW s \in Seq(Elements), Story(L, T, N, s),
         NEW cur \in 0..N, NEW R, NEW Q, Levels(L, T, N, R, cur, Q), Q[T[cur].depth] \in Nat,
         NEW S, Below(T, R, S, cur, Q)
  PROVE  Levels(L, T, N, S, cur, Q)
<1>1. PICK n \in Nat : n = T[cur].depth
  <2>1. ChainOK(T, cur)
    BY ChainIs
  <2>. QED
    BY <2>1 DEF ChainOK
<1>2. ASSUME NEW k \in 0 .. n - 1
      PROVE  Level(T, N, S, T[cur].chain[k], k, Before(L, T, cur, k), Q[k])
  <2>1. /\ Before(L, T, cur, k) \in Nat /\ T[cur].chain[k] \in 0..N
        /\ T[cur].chain[k] # cur /\ (T[cur].chain[k] = 0 <=> k = 0)
        /\ T[cur].chain[k] \in 0 .. cur - 1
    BY <1>1, BeforeIs
  <2>2. /\ Level(T, N, R, T[cur].chain[k], k, Before(L, T, cur, k), Q[k])
        /\ End(L, T, cur, Q, k) \in Nat /\ Q[k] \in Nat
        /\ \A j \in k + 1 .. n : End(L, T, cur, Q, k) < Q[j]
    <3>1. EndOK(L, T, N, R, cur, Q, k)
      BY <1>1, EndIs
    <3>. QED
      BY <1>1, <3>1 DEF EndOK
  <2>3. PICK m, d \in Nat, q \in Nat : m = T[cur].chain[k] /\ d = Before(L, T, cur, k) /\ q = Q[k]
    BY <2>1, <2>2
  <2>4. PICK e \in Nat : e = Last(T, m, k, d, q)
    BY <2>2, <2>3 DEF End
  <2>5. k # 0 => q # 0
    <3>1. CASE k # 0
      <4>1. k \in 1..n
        BY <3>1
      <4>. QED
        BY <1>1, <2>3, <4>1, IndexIs
    <3>. QED
      BY <3>1
  <2>6. e < Q[n]
    <3>1. n \in k + 1 .. n
      OBVIOUS
    <3>. QED
      BY <2>2, <2>3, <2>4, <3>1 DEF End
  <2>7. \A j \in 1..e : S.lstack[j] = R.lstack[j]
    <3>1. PICK z \in Nat : z = Q[n]
      BY <1>1
    <3>2. \A j \in 1..e : j \in 1 .. z - 1
      BY <2>6, <3>1
    <3>. QED
      BY <1>1, <3>1, <3>2 DEF Below
  <2>8. k # 0 => /\ S.frames[k] = R.frames[k] /\ S.copies[m] = R.copies[m]
                 /\ k - 1 < MAX_DEPTH => S.ancestor[k - 1] = R.ancestor[k - 1]
    <3>1. CASE k # 0
      <4>1. k \in 1 .. n - 1
        BY <3>1
      <4>2. m \in 1 .. cur - 1
        BY <2>1, <2>3, <3>1
      <4>. QED
        BY <1>1, <4>1, <4>2 DEF Below
    <3>. QED
      BY <3>1
  <2>9. Level(T, N, R, m, k, d, q) /\ k \in Nat
    BY <2>2, <2>3
  <2>10. Level(T, N, S, m, k, d, q)
    BY <2>4, <2>5, <2>7, <2>8, <2>9, LevelStays
  <2>. QED
    BY <2>3, <2>10
<1>. QED
  BY <1>1, <1>2 DEF Levels

\* How deep a table is.
LEMMA DepthOf ==
  ASSUME NEW L, NEW T, NEW N \in Nat, NEW s \in Seq(Elements), Story(L, T, N, s), NEW cur \in 0..N
  PROVE  T[cur].depth \in Nat /\ (T[cur].depth = 0 <=> cur = 0) /\ T[0].depth = 0
         /\ T[cur].list \in Seq(Values) /\ Len(T[cur].list) \in Nat
<1>1. ChainOK(T, cur) /\ TableOK(T, cur) /\ T[0].depth = 0
  BY ChainIs DEF Story, StoryTo
<1>. QED
  BY <1>1, LenProperties DEF ChainOK, TableOK

\* The numbers that say where the reader is.
Numbered(T, R, cur, c, Q, rest, n, z, l) ==
  /\ n = T[cur].depth /\ z = Q[n] /\ l = Last(T, cur, n, c, z) /\ Len(R.lstack) = l + rest
  /\ Len(R.frames) = n /\ (n = 0 <=> cur = 0) /\ (n = 0 <=> z = 0)
  /\ c \in 0..Len(T[cur].list) /\ (n = 0 => l = c) /\ z <= l + 1 /\ (n # 0 => z <= l)

\* Where the reader is has such numbers.
LEMMA HasNumbers ==
  ASSUME NEW L, NEW T, NEW N \in Nat, NEW s \in Seq(Elements), Story(L, T, N, s),
         NEW cur \in 0..N, NEW R, NEW c, NEW Q, NEW rest, ReaderHas(L, T, N, R, cur, c, Q, rest)
  PROVE  \E n, z, l \in Nat : c \in Nat /\ Numbered(T, R, cur, c, Q, rest, n, z, l)
<1>1. PICK n \in Nat : n = T[cur].depth /\ (n = 0 <=> cur = 0)
  BY DepthOf
<1>2. PICK z \in Nat : z = Q[n]
  BY <1>1 DEF ReaderHas
<1>3. c \in 0..Len(T[cur].list) /\ c \in Nat
  BY DepthOf DEF ReaderHas
<1>4. n = 0 <=> z = 0
  <2>1. CASE n = 0
    BY <1>1, <1>2, <2>1 DEF ReaderHas, Level
  <2>2. CASE n # 0
    <3>1. n \in 1..n
      BY <2>2
    <3>. QED
      BY <1>1, <1>2, <2>2, <3>1, IndexIs DEF ReaderHas
  <2>. QED
    BY <2>1, <2>2
<1>5. PICK l \in Nat : l = Last(T, cur, n, c, z)
  BY <1>3 DEF Last
<1>6. (n = 0 => l = c) /\ (n # 0 => z <= l) /\ z <= l + 1
  BY <1>3, <1>4, <1>5 DEF Last
<1>7. Len(R.frames) = n /\ Len(R.lstack) = l + rest
  BY <1>1, <1>2, <1>5 DEF ReaderHas
<1>. QED
  BY <1>1, <1>2, <1>3, <1>4, <1>5, <1>6, <1>7 DEF Numbered

\* y is pushed.
Pushes(R, S, y) ==
  /\ S.frames = R.frames /\ S.copies = R.copies /\ S.ancestor = R.ancestor
  /\ S.lstack = Append(R.lstack, y)

\* The reader's stack with value y on top of what it has.
Holding(L, T, N, S, cur, c, Q, y) ==
  /\ ReaderTyped(S) /\ ReaderHas(L, T, N, S, cur, c, Q, 1) /\ S.lstack[Len(S.lstack)] = y
  /\ cur = 0 /\ c + 1 \in 0..Len(T[0].list) /\ Image(T, N, y, T[0].list[c + 1]) =>
       ReaderHas(L, T, N, S, 0, c + 1, Q, 0)

\* The items read stay when a value is pushed; among the arguments it is the next item.
LEMMA HasPushed ==
  ASSUME NEW L, NEW T, NEW N \in Nat, NEW s \in Seq(Elements), Story(L, T, N, s),
         NEW cur \in 0..N, NEW R, NEW c, NEW Q, ReaderTyped(R),
         ReaderHas(L, T, N, R, cur, c, Q, 0), NEW y, NEW S, Pushes(R, S, y)
  PROVE  Holding(L, T, N, S, cur, c, Q, y)
<1>1. PICK n, z, l \in Nat : c \in Nat /\ Numbered(T, R, cur, c, Q, 0, n, z, l)
  BY HasNumbers
<1>2. PICK U : R.lstack \in Seq(U)
  BY DEF ReaderTyped
<1>3. /\ S.lstack \in Seq(U \cup {y}) /\ Len(S.lstack) = l + 1 /\ S.lstack[l + 1] = y
      /\ \A j \in 1..l : S.lstack[j] = R.lstack[j]
  <2>1. R.lstack \in Seq(U \cup {y})
    BY <1>2, SeqMonotonic
  <2>2. /\ Append(R.lstack, y) \in Seq(U \cup {y}) /\ Len(Append(R.lstack, y)) = Len(R.lstack) + 1
        /\ \A j \in 1..Len(R.lstack) : Append(R.lstack, y)[j] = R.lstack[j]
        /\ Append(R.lstack, y)[Len(R.lstack) + 1] = y
    BY <2>1, AppendProperties
  <2>3. Len(R.lstack) = l
    BY <1>1 DEF Numbered
  <2>. QED
    BY <2>2, <2>3 DEF Pushes
<1>4. ReaderTyped(S)
  BY <1>3 DEF ReaderTyped, Pushes
<1>5. Below(T, R, S, cur, Q)
  <2>1. n = T[cur].depth /\ Q[n] = z /\ \A j \in 1 .. z - 1 : j \in 1..l
    BY <1>1 DEF Numbered
  <2>. QED
    BY <1>3, <2>1 DEF Below, Pushes
<1>6. Levels(L, T, N, S, cur, Q)
  BY <1>1, <1>5, LevelsStay DEF ReaderHas, Numbered
<1>7. Level(T, N, R, cur, n, c, z) /\ n = T[cur].depth /\ z = Q[n] /\ l = Last(T, cur, n, c, z)
  BY <1>1 DEF ReaderHas, Numbered
<1>8. Level(T, N, S, cur, n, c, z)
  <2>1. n # 0 => z # 0
    BY <1>1 DEF Numbered
  <2>2. n # 0 => /\ S.frames[n] = R.frames[n] /\ S.copies[cur] = R.copies[cur]
                 /\ n - 1 < MAX_DEPTH => S.ancestor[n - 1] = R.ancestor[n - 1]
    BY DEF Pushes
  <2>3. c \in Nat /\ Level(T, N, R, cur, n, c, z)
    BY <1>1, <1>7
  <2>4. l = Last(T, cur, n, c, z) /\ \A j \in 1..l : S.lstack[j] = R.lstack[j]
    BY <1>3, <1>7
  <2>. QED
    BY <2>1, <2>2, <2>3, <2>4, LevelStays
<1>9. Len(S.frames) = n
  BY <1>1 DEF Pushes, Numbered
<1>10. ReaderHas(L, T, N, S, cur, c, Q, 1)
  BY <1>3, <1>6, <1>7, <1>8, <1>9 DEF ReaderHas
<1>11. ASSUME cur = 0, c + 1 \in 0..Len(T[0].list), Image(T, N, y, T[0].list[c + 1])
       PROVE  ReaderHas(L, T, N, S, 0, c + 1, Q, 0)
  <2>1. n = 0 /\ z = 0 /\ l = c
    BY <1>1, <1>11 DEF Numbered
  <2>2. \A j \in 1..c : Image(T, N, S.lstack[j], T[0].list[j])
    BY <1>8, <1>11, <2>1 DEF Level
  <2>3. \A j \in 1 .. c + 1 : j \in 1..c \/ j = c + 1
    BY <1>1
  <2>4. \A j \in 1 .. c + 1 : Image(T, N, S.lstack[j], T[0].list[j])
    BY <1>3, <1>11, <2>1, <2>2, <2>3
  <2>5. Level(T, N, S, 0, 0, c + 1, 0)
    BY <2>4 DEF Level
  <2>6. Len(S.lstack) = Last(T, 0, 0, c + 1, 0) + 0
    BY <1>1, <1>3, <2>1 DEF Last
  <2>7. T[0].depth = 0 /\ Q[0] = 0 /\ Len(S.frames) = 0 /\ Levels(L, T, N, S, 0, Q)
    BY <1>6, <1>7, <1>9, <1>11, <2>1
  <2>. QED
    BY <1>11, <2>5, <2>6, <2>7 DEF ReaderHas
<1>. QED
  BY <1>3, <1>4, <1>10, <1>11 DEF Holding

\* What comes is an item of the table the reader is in, or its end.
Coming(L, T, N, s, R, p, ids, cur, c, Q, x, y) ==
  /\ p \in 1..Len(s) /\ x = L[p] /\ y = L[p + 1] /\ ElementOK(x, y, L, T, N, s, s[p], p)
  /\ p + 1 \in 1 .. Len(s) + 1 /\ s[p] \in Elements
  /\ cur \in 0..x.begun /\ x.begun \in 0..N /\ cur \in 0..N /\ x.of = cur /\ x.item = c + 1 /\ c \in Nat
  /\ ReaderTyped(R) /\ Remembers(T, R, s, x.begun, ids) /\ Ended(T, N, R, cur, x.begun)
  /\ ReaderHas(L, T, N, R, cur, c, Q, 0)

\* While it waits for no value, the reader comes to such an item.
LEMMA TokenComes ==
  ASSUME NEW L, NEW T, NEW N \in Nat, NEW s \in Seq(Elements), Story(L, T, N, s),
         NEW R, NEW p \in Nat, p <= Len(s), NEW ids, NEW cur, NEW c, NEW Q,
         ReaderIn(L, T, N, s, R, p, FALSE, ids, cur, c, Q)
  PROVE  \E x, y : Coming(L, T, N, s, R, p, ids, cur, c, Q, x, y)
<1>1. PICK n \in Nat : n = Len(s)
  BY LenProperties
<1>2. p \in 1..n /\ p \in 1 .. n + 1 /\ p + 1 \in 1 .. n + 1
  <2>1. p \in 1 .. n + 1 /\ p <= n
    BY <1>1 DEF ReaderIn
  <2>. QED
    BY <2>1
<1>3. PICK x, y : x = L[p] /\ y = L[p + 1]
  OBVIOUS
<1>4. /\ cur \in 0..x.begun /\ ReaderTyped(R) /\ Remembers(T, R, s, x.begun, ids)
      /\ Ended(T, N, R, cur, x.begun) /\ ReaderHas(L, T, N, R, cur, c, Q, 0)
      /\ x.of = cur /\ x.item = c + 1
  BY <1>3 DEF ReaderIn, AtItem
<1>5. x.begun \in 0..N /\ ElementOK(x, y, L, T, N, s, s[p], p)
  BY <1>1, <1>2, <1>3 DEF Story, StoryTo, PlaceOK
<1>6. cur \in 0..N
  BY <1>4, <1>5
<1>7. c \in Nat
  BY <1>4, <1>6, DepthOf DEF ReaderHas
<1>8. s[p] \in Elements
  BY <1>1, <1>2, ElementOfSeq
<1>9. Coming(L, T, N, s, R, p, ids, cur, c, Q, x, y)
  BY <1>1, <1>2, <1>3, <1>4, <1>5, <1>6, <1>7, <1>8 DEF Coming
<1>. QED
  BY <1>9

\* An item was read that is no new table: it is on the stack, or is the next argument.
LEMMA ItemRead ==
  ASSUME NEW L, NEW T, NEW N \in Nat, NEW s \in Seq(Elements), Story(L, T, N, s),
         NEW R, NEW p \in Nat, NEW ids, NEW cur, NEW c, NEW Q, NEW x, NEW y,
         Coming(L, T, N, s, R, p, ids, cur, c, Q, x, y), y = NextItem(x),
         x.item <= Len(T[cur].list), NEW v, Image(T, N, v, T[cur].list[x.item]),
         NEW S, Pushes(R, S, v)
  PROVE  \E d : ReaderIn(L, T, N, s, S, p + 1, cur # 0, ids, cur, d, Q)
<1>1. /\ cur \in 0..N /\ c \in Nat /\ x.item = c + 1 /\ x.of = cur
      /\ ReaderTyped(R) /\ ReaderHas(L, T, N, R, cur, c, Q, 0)
      /\ p + 1 \in 1 .. Len(s) + 1 /\ y = L[p + 1] /\ cur \in 0..x.begun
  BY DEF Coming
<1>2. y.of = cur /\ y.begun = x.begun /\ y.item = c + 2
  <2>1. y.of = cur /\ y.begun = x.begun /\ y.item = c + 1 + 1
    BY <1>1 DEF NextItem, Place
  <2>. QED
    BY <1>1, <2>1
<1>3. /\ ReaderTyped(S) /\ ReaderHas(L, T, N, S, cur, c, Q, 1) /\ S.lstack[Len(S.lstack)] = v
      /\ cur = 0 /\ c + 1 \in 0..Len(T[0].list) /\ Image(T, N, v, T[0].list[c + 1]) =>
           ReaderHas(L, T, N, S, 0, c + 1, Q, 0)
  <2>1. Holding(L, T, N, S, cur, c, Q, v)
    BY <1>1, HasPushed
  <2>. QED
    BY <2>1 DEF Holding
<1>4. Remembers(T, S, s, y.begun, ids) /\ Ended(T, N, S, cur, y.begun)
  BY <1>2 DEF Coming, Remembers, Ended, Pushes
<1>5. CASE cur = 0
  <2>1. c + 1 \in 0..Len(T[0].list) /\ Image(T, N, v, T[0].list[c + 1])
    <3>1. Len(T[cur].list) \in Nat
      BY <1>1, DepthOf
    <3>2. c + 1 <= Len(T[0].list)
      BY <1>1, <1>5
    <3>. QED
      BY <1>1, <1>5, <3>1, <3>2
  <2>2. ReaderHas(L, T, N, S, 0, c + 1, Q, 0)
    BY <1>3, <1>5, <2>1
  <2>3. AtItem(y, 0, c + 1)
    BY <1>1, <1>2, <1>5 DEF AtItem
  <2>4. ReaderIn(L, T, N, s, S, p + 1, FALSE, ids, 0, c + 1, Q)
    BY <1>1, <1>2, <1>3, <1>4, <1>5, <2>2, <2>3 DEF ReaderIn
  <2>. QED
    BY <1>5, <2>4
<1>6. CASE cur # 0
  <2>1. OnStack(T, N, S, y, cur, c)
    BY <1>1, <1>2, <1>3, <1>6 DEF OnStack
  <2>2. ReaderIn(L, T, N, s, S, p + 1, TRUE, ids, cur, c, Q)
    BY <1>1, <1>2, <1>3, <1>4, <2>1 DEF ReaderIn
  <2>. QED
    BY <1>6, <2>2
<1>. QED
  BY <1>5, <1>6

\* The nil behind the last item was read.
LEMMA EndRead ==
  ASSUME NEW L, NEW T, NEW N \in Nat, NEW s \in Seq(Elements), Story(L, T, N, s),
         NEW R, NEW p \in Nat, NEW ids, NEW cur, NEW c, NEW Q, NEW x, NEW y,
         Coming(L, T, N, s, R, p, ids, cur, c, Q, x, y), IsEnd(x, T, s[p]),
         y = Place(L[T[x.of].at].of, L[T[x.of].at].item + 1, x.begun),
         NEW S, Pushes(R, S, Nil)
  PROVE  cur # 0 /\ ReaderIn(L, T, N, s, S, p + 1, TRUE, ids, cur, c, Q)
<1>1. /\ cur \in 0..N /\ c \in Nat /\ x.item = c + 1 /\ x.of = cur
      /\ ReaderTyped(R) /\ ReaderHas(L, T, N, R, cur, c, Q, 0)
      /\ p + 1 \in 1 .. Len(s) + 1 /\ y = L[p + 1] /\ cur \in 0..x.begun
  BY DEF Coming
<1>2. y.of = L[T[cur].at].of /\ y.item = L[T[cur].at].item + 1 /\ y.begun = x.begun
  BY <1>1 DEF Place
<1>3. /\ ReaderTyped(S) /\ ReaderHas(L, T, N, S, cur, c, Q, 1) /\ S.lstack[Len(S.lstack)] = Nil
  <2>1. Holding(L, T, N, S, cur, c, Q, Nil)
    BY <1>1, HasPushed
  <2>. QED
    BY <2>1 DEF Holding
<1>4. Remembers(T, S, s, y.begun, ids) /\ Ended(T, N, S, cur, y.begun)
  BY <1>2, Zenon DEF Coming, Remembers, Ended, Pushes
<1>5. cur # 0 /\ c = Len(T[cur].list)
  <2>1. Len(T[cur].list) \in Nat
    BY <1>1, DepthOf
  <2>. QED
    BY <1>1, <2>1 DEF IsEnd
<1>6. AtEnd(L, T, S, y, cur, c)
  BY <1>2, <1>3, <1>5, Zenon DEF AtEnd
<1>. QED
  BY <1>1, <1>2, <1>3, <1>4, <1>5, <1>6, Zenon DEF ReaderIn

\* A sequence with an element more.
LEMMA Appended ==
  ASSUME NEW U, NEW s \in Seq(U), NEW y
  PROVE  /\ Append(s, y) \in Seq(U \cup {y}) /\ Len(Append(s, y)) = Len(s) + 1 /\ Len(s) \in Nat
         /\ Append(s, y)[Len(s) + 1] = y /\ \A j \in 1..Len(s) : Append(s, y)[j] = s[j]
<1>1. s \in Seq(U \cup {y}) /\ Len(s) \in Nat
  BY SeqMonotonic, LenProperties
<1>. QED
  BY <1>1, AppendProperties

\* Table m is new: R's stacks have one element more, in S.
Begins(R, S, m, n, a) ==
  /\ S.frames = Append(R.frames, FrameOf(n + 1, a, 0))
  /\ S.lstack = Append(R.lstack, Copy(m))
  /\ S.copies = Append(R.copies, Empty)
  /\ S.ancestor = IF n < MAX_DEPTH THEN [R.ancestor EXCEPT ![n] = Len(R.lstack) + 1] ELSE R.ancestor

\* The elements of the longer stacks.
Grown(R, S, m, n, l, a) ==
  /\ Len(S.lstack) = l + 1 /\ S.lstack[l + 1] = Copy(m) /\ \A j \in 1..l : S.lstack[j] = R.lstack[j]
  /\ Len(S.frames) = n + 1 /\ S.frames[n + 1] = FrameOf(n + 1, a, 0)
  /\ \A j \in 1..n : S.frames[j] = R.frames[j]
  /\ Len(S.copies) = m /\ S.copies[m] = Empty /\ \A j \in 1 .. m - 1 : S.copies[j] = R.copies[j]
  /\ n < MAX_DEPTH => S.ancestor[n] = l + 1
  /\ \A k \in Int : k # n => S.ancestor[k] = R.ancestor[k]

\* A table that begins is one more on each stack.
LEMMA StacksGrow ==
  ASSUME NEW R, ReaderTyped(R), NEW m \in Nat \ {0}, Len(R.copies) = m - 1,
         NEW n \in Nat, Len(R.frames) = n, NEW l \in Nat, Len(R.lstack) = l, NEW a \in Nat,
         NEW S, Begins(R, S, m, n, a)
  PROVE  ReaderTyped(S) /\ Grown(R, S, m, n, l, a)
<1>1. PICK U, C : R.lstack \in Seq(U) /\ R.copies \in Seq(C)
  BY DEF ReaderTyped
<1>2. PICK g : g = FrameOf(n + 1, a, 0)
  OBVIOUS
<1>3. g \in Frame
  <2>1. n + 1 - 1 \in Nat
    OBVIOUS
  <2>2. Stage(a, 0) \in {"array", "key", "value"}
    BY DEF Stage
  <2>3. (IF 0 < a THEN 0 + 1 ELSE a + 1) \in Nat
    OBVIOUS
  <2>. QED
    BY <1>2, <2>1, <2>2, <2>3 DEF FrameOf, Frame
<1>4. /\ S.lstack \in Seq(U \cup {Copy(m)}) /\ Len(S.lstack) = l + 1
      /\ S.lstack[l + 1] = Copy(m) /\ \A j \in 1..l : S.lstack[j] = R.lstack[j]
  BY <1>1, Appended DEF Begins
<1>5. /\ S.copies \in Seq(C \cup {Empty}) /\ Len(S.copies) = m - 1 + 1
      /\ S.copies[m - 1 + 1] = Empty /\ \A j \in 1 .. m - 1 : S.copies[j] = R.copies[j]
  BY <1>1, Appended DEF Begins
<1>6. /\ S.frames \in Seq(Frame) /\ Len(S.frames) = n + 1
      /\ S.frames[n + 1] = g /\ \A j \in 1..n : S.frames[j] = R.frames[j]
  BY <1>2, <1>3, AppendProperties DEF Begins, ReaderTyped
<1>7. PICK b \in Nat : b = l + 1
  OBVIOUS
<1>8. R.ancestor \in [0 .. MAX_DEPTH - 1 -> Nat] /\ MAX_DEPTH \in Nat
  BY LimitsAssumption DEF ReaderTyped
<1>9. CASE n < MAX_DEPTH
  <2>1. n \in 0 .. MAX_DEPTH - 1
    BY <1>8, <1>9
  <2>2. S.ancestor = [R.ancestor EXCEPT ![n] = b]
    BY <1>7, <1>9 DEF Begins
  <2>3. S.ancestor \in [0 .. MAX_DEPTH - 1 -> Nat] /\ S.ancestor[n] = b
    BY <1>8, <2>1, <2>2
  <2>4. \A k : k # n => S.ancestor[k] = R.ancestor[k] \/ k \notin 0 .. MAX_DEPTH - 1
    BY <1>8, <2>2
  <2>. QED
    BY <1>2, <1>4, <1>5, <1>6, <1>7, <2>2, <2>3, <2>4 DEF ReaderTyped, Grown
<1>10. CASE ~(n < MAX_DEPTH)
  <2>1. S.ancestor = R.ancestor
    BY <1>10 DEF Begins
  <2>. QED
    BY <1>2, <1>4, <1>5, <1>6, <1>8, <1>10, <2>1 DEF ReaderTyped, Grown
<1>. QED
  BY <1>9, <1>10

\* Nothing of a new table is there.
LEMMA EmptyHolds ==
  ASSUME NEW T, NEW N, NEW list, NEW a \in Nat
  PROVE  Holds(T, N, Empty, list, a, 0)
<1>1. \A j \in 1..0 : FALSE
  OBVIOUS
<1>2. Empty = [k \in DOMAIN Empty |-> Empty[k]] /\ \A k : k \notin DOMAIN Empty
  BY DEF Empty
<1>. QED
  BY <1>1, <1>2 DEF Holds

\* Stack indices with one more.
Extended(P, Q, n, l) == P[n + 1] = l + 1 /\ \A k \in 0..n : P[k] = Q[k]

\* The tables a new table is in are those of the table it is an item of.
LEMMA LevelsBegun ==
  ASSUME NEW L, NEW T, NEW N \in Nat, NEW s \in Seq(Elements), Story(L, T, N, s),
         NEW R, NEW cur \in 0..N, NEW c \in Nat, NEW Q, NEW n \in Nat, NEW z \in Nat, NEW l \in Nat,
         ReaderHas(L, T, N, R, cur, c, Q, 0), Numbered(T, R, cur, c, Q, 0, n, z, l),
         NEW m \in 1..N, cur = L[T[m].at].of, L[T[m].at].item = c + 1, cur < m,
         NEW S, Grown(R, S, m, n, l, T[m].size),
         NEW P, Extended(P, Q, n, l)
  PROVE  Levels(L, T, N, S, m, P)
<1>1. /\ T[m].depth = n + 1 /\ (\A k \in 0..n : T[m].chain[k] = T[cur].chain[k])
      /\ T[cur].chain[n] = cur /\ T[m].chain[n + 1] = m
  <2>1. PICK o : o = cur
    OBVIOUS
  <2>2. InTable(L, T, m, o) /\ T[m].at \in 1..Len(s) /\ L[T[m].at].begun = m - 1
    BY <2>1, IsInTable
  <2>3. T[o].depth = n
    BY <2>1, Zenon DEF Numbered
  <2>4. T[m].depth = T[o].depth + 1 /\ T[m].chain[T[m].depth] = m
    BY <2>2, Zenon DEF InTable
  <2>. QED
    BY <2>1, <2>2, <2>3, <2>4, Zenon DEF InTable
<1>2. /\ n = T[cur].depth /\ z = Q[n] /\ l = Last(T, cur, n, c, z)
      /\ z <= l + 1 /\ (n # 0 => z <= l) /\ (n # 0 => z # 0) /\ (n = 0 <=> cur = 0)
  BY Zenon DEF Numbered
<1>3. z <= l + 1 /\ (n # 0 => z <= l)
  BY <1>2, Zenon
<1>4. n # 0 => cur # 0
  BY <1>2, Zenon
<1>5. n = T[cur].depth /\ z = Q[n]
  BY <1>2, Zenon
<1>6. T[m].chain[n + 1] = m
  BY <1>1
<1>7. /\ Levels(L, T, N, R, cur, Q) /\ Level(T, N, R, cur, n, c, z)
  BY <1>2, Zenon DEF ReaderHas
<1>8. Below(T, R, S, cur, Q)
  <2>1. \A j \in 1 .. z - 1 : j \in 1..l
    BY <1>3
  <2>2. \A k \in 1 .. n - 1 : k \in 1..n /\ k - 1 # n /\ k - 1 \in Int
    OBVIOUS
  <2>3. \A i \in 1 .. cur - 1 : i \in 1 .. m - 1
    OBVIOUS
  <2>. QED
    BY <1>2, <2>1, <2>2, <2>3, Zenon DEF Below, Grown
<1>9. Levels(L, T, N, S, cur, Q)
  BY <1>2, <1>7, <1>8, LevelsStay, Zenon
<1>10. Level(T, N, S, cur, n, c, z)
  <2>1. n # 0 => z # 0
    BY <1>2, Zenon
  <2>2. n # 0 => /\ S.frames[n] = R.frames[n] /\ S.copies[cur] = R.copies[cur]
                 /\ n - 1 < MAX_DEPTH => S.ancestor[n - 1] = R.ancestor[n - 1]
    <3>1. n # 0 => n \in 1..n /\ n - 1 # n /\ n - 1 \in Int
      OBVIOUS
    <3>2. n # 0 => cur \in 1 .. m - 1
      BY <1>4
    <3>. QED
      BY <3>1, <3>2 DEF Grown
  <2>3. l = Last(T, cur, n, c, z) /\ \A j \in 1..l : S.lstack[j] = R.lstack[j]
    BY <1>2, Zenon DEF Grown
  <2>4. Level(T, N, R, cur, n, c, z)
    BY <1>7
  <2>. QED
    BY <2>1, <2>2, <2>3, <2>4, LevelStays
<1>11. P[n + 1] = l + 1 /\ \A k \in 0..n : P[k] = Q[k]
  BY DEF Extended
<1>12. ASSUME NEW k \in 0 .. n - 1
      PROVE  /\ Level(T, N, S, T[m].chain[k], k, Before(L, T, m, k), P[k])
             /\ P[k] \in Nat /\ P[k + 1] = End(L, T, m, P, k) + 1
             /\ \A j \in k + 1 .. n + 1 : End(L, T, m, P, k) < P[j]
  <2>1. k \in 0..n /\ k + 1 \in 0..n /\ n # 0 /\ n \in k + 1 .. n
    OBVIOUS
  <2>2. Before(L, T, m, k) = Before(L, T, cur, k) /\ T[m].chain[k] = T[cur].chain[k]
    BY <1>1, <2>1, Zenon DEF Before
  <2>3. P[k] = Q[k] /\ P[k + 1] = Q[k + 1]
    BY <1>11, <2>1
  <2>4. End(L, T, m, P, k) = End(L, T, cur, Q, k)
    BY <2>2, <2>3 DEF End
  <2>5. /\ End(L, T, cur, Q, k) \in Nat /\ Q[k] \in Nat /\ Q[k + 1] = End(L, T, cur, Q, k) + 1
        /\ Q[k + 1] \in Nat \ {0}
        /\ \A j \in k + 1 .. n : End(L, T, cur, Q, k) < Q[j]
        /\ Level(T, N, S, T[cur].chain[k], k, Before(L, T, cur, k), Q[k])
    <3>1. k \in 0 .. T[cur].depth - 1
      BY <1>5, Zenon
    <3>2. /\ End(L, T, cur, Q, k) \in Nat /\ Q[k] \in Nat /\ Q[k + 1] = End(L, T, cur, Q, k) + 1
          /\ Q[k + 1] \in Nat \ {0}
          /\ \A j \in k + 1 .. T[cur].depth : End(L, T, cur, Q, k) < Q[j]
          /\ Level(T, N, S, T[cur].chain[k], k, Before(L, T, cur, k), Q[k])
      <4>1. EndOK(L, T, N, S, cur, Q, k)
        BY <1>9, <3>1, EndIs
      <4>. QED
        BY <4>1, Zenon DEF EndOK
    <3>. QED
      BY <1>5, <3>2, Zenon
  <2>6. PICK e \in Nat : e = End(L, T, cur, Q, k)
    BY <2>5
  <2>7. e < l + 1
    <3>1. e < z
      BY <1>5, <2>1, <2>5, <2>6, Zenon
    <3>2. z <= l
      BY <1>3, <2>1
    <3>. QED
      BY <3>1, <3>2
  <2>8. ASSUME NEW j \in k + 1 .. n + 1
        PROVE  e < P[j]
    <3>1. CASE j = n + 1
      BY <1>11, <2>7, <3>1
    <3>2. CASE j # n + 1
      <4>1. j \in k + 1 .. n /\ j \in 0..n
        BY <3>2
      <4>. QED
        BY <1>11, <2>5, <2>6, <4>1
    <3>. QED
      BY <3>1, <3>2
  <2>. QED
    BY <2>2, <2>3, <2>4, <2>5, <2>6, <2>8, Zenon
<1>13. /\ Level(T, N, S, T[m].chain[n], n, Before(L, T, m, n), P[n])
      /\ P[n] \in Nat /\ P[n + 1] = End(L, T, m, P, n) + 1
      /\ \A j \in n + 1 .. n + 1 : End(L, T, m, P, n) < P[j]
  <2>1. n \in 0..n
    OBVIOUS
  <2>2. T[m].chain[n] = cur /\ P[n] = z
    BY <1>1, <1>2, <1>11, <2>1, Zenon
  <2>3. Before(L, T, m, n) = c
    <3>1. PICK i \in Nat : i = L[T[m].at].item /\ i = c + 1
      OBVIOUS
    <3>2. Before(L, T, m, n) = i - 1
      BY <1>6, <3>1 DEF Before
    <3>. QED
      BY <3>1, <3>2
  <2>4. End(L, T, m, P, n) = l
    BY <1>2, <2>2, <2>3, Zenon DEF End
  <2>5. \A j \in n + 1 .. n + 1 : j = n + 1
    OBVIOUS
  <2>. QED
    BY <1>10, <1>11, <2>2, <2>3, <2>4, <2>5
<1>14. ASSUME NEW k \in 0 .. n + 1 - 1
       PROVE  /\ Level(T, N, S, T[m].chain[k], k, Before(L, T, m, k), P[k])
              /\ P[k] \in Nat /\ P[k + 1] = End(L, T, m, P, k) + 1
              /\ \A j \in k + 1 .. n + 1 : End(L, T, m, P, k) < P[j]
  <2>1. k \in 0 .. n - 1 \/ k = n
    OBVIOUS
  <2>2. CASE k = n
    BY <1>13, <2>2
  <2>. QED
    BY <1>12, <2>1, <2>2
<1>15. PICK w \in Nat : w = n + 1
  OBVIOUS
<1>16. T[m].depth = w
  BY <1>1, <1>15
<1>17. \A k \in 0 .. w - 1 :
         /\ Level(T, N, S, T[m].chain[k], k, Before(L, T, m, k), P[k])
         /\ P[k] \in Nat /\ P[k + 1] = End(L, T, m, P, k) + 1
         /\ \A j \in k + 1 .. w : End(L, T, m, P, k) < P[j]
  <2> TAKE k \in 0 .. w - 1
  <2>1. k \in 0 .. n + 1 - 1
    BY <1>15
  <2>2. /\ Level(T, N, S, T[m].chain[k], k, Before(L, T, m, k), P[k])
        /\ P[k] \in Nat /\ P[k + 1] = End(L, T, m, P, k) + 1
        /\ \A j \in k + 1 .. n + 1 : End(L, T, m, P, k) < P[j]
    BY <1>14, <2>1
  <2>. QED
    BY <1>15, <2>2
<1>18. Levels(L, T, N, S, m, P)
  BY <1>16, <1>17 DEF Levels, End
<1>. QED
  BY <1>18

\* A tag was read: the reader is in the new table.
LEMMA TableBegun ==
  ASSUME NEW L, NEW T, NEW N \in Nat, NEW s \in Seq(Elements), Story(L, T, N, s),
         NEW R, NEW p \in Nat, NEW ids, NEW cur, NEW c, NEW Q, NEW x, NEW y,
         Coming(L, T, N, s, R, p, ids, cur, c, Q, x, y), IsBegin(x, T, N, s[p], p),
         y = Place(x.begun + 1, 1, x.begun + 1), NEW n, n = T[cur].depth,
         NEW m, m = x.begun + 1, NEW S, Begins(R, S, m, n, T[m].size),
         NEW more, more = IF s[p].type = "mark" THEN ids \cup {m} ELSE ids
  PROVE  \E P : ReaderIn(L, T, N, s, S, p + 1, FALSE, more, m, 0, P)
<1>1. /\ cur \in 0..N /\ c \in Nat /\ x.item = c + 1 /\ x.of = cur /\ x = L[p]
      /\ ReaderTyped(R) /\ ReaderHas(L, T, N, R, cur, c, Q, 0)
      /\ p + 1 \in 1 .. Len(s) + 1 /\ y = L[p + 1] /\ cur \in 0..x.begun /\ x.begun \in 0..N
  BY DEF Coming
<1>2. PICK b \in Nat : b = x.begun /\ m = b + 1
  BY <1>1
<1>3. m \in 1..N /\ m \in Nat \ {0} /\ cur < m /\ m - 1 = b
  <2>1. b + 1 <= N /\ cur \in 0..b
    BY <1>1, <1>2 DEF IsBegin
  <2>. QED
    BY <1>2, <2>1
<1>4. T[m].at = p
  BY DEF IsBegin
<1>5. cur = L[T[m].at].of /\ L[T[m].at].item = c + 1
  BY <1>1, <1>4
<1>6. T[m].size \in Nat /\ T[m].list \in Seq(Values)
  <2>1. BegunOK(L, T, s, m)
    BY <1>3 DEF Story, StoryTo
  <2>. QED
    BY <2>1, Zenon DEF BegunOK, TagOK, Proper
<1>7. PICK k, z, l \in Nat : Numbered(T, R, cur, c, Q, 0, k, z, l)
  BY <1>1, HasNumbers
<1>8. n = k /\ n \in Nat /\ Len(R.frames) = n /\ Len(R.lstack) = l
  BY <1>7 DEF Numbered
<1>9. Numbered(T, R, cur, c, Q, 0, n, z, l)
  BY <1>7, <1>8
<1>10. Len(R.copies) = m - 1
  BY <1>2, <1>3 DEF Coming, Remembers
<1>11. ReaderTyped(S) /\ Grown(R, S, m, n, l, T[m].size)
  BY <1>1, <1>3, <1>6, <1>8, <1>10, StacksGrow
<1>12. PICK P : P = [i \in 0 .. n + 1 |-> IF i = n + 1 THEN l + 1 ELSE Q[i]]
  OBVIOUS
<1>13. PICK o : o = L[T[m].at].of
  OBVIOUS
<1>14. InTable(L, T, m, o) /\ T[m].at \in 1..Len(s) /\ L[T[m].at].begun = m - 1
  <2>1. PICK h \in 1..N : h = m
    BY <1>3
  <2>2. o = L[T[h].at].of
    BY <1>13, <2>1
  <2>3. InTable(L, T, h, o) /\ T[h].at \in 1..Len(s) /\ L[T[h].at].begun = h - 1
    BY <2>2, IsInTable
  <2>. QED
    BY <2>1, <2>3
<1>15. o = cur
  BY <1>5, <1>13, Zenon
<1>16. Levels(L, T, N, S, m, P) /\ T[m].depth = n + 1
  <2>1. Extended(P, Q, n, l)
    <3>1. n + 1 \in 0 .. n + 1 /\ \A j \in 0..n : j \in 0 .. n + 1 /\ j # n + 1
      BY <1>8
    <3>. QED
      BY <1>12, <3>1 DEF Extended
  <2>2. Grown(R, S, m, n, l, T[m].size) /\ ReaderHas(L, T, N, R, cur, c, Q, 0)
    BY <1>1, <1>11
  <2>3. cur \in 0..N /\ c \in Nat /\ n \in Nat
    BY <1>1, <1>8
  <2>4. Levels(L, T, N, S, m, P)
    BY <1>3, <1>5, <1>9, <2>1, <2>2, <2>3, LevelsBegun, Zenon
  <2>5. T[m].depth = T[o].depth + 1
    BY <1>14, Zenon DEF InTable
  <2>. QED
    BY <1>15, <2>4, <2>5
<1>17. P[n + 1] = l + 1
  <2>1. n + 1 \in 0 .. n + 1
    BY <1>8
  <2>. QED
    BY <1>12, <2>1
<1>18. Stage(T[m].size, 0) # "value"
  <2>1. PICK a \in Nat : a = T[m].size
    BY <1>6
  <2>2. ~(0 < a) => (0 - a) % 2 = 0
    OBVIOUS
  <2>. QED
    BY <2>1, <2>2 DEF Stage
<1>19. Level(T, N, S, m, n + 1, 0, l + 1)
  <2>1. PICK w \in Nat : w = n + 1 /\ w # 0 /\ w - 1 = n
    BY <1>8
  <2>2. Holds(T, N, Empty, T[m].list, T[m].size, 0)
    BY <1>6, EmptyHolds
  <2>3. PICK j \in Nat : j = l + 1
    OBVIOUS
  <2>4. /\ S.frames[w] = FrameOf(w, T[m].size, 0) /\ S.lstack[j] = Copy(m)
        /\ S.copies[m] = Empty /\ (n < MAX_DEPTH => S.ancestor[n] = j)
    BY <1>11, <2>1, <2>3 DEF Grown
  <2>5. Level(T, N, S, m, w, 0, j)
    BY <1>18, <2>1, <2>2, <2>4 DEF Level
  <2>. QED
    BY <2>1, <2>3, <2>5
<1>20. ReaderHas(L, T, N, S, m, 0, P, 0)
  <2>1. PICK w \in Nat : w = n + 1 /\ w # 0
    BY <1>8
  <2>2. PICK j \in Nat : j = l + 1
    OBVIOUS
  <2>3. T[m].depth = w /\ P[w] = j /\ Level(T, N, S, m, w, 0, j) /\ Levels(L, T, N, S, m, P)
    BY <1>16, <1>17, <1>19, <2>1, <2>2
  <2>4. Len(S.frames) = w /\ Len(S.lstack) = j
    BY <1>11, <2>1, <2>2 DEF Grown
  <2>5. Last(T, m, w, 0, j) = j
    BY <1>18, <2>1 DEF Last
  <2>6. 0 \in 0..Len(T[m].list)
    BY <1>6, LenProperties
  <2>. QED
    BY <2>2, <2>3, <2>4, <2>5, <2>6 DEF ReaderHas
<1>21. Ended(T, N, S, m, m)
  <2>1. /\ \A i \in 0..n : T[m].chain[i] = T[cur].chain[i]
        /\ T[m].chain[n + 1] = m
    <3>1. T[m].chain[T[m].depth] = m /\ T[o].depth = n
      BY <1>14, <1>15 DEF InTable
    <3>. QED
      BY <1>16, <1>14, <1>15, <3>1 DEF InTable
  <2>2. ASSUME NEW i \in 1..m
        PROVE  \/ \E j \in 1..T[m].depth : i = T[m].chain[j]
               \/ Holds(T, N, S.copies[i], T[i].list, T[i].size, Len(T[i].list))
    <3>1. CASE i = m
      <4>1. n + 1 \in 1..T[m].depth
        BY <1>8, <1>16
      <4>. QED
        BY <2>1, <3>1, <4>1
    <3>2. CASE i # m
      <4>1. i \in 1..b /\ i \in 1 .. m - 1
        BY <1>2, <1>3, <3>2
      <4>2. \/ \E j \in 1..T[cur].depth : i = T[cur].chain[j]
            \/ Holds(T, N, R.copies[i], T[i].list, T[i].size, Len(T[i].list))
        BY <1>2, <4>1 DEF Coming, Ended
      <4>3. CASE Holds(T, N, R.copies[i], T[i].list, T[i].size, Len(T[i].list))
        BY <1>11, <4>1, <4>3 DEF Grown
      <4>4. ASSUME NEW j \in 1..T[cur].depth, i = T[cur].chain[j]
            PROVE  \E h \in 1..T[m].depth : i = T[m].chain[h]
        <5>1. j \in 1..n /\ j \in 0..n /\ j \in 1 .. n + 1
          BY <1>8
        <5>. QED
          BY <1>16, <2>1, <4>4, <5>1
      <4>. QED
        BY <4>2, <4>3, <4>4
    <3>. QED
      BY <3>1, <3>2
  <2>. QED
    BY <2>2, Zenon DEF Ended
<1>22. Remembers(T, S, s, m, more)
  <2>1. Len(S.copies) = m
    BY <1>11 DEF Grown
  <2>2. ASSUME NEW i \in 1..m, s[T[i].at].type = "mark"
        PROVE  i \in more
    <3>1. CASE i = m
      BY <1>4, <2>2, <3>1
    <3>2. CASE i # m
      <4>1. i \in 1..b
        BY <1>2, <1>3, <3>2
      <4>. QED
        BY <1>2, <2>2, <4>1 DEF Coming, Remembers
    <3>. QED
      BY <3>1, <3>2
  <2>. QED
    BY <2>1, <2>2 DEF Remembers
<1>23. y.of = m /\ y.begun = m /\ y.item = 0 + 1
  BY DEF Place
<1>24. AtItem(y, m, 0)
  BY <1>23 DEF AtItem
<1>25. m \in 0..y.begun
  BY <1>3, <1>23
<1>26. ReaderIn(L, T, N, s, S, p + 1, FALSE, more, m, 0, P)
  BY <1>1, <1>11, <1>20, <1>21, <1>22, <1>23, <1>24, <1>25 DEF ReaderIn
<1>. QED
  BY <1>26

\* A key is plain, and behind the last item a key comes next.
LEMMA KeyComes ==
  ASSUME NEW list, NEW a, Proper(list, a), NEW c \in 0..Len(list)
  PROVE  /\ Stage(a, c) = "key" /\ c # Len(list) =>
              list[c + 1].type # "table" /\ list[c + 1] # Nil /\ list[c + 1] \in Values
         /\ c = Len(list) => Stage(a, c) = "key"
         /\ Stage(a, c) = "array" => c < a
<1>1. PICK l \in Nat : l = Len(list) /\ list \in Seq(Values) /\ a \in Nat
  BY LenProperties DEF Proper
<1>2. /\ a <= l /\ (l - a) % 2 = 0
      /\ \A j \in 1..l : j > a /\ (j - a) % 2 = 1 => list[j].type # "table" /\ list[j] # Nil
  BY <1>1 DEF Proper, Matches
<1>3. PICK d \in 0..l : d = c
  BY <1>1
<1>4. Stage(a, d) = "key" => ~(d < a) /\ (d - a) % 2 = 0
  BY DEF Stage
<1>5. ASSUME Stage(a, d) = "key", d # l
      PROVE  list[d + 1].type # "table" /\ list[d + 1] # Nil /\ list[d + 1] \in Values
  <2>1. d + 1 \in 1..l /\ d + 1 > a /\ (d + 1 - a) % 2 = 1
    BY <1>1, <1>4, <1>5
  <2>2. list[d + 1] \in Values
    BY <1>1, <2>1, ElementOfSeq
  <2>3. PICK j \in 1..l : j = d + 1
    BY <2>1
  <2>4. j > a /\ (j - a) % 2 = 1
    BY <1>1, <2>1, <2>3
  <2>5. list[j].type # "table" /\ list[j] # Nil
    BY <1>2, <2>4
  <2>. QED
    BY <2>2, <2>3, <2>5
<1>6. d = l => Stage(a, d) = "key"
  BY <1>1, <1>2 DEF Stage
<1>7. Stage(a, d) = "array" => d < a
  BY DEF Stage
<1>. QED
  BY <1>1, <1>3, <1>5, <1>6, <1>7

\* The tables of a story have items as they should.
LEMMA ProperTable ==
  ASSUME NEW L, NEW T, NEW N \in Nat, NEW s \in Seq(Elements), Story(L, T, N, s), NEW m \in 1..N
  PROVE  Proper(T[m].list, T[m].size) /\ T[m].size \in Nat
<1>1. BegunOK(L, T, s, m)
  BY DEF Story, StoryTo
<1>. QED
  BY <1>1, Zenon DEF BegunOK, TagOK, Proper

\* h is on the stack as the k-th open table.
OpenAt(N, R, Q, k, h) ==
  /\ h \in 1..N /\ R.lstack[Q[k]] = Copy(h)
  /\ k - 1 < MAX_DEPTH => R.ancestor[k - 1] = Q[k]

\* The k-th open table is on the stack, where the reader looks for it.
LEMMA OpenTable ==
  ASSUME NEW L, NEW T, NEW N \in Nat, NEW s \in Seq(Elements), Story(L, T, N, s),
         NEW cur \in 0..N, NEW R, NEW c, NEW Q, NEW rest, ReaderHas(L, T, N, R, cur, c, Q, rest),
         NEW k \in 1..T[cur].depth, NEW h, h = T[cur].chain[k]
  PROVE  OpenAt(N, R, Q, k, h)
<1>1. ChainOK(T, cur) /\ TableOK(T, cur)
  BY ChainIs DEF Story, StoryTo
<1>2. PICK n \in Nat : n = T[cur].depth /\ k \in 1..n
  BY <1>1 DEF ChainOK
<1>3. k \in 0..n /\ k # 0
  BY <1>2
<1>4. h \in 0..cur /\ h # 0
  BY <1>1, <1>2, <1>3 DEF ChainOK
<1>5. h \in 1..N
  BY <1>4
<1>6. CASE k = n
  <2>1. h = cur /\ Level(T, N, R, cur, n, c, Q[n])
    BY <1>1, <1>2, <1>6 DEF TableOK, ReaderHas
  <2>. QED
    BY <1>3, <1>5, <1>6, <2>1 DEF Level, OpenAt
<1>7. CASE k # n
  <2>1. k \in 0 .. n - 1
    BY <1>3, <1>7
  <2>2. Level(T, N, R, h, k, Before(L, T, cur, k), Q[k])
    BY <1>2, <2>1 DEF ReaderHas, Levels
  <2>. QED
    BY <1>3, <1>5, <2>2 DEF Level, OpenAt
<1>. QED
  BY <1>6, <1>7

\* A short reference leads to the copy of the table it was written for.
LEMMA AncestorRead ==
  ASSUME NEW L, NEW T, NEW N \in Nat, NEW s \in Seq(Elements), Story(L, T, N, s),
         NEW R, NEW p \in Nat, NEW ids, NEW cur, NEW c, NEW Q, NEW x, NEW y,
         Coming(L, T, N, s, R, p, ids, cur, c, Q, x, y), NEW d, d = s[p].cookie,
         IsAncestor(x, T, s[p])
  PROVE  d < T[cur].depth /\ Image(T, N, R.lstack[R.ancestor[d]], T[cur].list[x.item])
<1>1. cur \in 0..N /\ x.of = cur /\ ReaderHas(L, T, N, R, cur, c, Q, 0)
  BY DEF Coming
<1>2. PICK n \in Nat : n = T[cur].depth
  BY <1>1, DepthOf
<1>3. /\ d \in Nat /\ d < MAX_DEPTH /\ d < n
      /\ T[cur].list[x.item] = Copy(T[T[cur].chain[d + 1]].table)
  BY <1>1, <1>2 DEF IsAncestor
<1>4. PICK k \in 1..n : k = d + 1 /\ k - 1 = d
  BY <1>3
<1>5. PICK h : h = T[cur].chain[k]
  OBVIOUS
<1>6. OpenAt(N, R, Q, k, h)
  <2>1. k \in 1..T[cur].depth
    BY <1>2
  <2>. QED
    BY <1>1, <1>5, <2>1, OpenTable
<1>7. h \in 1..N /\ R.lstack[R.ancestor[d]] = Copy(h)
  BY <1>3, <1>4, <1>6 DEF OpenAt
<1>8. T[cur].list[x.item] = Copy(T[h].table)
  BY <1>3, <1>4, <1>5
<1>9. Copy(T[h].table).type = "table" /\ Copy(T[h].table).v = T[h].table
  BY DEF Copy
<1>. QED
  BY <1>2, <1>3, <1>7, <1>8, <1>9 DEF Image

\* How deep the reader takes a table to be.
LEMMA DepthRead ==
  ASSUME NEW L, NEW T, NEW N \in Nat, NEW s \in Seq(Elements), Story(L, T, N, s),
         NEW R, R.frames = frames, NEW p \in Nat, NEW ids, NEW cur, NEW c, NEW Q, NEW x, NEW y,
         Coming(L, T, N, s, R, p, ids, cur, c, Q, x, y), IsTableItem(x, T)
  PROVE  Depth = T[cur].depth
<1>1. /\ cur \in 0..N /\ x.of = cur /\ x.item = c + 1 /\ c \in Nat
      /\ ReaderHas(L, T, N, R, cur, c, Q, 0) /\ ReaderTyped(R)
  BY DEF Coming
<1>2. PICK n \in Nat : n = T[cur].depth /\ (n = 0 <=> cur = 0) /\ n = Len(frames)
  <2>1. PICK n \in Nat : n = T[cur].depth /\ (n = 0 <=> cur = 0)
    <3>1. /\ T[cur].depth \in Nat /\ (T[cur].depth = 0 <=> cur = 0) /\ T[0].depth = 0
          /\ T[cur].list \in Seq(Values) /\ Len(T[cur].list) \in Nat
      BY <1>1, DepthOf
    <3>. QED
      BY <3>1
  <2>2. Len(frames) = n
    <3>1. Len(R.frames) = T[cur].depth
      BY <1>1, Zenon DEF ReaderHas
    <3>. QED
      BY <2>1, <3>1
  <2>. QED
    BY <2>1, <2>2
<1>3. frames \in Seq(Frame)
  BY <1>1 DEF ReaderTyped
<1>4. CASE n = 0
  <2>1. frames = <<>>
    BY <1>2, <1>3, <1>4, EmptySeq
  <2>. QED
    BY <1>2, <1>4, <2>1 DEF Depth
<1>5. CASE n # 0
  <2>1. frames # <<>>
    BY <1>2, <1>5, EmptySeq
  <2>2. Top(frames) = FrameOf(n, T[cur].size, c)
    <3>1. Level(T, N, R, cur, n, c, Q[n])
      BY <1>1, <1>2 DEF ReaderHas
    <3>. QED
      BY <1>2, <1>5, <3>1 DEF Level, Top
  <2>3. Stage(T[cur].size, c) # "key"
    <3>1. cur \in 1..N
      BY <1>1, <1>2, <1>5
    <3>2. Proper(T[cur].list, T[cur].size)
      BY <3>1, ProperTable
    <3>3. c \in 0..Len(T[cur].list)
      BY <1>1 DEF ReaderHas
    <3>4. c # Len(T[cur].list) /\ T[cur].list[c + 1].type = "table"
      <4>1. c + 1 <= Len(T[cur].list) /\ Len(T[cur].list) \in Nat
        BY <1>1, DepthOf DEF IsTableItem
      <4>. QED
        BY <1>1, <4>1 DEF IsTableItem
    <3>. QED
      BY <3>2, <3>3, <3>4, KeyComes
  <2>4. Top(frames).base = n - 1 /\ Top(frames).stage # "key"
    BY <2>2, <2>3 DEF FrameOf
  <2>5. Depth = n - 1 + 1
    BY <2>1, <2>4 DEF Depth
  <2>. QED
    BY <1>2, <2>5
<1>. QED
  BY <1>4, <1>5

------------------------------------------------------------------------------
(* What the reader stores.                                                  *)

\* The image of a value is nil just for nil.
LEMMA NilImage ==
  ASSUME NEW T, NEW N, NEW v, NEW x, Image(T, N, v, x)
  PROVE  /\ v = Nil <=> x = Nil
         /\ x.type # "table" => v = x
<1>1. \A m : Copy(m) # Nil
  <2>1. \A m : Copy(m).type = "table" /\ Nil.type = "nil"
    BY DEF Copy, Nil
  <2>. QED
    BY <2>1
<1>2. Nil.type = "nil"
  BY DEF Nil
<1>. QED
  BY <1>1, <1>2 DEF Image

\* A copy after the next item's value v was stored.
StoredIn(copy, k, v) == IF v = Nil THEN Without(copy, k) ELSE With(copy, k, v)

\* A copy holds one item more once that is stored.
LEMMA HoldsMore ==
  ASSUME NEW T, NEW N, NEW list, NEW a, Proper(list, a), NEW c \in Nat, NEW d, d = c + 1,
         d \in 1..Len(list), NEW copy, Holds(T, N, copy, list, a, c), IsValue(a, d),
         NEW v, Image(T, N, v, list[d]), NEW k, k = KeyAt(list, a, d)
  PROVE  Holds(T, N, StoredIn(copy, k, v), list, a, d)
<1>1. /\ copy = [i \in DOMAIN copy |-> copy[i]]
      /\ \A i : i \in DOMAIN copy <=>
                \E j \in 1..c : IsValue(a, j) /\ list[j] # Nil /\ i = KeyAt(list, a, j)
      /\ \A j \in 1..c : IsValue(a, j) /\ list[j] # Nil => Image(T, N, copy[KeyAt(list, a, j)], list[j])
  BY DEF Holds
<1>2. PICK new : new = StoredIn(copy, k, v)
  OBVIOUS
<1>3. v = Nil <=> list[d] = Nil
  BY NilImage
<1>4. \A j \in 1..d : j \in 1..c \/ j = d
  OBVIOUS
<1>5. d \in 1..d /\ \A j \in 1..c : j \in 1..d /\ j # d
  OBVIOUS
<1>6. ASSUME NEW j \in 1..c, IsValue(a, j)
      PROVE  KeyAt(list, a, j) # k
  <2>1. PICK l \in Nat : l = Len(list)
    BY LenProperties DEF Proper
  <2>2. j \in 1..l /\ d \in 1..l /\ j # d
    BY <2>1
  <2>. QED
    BY <1>6, <2>1, <2>2 DEF Proper
<1>7. CASE v = Nil
  <2>1. new = [i \in DOMAIN copy \ {k} |-> copy[i]]
    BY <1>2, <1>7 DEF StoredIn, Without
  <2>2. k \notin DOMAIN copy
    BY <1>1, <1>6
  <2>3. DOMAIN copy \ {k} = DOMAIN copy
    BY <2>2
  <2>4. new = copy
    BY <1>1, <2>1, <2>3
  <2>5. \A i : i \in DOMAIN copy <=>
               \E j \in 1..d : IsValue(a, j) /\ list[j] # Nil /\ i = KeyAt(list, a, j)
    BY <1>1, <1>3, <1>4, <1>5, <1>7
  <2>6. \A j \in 1..d : IsValue(a, j) /\ list[j] # Nil =>
                          Image(T, N, copy[KeyAt(list, a, j)], list[j])
    BY <1>1, <1>3, <1>4, <1>7
  <2>. QED
    BY <1>1, <1>2, <2>4, <2>5, <2>6 DEF Holds
<1>8. CASE v # Nil
  <2>1. new = [i \in DOMAIN copy \cup {k} |-> IF i = k THEN v ELSE copy[i]]
    BY <1>2, <1>8 DEF StoredIn, With
  <2>2. DOMAIN new = DOMAIN copy \cup {k} /\ new[k] = v /\ \A i \in DOMAIN copy : i # k => new[i] = copy[i]
    BY <2>1
  <2>3. new = [i \in DOMAIN new |-> new[i]]
    BY <2>1, <2>2
  <2>4. ASSUME NEW i
        PROVE  i \in DOMAIN new <=>
               \E j \in 1..d : IsValue(a, j) /\ list[j] # Nil /\ i = KeyAt(list, a, j)
    <3>1. CASE i = k
      BY <1>3, <1>5, <1>8, <2>2, <3>1
    <3>2. CASE i # k
      <4>1. i \in DOMAIN new <=> i \in DOMAIN copy
        BY <2>2, <3>2
      <4>. QED
        BY <1>1, <1>4, <1>5, <3>2, <4>1
    <3>. QED
      BY <3>1, <3>2
  <2>5. ASSUME NEW j \in 1..d, IsValue(a, j), list[j] # Nil
        PROVE  Image(T, N, new[KeyAt(list, a, j)], list[j])
    <3>1. CASE j = d
      BY <2>2, <3>1
    <3>2. CASE j # d
      <4>1. j \in 1..c
        BY <1>4, <3>2
      <4>2. PICK i : i = KeyAt(list, a, j)
        OBVIOUS
      <4>3. i # k /\ i \in DOMAIN copy
        BY <1>1, <1>6, <2>5, <4>1, <4>2
      <4>4. new[i] = copy[i]
        BY <2>2, <4>3
      <4>. QED
        BY <1>1, <2>5, <4>1, <4>2, <4>4
    <3>. QED
      BY <3>1, <3>2
  <2>. QED
    BY <1>2, <2>3, <2>4, <2>5 DEF Holds
<1>. QED
  BY <1>7, <1>8

\* A key is not stored until its value comes.
LEMMA HoldsSame ==
  ASSUME NEW T, NEW N, NEW list, NEW a, NEW c \in Nat, NEW d, d = c + 1,
         NEW copy, Holds(T, N, copy, list, a, c), ~IsValue(a, d)
  PROVE  Holds(T, N, copy, list, a, d)
<1>1. /\ copy = [i \in DOMAIN copy |-> copy[i]]
      /\ \A i : i \in DOMAIN copy <=>
                \E j \in 1..c : IsValue(a, j) /\ list[j] # Nil /\ i = KeyAt(list, a, j)
      /\ \A j \in 1..c : IsValue(a, j) /\ list[j] # Nil => Image(T, N, copy[KeyAt(list, a, j)], list[j])
  BY DEF Holds
<1>2. \A j \in 1..d : j \in 1..c \/ j = d
  OBVIOUS
<1>3. \A j \in 1..c : j \in 1..d
  OBVIOUS
<1>4. \A i : i \in DOMAIN copy <=>
             \E j \in 1..d : IsValue(a, j) /\ list[j] # Nil /\ i = KeyAt(list, a, j)
  BY <1>1, <1>2, <1>3
<1>5. \A j \in 1..d : IsValue(a, j) /\ list[j] # Nil => Image(T, N, copy[KeyAt(list, a, j)], list[j])
  BY <1>1, <1>2
<1>. QED
  BY <1>1, <1>4, <1>5 DEF Holds

\* A value waits on the stack to be stored.
Waiting(L, T, N, s, R, p, ids, cur, c, Q, x, n, z, l) ==
  /\ p \in 1 .. Len(s) + 1 /\ x = L[p] /\ x.begun \in 0..N /\ cur \in 1..x.begun /\ cur \in 1..N
  /\ c \in Nat /\ c \in 0..Len(T[cur].list) /\ ReaderHas(L, T, N, R, cur, c, Q, 1)
  /\ n \in Nat \ {0} /\ z \in Nat \ {0} /\ l \in Nat /\ n = T[cur].depth /\ z = Q[n]
  /\ l = Last(T, cur, n, c, z) /\ Len(R.lstack) = l + 1 /\ Len(R.frames) = n
  /\ R.frames[n] = FrameOf(n, T[cur].size, c) /\ R.lstack[z] = Copy(cur)
  /\ Stage(T[cur].size, c) = "value" => R.lstack[z + 1] = T[cur].list[c]
  /\ Holds(T, N, R.copies[cur], T[cur].list, T[cur].size, c)
  /\ n - 1 < MAX_DEPTH => R.ancestor[n - 1] = z
  /\ Proper(T[cur].list, T[cur].size) /\ T[cur].size \in Nat /\ T[cur].chain[n] = cur
  /\ ReaderTyped(R) /\ Remembers(T, R, s, x.begun, ids) /\ Ended(T, N, R, cur, x.begun)
  /\ OnStack(T, N, R, x, cur, c) \/ AtEnd(L, T, R, x, cur, c)

\* A value that was read waits for its table.
LEMMA ValueWaits ==
  ASSUME NEW L, NEW T, NEW N \in Nat, NEW s \in Seq(Elements), Story(L, T, N, s),
         NEW R, NEW p, NEW ids, NEW cur, NEW c, NEW Q,
         ReaderIn(L, T, N, s, R, p, TRUE, ids, cur, c, Q)
  PROVE  \E x, n, z, l : Waiting(L, T, N, s, R, p, ids, cur, c, Q, x, n, z, l)
<1>1. PICK x : x = L[p]
  OBVIOUS
<1>2. /\ p \in 1 .. Len(s) + 1 /\ cur \in 0..x.begun /\ ReaderTyped(R)
      /\ Remembers(T, R, s, x.begun, ids) /\ Ended(T, N, R, cur, x.begun)
      /\ ReaderHas(L, T, N, R, cur, c, Q, 1)
      /\ OnStack(T, N, R, x, cur, c) \/ AtEnd(L, T, R, x, cur, c)
  BY <1>1 DEF ReaderIn
<1>3. cur # 0
  BY <1>2 DEF OnStack, AtEnd
<1>4. x.begun \in 0..N
  BY <1>1, <1>2 DEF Story, StoryTo, PlaceOK
<1>5. cur \in 1..x.begun /\ cur \in 1..N /\ cur \in 0..N
  BY <1>2, <1>3, <1>4
<1>6. PICK n, z, l \in Nat : c \in Nat /\ Numbered(T, R, cur, c, Q, 1, n, z, l)
  BY <1>2, <1>5, HasNumbers
<1>7. /\ n \in Nat \ {0} /\ z \in Nat \ {0} /\ l \in Nat /\ c \in Nat /\ n = T[cur].depth /\ z = Q[n]
      /\ l = Last(T, cur, n, c, z) /\ Len(R.lstack) = l + 1 /\ Len(R.frames) = n
      /\ c \in 0..Len(T[cur].list)
  BY <1>3, <1>6 DEF Numbered
<1>8. Level(T, N, R, cur, n, c, z)
  BY <1>2, <1>7 DEF ReaderHas
<1>9. /\ R.frames[n] = FrameOf(n, T[cur].size, c) /\ R.lstack[z] = Copy(cur)
      /\ Stage(T[cur].size, c) = "value" => R.lstack[z + 1] = T[cur].list[c]
      /\ Holds(T, N, R.copies[cur], T[cur].list, T[cur].size, c)
      /\ n - 1 < MAX_DEPTH => R.ancestor[n - 1] = z
  BY <1>7, <1>8 DEF Level
<1>10. Proper(T[cur].list, T[cur].size) /\ T[cur].size \in Nat
  BY <1>5, ProperTable
<1>11. T[cur].chain[n] = cur
  <2>1. TableOK(T, cur)
    BY <1>5 DEF Story, StoryTo
  <2>. QED
    BY <1>7, <2>1 DEF TableOK
<1>12. Waiting(L, T, N, s, R, p, ids, cur, c, Q, x, n, z, l)
  BY <1>1, <1>2, <1>4, <1>5, <1>7, <1>9, <1>10, <1>11 DEF Waiting
<1>. QED
  BY <1>12

\* S has one item more of table cur than R.
Stores(T, N, R, S, cur, d, n, z) ==
  /\ ReaderTyped(S) /\ S.ancestor = R.ancestor
  /\ Len(S.frames) = n /\ S.frames[n] = FrameOf(n, T[cur].size, d)
  /\ \A k \in 1 .. n - 1 : S.frames[k] = R.frames[k]
  /\ Len(S.copies) = Len(R.copies) /\ \A m \in 1..Len(R.copies) : m # cur => S.copies[m] = R.copies[m]
  /\ Holds(T, N, S.copies[cur], T[cur].list, T[cur].size, d)
  /\ \A j \in 1..z : S.lstack[j] = R.lstack[j]
  /\ Stage(T[cur].size, d) = "value" => S.lstack[z + 1] = T[cur].list[d]
  /\ Len(S.lstack) = Last(T, cur, n, d, z)

\* The reader has the next item once it stored this one.
LEMMA ItemStored ==
  ASSUME NEW L, NEW T, NEW N \in Nat, NEW s \in Seq(Elements), Story(L, T, N, s),
         NEW R, NEW p, NEW ids, NEW cur, NEW c, NEW Q, NEW x, NEW n, NEW z, NEW l,
         Waiting(L, T, N, s, R, p, ids, cur, c, Q, x, n, z, l), OnStack(T, N, R, x, cur, c),
         NEW d, d = c + 1, d \in 1..Len(T[cur].list), NEW S, Stores(T, N, R, S, cur, d, n, z)
  PROVE  ReaderIn(L, T, N, s, S, p, FALSE, ids, cur, d, Q)
<1>1. /\ p \in 1 .. Len(s) + 1 /\ x = L[p] /\ x.begun \in 0..N /\ cur \in 1..x.begun /\ cur \in 1..N
      /\ c \in Nat /\ ReaderHas(L, T, N, R, cur, c, Q, 1)
      /\ n \in Nat \ {0} /\ z \in Nat \ {0} /\ n = T[cur].depth /\ z = Q[n]
      /\ R.lstack[z] = Copy(cur) /\ (n - 1 < MAX_DEPTH => R.ancestor[n - 1] = z)
      /\ T[cur].chain[n] = cur
  BY DEF Waiting
<1>2. PICK b \in Nat : b = x.begun /\ Len(R.copies) = b /\ cur \in 1..b
  BY <1>1 DEF Waiting, Remembers
<1>3. Below(T, R, S, cur, Q)
  <2>1. \A j \in 1 .. z - 1 : j \in 1..z
    BY <1>1
  <2>2. \A m \in 1 .. cur - 1 : m \in 1..b /\ m # cur
    BY <1>2
  <2>3. \A j \in 1 .. z - 1 : S.lstack[j] = R.lstack[j]
    BY <2>1 DEF Stores
  <2>4. \A m \in 1 .. cur - 1 : S.copies[m] = R.copies[m]
    BY <1>2, <2>2 DEF Stores
  <2>5. \A k \in 1 .. n - 1 : S.frames[k] = R.frames[k] /\ S.ancestor[k - 1] = R.ancestor[k - 1]
    BY DEF Stores
  <2>6. n = T[cur].depth /\ z = Q[n]
    BY <1>1
  <2>. QED
    BY <2>3, <2>4, <2>5, <2>6 DEF Below
<1>4. Levels(L, T, N, S, cur, Q)
  <2>1. Levels(L, T, N, R, cur, Q) /\ cur \in 0..N /\ Q[T[cur].depth] \in Nat
    BY <1>1 DEF ReaderHas
  <2>. QED
    BY <1>3, <2>1, LevelsStay
<1>5. Level(T, N, S, cur, n, d, z)
  <2>1. z \in 1..z /\ n # 0
    BY <1>1
  <2>2. S.lstack[z] = Copy(cur)
    BY <1>1, <2>1 DEF Stores
  <2>3. n - 1 < MAX_DEPTH => S.ancestor[n - 1] = z
    BY <1>1 DEF Stores
  <2>. QED
    BY <2>1, <2>2, <2>3 DEF Level, Stores
<1>6. ReaderHas(L, T, N, S, cur, d, Q, 0)
  <2>1. Len(S.lstack) = Last(T, cur, n, d, z) + 0
    <3>1. Last(T, cur, n, d, z) \in Nat
      BY <1>1 DEF Last
    <3>. QED
      BY <3>1 DEF Stores
  <2>2. d \in 0..Len(T[cur].list) /\ Len(S.frames) = n
    BY <1>1 DEF Stores
  <2>. QED
    BY <1>1, <1>4, <1>5, <2>1, <2>2 DEF ReaderHas
<1>7. Ended(T, N, S, cur, b)
  <2>1. ASSUME NEW m \in 1..b
        PROVE  \/ \E k \in 1..T[cur].depth : m = T[cur].chain[k]
               \/ Holds(T, N, S.copies[m], T[m].list, T[m].size, Len(T[m].list))
    <3>1. CASE m = cur
      <4>1. n \in 1..T[cur].depth /\ T[cur].chain[n] = m
        BY <1>1, <3>1
      <4>. QED
        BY <4>1
    <3>2. CASE m # cur
      <4>1. S.copies[m] = R.copies[m]
        BY <1>2, <3>2 DEF Stores
      <4>2. \/ \E k \in 1..T[cur].depth : m = T[cur].chain[k]
            \/ Holds(T, N, R.copies[m], T[m].list, T[m].size, Len(T[m].list))
        BY <1>2 DEF Waiting, Ended
      <4>. QED
        BY <4>1, <4>2
    <3>. QED
      BY <3>1, <3>2
  <2>. QED
    BY <2>1 DEF Ended
<1>8. Remembers(T, S, s, b, ids)
  <2>1. Remembers(T, R, s, b, ids) /\ Len(S.copies) = b
    BY <1>2 DEF Waiting, Stores
  <2>. QED
    BY <2>1 DEF Remembers
<1>9. AtItem(x, cur, d)
  <2>1. x.of = cur /\ x.item = c + 2
    BY DEF OnStack
  <2>. QED
    BY <1>1, <2>1 DEF AtItem
<1>10. ReaderTyped(S) /\ cur \in 0..x.begun
  BY <1>1, <1>2 DEF Stores
<1>. QED
  BY <1>1, <1>2, <1>6, <1>7, <1>8, <1>9, <1>10 DEF ReaderIn

\* The first l elements.
Prefix(U, s, l, t) == t \in Seq(U) /\ Len(t) = l /\ \A j \in 1..l : t[j] = s[j]

\* A sequence without its last k elements.
LEMMA Popped ==
  ASSUME NEW U, NEW s \in Seq(U), NEW l \in Nat, NEW k \in Nat, Len(s) = l + k
  PROVE  Prefix(U, s, l, Pop(s, k))
<1>1. PICK n \in Nat : n = l + k /\ Len(s) = n
  OBVIOUS
<1>2. l = n - k /\ l <= n
  BY <1>1
<1>3. \A j \in 1..n : s[j] \in U
  BY <1>1, ElementOfSeq
<1>4. \A j \in 1..l : s[j] \in U
  BY <1>1, <1>2, <1>3
<1>5. /\ SubSeq(s, 1, l) \in Seq(U) /\ Len(SubSeq(s, 1, l)) = l
      /\ \A j \in 1 .. l - 1 + 1 : SubSeq(s, 1, l)[j] = s[1 + j - 1]
  BY <1>4, SubSeqProperties
<1>6. \A j \in 1..l : j \in 1 .. l - 1 + 1 /\ 1 + j - 1 = j
  BY <1>2
<1>7. \A j \in 1..l : SubSeq(s, 1, l)[j] = s[j]
  BY <1>5, <1>6
<1>8. Pop(s, k) = SubSeq(s, 1, l)
  BY <1>1, <1>2 DEF Pop
<1>. QED
  BY <1>5, <1>7, <1>8 DEF Prefix

\* What the next item is, in the order of array, keys and values.
LEMMA StageIs ==
  ASSUME NEW a \in Nat, NEW c \in Nat, NEW d, d = c + 1
  PROVE  /\ Stage(a, c) = "array" => IsValue(a, d) /\ d <= a /\ Stage(a, d) # "value"
         /\ Stage(a, c) = "key" => ~IsValue(a, d) /\ Stage(a, d) = "value"
         /\ Stage(a, c) = "value" => IsValue(a, d) /\ ~(d <= a) /\ Stage(a, d) = "key" /\ d - 1 = c
         /\ Stage(a, c) \in {"array", "key", "value"}
<1>1. CASE c < a
  <2>1. d <= a /\ (~(d < a) => (d - a) % 2 = 0)
    BY <1>1
  <2>. QED
    BY <1>1, <2>1 DEF Stage, IsValue
<1>2. CASE ~(c < a) /\ (c - a) % 2 = 0
  <2>1. ~(d < a) /\ ~(d <= a) /\ (d - a) % 2 = 1
    BY <1>2
  <2>. QED
    BY <1>2, <2>1 DEF Stage, IsValue
<1>3. CASE ~(c < a) /\ (c - a) % 2 # 0
  <2>1. ~(d < a) /\ ~(d <= a) /\ (d - a) % 2 = 0 /\ d - 1 = c
    BY <1>3
  <2>. QED
    BY <1>3, <2>1 DEF Stage, IsValue
<1>. QED
  BY <1>1, <1>2, <1>3

\* The item on the stack is one of the table's.
LEMMA ItemThere ==
  ASSUME NEW L, NEW T, NEW N \in Nat, NEW s \in Seq(Elements), Story(L, T, N, s),
         NEW R, NEW p, NEW ids, NEW cur, NEW c, NEW Q, NEW x, NEW n, NEW z, NEW l,
         Waiting(L, T, N, s, R, p, ids, cur, c, Q, x, n, z, l), OnStack(T, N, R, x, cur, c)
  PROVE  c + 1 \in 1..Len(T[cur].list) /\ c # Len(T[cur].list)
<1>1. /\ p \in 1 .. Len(s) + 1 /\ x = L[p] /\ cur \in 1..N /\ c \in Nat
      /\ x.of = cur /\ x.item = c + 2
  BY DEF Waiting, OnStack
<1>2. PlaceOK(L, T, N, p)
  BY <1>1 DEF Story, StoryTo
<1>3. PICK k \in Nat : k = Len(T[cur].list)
  <2>1. cur \in 0..N
    BY <1>1
  <2>. QED
    BY <2>1, DepthOf
<1>4. c + 2 \in 1 .. k + 1
  BY <1>1, <1>2, <1>3 DEF PlaceOK
<1>5. c + 1 \in 1..k /\ c # k
  BY <1>1, <1>4
<1>. QED
  BY <1>3, <1>5

\* What is waiting is an item, unless a key comes next.
LEMMA ItemWaits ==
  ASSUME NEW L, NEW T, NEW N \in Nat, NEW s \in Seq(Elements), Story(L, T, N, s),
         NEW R, NEW p, NEW ids, NEW cur, NEW c, NEW Q, NEW x, NEW n, NEW z, NEW l,
         Waiting(L, T, N, s, R, p, ids, cur, c, Q, x, n, z, l)
  PROVE  /\ Stage(T[cur].size, c) # "key" => OnStack(T, N, R, x, cur, c)
         /\ R.lstack[Len(R.lstack)] # Nil => OnStack(T, N, R, x, cur, c)
         /\ Stage(T[cur].size, c) = "key" /\ R.lstack[Len(R.lstack)] = Nil => AtEnd(L, T, R, x, cur, c)
<1>1. /\ Proper(T[cur].list, T[cur].size) /\ c \in 0..Len(T[cur].list)
      /\ OnStack(T, N, R, x, cur, c) \/ AtEnd(L, T, R, x, cur, c)
  BY DEF Waiting
<1>2. AtEnd(L, T, R, x, cur, c) => Stage(T[cur].size, c) = "key" /\ R.lstack[Len(R.lstack)] = Nil
  BY <1>1, KeyComes DEF AtEnd
<1>3. ASSUME OnStack(T, N, R, x, cur, c), Stage(T[cur].size, c) = "key", R.lstack[Len(R.lstack)] = Nil
      PROVE  FALSE
  <2>1. c # Len(T[cur].list)
    BY <1>3, ItemThere
  <2>2. T[cur].list[c + 1] # Nil
    BY <1>1, <1>3, <2>1, KeyComes
  <2>3. Image(T, N, Nil, T[cur].list[c + 1])
    BY <1>3 DEF OnStack
  <2>. QED
    BY <2>2, <2>3, NilImage
<1>. QED
  BY <1>1, <1>2, <1>3

\* The stack of S is R's as far as table cur, and what waits for its value.
StackIs(T, R, S, cur, d, n, z) ==
  /\ \E U : S.lstack \in Seq(U)
  /\ \A j \in 1..z : S.lstack[j] = R.lstack[j]
  /\ Stage(T[cur].size, d) = "value" => S.lstack[z + 1] = T[cur].list[d]
  /\ Len(S.lstack) = Last(T, cur, n, d, z)

\* The call and the copy of table cur have changed.
LEMMA StoresIs ==
  ASSUME NEW L, NEW T, NEW N \in Nat, NEW s \in Seq(Elements),
         NEW R, NEW p, NEW ids, NEW cur, NEW c, NEW Q, NEW x, NEW n, NEW z, NEW l,
         Waiting(L, T, N, s, R, p, ids, cur, c, Q, x, n, z, l), NEW d \in Nat, NEW new, NEW S,
         S.frames = [R.frames EXCEPT ![n] = FrameOf(n, T[cur].size, d)],
         S.copies = [R.copies EXCEPT ![cur] = new], S.ancestor = R.ancestor,
         StackIs(T, R, S, cur, d, n, z), Holds(T, N, new, T[cur].list, T[cur].size, d)
  PROVE  Stores(T, N, R, S, cur, d, n, z)
<1>1. /\ n \in Nat \ {0} /\ Len(R.frames) = n /\ T[cur].size \in Nat /\ ReaderTyped(R)
      /\ Len(R.copies) = x.begun /\ cur \in 1..x.begun
  BY DEF Waiting, Remembers
<1>2. PICK g : g = FrameOf(n, T[cur].size, d)
  OBVIOUS
<1>3. g \in Frame
  <2>1. n - 1 \in Nat
    BY <1>1
  <2>2. Stage(T[cur].size, d) \in {"array", "key", "value"}
    BY DEF Stage
  <2>3. (IF d < T[cur].size THEN d + 1 ELSE T[cur].size + 1) \in Nat
    BY <1>1
  <2>. QED
    BY <1>1, <1>2, <2>1, <2>2, <2>3 DEF FrameOf, Frame
<1>4. /\ S.frames \in Seq(Frame) /\ Len(S.frames) = n /\ S.frames[n] = g
      /\ \A k \in 1 .. n - 1 : S.frames[k] = R.frames[k]
  <2>1. R.frames \in Seq(Frame) /\ n \in 1..Len(R.frames)
    BY <1>1 DEF ReaderTyped
  <2>2. PICK fs : fs = [R.frames EXCEPT ![n] = g] /\ S.frames = fs
    BY <1>2
  <2>3. /\ fs \in Seq(Frame) /\ Len(fs) = Len(R.frames)
        /\ \A j \in 1..Len(R.frames) : fs[j] = IF j = n THEN g ELSE R.frames[j]
    BY <1>3, <2>1, <2>2, ExceptSeq
  <2>4. n \in 1..n /\ \A k \in 1 .. n - 1 : k \in 1..n /\ k # n
    BY <1>1
  <2>. QED
    BY <1>1, <2>2, <2>3, <2>4
<1>5. /\ \E C : S.copies \in Seq(C)
      /\ Len(S.copies) = Len(R.copies) /\ S.copies[cur] = new
      /\ \A m \in 1..Len(R.copies) : m # cur => S.copies[m] = R.copies[m]
  <2>1. PICK C : R.copies \in Seq(C)
    BY <1>1 DEF ReaderTyped
  <2>2. PICK D : D = C \cup {new}
    OBVIOUS
  <2>3. R.copies \in Seq(D) /\ cur \in 1..Len(R.copies)
    BY <1>1, <2>1, <2>2, SeqMonotonic
  <2>4. PICK cs : cs = [R.copies EXCEPT ![cur] = new] /\ S.copies = cs
    OBVIOUS
  <2>5. new \in D
    BY <2>2
  <2>6. /\ cs \in Seq(D) /\ Len(cs) = Len(R.copies)
        /\ \A j \in 1..Len(R.copies) : cs[j] = IF j = cur THEN new ELSE R.copies[j]
    BY <2>3, <2>4, <2>5, ExceptSeq
  <2>. QED
    BY <2>3, <2>4, <2>6
<1>6. ReaderTyped(S)
  <2>1. (\E U : S.lstack \in Seq(U)) /\ R.ancestor \in [0 .. MAX_DEPTH - 1 -> Nat]
    BY <1>1 DEF StackIs, ReaderTyped
  <2>. QED
    BY <1>4, <1>5, <2>1 DEF ReaderTyped
<1>. QED
  BY <1>2, <1>4, <1>5, <1>6 DEF Stores, StackIs

\* Table cur, the n-th open one, has frame f; v is stored at key k.
Moves(R, S, n, f) == S.frames = [R.frames EXCEPT ![n] = f] /\ S.ancestor = R.ancestor
Puts(R, S, cur, k, v) == S.copies = [R.copies EXCEPT ![cur] = StoredIn(R.copies[cur], k, v)]

\* The next item of the array part.
LEMMA ElementStored ==
  ASSUME NEW L, NEW T, NEW N \in Nat, NEW s \in Seq(Elements), Story(L, T, N, s),
         NEW R, NEW p, NEW ids, NEW cur, NEW c, NEW Q, NEW x, NEW n, NEW z, NEW l,
         Waiting(L, T, N, s, R, p, ids, cur, c, Q, x, n, z, l), Stage(T[cur].size, c) = "array",
         NEW d, d = c + 1, NEW v, v = R.lstack[Len(R.lstack)], NEW S,
         Moves(R, S, n, FrameOf(n, T[cur].size, d)), Puts(R, S, cur, Index(d), v),
         S.lstack = Pop(R.lstack, 1)
  PROVE  ReaderIn(L, T, N, s, S, p, FALSE, ids, cur, d, Q)
<1>1. /\ c \in Nat /\ n \in Nat \ {0} /\ z \in Nat \ {0} /\ l = Last(T, cur, n, c, z)
      /\ Len(R.lstack) = l + 1 /\ ReaderTyped(R) /\ Proper(T[cur].list, T[cur].size)
      /\ Holds(T, N, R.copies[cur], T[cur].list, T[cur].size, c) /\ T[cur].size \in Nat
  BY DEF Waiting
<1>2. OnStack(T, N, R, x, cur, c)
  BY ItemWaits
<1>3. d \in 1..Len(T[cur].list) /\ d \in Nat
  BY <1>1, <1>2, ItemThere
<1>4. IsValue(T[cur].size, d) /\ d <= T[cur].size /\ Stage(T[cur].size, d) # "value"
  BY <1>1, StageIs
<1>5. Image(T, N, v, T[cur].list[d])
  BY <1>2 DEF OnStack
<1>6. Holds(T, N, StoredIn(R.copies[cur], Index(d), v), T[cur].list, T[cur].size, d)
  <2>1. KeyAt(T[cur].list, T[cur].size, d) = Index(d)
    BY <1>4 DEF KeyAt
  <2>. QED
    BY <1>1, <1>3, <1>4, <1>5, <2>1, HoldsMore
<1>7. l = z
  BY <1>1 DEF Last
<1>8. StackIs(T, R, S, cur, d, n, z)
  <2>1. PICK U : R.lstack \in Seq(U)
    BY <1>1 DEF ReaderTyped
  <2>2. z \in Nat /\ 1 \in Nat /\ Len(R.lstack) = z + 1
    BY <1>1, <1>7
  <2>3. Prefix(U, R.lstack, z, Pop(R.lstack, 1))
    BY <2>1, <2>2, Popped
  <2>4. Last(T, cur, n, d, z) = z
    BY <1>1, <1>4 DEF Last
  <2>. QED
    BY <1>4, <2>3, <2>4 DEF StackIs, Prefix
<1>9. Stores(T, N, R, S, cur, d, n, z)
  <2>1. S.copies = [R.copies EXCEPT ![cur] = StoredIn(R.copies[cur], Index(d), v)]
    BY DEF Puts
  <2>2. S.frames = [R.frames EXCEPT ![n] = FrameOf(n, T[cur].size, d)] /\ S.ancestor = R.ancestor
    BY DEF Moves
  <2>. QED
    BY <1>3, <1>6, <1>8, <2>1, <2>2, StoresIs
<1>. QED
  BY <1>2, <1>3, <1>9, ItemStored

\* The next pair.
LEMMA ValueStored ==
  ASSUME NEW L, NEW T, NEW N \in Nat, NEW s \in Seq(Elements), Story(L, T, N, s),
         NEW R, NEW p, NEW ids, NEW cur, NEW c, NEW Q, NEW x, NEW n, NEW z, NEW l,
         Waiting(L, T, N, s, R, p, ids, cur, c, Q, x, n, z, l), Stage(T[cur].size, c) = "value",
         NEW d, d = c + 1, NEW v, v = R.lstack[Len(R.lstack)], NEW S,
         NEW k, k = R.lstack[Len(R.lstack) - 1],
         Moves(R, S, n, FrameOf(n, T[cur].size, d)), Puts(R, S, cur, k, v),
         S.lstack = Pop(R.lstack, 2)
  PROVE  ReaderIn(L, T, N, s, S, p, FALSE, ids, cur, d, Q)
<1>1. /\ c \in Nat /\ n \in Nat \ {0} /\ z \in Nat \ {0} /\ l = Last(T, cur, n, c, z)
      /\ Len(R.lstack) = l + 1 /\ ReaderTyped(R) /\ Proper(T[cur].list, T[cur].size)
      /\ Holds(T, N, R.copies[cur], T[cur].list, T[cur].size, c) /\ T[cur].size \in Nat
      /\ R.lstack[z + 1] = T[cur].list[c]
  BY DEF Waiting
<1>2. OnStack(T, N, R, x, cur, c)
  BY ItemWaits
<1>3. d \in 1..Len(T[cur].list) /\ d \in Nat
  BY <1>1, <1>2, ItemThere
<1>4. /\ IsValue(T[cur].size, d) /\ ~(d <= T[cur].size) /\ Stage(T[cur].size, d) # "value"
      /\ d - 1 = c
  <2>1. /\ IsValue(T[cur].size, d) /\ ~(d <= T[cur].size) /\ Stage(T[cur].size, d) = "key"
        /\ d - 1 = c
    BY <1>1, StageIs
  <2>. QED
    BY <2>1
<1>5. Image(T, N, v, T[cur].list[d])
  BY <1>2 DEF OnStack
<1>6. Len(R.lstack) = z + 2 /\ k = T[cur].list[c]
  <2>1. l = z + 1
    BY <1>1 DEF Last
  <2>2. Len(R.lstack) = z + 2 /\ Len(R.lstack) - 1 = z + 1
    BY <1>1, <2>1
  <2>. QED
    BY <1>1, <2>2
<1>7. Holds(T, N, StoredIn(R.copies[cur], k, v), T[cur].list, T[cur].size, d)
  <2>1. KeyAt(T[cur].list, T[cur].size, d) = k
    BY <1>4, <1>6 DEF KeyAt
  <2>. QED
    BY <1>1, <1>3, <1>4, <1>5, <2>1, HoldsMore
<1>8. StackIs(T, R, S, cur, d, n, z)
  <2>1. PICK U : R.lstack \in Seq(U)
    BY <1>1 DEF ReaderTyped
  <2>2. z \in Nat /\ 2 \in Nat /\ Len(R.lstack) = z + 2
    BY <1>1, <1>6
  <2>3. Prefix(U, R.lstack, z, Pop(R.lstack, 2))
    BY <2>1, <2>2, Popped
  <2>4. Last(T, cur, n, d, z) = z
    BY <1>1, <1>4 DEF Last
  <2>. QED
    BY <1>4, <2>3, <2>4 DEF StackIs, Prefix
<1>9. Stores(T, N, R, S, cur, d, n, z)
  <2>1. S.copies = [R.copies EXCEPT ![cur] = StoredIn(R.copies[cur], k, v)]
    BY DEF Puts
  <2>2. S.frames = [R.frames EXCEPT ![n] = FrameOf(n, T[cur].size, d)] /\ S.ancestor = R.ancestor
    BY DEF Moves
  <2>. QED
    BY <1>3, <1>7, <1>8, <2>1, <2>2, StoresIs
<1>. QED
  BY <1>2, <1>3, <1>9, ItemStored

\* A key stays on the stack until its value comes.
LEMMA KeyStored ==
  ASSUME NEW L, NEW T, NEW N \in Nat, NEW s \in Seq(Elements), Story(L, T, N, s),
         NEW R, NEW p, NEW ids, NEW cur, NEW c, NEW Q, NEW x, NEW n, NEW z, NEW l,
         Waiting(L, T, N, s, R, p, ids, cur, c, Q, x, n, z, l), Stage(T[cur].size, c) = "key",
         NEW d, d = c + 1, R.lstack[Len(R.lstack)] # Nil, NEW S,
         Moves(R, S, n, FrameOf(n, T[cur].size, d)), S.copies = R.copies, S.lstack = R.lstack
  PROVE  ReaderIn(L, T, N, s, S, p, FALSE, ids, cur, d, Q)
<1>1. /\ c \in Nat /\ n \in Nat \ {0} /\ z \in Nat \ {0} /\ l = Last(T, cur, n, c, z)
      /\ Len(R.lstack) = l + 1 /\ ReaderTyped(R) /\ Proper(T[cur].list, T[cur].size)
      /\ Holds(T, N, R.copies[cur], T[cur].list, T[cur].size, c) /\ T[cur].size \in Nat
      /\ c \in 0..Len(T[cur].list) /\ cur \in 1..x.begun /\ Len(R.copies) = x.begun
  BY DEF Waiting, Remembers
<1>2. OnStack(T, N, R, x, cur, c)
  BY ItemWaits
<1>3. d \in 1..Len(T[cur].list) /\ d \in Nat /\ c # Len(T[cur].list)
  BY <1>1, <1>2, ItemThere
<1>4. ~IsValue(T[cur].size, d) /\ Stage(T[cur].size, d) = "value"
  BY <1>1, StageIs
<1>5. R.lstack[Len(R.lstack)] = T[cur].list[d]
  <2>1. Image(T, N, R.lstack[Len(R.lstack)], T[cur].list[d])
    BY <1>2 DEF OnStack
  <2>2. T[cur].list[d].type # "table"
    BY <1>1, <1>3, KeyComes
  <2>. QED
    BY <2>1, <2>2, NilImage
<1>6. Holds(T, N, R.copies[cur], T[cur].list, T[cur].size, d)
  BY <1>1, <1>4, HoldsSame
<1>7. StackIs(T, R, S, cur, d, n, z)
  <2>1. PICK U : R.lstack \in Seq(U)
    BY <1>1 DEF ReaderTyped
  <2>2. l = z
    BY <1>1 DEF Last
  <2>3. Last(T, cur, n, d, z) = z + 1
    BY <1>1, <1>4 DEF Last
  <2>4. Len(R.lstack) = z + 1 /\ R.lstack[z + 1] = T[cur].list[d]
    BY <1>1, <1>5, <2>2
  <2>. QED
    BY <2>1, <2>3, <2>4 DEF StackIs
<1>8. S.copies = [R.copies EXCEPT ![cur] = R.copies[cur]]
  <2>1. PICK C : R.copies \in Seq(C)
    BY <1>1 DEF ReaderTyped
  <2>2. R.copies \in [1..Len(R.copies) -> C]
    BY <2>1, LenProperties
  <2>. QED
    BY <2>2
<1>9. Stores(T, N, R, S, cur, d, n, z)
  <2>1. S.frames = [R.frames EXCEPT ![n] = FrameOf(n, T[cur].size, d)] /\ S.ancestor = R.ancestor
    BY DEF Moves
  <2>. QED
    BY <1>3, <1>6, <1>7, <1>8, <2>1, StoresIs
<1>. QED
  BY <1>2, <1>3, <1>9, ItemStored

\* The stack of S is R's without what table cur has there but its copy.
Closes(R, S) ==
  /\ S.frames = Pop(R.frames, 1) /\ S.lstack = Pop(R.lstack, 1)
  /\ S.copies = R.copies /\ S.ancestor = R.ancestor

\* h is how deep the table is of which table cur is item i.
Closed(L, T, N, S, cur, Q, h, o, i, z) ==
  /\ h \in Nat /\ z \in Nat \ {0} /\ i \in Nat \ {0} /\ o \in 0 .. cur - 1 /\ cur \in 1..N
  /\ T[cur].depth = h + 1 /\ T[o].depth = h /\ (h = 0 <=> o = 0)
  /\ T[cur].chain[h + 1] = cur /\ T[o].chain[h] = o /\ \A k \in 0..h : T[cur].chain[k] = T[o].chain[k]
  /\ i \in 1..Len(T[o].list) /\ T[o].list[i] = Copy(T[cur].table) /\ Before(L, T, cur, h) = i - 1
  /\ ReaderTyped(S) /\ Len(S.frames) = h /\ Len(S.lstack) = z /\ S.lstack[z] = Copy(cur)
  /\ Levels(L, T, N, S, cur, Q) /\ z = Q[h + 1]

\* Table cur is item i of table o.
IsItem(L, T, cur, o, i) == o = L[T[cur].at].of /\ i = L[T[cur].at].item

\* A table at its end leaves its copy where it is an item.
LEMMA TableCloses ==
  ASSUME NEW L, NEW T, NEW N \in Nat, NEW s \in Seq(Elements), Story(L, T, N, s),
         NEW R, NEW p, NEW ids, NEW cur, NEW c, NEW Q, NEW x, NEW n, NEW z, NEW l,
         Waiting(L, T, N, s, R, p, ids, cur, c, Q, x, n, z, l), Stage(T[cur].size, c) = "key",
         NEW S, Closes(R, S), NEW o, NEW i, IsItem(L, T, cur, o, i)
  PROVE  \E h : Closed(L, T, N, S, cur, Q, h, o, i, z) /\ n = h + 1
<1>1. /\ n \in Nat \ {0} /\ z \in Nat \ {0} /\ n = T[cur].depth /\ z = Q[n] /\ cur \in 1..N
      /\ l = Last(T, cur, n, c, z) /\ Len(R.lstack) = l + 1 /\ Len(R.frames) = n
      /\ R.lstack[z] = Copy(cur) /\ ReaderTyped(R) /\ T[cur].chain[n] = cur
      /\ ReaderHas(L, T, N, R, cur, c, Q, 1)
  BY DEF Waiting
<1>2. l = z
  BY <1>1 DEF Last
<1>3. PICK h \in Nat : n = h + 1 /\ n - 1 = h
  BY <1>1
<1>4. InTable(L, T, cur, o) /\ i = L[T[cur].at].item
  <2>1. o = L[T[cur].at].of /\ i = L[T[cur].at].item
    BY DEF IsItem
  <2>2. InTable(L, T, cur, o) /\ T[cur].at \in 1..Len(s) /\ L[T[cur].at].begun = cur - 1
    BY <1>1, <2>1, IsInTable
  <2>. QED
    BY <2>1, <2>2
<1>5. /\ o \in 0 .. cur - 1 /\ T[o].depth \in Nat /\ T[cur].depth = T[o].depth + 1
      /\ \A k \in 0..T[o].depth : T[cur].chain[k] = T[o].chain[k]
      /\ T[o].chain[T[o].depth] = o /\ i \in 1..Len(T[o].list) /\ T[o].list[i] = Copy(T[cur].table)
  BY <1>4, Zenon DEF InTable
<1>6. T[o].depth = h
  <2>1. PICK e \in Nat : e = T[o].depth
    BY <1>5
  <2>2. h + 1 = e + 1
    BY <1>1, <1>3, <1>5, <2>1
  <2>3. h = e
    BY <2>2
  <2>. QED
    BY <2>1, <2>3
<1>7. o \in 0..N /\ (h = 0 <=> o = 0) /\ Len(T[o].list) \in Nat
  <2>1. o \in 0..N
    <3>1. cur \in 1..N /\ o \in 0 .. cur - 1
      BY <1>1, <1>5
    <3>. QED
      BY <3>1
  <2>2. /\ T[o].depth \in Nat /\ (T[o].depth = 0 <=> o = 0) /\ T[0].depth = 0
        /\ T[o].list \in Seq(Values) /\ Len(T[o].list) \in Nat
    BY <2>1, DepthOf
  <2>. QED
    BY <1>6, <2>1, <2>2
<1>8. i \in Nat \ {0}
  <2>1. PICK e \in Nat : e = Len(T[o].list)
    BY <1>7
  <2>2. i \in 1..e
    BY <1>5, <2>1
  <2>. QED
    BY <2>2
<1>9. Before(L, T, cur, h) = i - 1
  <2>1. T[cur].chain[h + 1] = cur
    BY <1>1, <1>3
  <2>. QED
    BY <1>4, <2>1 DEF Before
<1>10. PICK U, F : R.lstack \in Seq(U) /\ R.frames \in Seq(F) /\ F = Frame
  BY <1>1 DEF ReaderTyped
<1>11. Prefix(U, R.lstack, z, Pop(R.lstack, 1))
  <2>1. z \in Nat /\ 1 \in Nat /\ Len(R.lstack) = z + 1
    BY <1>1, <1>2
  <2>. QED
    BY <1>10, <2>1, Popped
<1>12. Prefix(F, R.frames, h, Pop(R.frames, 1))
  <2>1. h \in Nat /\ 1 \in Nat /\ Len(R.frames) = h + 1
    BY <1>1, <1>3
  <2>. QED
    BY <1>10, <2>1, Popped
<1>13. /\ S.lstack \in Seq(U) /\ Len(S.lstack) = z /\ \A j \in 1..z : S.lstack[j] = R.lstack[j]
  BY <1>11 DEF Prefix, Closes
<1>14. /\ S.frames \in Seq(Frame) /\ Len(S.frames) = h /\ \A j \in 1..h : S.frames[j] = R.frames[j]
  BY <1>10, <1>12 DEF Prefix, Closes
<1>15. ReaderTyped(S)
  BY <1>1, <1>13, <1>14 DEF ReaderTyped, Closes
<1>16. S.lstack[z] = Copy(cur)
  <2>1. z \in 1..z
    BY <1>1
  <2>. QED
    BY <1>1, <1>13, <2>1
<1>17. Below(T, R, S, cur, Q)
  <2>1. (\A j \in 1 .. z - 1 : j \in 1..z) /\ (\A k \in 1 .. n - 1 : k \in 1..h)
    BY <1>1, <1>3
  <2>2. n = T[cur].depth /\ z = Q[n]
    BY <1>1
  <2>. QED
    BY <1>13, <1>14, <2>1, <2>2 DEF Below, Closes
<1>18. Levels(L, T, N, S, cur, Q)
  <2>1. Levels(L, T, N, R, cur, Q) /\ cur \in 0..N /\ Q[T[cur].depth] \in Nat
    BY <1>1 DEF ReaderHas
  <2>. QED
    BY <1>17, <2>1, LevelsStay
<1>19. T[cur].depth = h + 1 /\ T[cur].chain[h + 1] = cur /\ z = Q[h + 1]
  BY <1>1, <1>3
<1>20. Closed(L, T, N, S, cur, Q, h, o, i, z)
  BY <1>1, <1>5, <1>6, <1>7, <1>8, <1>9, <1>13, <1>14, <1>15, <1>16, <1>18, <1>19 DEF Closed
<1>. QED
  BY <1>3, <1>20

\* Of the table around it the reader has the items before the one that has ended.
LEMMA LevelsClosed ==
  ASSUME NEW L, NEW T, NEW N \in Nat, NEW s \in Seq(Elements), Story(L, T, N, s),
         NEW cur, NEW Q, NEW h, NEW o, NEW i, NEW z, NEW S,
         Closed(L, T, N, S, cur, Q, h, o, i, z), NEW b, b = i - 1
  PROVE  /\ Levels(L, T, N, S, o, Q) /\ Level(T, N, S, o, h, b, Q[h]) /\ Q[h] \in Nat
         /\ z = Last(T, o, h, b, Q[h]) + 1
<1>1. /\ h \in Nat /\ z \in Nat \ {0} /\ i \in Nat \ {0} /\ o \in 0 .. cur - 1 /\ cur \in 1..N
      /\ T[cur].depth = h + 1 /\ T[o].depth = h
      /\ T[o].chain[h] = o /\ \A k \in 0..h : T[cur].chain[k] = T[o].chain[k]
      /\ Before(L, T, cur, h) = i - 1 /\ Levels(L, T, N, S, cur, Q) /\ z = Q[h + 1]
  BY DEF Closed
<1>2. PICK n \in Nat : n = h + 1 /\ n = T[cur].depth
  BY <1>1
<1>3. ASSUME NEW k \in 0..h
      PROVE  EndOK(L, T, N, S, cur, Q, k) /\ T[cur].chain[k] = T[o].chain[k]
  <2>1. k \in 0 .. n - 1
    BY <1>1, <1>2
  <2>2. k \in 0 .. T[cur].depth - 1 /\ cur \in 0..N
    BY <1>1, <1>2, <2>1
  <2>3. EndOK(L, T, N, S, cur, Q, k)
    BY <1>1, <2>2, EndIs
  <2>. QED
    BY <1>1, <2>3
<1>4. ASSUME NEW k \in 0 .. h - 1
      PROVE  /\ Level(T, N, S, T[o].chain[k], k, Before(L, T, o, k), Q[k])
             /\ Q[k] \in Nat /\ Q[k + 1] = End(L, T, o, Q, k) + 1
             /\ \A j \in k + 1 .. h : End(L, T, o, Q, k) < Q[j]
  <2>1. k \in 0..h /\ k + 1 \in 0..h
    BY <1>1
  <2>2. EndOK(L, T, N, S, cur, Q, k) /\ T[cur].chain[k] = T[o].chain[k]
    BY <1>3, <2>1
  <2>3. Before(L, T, o, k) = Before(L, T, cur, k)
    BY <1>1, <2>1 DEF Before
  <2>4. End(L, T, o, Q, k) = End(L, T, cur, Q, k)
    BY <2>2, <2>3 DEF End
  <2>5. \A j \in k + 1 .. h : j \in k + 1 .. n
    BY <1>1, <1>2
  <2>6. \A j \in k + 1 .. n : End(L, T, cur, Q, k) < Q[j]
    BY <1>2, <2>2 DEF EndOK
  <2>. QED
    BY <2>2, <2>3, <2>4, <2>5, <2>6 DEF EndOK
<1>5. Levels(L, T, N, S, o, Q)
  BY <1>1, <1>4 DEF Levels, End
<1>6. EndOK(L, T, N, S, cur, Q, h) /\ T[cur].chain[h] = o
  <2>1. h \in 0..h
    BY <1>1
  <2>. QED
    BY <1>1, <1>3, <2>1
<1>7. Before(L, T, cur, h) = b
  BY <1>1
<1>8. End(L, T, cur, Q, h) = Last(T, o, h, b, Q[h])
  BY <1>6, <1>7 DEF End
<1>. QED
  BY <1>1, <1>5, <1>6, <1>7, <1>8 DEF EndOK

\* The ended table is the next item of the one around it.
LEMMA TableEnded ==
  ASSUME NEW L, NEW T, NEW N \in Nat, NEW s \in Seq(Elements), Story(L, T, N, s),
         NEW R, NEW p, NEW ids, NEW cur, NEW c, NEW Q, NEW x, NEW n, NEW z, NEW l,
         Waiting(L, T, N, s, R, p, ids, cur, c, Q, x, n, z, l), Stage(T[cur].size, c) = "key",
         R.lstack[Len(R.lstack)] = Nil, NEW S, Closes(R, S)
  PROVE  \E o, d : ReaderIn(L, T, N, s, S, p, n > 1, ids, o, d, Q)
<1>1. PICK o, i : IsItem(L, T, cur, o, i)
  BY DEF IsItem
<1>2. PICK h : Closed(L, T, N, S, cur, Q, h, o, i, z) /\ n = h + 1
  BY <1>1, TableCloses
<1>3. /\ h \in Nat /\ z \in Nat \ {0} /\ i \in Nat \ {0} /\ o \in 0 .. cur - 1 /\ cur \in 1..N
      /\ T[o].depth = h /\ (h = 0 <=> o = 0)
      /\ i \in 1..Len(T[o].list) /\ T[o].list[i] = Copy(T[cur].table)
      /\ ReaderTyped(S) /\ Len(S.frames) = h /\ Len(S.lstack) = z /\ S.lstack[z] = Copy(cur)
  BY <1>2 DEF Closed
<1>4. PICK b \in Nat : b = i - 1 /\ i = b + 1
  BY <1>3
<1>5. /\ Levels(L, T, N, S, o, Q) /\ Level(T, N, S, o, h, b, Q[h]) /\ Q[h] \in Nat
      /\ z = Last(T, o, h, b, Q[h]) + 1
  BY <1>2, <1>4, LevelsClosed
<1>6. /\ p \in 1 .. Len(s) + 1 /\ x = L[p] /\ x.begun \in 0..N /\ cur \in 1..x.begun
      /\ Remembers(T, R, s, x.begun, ids) /\ Ended(T, N, R, cur, x.begun)
      /\ Holds(T, N, R.copies[cur], T[cur].list, T[cur].size, c)
  BY DEF Waiting
<1>7. c = Len(T[cur].list) /\ x.of = o /\ x.item = i + 1
  <2>1. AtEnd(L, T, R, x, cur, c)
    BY ItemWaits
  <2>. QED
    BY <1>1, <2>1 DEF AtEnd, IsItem
<1>8. Image(T, N, S.lstack[z], T[o].list[i])
  <2>1. Copy(T[cur].table).type = "table" /\ Copy(T[cur].table).v = T[cur].table
    BY DEF Copy
  <2>. QED
    BY <1>3, <2>1 DEF Image
<1>9. Ended(T, N, S, o, x.begun)
  <2>1. ASSUME NEW m \in 1..x.begun
        PROVE  \/ \E k \in 1..T[o].depth : m = T[o].chain[k]
               \/ Holds(T, N, S.copies[m], T[m].list, T[m].size, Len(T[m].list))
    <3>1. CASE m = cur
      BY <1>6, <1>7, <3>1 DEF Closes
    <3>2. CASE m # cur
      <4>1. \/ \E k \in 1..T[cur].depth : m = T[cur].chain[k]
            \/ Holds(T, N, R.copies[m], T[m].list, T[m].size, Len(T[m].list))
        BY <1>6 DEF Ended
      <4>2. ASSUME NEW k \in 1..T[cur].depth, m = T[cur].chain[k]
            PROVE  \E j \in 1..T[o].depth : m = T[o].chain[j]
        <5>1. /\ T[cur].depth = h + 1 /\ T[cur].chain[h + 1] = cur
              /\ \A j \in 0..h : T[cur].chain[j] = T[o].chain[j]
          BY <1>2 DEF Closed
        <5>2. k \in 1 .. h + 1 /\ k # h + 1
          BY <3>2, <4>2, <5>1
        <5>3. k \in 1..h /\ k \in 0..h
          BY <1>3, <5>2
        <5>. QED
          BY <1>3, <4>2, <5>1, <5>3
      <4>. QED
        BY <4>1, <4>2 DEF Closes
    <3>. QED
      BY <3>1, <3>2
  <2>. QED
    BY <2>1 DEF Ended
<1>10. Remembers(T, S, s, x.begun, ids) /\ o \in 0..x.begun
  <2>1. Remembers(T, S, s, x.begun, ids)
    BY <1>6 DEF Remembers, Closes
  <2>2. o \in 0..x.begun
    <3>1. PICK e \in Nat : e = x.begun /\ cur \in 1..e
      BY <1>6
    <3>2. o \in 0..e
      BY <1>3, <3>1
    <3>. QED
      BY <3>1, <3>2
  <2>. QED
    BY <2>1, <2>2
<1>11. PICK k \in Nat : k = Len(T[o].list) /\ i \in 1..k
  <2>1. o \in 0..N
    BY <1>3
  <2>2. /\ T[o].depth \in Nat /\ (T[o].depth = 0 <=> o = 0) /\ T[0].depth = 0
        /\ T[o].list \in Seq(Values) /\ Len(T[o].list) \in Nat
    BY <2>1, DepthOf
  <2>. QED
    BY <1>3, <2>2
<1>12. CASE h = 0
  <2>1. o = 0 /\ Q[0] = 0 /\ z = i /\ \A j \in 1..b : Image(T, N, S.lstack[j], T[0].list[j])
    <3>1. o = 0 /\ Last(T, o, h, b, Q[h]) = b
      BY <1>3, <1>12 DEF Last
    <3>2. Q[0] = 0 /\ \A j \in 1..b : Image(T, N, S.lstack[j], T[0].list[j])
      BY <1>5, <1>12 DEF Level
    <3>. QED
      BY <1>4, <1>5, <3>1, <3>2
  <2>2. \A j \in 1..i : Image(T, N, S.lstack[j], T[0].list[j])
    <3>1. \A j \in 1..i : j \in 1..b \/ j = i
      BY <1>4
    <3>. QED
      BY <1>8, <2>1, <3>1
  <2>3. Level(T, N, S, 0, 0, i, 0)
    BY <2>2 DEF Level
  <2>4. Len(S.lstack) = Last(T, 0, 0, i, 0) + 0
    <3>1. Last(T, 0, 0, i, 0) = i /\ i + 0 = i
      BY <1>3 DEF Last
    <3>. QED
      BY <1>3, <2>1, <3>1
  <2>5. ReaderHas(L, T, N, S, 0, i, Q, 0)
    <3>1. T[0].depth = 0 /\ Len(S.frames) = 0 /\ Levels(L, T, N, S, 0, Q)
      BY <1>3, <1>5, <1>12, <2>1
    <3>2. i \in 0..Len(T[0].list)
      BY <1>11, <2>1
    <3>. QED
      BY <2>1, <2>3, <2>4, <3>1, <3>2 DEF ReaderHas
  <2>6. AtItem(x, 0, i)
    BY <1>7, <2>1 DEF AtItem
  <2>7. ReaderIn(L, T, N, s, S, p, FALSE, ids, 0, i, Q)
    BY <1>3, <1>6, <1>9, <1>10, <2>1, <2>5, <2>6 DEF ReaderIn
  <2>8. (n > 1) = FALSE
    BY <1>2, <1>12
  <2>. QED
    BY <2>7, <2>8
<1>13. CASE h # 0
  <2>1. ReaderHas(L, T, N, S, o, b, Q, 1)
    <3>1. b \in 0..Len(T[o].list)
      BY <1>4, <1>11
    <3>. QED
      BY <1>3, <1>5, <3>1 DEF ReaderHas
  <2>2. OnStack(T, N, S, x, o, b)
    <3>1. x.item = b + 2
      BY <1>4, <1>7
    <3>. QED
      BY <1>3, <1>4, <1>7, <1>8, <1>13, <3>1 DEF OnStack
  <2>3. ReaderIn(L, T, N, s, S, p, TRUE, ids, o, b, Q)
    BY <1>3, <1>6, <1>9, <1>10, <2>1, <2>2 DEF ReaderIn
  <2>4. (n > 1) = TRUE
    BY <1>2, <1>3, <1>13
  <2>. QED
    BY <2>3, <2>4
<1>. QED
  BY <1>12, <1>13

------------------------------------------------------------------------------
(* The reader's steps.                                                      *)

\* The story of the whole stream.
Telling(L, T) ==
  Story(L, T, objectid, out) /\ Told(T) /\ L[Len(out) + 1] = Place(0, Len(args) + 1, objectid)

\* The reader does not change what was written.
LEMMA TellingStays ==
  ASSUME UNCHANGED <<heap, args, out, writer>>, NEW L, NEW T, Telling(L, T)
  PROVE  Telling(L, T)' /\ objectid' = objectid /\ out' = out
<1>1. /\ heap' = heap /\ args' = args /\ out' = out /\ objectid' = objectid
      /\ r' = r /\ idOf' = idOf /\ addressOf' = addressOf
  BY DEF writer
<1>2. Told(T)'
  <2>1. \A u \in Tables : NumbersOf(u)' = NumbersOf(u)
    BY <1>1 DEF NumbersOf, InTables
  <2>. QED
    BY <1>1, <2>1, ToldKept DEF Telling
<1>3. Story(L, T, objectid', out') /\ L[Len(out') + 1] = Place(0, Len(args') + 1, objectid')
  BY <1>1 DEF Telling
<1>. QED
  BY <1>1, <1>2, <1>3 DEF Telling

\* The reader has come to its next place.
LEMMA ReaderGoesOnTold ==
  ASSUME UNCHANGED <<heap, args, out, writer>>, NEW L, NEW T, Telling(L, T),
         NEW S, S = ReaderNow', NEW p, p = pos', NEW rdy \in BOOLEAN, rdy = ready',
         NEW ids, ids = refs', NEW cur, NEW c, NEW Q,
         ReaderIn(L, T, objectid, out, S, p, rdy, ids, cur, c, Q)
  PROVE  ReaderTold'
<1>1. Telling(L, T)' /\ objectid' = objectid /\ out' = out
  BY TellingStays
<1>2. ReaderIn(L, T, objectid', out', ReaderNow', pos', ready', refs', cur, c, Q)
  BY <1>1
<1>3. ready' \in BOOLEAN
  OBVIOUS
<1>. QED
  BY <1>1, <1>2, <1>3 DEF ReaderTold, Telling

\* What the reader reads next.
NextIs(L, T, R, p, ids, cur, c, Q, x, y) ==
  /\ Telling(L, T) /\ R = ReaderNow /\ p = pos /\ ids = refs
  /\ Coming(L, T, objectid, out, R, p, ids, cur, c, Q, x, y)

\* A reader that reads comes to the next element of the story.
LEMMA ReadsNext ==
  ASSUME SeriInv, Reading, ReaderTold
  PROVE  \E L, T, R, p, ids, cur, c, Q, x, y : p \in Nat /\ NextIs(L, T, R, p, ids, cur, c, Q, x, y)
<1>1. PICK L, T : /\ Telling(L, T)
                  /\ \E cur, c, Q : ReaderIn(L, T, objectid, out, ReaderNow, pos, ready, refs, cur, c, Q)
  BY DEF ReaderTold, Telling
<1>2. PICK cur, c, Q : ReaderIn(L, T, objectid, out, ReaderNow, pos, ready, refs, cur, c, Q)
  BY <1>1
<1>3. /\ ready = FALSE /\ pos <= Len(out)
  BY DEF Reading, ReaderTold
<1>4. PICK R, p, ids : R = ReaderNow /\ p = pos /\ ids = refs
  OBVIOUS
<1>5. ReaderIn(L, T, objectid, out, R, p, FALSE, ids, cur, c, Q)
  BY <1>2, <1>3, <1>4
<1>6. Len(out) \in Nat /\ objectid \in Nat /\ out \in Seq(Elements)
  BY LenProperties DEF SeriInv, SeriTypeOK
<1>7. p \in 1 .. Len(out) + 1
  BY <1>5 DEF ReaderIn
<1>8. p \in Nat /\ p <= Len(out)
  BY <1>3, <1>4, <1>6, <1>7
<1>9. Story(L, T, objectid, out)
  BY <1>1 DEF Telling
<1>10. PICK x, y : Coming(L, T, objectid, out, R, p, ids, cur, c, Q, x, y)
  BY <1>5, <1>6, <1>8, <1>9, TokenComes
<1>. QED
  BY <1>1, <1>4, <1>8, <1>10 DEF NextIs

\* What unpack_one pushes on the stack, and whether it is called by unpack_table.
LEMMA PushIs ==
  ASSUME NEW L, NEW T, NEW R, NEW p \in Nat, NEW ids, NEW cur, NEW c, NEW Q, NEW x, NEW y,
         SeriInv, NextIs(L, T, R, p, ids, cur, c, Q, x, y), NEW v, Push(v)
  PROVE  /\ \E S : S = ReaderNow' /\ Pushes(R, S, v)
         /\ pos' = p + 1 /\ ready' = (cur # 0) /\ refs' = ids
         /\ UNCHANGED <<heap, args, out, writer>>
<1>1. /\ pos' = pos + 1 /\ lstack' = Append(lstack, v) /\ ready' = (frames # <<>>)
      /\ frames' = frames /\ copies' = copies /\ refs' = refs /\ ancestor' = ancestor
      /\ UNCHANGED <<heap, args, out, writer>>
  BY DEF Push
<1>2. PICK S : S = ReaderNow'
  OBVIOUS
<1>3. S = [frames |-> frames', lstack |-> lstack', copies |-> copies', ancestor |-> ancestor']
  BY <1>2 DEF ReaderNow
<1>4. R.frames = frames /\ R.lstack = lstack /\ R.copies = copies /\ R.ancestor = ancestor
  BY DEF NextIs, ReaderNow
<1>5. Pushes(R, S, v)
  BY <1>1, <1>3, <1>4 DEF Pushes
<1>6. frames # <<>> <=> cur # 0
  <2>1. /\ Coming(L, T, objectid, out, R, p, ids, cur, c, Q, x, y)
        /\ Story(L, T, objectid, out)
        /\ objectid \in Nat /\ out \in Seq(Elements)
    BY DEF NextIs, Telling, SeriInv, SeriTypeOK
  <2>2. /\ cur \in 0..objectid /\ ReaderTyped(R) /\ Len(R.frames) = T[cur].depth
    BY <2>1 DEF Coming, ReaderHas
  <2>3. T[cur].depth = 0 <=> cur = 0
    BY <2>1, <2>2, DepthOf
  <2>4. frames \in Seq(Frame)
    BY <1>4, <2>2 DEF ReaderTyped
  <2>. QED
    BY <1>4, <2>2, <2>3, <2>4, EmptySeq
<1>. QED
  BY <1>1, <1>2, <1>5, <1>6 DEF NextIs

\* A value that is one element was read, or the nil behind the last item.
LEMMA ReadValueTold ==
  ASSUME SeriInv, ReadValue, ReaderTold
  PROVE  ReaderTold'
<1>1. PICK L, T, R, p, ids, cur, c, Q, x, y : p \in Nat /\ NextIs(L, T, R, p, ids, cur, c, Q, x, y)
  BY ReadsNext DEF ReadValue
<1>2. PICK N \in Nat, s \in Seq(Elements) : N = objectid /\ s = out
  BY DEF SeriInv, SeriTypeOK
<1>3. Coming(L, T, N, s, R, p, ids, cur, c, Q, x, y) /\ Story(L, T, N, s) /\ Telling(L, T)
  BY <1>1, <1>2 DEF NextIs, Telling
<1>4. PICK e : e = s[p] /\ e = Token /\ e.type \in {"nil", "number", "string"} /\ Push(e)
  BY <1>1, <1>2 DEF NextIs, Token, ReadValue
<1>5. /\ \E S : S = ReaderNow' /\ Pushes(R, S, e)
      /\ pos' = p + 1 /\ ready' = (cur # 0) /\ refs' = ids
      /\ UNCHANGED <<heap, args, out, writer>>
  BY <1>1, <1>4, PushIs
<1>6. PICK S : S = ReaderNow' /\ Pushes(R, S, e)
  BY <1>5
<1>7. ElementOK(x, y, L, T, N, s, e, p) /\ x.of = cur
  BY <1>3, <1>4 DEF Coming
<1>8. \/ IsAtom(x, T, e) /\ y = NextItem(x)
      \/ IsEnd(x, T, e) /\ y = Place(L[T[x.of].at].of, L[T[x.of].at].item + 1, x.begun)
  BY <1>4, <1>7 DEF ElementOK, IsAncestor, IsObject, IsBegin
<1>9. CASE IsAtom(x, T, e) /\ y = NextItem(x)
  <2>1. x.item <= Len(T[cur].list) /\ Image(T, N, e, T[cur].list[x.item])
    BY <1>4, <1>7, <1>9 DEF IsAtom, Image
  <2>2. PICK d : ReaderIn(L, T, N, s, S, p + 1, cur # 0, ids, cur, d, Q)
    BY <1>1, <1>3, <1>6, <1>9, <2>1, ItemRead
  <2>3. PICK q, rdy : q = p + 1 /\ rdy = (cur # 0) /\ rdy \in BOOLEAN
    OBVIOUS
  <2>4. ReaderIn(L, T, objectid, out, S, q, rdy, ids, cur, d, Q)
    BY <1>2, <2>2, <2>3
  <2>. QED
    BY <1>3, <1>5, <1>6, <2>3, <2>4, ReaderGoesOnTold
<1>10. CASE IsEnd(x, T, e) /\ y = Place(L[T[x.of].at].of, L[T[x.of].at].item + 1, x.begun)
  <2>1. e = Nil
    BY <1>10 DEF IsEnd
  <2>2. cur # 0 /\ ReaderIn(L, T, N, s, S, p + 1, TRUE, ids, cur, c, Q)
    BY <1>1, <1>3, <1>4, <1>6, <1>10, <2>1, EndRead
  <2>3. PICK q, rdy : q = p + 1 /\ rdy = TRUE /\ rdy \in BOOLEAN
    OBVIOUS
  <2>4. ReaderIn(L, T, objectid, out, S, q, rdy, ids, cur, c, Q)
    BY <1>2, <2>2, <2>3
  <2>5. q = pos' /\ rdy = ready'
    BY <1>5, <2>2, <2>3
  <2>. QED
    BY <1>3, <1>5, <1>6, <2>3, <2>4, <2>5, ReaderGoesOnTold
<1>. QED
  BY <1>8, <1>9, <1>10
\* A reference to an ancestor is never refused, and its copy is the next item.
LEMMA ReadAncestorTold ==
  ASSUME SeriInv, ReadAncestor, ReaderTold
  PROVE  ReaderTold' /\ phase' = "unpack"
<1>1. PICK L, T, R, p, ids, cur, c, Q, x, y : p \in Nat /\ NextIs(L, T, R, p, ids, cur, c, Q, x, y)
  BY ReadsNext DEF ReadAncestor
<1>2. PICK N \in Nat, s \in Seq(Elements) : N = objectid /\ s = out
  BY DEF SeriInv, SeriTypeOK
<1>3. /\ Coming(L, T, N, s, R, p, ids, cur, c, Q, x, y) /\ Story(L, T, N, s) /\ Telling(L, T)
      /\ R.frames = frames /\ R.lstack = lstack /\ R.ancestor = ancestor
  BY <1>1, <1>2 DEF NextIs, Telling, ReaderNow
<1>4. PICK e, d : e = s[p] /\ e = Token /\ e.type = "ref" /\ e.cookie # EXTEND_NUMBER /\ d = e.cookie
  BY <1>1, <1>2 DEF NextIs, Token, ReadAncestor
<1>5. ElementOK(x, y, L, T, N, s, e, p) /\ x.of = cur /\ cur \in 0..N
  BY <1>3, <1>4 DEF Coming
<1>6. IsAncestor(x, T, e) /\ y = NextItem(x)
  BY <1>4, <1>5 DEF ElementOK, IsAtom, IsObject, IsBegin, IsEnd, Nil
<1>7. d < T[cur].depth /\ Image(T, N, R.lstack[R.ancestor[d]], T[cur].list[x.item])
  BY <1>1, <1>3, <1>4, <1>6, AncestorRead
<1>8. d \in Nat /\ x.item <= Len(T[cur].list) /\ IsTableItem(x, T)
  BY <1>4, <1>5, <1>6 DEF IsAncestor, IsTableItem
<1>9. Depth = T[cur].depth /\ T[cur].depth \in Nat
  <2>1. Depth = T[cur].depth
    BY <1>1, <1>3, <1>8, DepthRead
  <2>. QED
    BY <1>3, <1>5, <2>1, DepthOf
<1>10. ~(d >= Depth)
  BY <1>7, <1>8, <1>9
<1>11. PICK v : v = lstack[ancestor[d]] /\ Push(v) /\ phase' = phase
  BY <1>4, <1>10 DEF ReadAncestor, Push
<1>12. /\ \E S : S = ReaderNow' /\ Pushes(R, S, v)
       /\ pos' = p + 1 /\ ready' = (cur # 0) /\ refs' = ids
       /\ UNCHANGED <<heap, args, out, writer>>
  BY <1>1, <1>11, PushIs
<1>13. PICK S : S = ReaderNow' /\ Pushes(R, S, v)
  BY <1>12
<1>14. Image(T, N, v, T[cur].list[x.item])
  BY <1>3, <1>7, <1>11
<1>15. PICK k : ReaderIn(L, T, N, s, S, p + 1, cur # 0, ids, cur, k, Q)
  BY <1>1, <1>3, <1>6, <1>8, <1>13, <1>14, ItemRead
<1>16. PICK q, rdy : q = p + 1 /\ rdy = (cur # 0) /\ rdy \in BOOLEAN
  OBVIOUS
<1>17. ReaderIn(L, T, objectid, out, S, q, rdy, ids, cur, k, Q)
  BY <1>2, <1>15, <1>16
<1>18. ReaderTold'
  BY <1>3, <1>12, <1>13, <1>16, <1>17, ReaderGoesOnTold
<1>. QED
  BY <1>11, <1>18 DEF ReadAncestor, Reading

\* A reference to a table's number is always refused.
LEMMA ReadObjectTold ==
  ASSUME SeriInv, ReadObject, ReaderTold
  PROVE  phase' = "refused"
<1>1. PICK L, T, R, p, ids, cur, c, Q, x, y : p \in Nat /\ NextIs(L, T, R, p, ids, cur, c, Q, x, y)
  BY ReadsNext DEF ReadObject
<1>2. PICK N \in Nat, s \in Seq(Elements) : N = objectid /\ s = out
  BY DEF SeriInv, SeriTypeOK
<1>3. Coming(L, T, N, s, R, p, ids, cur, c, Q, x, y) /\ ids = refs
  BY <1>1, <1>2 DEF NextIs
<1>4. PICK e : e = s[p] /\ e = Token /\ e.type = "ref" /\ e.cookie = EXTEND_NUMBER
  BY <1>1, <1>2 DEF NextIs, Token, ReadObject
<1>5. ElementOK(x, y, L, T, N, s, e, p)
  BY <1>3, <1>4 DEF Coming
<1>6. IsObject(x, T, s, e)
  BY <1>4, <1>5 DEF ElementOK, IsAtom, IsAncestor, IsBegin, IsEnd, Nil
<1>7. get_integer(e.n) \in ids
  BY <1>3, <1>6 DEF IsObject, Coming, Remembers
<1>. QED
  BY <1>3, <1>4, <1>7 DEF ReadObject, Refuse

\* The frame of a table of which nothing was read.
LEMMA FirstFrame ==
  ASSUME NEW n \in Nat, NEW a \in Nat
  PROVE  [base |-> n, size |-> a, i |-> 1, stage |-> IF a > 0 THEN "array" ELSE "key"] = FrameOf(n + 1, a, 0)
<1>1. PICK i, j : i = (IF a > 0 THEN "array" ELSE "key") /\ j = Stage(a, 0)
  OBVIOUS
<1>2. i = j
  <2>1. CASE a > 0
    BY <1>1, <2>1 DEF Stage
  <2>2. CASE a = 0
    <3>1. ~(0 < a) /\ (0 - a) % 2 = 0 /\ ~(a > 0)
      BY <2>2
    <3>. QED
      BY <1>1, <3>1 DEF Stage
  <2>. QED
    BY <2>1, <2>2
<1>3. PICK b, k : b = n + 1 - 1 /\ k = IF 0 < a THEN 0 + 1 ELSE a + 1
  OBVIOUS
<1>4. b = n /\ k = 1
  BY <1>3
<1>5. FrameOf(n + 1, a, 0) = [base |-> b, size |-> a, i |-> k, stage |-> j]
  BY <1>1, <1>3 DEF FrameOf
<1>. QED
  BY <1>1, <1>2, <1>4, <1>5

\* A tag was read: a new table is open.
LEMMA ReadTableTold ==
  ASSUME SeriInv, ReadTable, ReaderTold
  PROVE  ReaderTold'
<1>1. PICK L, T, R, p, ids, cur, c, Q, x, y : p \in Nat /\ NextIs(L, T, R, p, ids, cur, c, Q, x, y)
  BY ReadsNext DEF ReadTable
<1>2. PICK N \in Nat, s \in Seq(Elements) : N = objectid /\ s = out
  BY DEF SeriInv, SeriTypeOK
<1>3. /\ Coming(L, T, N, s, R, p, ids, cur, c, Q, x, y) /\ Story(L, T, N, s) /\ Telling(L, T)
      /\ R.frames = frames /\ R.lstack = lstack /\ R.ancestor = ancestor /\ R.copies = copies
      /\ ids = refs /\ p = pos
  BY <1>1, <1>2 DEF NextIs, Telling, ReaderNow
<1>4. PICK e : e = s[p] /\ e = Token /\ e.type \in {"table", "mark"}
  BY <1>1, <1>2 DEF NextIs, Token, ReadTable
<1>5. ElementOK(x, y, L, T, N, s, e, p) /\ x.of = cur /\ cur \in 0..N /\ x.begun \in 0..N
  BY <1>3, <1>4 DEF Coming
<1>6. IsBegin(x, T, N, e, p) /\ y = Place(x.begun + 1, 1, x.begun + 1)
  BY <1>4, <1>5 DEF ElementOK, IsAtom, IsAncestor, IsObject, IsEnd, Nil
<1>7. PICK m, n, a : /\ m = x.begun + 1 /\ n = T[cur].depth /\ a = T[m].size
                     /\ m \in 1..N
  BY <1>5, <1>6 DEF IsBegin
<1>8. Depth = n /\ n \in Nat
  <2>1. IsTableItem(x, T)
    BY <1>6 DEF IsBegin
  <2>2. Depth = T[cur].depth
    BY <1>1, <1>3, <2>1, DepthRead
  <2>. QED
    BY <1>3, <1>5, <1>7, <2>2, DepthOf
<1>9. SizeOf(Token) = a
  BY <1>4, <1>6, <1>7 DEF IsBegin
<1>10. a \in Nat
  BY <1>3, <1>7, ProperTable
<1>11. Len(copies) + 1 = m
  BY <1>3, <1>7 DEF Coming, Remembers
<1>12. [base |-> n, size |-> a, i |-> 1, stage |-> IF a > 0 THEN "array" ELSE "key"] = FrameOf(n + 1, a, 0)
  BY <1>8, <1>10, FirstFrame
<1>13. /\ pos' = pos + 1
       /\ copies' = Append(copies, Empty)
       /\ lstack' = Append(lstack, Copy(m))
       /\ refs' = IF Token.type = "mark" THEN refs \cup {m} ELSE refs
       /\ ancestor' = IF n < MAX_DEPTH THEN [ancestor EXCEPT ![n] = Len(lstack) + 1] ELSE ancestor
       /\ frames' = Append(frames, [base |-> n, size |-> a, i |-> 1,
                                    stage |-> IF a > 0 THEN "array" ELSE "key"])
       /\ ready' = FALSE
       /\ UNCHANGED <<heap, args, out, writer>>
  BY <1>8, <1>9, <1>11 DEF ReadTable, Reading, SizeOf, ReaderTold
<1>14. PICK S : S = ReaderNow'
  OBVIOUS
<1>15. S = [frames |-> frames', lstack |-> lstack', copies |-> copies', ancestor |-> ancestor']
  BY <1>14 DEF ReaderNow
<1>16. Begins(R, S, m, n, a)
  BY <1>3, <1>12, <1>13, <1>15 DEF Begins
<1>17. PICK more : more = (IF e.type = "mark" THEN ids \cup {m} ELSE ids) /\ more = refs'
  BY <1>3, <1>4, <1>13
<1>18. PICK P : ReaderIn(L, T, N, s, S, p + 1, FALSE, more, m, 0, P)
  <2>1. IsBegin(x, T, N, s[p], p) /\ more = IF s[p].type = "mark" THEN ids \cup {m} ELSE ids
    BY <1>4, <1>6, <1>17
  <2>2. Begins(R, S, m, n, T[m].size)
    BY <1>7, <1>16
  <2>3. m = x.begun + 1 /\ n = T[cur].depth /\ y = Place(x.begun + 1, 1, x.begun + 1)
    BY <1>6, <1>7
  <2>4. Coming(L, T, N, s, R, p, ids, cur, c, Q, x, y) /\ Story(L, T, N, s)
    BY <1>3
  <2>. QED
    BY <1>1, <2>1, <2>2, <2>3, <2>4, TableBegun
<1>19. PICK q, rdy : q = p + 1 /\ rdy = FALSE /\ rdy \in BOOLEAN
  OBVIOUS
<1>20. ReaderIn(L, T, objectid, out, S, q, rdy, more, m, 0, P)
  BY <1>2, <1>18, <1>19
<1>21. q = pos' /\ rdy = ready'
  BY <1>3, <1>13, <1>19
<1>. QED
  BY <1>3, <1>13, <1>14, <1>17, <1>19, <1>20, <1>21, ReaderGoesOnTold
\* Of a table one more item is stored: g is its frame.
FrameMoves(n, a, d, f) ==
  /\ f.stage = "array" =>
       /\ f.i = d
       /\ [f EXCEPT !.i = f.i + 1, !.stage = IF f.i = f.size THEN "key" ELSE "array"] = FrameOf(n, a, d)
  /\ f.stage = "key" => [f EXCEPT !.stage = "value"] = FrameOf(n, a, d)
  /\ f.stage = "value" => [f EXCEPT !.stage = "key"] = FrameOf(n, a, d)

\* The frame moves on by one item.
LEMMA NextFrame ==
  ASSUME NEW n \in Nat, NEW a \in Nat, NEW c \in Nat, NEW d, d = c + 1, NEW f, f = FrameOf(n, a, c)
  PROVE  FrameMoves(n, a, d, f)
<1>1. PICK b, i, st : b = n - 1 /\ i = (IF c < a THEN c + 1 ELSE a + 1) /\ st = Stage(a, c)
  OBVIOUS
<1>2. f = [base |-> b, size |-> a, i |-> i, stage |-> st]
  BY <1>1 DEF FrameOf
<1>3. PICK k, new : k = (IF d < a THEN d + 1 ELSE a + 1) /\ new = Stage(a, d)
  OBVIOUS
<1>4. FrameOf(n, a, d) = [base |-> b, size |-> a, i |-> k, stage |-> new]
  BY <1>1, <1>3 DEF FrameOf
<1>5. /\ st = "array" => d <= a /\ new # "value"
      /\ st = "key" => new = "value"
      /\ st = "value" => ~(d <= a) /\ new = "key"
  BY <1>1, <1>3, StageIs
<1>6. ASSUME st = "array"
      PROVE  FrameMoves(n, a, d, f)
  <2>1. d <= a
    BY <1>5, <1>6
  <2>2. i = d /\ k = d + 1
    BY <1>1, <1>3, <2>1
  <2>3. new = IF d = a THEN "key" ELSE "array"
    <3>1. CASE d = a
      <4>1. ~(d < a) /\ (d - a) % 2 = 0
        BY <3>1
      <4>. QED
        BY <1>3, <3>1, <4>1 DEF Stage
    <3>2. CASE d # a
      <4>1. d < a
        BY <2>1, <3>2
      <4>. QED
        BY <1>3, <3>2, <4>1 DEF Stage
    <3>. QED
      BY <3>1, <3>2
  <2>4. f.i = i /\ f.size = a /\ f.stage = st
    BY <1>2
  <2>5. PICK u, w : u = f.i + 1 /\ w = IF f.i = f.size THEN "key" ELSE "array"
    OBVIOUS
  <2>6. u = k /\ w = new
    BY <2>2, <2>3, <2>4, <2>5
  <2>7. [f EXCEPT !.i = u, !.stage = w] = [base |-> b, size |-> a, i |-> u, stage |-> w]
    <3>1. PICK h : h = [f EXCEPT !.i = u, !.stage = w]
      OBVIOUS
    <3>2. PICK h1 : h1 = [f EXCEPT !.i = u]
      OBVIOUS
    <3>3. h1 = [base |-> b, size |-> a, i |-> u, stage |-> st]
      BY <1>2, <3>2
    <3>4. [h1 EXCEPT !.stage = w] = [base |-> b, size |-> a, i |-> u, stage |-> w]
      BY <3>3
    <3>5. h = [h1 EXCEPT !.stage = w]
      BY <3>1, <3>2
    <3>. QED
      BY <3>1, <3>4, <3>5
  <2>8. [f EXCEPT !.i = u, !.stage = w] = FrameOf(n, a, d)
    BY <1>4, <2>6, <2>7
  <2>. QED
    BY <1>6, <2>2, <2>4, <2>5, <2>8 DEF FrameMoves
<1>7. ASSUME st \in {"key", "value"}
      PROVE  k = i
  <2>1. ~(c < a)
    <3>1. c < a => st = "array"
      BY <1>1 DEF Stage
    <3>. QED
      BY <1>7, <3>1
  <2>2. ~(d < a)
    BY <2>1
  <2>. QED
    BY <1>1, <1>3, <2>1, <2>2
<1>8. ASSUME st = "key"
      PROVE  FrameMoves(n, a, d, f)
  <2>1. new = "value" /\ k = i /\ f.stage = "key"
    BY <1>2, <1>5, <1>7, <1>8
  <2>2. [f EXCEPT !.stage = "value"] = [base |-> b, size |-> a, i |-> i, stage |-> "value"]
    BY <1>2
  <2>. QED
    BY <1>4, <2>1, <2>2 DEF FrameMoves
<1>9. ASSUME st = "value"
      PROVE  FrameMoves(n, a, d, f)
  <2>1. new = "key" /\ k = i /\ f.stage = "value"
    BY <1>2, <1>5, <1>7, <1>9
  <2>2. [f EXCEPT !.stage = "key"] = [base |-> b, size |-> a, i |-> i, stage |-> "key"]
    BY <1>2
  <2>. QED
    BY <1>4, <2>1, <2>2 DEF FrameMoves
<1>10. st \in {"array", "key", "value"}
  BY <1>1, StageIs
<1>. QED
  BY <1>6, <1>8, <1>9, <1>10

\* What is on the stack for unpack_table.
WaitsAt(L, T, R, p, ids, cur, c, Q, x, n, z, l, f) ==
  /\ Telling(L, T) /\ p = pos /\ ids = refs
  /\ R.frames = frames /\ R.lstack = lstack /\ R.copies = copies /\ R.ancestor = ancestor
  /\ Waiting(L, T, objectid, out, R, p, ids, cur, c, Q, x, n, z, l)
  /\ f = Top(frames) /\ f = FrameOf(n, T[cur].size, c) /\ f = frames[n] /\ n = Len(frames)
  /\ Len(lstack) = l + 1 /\ lstack[z] = Copy(cur) /\ l = IF f.stage = "value" THEN z + 1 ELSE z
  /\ n \in Nat \ {0} /\ z \in Nat \ {0} /\ l \in Nat /\ c \in Nat /\ T[cur].size \in Nat
  /\ f.stage = Stage(T[cur].size, c)

\* A reader that stores has a value waiting.
LEMMA StoresNext ==
  ASSUME SeriInv, ready, ReaderTold
  PROVE  \E L, T, R, p, ids, cur, c, Q, x, n, z, l, f :
           WaitsAt(L, T, R, p, ids, cur, c, Q, x, n, z, l, f)
<1>1. PICK L, T : /\ Telling(L, T)
                  /\ \E cur, c, Q : ReaderIn(L, T, objectid, out, ReaderNow, pos, ready, refs, cur, c, Q)
  BY DEF ReaderTold, Telling
<1>2. PICK cur, c, Q : ReaderIn(L, T, objectid, out, ReaderNow, pos, ready, refs, cur, c, Q)
  BY <1>1
<1>3. ready = TRUE
  BY DEF ReaderTold
<1>4. PICK R, p, ids : R = ReaderNow /\ p = pos /\ ids = refs
  OBVIOUS
<1>5. ReaderIn(L, T, objectid, out, R, p, TRUE, ids, cur, c, Q)
  BY <1>2, <1>3, <1>4
<1>6. objectid \in Nat /\ out \in Seq(Elements) /\ Story(L, T, objectid, out)
  BY <1>1 DEF SeriInv, SeriTypeOK, Telling
<1>7. PICK x, n, z, l : Waiting(L, T, objectid, out, R, p, ids, cur, c, Q, x, n, z, l)
  BY <1>5, <1>6, ValueWaits
<1>8. R.frames = frames /\ R.lstack = lstack /\ R.copies = copies /\ R.ancestor = ancestor
  BY <1>4 DEF ReaderNow
<1>9. /\ n \in Nat \ {0} /\ z \in Nat \ {0} /\ l \in Nat /\ c \in Nat /\ T[cur].size \in Nat
      /\ l = Last(T, cur, n, c, z) /\ Len(lstack) = l + 1 /\ Len(frames) = n
      /\ frames[n] = FrameOf(n, T[cur].size, c) /\ lstack[z] = Copy(cur)
  BY <1>7, <1>8 DEF Waiting
<1>10. PICK f : f = frames[n]
  OBVIOUS
<1>11. f = Top(frames) /\ f = FrameOf(n, T[cur].size, c)
  BY <1>9, <1>10 DEF Top
<1>12. f.stage = Stage(T[cur].size, c)
  BY <1>11 DEF FrameOf
<1>13. l = IF f.stage = "value" THEN z + 1 ELSE z
  BY <1>9, <1>12 DEF Last
<1>. QED
  BY <1>1, <1>4, <1>7, <1>8, <1>9, <1>10, <1>11, <1>12, <1>13 DEF WaitsAt
\* The next item of the array part is stored.
LEMMA StoreElementTold ==
  ASSUME SeriInv, StoreElement, ReaderTold
  PROVE  ReaderTold'
<1>1. PICK L, T, R, p, ids, cur, c, Q, x, n, z, l, f : WaitsAt(L, T, R, p, ids, cur, c, Q, x, n, z, l, f)
  BY StoresNext DEF StoreElement, Storing
<1>2. PICK N \in Nat, s \in Seq(Elements) : N = objectid /\ s = out
  BY DEF SeriInv, SeriTypeOK
<1>3. Waiting(L, T, N, s, R, p, ids, cur, c, Q, x, n, z, l) /\ Story(L, T, N, s) /\ Telling(L, T)
  BY <1>1, <1>2 DEF WaitsAt, Telling
<1>4. PICK a, d, v : a = T[cur].size /\ d = c + 1 /\ v = R.lstack[Len(R.lstack)]
  OBVIOUS
<1>5. /\ f.stage = "array" /\ f = Top(frames) /\ f = FrameOf(n, a, c) /\ f = frames[n]
      /\ n = Len(frames) /\ n \in Nat /\ c \in Nat /\ a \in Nat /\ Stage(a, c) = "array"
  BY <1>1, <1>4 DEF WaitsAt, StoreElement, Storing
<1>6. FrameMoves(n, a, d, f)
  BY <1>4, <1>5, NextFrame
<1>7. /\ f.i = d
      /\ [f EXCEPT !.i = f.i + 1, !.stage = IF f.i = f.size THEN "key" ELSE "array"] = FrameOf(n, a, d)
  BY <1>5, <1>6 DEF FrameMoves
<1>8. lstack[Len(lstack) - 2 + 1].v = cur
  <2>1. z \in Nat /\ Len(lstack) = z + 1 /\ lstack[z] = Copy(cur)
    BY <1>1, <1>5 DEF WaitsAt
  <2>2. z + 1 - 2 + 1 = z
    BY <2>1
  <2>. QED
    BY <2>1, <2>2 DEF Copy
<1>9. /\ R.frames = frames /\ R.lstack = lstack /\ R.copies = copies /\ R.ancestor = ancestor
      /\ p = pos /\ ids = refs
  BY <1>1 DEF WaitsAt
<1>10. v = Top(lstack)
  BY <1>4, <1>9 DEF Top
<1>11. /\ Set(2, Index(d), v) /\ lstack' = Pop(lstack, 1)
       /\ frames' = [frames EXCEPT ![Len(frames)] =
                       [@ EXCEPT !.i = f.i + 1, !.stage = IF f.i = f.size THEN "key" ELSE "array"]]
       /\ ready' = FALSE /\ pos' = pos /\ refs' = refs /\ ancestor' = ancestor
       /\ UNCHANGED <<heap, args, out, writer>>
  BY <1>5, <1>7, <1>10 DEF StoreElement
<1>12. frames' = [frames EXCEPT ![n] = FrameOf(n, a, d)]
  BY <1>5, <1>7, <1>11
<1>13. copies' = [copies EXCEPT ![cur] = StoredIn(copies[cur], Index(d), v)]
  BY <1>8, <1>11 DEF Set, StoredIn
<1>14. PICK S : S = ReaderNow'
  OBVIOUS
<1>15. /\ Moves(R, S, n, FrameOf(n, T[cur].size, d)) /\ Puts(R, S, cur, Index(d), v)
       /\ S.lstack = Pop(R.lstack, 1)
  <2>1. /\ S.frames = [R.frames EXCEPT ![n] = FrameOf(n, T[cur].size, d)]
        /\ S.copies = [R.copies EXCEPT ![cur] = StoredIn(R.copies[cur], Index(d), v)]
        /\ S.ancestor = R.ancestor /\ S.lstack = Pop(R.lstack, 1)
    BY <1>4, <1>9, <1>11, <1>12, <1>13, <1>14 DEF ReaderNow
  <2>. QED
    BY <2>1 DEF Moves, Puts
<1>16. ReaderIn(L, T, N, s, S, p, FALSE, ids, cur, d, Q)
  <2>1. Stage(T[cur].size, c) = "array"
    BY <1>4, <1>5
  <2>2. Waiting(L, T, N, s, R, p, ids, cur, c, Q, x, n, z, l) /\ Story(L, T, N, s)
    BY <1>3
  <2>3. d = c + 1 /\ v = R.lstack[Len(R.lstack)]
    BY <1>4
  <2>. QED
    BY <1>15, <2>1, <2>2, <2>3, ElementStored
<1>17. ReaderIn(L, T, objectid, out, S, p, FALSE, ids, cur, d, Q)
  BY <1>2, <1>16
<1>18. p = pos' /\ ids = refs' /\ FALSE = ready' /\ FALSE \in BOOLEAN
  BY <1>9, <1>11
<1>. QED
  BY <1>3, <1>11, <1>14, <1>17, <1>18, ReaderGoesOnTold

\* A key waits for its value.
LEMMA StoreKeyTold ==
  ASSUME SeriInv, StoreKey, ReaderTold
  PROVE  ReaderTold'
<1>1. PICK L, T, R, p, ids, cur, c, Q, x, n, z, l, f : WaitsAt(L, T, R, p, ids, cur, c, Q, x, n, z, l, f)
  BY StoresNext DEF StoreKey, Storing
<1>2. PICK N \in Nat, s \in Seq(Elements) : N = objectid /\ s = out
  BY DEF SeriInv, SeriTypeOK
<1>3. Waiting(L, T, N, s, R, p, ids, cur, c, Q, x, n, z, l) /\ Story(L, T, N, s) /\ Telling(L, T)
  BY <1>1, <1>2 DEF WaitsAt, Telling
<1>4. PICK a, d : a = T[cur].size /\ d = c + 1
  OBVIOUS
<1>5. /\ f.stage = "key" /\ f = Top(frames) /\ f = FrameOf(n, a, c) /\ f = frames[n]
      /\ n = Len(frames) /\ n \in Nat /\ c \in Nat /\ a \in Nat /\ Stage(a, c) = "key"
  BY <1>1, <1>4 DEF WaitsAt, StoreKey, Storing
<1>6. FrameMoves(n, a, d, f)
  BY <1>4, <1>5, NextFrame
<1>7. [f EXCEPT !.stage = "value"] = FrameOf(n, a, d)
  BY <1>5, <1>6 DEF FrameMoves
<1>8. /\ R.frames = frames /\ R.lstack = lstack /\ R.copies = copies /\ R.ancestor = ancestor
      /\ p = pos /\ ids = refs
  BY <1>1 DEF WaitsAt
<1>9. /\ Top(lstack) # Nil /\ lstack' = lstack /\ copies' = copies
      /\ frames' = [frames EXCEPT ![Len(frames)].stage = "value"]
      /\ ready' = FALSE /\ pos' = pos /\ refs' = refs /\ ancestor' = ancestor
      /\ UNCHANGED <<heap, args, out, writer>>
  BY DEF StoreKey
<1>10. frames' = [frames EXCEPT ![n] = FrameOf(n, a, d)]
  BY <1>5, <1>7, <1>9
<1>11. PICK S : S = ReaderNow'
  OBVIOUS
<1>12. /\ Moves(R, S, n, FrameOf(n, T[cur].size, d))
       /\ S.copies = R.copies /\ S.lstack = R.lstack
  <2>1. /\ S.frames = [R.frames EXCEPT ![n] = FrameOf(n, T[cur].size, d)]
        /\ S.copies = R.copies /\ S.ancestor = R.ancestor /\ S.lstack = R.lstack
    BY <1>4, <1>8, <1>9, <1>10, <1>11 DEF ReaderNow
  <2>. QED
    BY <2>1 DEF Moves
<1>13. ReaderIn(L, T, N, s, S, p, FALSE, ids, cur, d, Q)
  <2>1. Stage(T[cur].size, c) = "key" /\ R.lstack[Len(R.lstack)] # Nil
    BY <1>4, <1>5, <1>8, <1>9 DEF Top
  <2>2. Waiting(L, T, N, s, R, p, ids, cur, c, Q, x, n, z, l) /\ Story(L, T, N, s)
    BY <1>3
  <2>3. d = c + 1
    BY <1>4
  <2>. QED
    BY <1>12, <2>1, <2>2, <2>3, KeyStored
<1>14. ReaderIn(L, T, objectid, out, S, p, FALSE, ids, cur, d, Q)
  BY <1>2, <1>13
<1>15. p = pos' /\ ids = refs' /\ FALSE = ready' /\ FALSE \in BOOLEAN
  BY <1>8, <1>9
<1>. QED
  BY <1>3, <1>9, <1>11, <1>14, <1>15, ReaderGoesOnTold

\* A pair is stored.
LEMMA StoreValueTold ==
  ASSUME SeriInv, StoreValue, ReaderTold
  PROVE  ReaderTold'
<1>1. PICK L, T, R, p, ids, cur, c, Q, x, n, z, l, f : WaitsAt(L, T, R, p, ids, cur, c, Q, x, n, z, l, f)
  BY StoresNext DEF StoreValue, Storing
<1>2. PICK N \in Nat, s \in Seq(Elements) : N = objectid /\ s = out
  BY DEF SeriInv, SeriTypeOK
<1>3. Waiting(L, T, N, s, R, p, ids, cur, c, Q, x, n, z, l) /\ Story(L, T, N, s) /\ Telling(L, T)
  BY <1>1, <1>2 DEF WaitsAt, Telling
<1>4. PICK a, d, v, k : /\ a = T[cur].size /\ d = c + 1 /\ v = R.lstack[Len(R.lstack)]
                        /\ k = R.lstack[Len(R.lstack) - 1]
  OBVIOUS
<1>5. /\ f.stage = "value" /\ f = Top(frames) /\ f = FrameOf(n, a, c) /\ f = frames[n]
      /\ n = Len(frames) /\ n \in Nat /\ c \in Nat /\ a \in Nat /\ Stage(a, c) = "value"
  BY <1>1, <1>4 DEF WaitsAt, StoreValue, Storing
<1>6. FrameMoves(n, a, d, f)
  BY <1>4, <1>5, NextFrame
<1>7. [f EXCEPT !.stage = "key"] = FrameOf(n, a, d)
  BY <1>5, <1>6 DEF FrameMoves
<1>8. lstack[Len(lstack) - 3 + 1].v = cur
  <2>1. z \in Nat /\ l = z + 1 /\ Len(lstack) = l + 1 /\ lstack[z] = Copy(cur)
    BY <1>1, <1>5 DEF WaitsAt
  <2>2. z + 1 + 1 - 3 + 1 = z
    BY <2>1
  <2>. QED
    BY <2>1, <2>2 DEF Copy
<1>9. /\ R.frames = frames /\ R.lstack = lstack /\ R.copies = copies /\ R.ancestor = ancestor
      /\ p = pos /\ ids = refs
  BY <1>1 DEF WaitsAt
<1>10. v = Top(lstack) /\ k = lstack[Len(lstack) - 1]
  BY <1>4, <1>9 DEF Top
<1>11. /\ Set(3, k, v) /\ lstack' = Pop(lstack, 2)
       /\ frames' = [frames EXCEPT ![Len(frames)].stage = "key"]
       /\ ready' = FALSE /\ pos' = pos /\ refs' = refs /\ ancestor' = ancestor
       /\ UNCHANGED <<heap, args, out, writer>>
  BY <1>10 DEF StoreValue
<1>12. frames' = [frames EXCEPT ![n] = FrameOf(n, a, d)]
  BY <1>5, <1>7, <1>11
<1>13. copies' = [copies EXCEPT ![cur] = StoredIn(copies[cur], k, v)]
  BY <1>8, <1>11 DEF Set, StoredIn
<1>14. PICK S : S = ReaderNow'
  OBVIOUS
<1>15. /\ Moves(R, S, n, FrameOf(n, T[cur].size, d)) /\ Puts(R, S, cur, k, v)
       /\ S.lstack = Pop(R.lstack, 2)
  <2>1. /\ S.frames = [R.frames EXCEPT ![n] = FrameOf(n, T[cur].size, d)]
        /\ S.copies = [R.copies EXCEPT ![cur] = StoredIn(R.copies[cur], k, v)]
        /\ S.ancestor = R.ancestor /\ S.lstack = Pop(R.lstack, 2)
    BY <1>4, <1>9, <1>11, <1>12, <1>13, <1>14 DEF ReaderNow
  <2>. QED
    BY <2>1 DEF Moves, Puts
<1>16. ReaderIn(L, T, N, s, S, p, FALSE, ids, cur, d, Q)
  <2>1. Stage(T[cur].size, c) = "value"
    BY <1>4, <1>5
  <2>2. Waiting(L, T, N, s, R, p, ids, cur, c, Q, x, n, z, l) /\ Story(L, T, N, s)
    BY <1>3
  <2>3. d = c + 1 /\ v = R.lstack[Len(R.lstack)] /\ k = R.lstack[Len(R.lstack) - 1]
    BY <1>4
  <2>. QED
    BY <1>15, <2>1, <2>2, <2>3, ValueStored
<1>17. ReaderIn(L, T, objectid, out, S, p, FALSE, ids, cur, d, Q)
  BY <1>2, <1>16
<1>18. p = pos' /\ ids = refs' /\ FALSE = ready' /\ FALSE \in BOOLEAN
  BY <1>9, <1>11
<1>. QED
  BY <1>3, <1>11, <1>14, <1>17, <1>18, ReaderGoesOnTold

\* A table has ended: it is the next item of the one around it.
LEMMA StoreEndTold ==
  ASSUME SeriInv, StoreEnd, ReaderTold
  PROVE  ReaderTold'
<1>1. PICK L, T, R, p, ids, cur, c, Q, x, n, z, l, f : WaitsAt(L, T, R, p, ids, cur, c, Q, x, n, z, l, f)
  BY StoresNext DEF StoreEnd, Storing
<1>2. PICK N \in Nat, s \in Seq(Elements) : N = objectid /\ s = out
  BY DEF SeriInv, SeriTypeOK
<1>3. Waiting(L, T, N, s, R, p, ids, cur, c, Q, x, n, z, l) /\ Story(L, T, N, s) /\ Telling(L, T)
  BY <1>1, <1>2 DEF WaitsAt, Telling
<1>4. f.stage = "key" /\ n = Len(frames) /\ Stage(T[cur].size, c) = "key"
  BY <1>1 DEF WaitsAt, StoreEnd, Storing
<1>5. /\ R.frames = frames /\ R.lstack = lstack /\ R.copies = copies /\ R.ancestor = ancestor
      /\ p = pos /\ ids = refs
  BY <1>1 DEF WaitsAt
<1>6. /\ Top(lstack) = Nil /\ lstack' = Pop(lstack, 1) /\ copies' = copies
      /\ frames' = Pop(frames, 1)
      /\ ready' = (Len(frames) > 1) /\ pos' = pos /\ refs' = refs /\ ancestor' = ancestor
      /\ UNCHANGED <<heap, args, out, writer>>
  BY DEF StoreEnd
<1>7. PICK S : S = ReaderNow'
  OBVIOUS
<1>8. Closes(R, S)
  BY <1>5, <1>6, <1>7 DEF ReaderNow, Closes
<1>9. R.lstack[Len(R.lstack)] = Nil
  BY <1>5, <1>6 DEF Top
<1>10. PICK o, d : ReaderIn(L, T, N, s, S, p, n > 1, ids, o, d, Q)
  BY <1>3, <1>4, <1>8, <1>9, TableEnded
<1>11. PICK rdy : rdy = (n > 1) /\ rdy \in BOOLEAN
  <2>1. n > 1 <=> (n > 1) = TRUE
    OBVIOUS
  <2>2. (n > 1) \in BOOLEAN
    BY <2>1
  <2>. QED
    BY <2>2
<1>12. ReaderIn(L, T, objectid, out, S, p, rdy, ids, o, d, Q)
  BY <1>2, <1>10, <1>11
<1>13. p = pos' /\ ids = refs' /\ rdy = ready'
  BY <1>4, <1>5, <1>6, <1>11
<1>. QED
  BY <1>3, <1>6, <1>7, <1>11, <1>12, <1>13, ReaderGoesOnTold
\* The reader has read nothing.
ReaderNew ==
  ReaderIdle /\ copies = <<>> /\ refs = {} /\ ancestor \in [0 .. MAX_DEPTH - 1 -> Nat]

\* The reader's first place.
LEMMA ReaderBegins ==
  ASSUME NEW L, NEW T, NEW N \in Nat, NEW s \in Seq(Elements), Story(L, T, N, s),
         NEW a \in [0 .. MAX_DEPTH - 1 -> Nat], NEW R,
         R = [frames |-> <<>>, lstack |-> <<>>, copies |-> <<>>, ancestor |-> a]
  PROVE  \E Q : ReaderIn(L, T, N, s, R, 1, FALSE, {}, 0, 0, Q)
<1>1. PICK Q : Q = [k \in {0} |-> 0]
  OBVIOUS
<1>2. L[1] = Place(0, 1, 0) /\ TableOK(T, 0) /\ T[0].depth = 0
  BY DEF Story, StoryTo
<1>3. PICK x : x = L[1] /\ x.of = 0 /\ x.item = 1 /\ x.begun = 0
  BY <1>2 DEF Place
<1>4. R.frames = <<>> /\ R.lstack = <<>> /\ R.copies = <<>> /\ R.ancestor = a
  OBVIOUS
<1>5. ReaderTyped(R)
  BY <1>4, EmptySeq DEF ReaderTyped
<1>6. Len(R.frames) = 0 /\ Len(R.lstack) = 0 /\ Len(R.copies) = 0
  BY <1>4, EmptySeq
<1>7. \A m \in 1..0 : FALSE
  OBVIOUS
<1>8. Remembers(T, R, s, 0, {}) /\ Ended(T, N, R, 0, 0)
  BY <1>6, <1>7 DEF Remembers, Ended
<1>9. Levels(L, T, N, R, 0, Q)
  <2>1. \A k \in 0 .. 0 - 1 : FALSE
    OBVIOUS
  <2>. QED
    BY <1>2, <2>1 DEF Levels
<1>10. Level(T, N, R, 0, 0, 0, 0) /\ Q[0] = 0
  BY <1>1, <1>7 DEF Level
<1>11. Last(T, 0, 0, 0, 0) + 0 = 0
  BY DEF Last
<1>12. ReaderHas(L, T, N, R, 0, 0, Q, 0)
  <2>1. Len(T[0].list) \in Nat
    BY <1>2, LenProperties DEF TableOK
  <2>2. 0 \in 0..Len(T[0].list)
    BY <2>1
  <2>. QED
    BY <1>2, <1>6, <1>9, <1>10, <1>11, <2>2 DEF ReaderHas
<1>13. AtItem(x, 0, 0)
  BY <1>3 DEF AtItem
<1>14. 1 \in 1 .. Len(s) + 1 /\ 0 \in 0..x.begun
  <2>1. Len(s) \in Nat
    BY LenProperties
  <2>. QED
    BY <1>3, <2>1
<1>15. ReaderIn(L, T, N, s, R, 1, FALSE, {}, 0, 0, Q)
  BY <1>3, <1>5, <1>8, <1>12, <1>13, <1>14 DEF ReaderIn
<1>. QED
  BY <1>15

\* The last place of a stream is one behind an element.
LEMMA LastPlace ==
  ASSUME NEW L, NEW T, NEW N \in Nat, NEW s \in Seq(Elements), Story(L, T, N, s)
  PROVE  \E x : /\ x = L[Len(s) + 1] /\ x = Place(x.of, x.item, x.begun) /\ x.begun = N
                /\ PlaceOK(L, T, N, Len(s) + 1)
<1>1. PICK n \in Nat : n = Len(s)
  BY LenProperties
<1>2. PICK x : x = L[n + 1]
  OBVIOUS
<1>3. x.begun = N /\ PlaceOK(L, T, N, n + 1)
  <2>1. n + 1 \in 1 .. n + 1
    BY <1>1
  <2>. QED
    BY <1>1, <1>2, <2>1 DEF Story, StoryTo
<1>4. \E of, item, begun : x = Place(of, item, begun)
  <2>1. CASE n = 0
    BY <1>1, <1>2, <2>1 DEF Story, StoryTo
  <2>2. CASE n # 0
    <3>1. n \in 1..n
      BY <1>1, <2>2
    <3>2. ElementOK(L[n], x, L, T, N, s, s[n], n)
      BY <1>1, <1>2, <3>1 DEF Story, StoryTo
    <3>. QED
      BY <3>2 DEF ElementOK, NextItem
  <2>. QED
    BY <2>1, <2>2
<1>5. x = Place(x.of, x.item, x.begun)
  BY <1>4 DEF Place
<1>. QED
  BY <1>1, <1>2, <1>3, <1>5

\* All is written: the story is that of the whole stream, and the reader begins.
LEMMA PackDoneTold ==
  ASSUME SeriInv, PackDone, WriterTells, ReaderNew
  PROVE  ReaderTold'
<1>1. PICK L, T : Story(L, T, objectid, out) /\ Told(T) /\ WriterIn(L, T)
  BY DEF WriterTells
<1>2. PICK N \in Nat, s \in Seq(Elements) : N = objectid /\ s = out
  BY DEF SeriInv, SeriTypeOK
<1>3. Story(L, T, N, s)
  BY <1>1, <1>2
<1>4. PICK x : /\ x = L[Len(s) + 1] /\ x = Place(x.of, x.item, x.begun) /\ x.begun = N
               /\ PlaceOK(L, T, N, Len(s) + 1)
  BY <1>3, LastPlace
<1>5. path = <<>> /\ Len(path) = 0 /\ todo[1] = <<>>
  BY EmptySeq DEF PackDone, Top, SeriInv, SeriTypeOK
<1>6. x.of = 0
  <2>1. T[x.of].depth = 0
    BY <1>1, <1>2, <1>4, <1>5, Zenon DEF WriterIn
  <2>2. x.of \in 0..N
    BY <1>4 DEF PlaceOK
  <2>3. T[x.of].depth = 0 <=> x.of = 0
    BY <1>3, <2>2, DepthOf
  <2>. QED
    BY <2>1, <2>3
<1>7. x.item = Len(args) + 1
  <2>1. Left(<<>>, args, x.item - 1)
    <3>1. Left(todo[Len(path) + 1], T[x.of].list, x.item - 1)
      BY <1>1, <1>2, <1>4, Zenon DEF WriterIn
    <3>2. Len(path) + 1 = 1
      BY <1>5
    <3>. QED
      BY <1>1, <1>5, <1>6, <3>1, <3>2 DEF Told
  <2>2. 0 = Len(args) - (x.item - 1)
    BY <2>1, EmptySeq DEF Left
  <2>3. T[0].list \in Seq(Values)
    BY <1>3 DEF Story, StoryTo, TableOK
  <2>4. Len(args) \in Nat
    BY <1>1, <2>3, LenProperties DEF Told
  <2>5. x.item \in 1 .. Len(args) + 1
    BY <1>1, <1>4, <1>6 DEF PlaceOK, Told
  <2>. QED
    BY <2>2, <2>4, <2>5
<1>8. Telling(L, T)
  BY <1>1, <1>2, <1>4, <1>6, <1>7 DEF Telling
<1>9. /\ pos' = 1 /\ lstack' = <<>> /\ frames' = <<>> /\ ready' = FALSE /\ copies' = <<>>
      /\ refs' = {} /\ ancestor' = ancestor
      /\ UNCHANGED <<heap, args, out, writer>>
  BY DEF PackDone, ReaderNew, ReaderIdle, reader
<1>10. PICK S : S = ReaderNow'
  OBVIOUS
<1>11. PICK a \in [0 .. MAX_DEPTH - 1 -> Nat] : a = ancestor
  BY DEF ReaderNew
<1>12. S = [frames |-> <<>>, lstack |-> <<>>, copies |-> <<>>, ancestor |-> a]
  BY <1>9, <1>10, <1>11 DEF ReaderNow
<1>13. PICK Q : ReaderIn(L, T, N, s, S, 1, FALSE, {}, 0, 0, Q)
  BY <1>3, <1>12, ReaderBegins
<1>14. ReaderIn(L, T, objectid, out, S, 1, FALSE, {}, 0, 0, Q)
  BY <1>2, <1>13
<1>15. FALSE \in BOOLEAN /\ 1 = pos' /\ FALSE = ready' /\ {} = refs'
  BY <1>9
<1>. QED
  BY <1>8, <1>9, <1>10, <1>14, <1>15, ReaderGoesOnTold
\* Every table that has a number is one of the story.
LEMMA AllTold ==
  ASSUME SeriInv, NEW T, Told(T), NEW t \in Packed
  PROVE  \E m \in 1..objectid : T[m].table = t
<1>1. PICK N, S : /\ N = objectid /\ S = Packed /\ N \in Nat
                  /\ IsFiniteSet(S) /\ Cardinality(S) = N
  BY DEF SeriInv, SeriTypeOK, NumbersInv
<1>2. \A m \in 1..N : T[m].table \in S /\ NumbersOf(T[m].table) = {m}
  BY <1>1 DEF Told, Packed
<1>3. ASSUME \A m \in 1..N : T[m].table # t
      PROVE  FALSE
  <2>1. PICK U : U = S \ {t}
    OBVIOUS
  <2>2. IsFiniteSet(U) /\ Cardinality(U) = N - 1
    BY <1>1, <2>1, FS_RemoveElement
  <2>3. PICK D : D = 1..N
    OBVIOUS
  <2>4. IsFiniteSet(D) /\ Cardinality(D) = N
    <3>1. N \in Int /\ 1 \in Int
      BY <1>1
    <3>2. IsFiniteSet(1..N) /\ Cardinality(1..N) = IF 1 > N THEN 0 ELSE N - 1 + 1
      BY <3>1, FS_Interval
    <3>3. (IF 1 > N THEN 0 ELSE N - 1 + 1) = N
      BY <1>1
    <3>. QED
      BY <2>3, <3>2, <3>3
  <2>5. PICK f : f = [m \in D |-> T[m].table]
    OBVIOUS
  <2>6. f \in [D -> U]
    BY <1>2, <1>3, <2>1, <2>3, <2>5
  <2>7. Cardinality(U) < Cardinality(D)
    BY <1>1, <2>2, <2>4
  <2>8. PICK x, y \in D : x # y /\ f[x] = f[y]
    BY <2>2, <2>4, <2>6, <2>7, FS_PigeonHole
  <2>9. {x} = {y}
    BY <1>2, <2>3, <2>5, <2>8
  <2>. QED
    BY <2>8, <2>9
<1>. QED
  BY <1>1, <1>3

\* What the receiver has is the sender's graph.
Received ==
  /\ \E list : list = args /\ lstack = [i \in DOMAIN list |-> CopyOf(list[i])]
  /\ Len(copies) = objectid
  /\ \A t \in Packed : IsCopied(t, Keys(t) \ LostKeys(t))

\* At the end of the stream all arguments are on the stack, and all tables have ended.
LEMMA AllReceived ==
  ASSUME SeriInv, ~TableKeys, UnpackDone, ReaderTold
  PROVE  Received
<1>1. PICK L, T : /\ Telling(L, T)
                  /\ \E cur, c, Q : ReaderIn(L, T, objectid, out, ReaderNow, pos, ready, refs, cur, c, Q)
  BY DEF ReaderTold, Telling
<1>2. PICK cur, c, Q : ReaderIn(L, T, objectid, out, ReaderNow, pos, ready, refs, cur, c, Q)
  BY <1>1
<1>3. PICK N \in Nat, s \in Seq(Elements) : N = objectid /\ s = out
  BY DEF SeriInv, SeriTypeOK
<1>4. PICK R, p, ids : R = ReaderNow /\ p = pos /\ ids = refs
  OBVIOUS
<1>5. ReaderIn(L, T, N, s, R, p, FALSE, ids, cur, c, Q)
  <2>1. ready = FALSE
    BY DEF UnpackDone, ReaderTold
  <2>. QED
    BY <1>2, <1>3, <1>4, <2>1
<1>6. p = Len(s) + 1
  <2>1. p \in 1 .. Len(s) + 1 /\ p > Len(s) /\ Len(s) \in Nat
    BY <1>3, <1>4, <1>5, LenProperties DEF ReaderIn, UnpackDone
  <2>. QED
    BY <2>1
<1>7. /\ Story(L, T, N, s) /\ Told(T) /\ L[p] = Place(0, Len(args) + 1, N)
  BY <1>1, <1>3, <1>6 DEF Telling
<1>8. PICK x : x = L[p] /\ x.of = 0 /\ x.item = Len(args) + 1 /\ x.begun = N
  BY <1>7 DEF Place
<1>9. /\ cur \in 0..N /\ ReaderTyped(R) /\ Remembers(T, R, s, N, ids) /\ Ended(T, N, R, cur, N)
      /\ ReaderHas(L, T, N, R, cur, c, Q, 0) /\ AtItem(x, cur, c)
  BY <1>5, <1>8 DEF ReaderIn
<1>10. cur = 0 /\ x.item = c + 1
  BY <1>8, <1>9 DEF AtItem
<1>11. /\ args \in Seq(Values) /\ T[0].list = args /\ T[0].depth = 0
  BY <1>7 DEF Story, StoryTo, TableOK, Told
<1>12. PICK l \in Nat : l = Len(args) /\ DOMAIN args = 1..l
  BY <1>11, LenProperties
<1>13. /\ c \in 0..l /\ Level(T, N, R, 0, 0, c, Q[0]) /\ Len(R.lstack) = Last(T, 0, 0, c, Q[0]) + 0
  BY <1>9, <1>10, <1>11, <1>12 DEF ReaderHas
<1>14. c = l
  BY <1>8, <1>10, <1>12, <1>13
<1>15. R.lstack = lstack /\ R.copies = copies
  BY <1>4 DEF ReaderNow
<1>16. \A j \in 1..l : lstack[j] = CopyOf(args[j])
  <2>1. ASSUME NEW j \in 1..l
        PROVE  lstack[j] = CopyOf(args[j])
    <3>1. PICK u, v : u = lstack[j] /\ v = args[j]
      OBVIOUS
    <3>2. Image(T, objectid, u, v)
      BY <1>3, <1>11, <1>13, <1>14, <1>15, <3>1 DEF Level
    <3>. QED
      BY <1>7, <3>1, <3>2, ImageIs
  <2>. QED
    BY <2>1
<1>17. lstack = [i \in DOMAIN args |-> CopyOf(args[i])]
  <2>1. Len(lstack) = l
    <3>1. Last(T, 0, 0, c, Q[0]) = l /\ l + 0 = l
      BY <1>14 DEF Last
    <3>. QED
      BY <1>13, <1>15, <3>1
  <2>2. PICK U : lstack \in Seq(U)
    BY <1>9, <1>15 DEF ReaderTyped
  <2>3. lstack = [i \in 1..l |-> lstack[i]]
    <3>1. lstack \in [1..l -> U]
      BY <2>1, <2>2, LenProperties
    <3>. QED
      BY <3>1
  <2>. QED
    BY <1>12, <1>16, <2>3
<1>18. Len(copies) = objectid
  BY <1>3, <1>9, <1>15 DEF Remembers
<1>19. ASSUME NEW t \in Packed
       PROVE  IsCopied(t, Keys(t) \ LostKeys(t))
  <2>1. PICK m \in 1..objectid : T[m].table = t
    BY <1>7, AllTold
  <2>2. Holds(T, N, R.copies[m], T[m].list, T[m].size, Len(T[m].list))
    <3>1. \A k \in 1..0 : FALSE
      OBVIOUS
    <3>2. m \in 1..N
      BY <1>3, <2>1
    <3>. QED
      BY <1>9, <1>10, <1>11, <3>1, <3>2 DEF Ended
  <2>3. T[m].list = Items(t) /\ T[m].size = ArraySize(t)
    BY <1>7, <2>1 DEF Told
  <2>4. Holds(T, objectid, copies[m], Items(t), ArraySize(t), Len(Items(t)))
    BY <1>3, <1>15, <2>2, <2>3
  <2>5. heap \in Heaps /\ NumbersOf(t) # {} /\ t \in Tables
    BY DEF SeriInv, SeriTypeOK, Packed
  <2>. QED
    BY <1>7, <2>1, <2>4, <2>5, ItemsCopied
<1>. QED
  BY <1>17, <1>18, <1>19 DEF Received

\* What the receiver has does not change any more.
LEMMA ReceivedStays ==
  ASSUME Received, UNCHANGED <<heap, args, out, writer, reader>>
  PROVE  Received'
<1>1. /\ heap' = heap /\ args' = args /\ out' = out /\ objectid' = objectid
      /\ r' = r /\ idOf' = idOf /\ lstack' = lstack /\ copies' = copies
  BY DEF writer, reader
<1>2. \A t : NumbersOf(t)' = NumbersOf(t)
  BY <1>1 DEF NumbersOf, InTables
<1>3. \A t : NumberOf(t)' = NumberOf(t)
  BY <1>2 DEF NumberOf
<1>4. \A x : CopyOf(x)' = CopyOf(x)
  BY <1>3 DEF CopyOf
<1>5. /\ Packed' = Packed
      /\ \A t : Keys(t)' = Keys(t)
      /\ \A t, k : ValueAt(t, k)' = ValueAt(t, k)
  BY <1>1, <1>2 DEF Packed, Keys, ValueAt
<1>6. \A t : LostKeys(t)' = LostKeys(t)
  BY <1>1, <1>5 DEF LostKeys, ArraySize
<1>7. ASSUME NEW t, NEW keys, IsCopied(t, keys)
      PROVE  IsCopied(t, keys)'
  BY <1>1, <1>3, <1>4, <1>5, <1>7 DEF IsCopied
<1>8. \A t \in Packed' : IsCopied(t, Keys(t) \ LostKeys(t))'
  <2>1. ASSUME NEW t \in Packed
        PROVE  IsCopied(t, Keys(t) \ LostKeys(t))'
    <3>1. PICK keys : keys = Keys(t) \ LostKeys(t)
      OBVIOUS
    <3>2. keys = (Keys(t) \ LostKeys(t))'
      BY <1>5, <1>6, <3>1
    <3>3. IsCopied(t, keys)'
      BY <1>7, <3>1 DEF Received
    <3>. QED
      BY <3>2, <3>3 DEF IsCopied
  <2>. QED
    BY <1>5, <2>1
<1>9. \E list : list = args' /\ lstack' = [i \in DOMAIN list |-> CopyOf(list[i])']
  <2>1. PICK list : list = args /\ lstack = [i \in DOMAIN list |-> CopyOf(list[i])]
    BY DEF Received
  <2>2. [i \in DOMAIN list |-> CopyOf(list[i])'] = [i \in DOMAIN list |-> CopyOf(list[i])]
    BY <1>4
  <2>. QED
    BY <1>1, <2>1, <2>2
<1>10. Len(copies') = objectid'
  BY <1>1 DEF Received
<1>. QED
  BY <1>8, <1>9, <1>10 DEF Received

------------------------------------------------------------------------------
(* The receiver gets the sender's graph.                                    *)

\* Without tables as keys, what is written tells the sender's graph, and the reader
\* follows the story to its end.
StoryInv ==
  ~TableKeys =>
    /\ phase = "pack" => WriterTells /\ ReaderNew
    /\ phase = "unpack" => ReaderTold
    /\ phase = "done" => Received

\* What the reader has read stays while nothing changes.
LEMMA ReaderToldStays ==
  ASSUME ReaderTold, UNCHANGED <<heap, args, out, writer, reader>>
  PROVE  ReaderTold'
<1>1. PICK L, T : /\ Telling(L, T)
                  /\ \E cur, c, Q : ReaderIn(L, T, objectid, out, ReaderNow, pos, ready, refs, cur, c, Q)
  BY DEF ReaderTold, Telling
<1>2. PICK cur, c, Q : ReaderIn(L, T, objectid, out, ReaderNow, pos, ready, refs, cur, c, Q)
  BY <1>1
<1>3. ReaderNow' = ReaderNow /\ pos' = pos /\ ready' = ready /\ refs' = refs
  BY DEF reader, ReaderNow
<1>4. PICK S, p, ids, rdy : S = ReaderNow /\ p = pos /\ rdy = ready /\ ids = refs /\ rdy \in BOOLEAN
  BY DEF ReaderTold
<1>5. ReaderIn(L, T, objectid, out, S, p, rdy, ids, cur, c, Q)
  BY <1>2, <1>4
<1>6. S = ReaderNow' /\ p = pos' /\ rdy = ready' /\ ids = refs' /\ rdy \in BOOLEAN
  BY <1>3, <1>4
<1>. QED
  BY <1>1, <1>5, <1>6, ReaderGoesOnTold

\* The reader is idle while the stream is written.
LEMMA ReaderNewStays ==
  ASSUME ReaderNew, UNCHANGED reader
  PROVE  ReaderNew'
BY DEF ReaderNew, ReaderIdle, reader

\* Nothing that StoryInv speaks of changes.
LEMMA StoryInvStays ==
  ASSUME StoryInv, UNCHANGED vars
  PROVE  StoryInv'
<1>1. /\ UNCHANGED <<heap, args, out, writer>> /\ UNCHANGED reader /\ phase' = phase
      /\ UNCHANGED <<heap, args, out, writer, reader>>
  BY DEF vars
<1>2. TableKeys' = TableKeys
  BY <1>1 DEF TableKeys
<1>3. WriterTells => WriterTells'
  BY <1>1, WriterToldStays
<1>4. ReaderTold => ReaderTold'
  BY <1>1, ReaderToldStays
<1>5. ReaderNew => ReaderNew'
  BY <1>1, ReaderNewStays
<1>6. Received => Received'
  BY <1>1, ReceivedStays
<1>. QED
  BY <1>1, <1>2, <1>3, <1>4, <1>5, <1>6 DEF StoryInv

\* StoryInv holds at the start.
LEMMA StoryInvBegins == Init => StoryInv
<1> SUFFICES ASSUME Init
             PROVE  StoryInv
  OBVIOUS
<1>1. WriterTells
  BY NothingTold
<1>2. ReaderNew
  <2>1. ReaderIdle
    BY WriterBegins
  <2>2. copies = <<>> /\ refs = {} /\ ancestor \in [0 .. MAX_DEPTH - 1 -> Nat]
    BY DEF Init
  <2>. QED
    BY <2>1, <2>2 DEF ReaderNew
<1>3. phase = "pack"
  BY DEF Init
<1>. QED
  BY <1>1, <1>2, <1>3 DEF StoryInv

\* Every step keeps StoryInv.
LEMMA StoryInvKept ==
  ASSUME SeriInv, StoryInv, [Next]_vars
  PROVE  StoryInv'
<1>1. CASE UNCHANGED vars
  BY <1>1, StoryInvStays
<1>2. CASE Next
  <2>1. heap' = heap
    BY <1>2 DEF Next, PackValue, PackUnsupported, PackAncestor, PackObject, PackTable, PackEnd,
       PackDone, ReadValue, ReadTable, ReadAncestor, ReadObject, StoreElement, StoreKey, StoreEnd,
       StoreValue, UnpackDone, Push, Refuse
  <2>2. TableKeys' = TableKeys
    BY <2>1 DEF TableKeys
  <2> SUFFICES ASSUME ~TableKeys
               PROVE  StoryInv'
    BY <2>2 DEF StoryInv
  <2>3. /\ phase = "pack" => WriterTells /\ ReaderNew
        /\ phase = "unpack" => ReaderTold
    BY DEF StoryInv
  <2>4. ASSUME phase' = "pack", WriterTells', ReaderNew'
        PROVE  StoryInv'
    BY <2>4 DEF StoryInv
  <2>5. ASSUME phase' = "unpack", ReaderTold'
        PROVE  StoryInv'
    BY <2>5 DEF StoryInv
  <2>6. ASSUME phase' \in {"failed", "refused"}
        PROVE  StoryInv'
    BY <2>6 DEF StoryInv
  <2>7. ASSUME phase' = "done", Received'
        PROVE  StoryInv'
    BY <2>7 DEF StoryInv
  <2>8. CASE PackValue
    <3>1. phase' = "pack" /\ phase = "pack" /\ UNCHANGED reader
      BY <2>8 DEF PackValue, Packing
    <3>. QED
      BY <2>3, <2>4, <2>8, <3>1, PackValueTells, ReaderNewStays
  <2>9. CASE PackAncestor
    <3>1. phase' = "pack" /\ phase = "pack" /\ UNCHANGED reader
      BY <2>9 DEF PackAncestor, Packing
    <3>. QED
      BY <2>3, <2>4, <2>9, <3>1, PackAncestorTells, ReaderNewStays
  <2>10. CASE PackObject
    <3>1. phase' = "pack" /\ phase = "pack" /\ UNCHANGED reader
      BY <2>10 DEF PackObject, Packing
    <3>. QED
      BY <2>3, <2>4, <2>10, <3>1, PackObjectTells, ReaderNewStays
  <2>11. CASE PackTable
    <3>1. phase' = "pack" /\ phase = "pack" /\ UNCHANGED reader
      BY <2>11 DEF PackTable, Packing
    <3>. QED
      BY <2>3, <2>4, <2>11, <3>1, PackTableTells, ReaderNewStays
  <2>12. CASE PackEnd
    <3>1. phase' = "pack" /\ phase = "pack" /\ UNCHANGED reader
      BY <2>12 DEF PackEnd
    <3>. QED
      BY <2>3, <2>4, <2>12, <3>1, PackEndTells, ReaderNewStays
  <2>13. CASE PackUnsupported
    BY <2>6, <2>13 DEF PackUnsupported
  <2>14. CASE PackDone
    <3>1. phase' = "unpack" /\ phase = "pack"
      BY <2>14 DEF PackDone
    <3>. QED
      BY <2>3, <2>5, <2>14, <3>1, PackDoneTold
  <2>15. CASE ReadValue
    <3>1. phase' = "unpack" /\ phase = "unpack"
      BY <2>15 DEF ReadValue, Reading, Push
    <3>. QED
      BY <2>3, <2>5, <2>15, <3>1, ReadValueTold
  <2>16. CASE ReadTable
    <3>1. phase' = "unpack" /\ phase = "unpack"
      BY <2>16 DEF ReadTable, Reading
    <3>. QED
      BY <2>3, <2>5, <2>16, <3>1, ReadTableTold
  <2>17. CASE ReadAncestor
    <3>1. phase = "unpack"
      BY <2>17 DEF ReadAncestor, Reading
    <3>2. ReaderTold' /\ phase' = "unpack"
      BY <2>3, <2>17, <3>1, ReadAncestorTold
    <3>. QED
      BY <2>5, <3>2
  <2>18. CASE ReadObject
    <3>1. phase = "unpack"
      BY <2>18 DEF ReadObject, Reading
    <3>2. phase' = "refused"
      BY <2>3, <2>18, <3>1, ReadObjectTold
    <3>. QED
      BY <2>6, <3>2
  <2>19. CASE StoreElement
    <3>1. phase' = "unpack" /\ phase = "unpack"
      BY <2>19 DEF StoreElement, Storing
    <3>. QED
      BY <2>3, <2>5, <2>19, <3>1, StoreElementTold
  <2>20. CASE StoreKey
    <3>1. phase' = "unpack" /\ phase = "unpack"
      BY <2>20 DEF StoreKey, Storing
    <3>. QED
      BY <2>3, <2>5, <2>20, <3>1, StoreKeyTold
  <2>21. CASE StoreEnd
    <3>1. phase' = "unpack" /\ phase = "unpack"
      BY <2>21 DEF StoreEnd, Storing
    <3>. QED
      BY <2>3, <2>5, <2>21, <3>1, StoreEndTold
  <2>22. CASE StoreValue
    <3>1. phase' = "unpack" /\ phase = "unpack"
      BY <2>22 DEF StoreValue, Storing
    <3>. QED
      BY <2>3, <2>5, <2>22, <3>1, StoreValueTold
  <2>23. CASE UnpackDone
    <3>1. /\ phase = "unpack" /\ phase' \in {"done", "refused"}
          /\ UNCHANGED <<heap, args, out, writer, reader>>
      BY <2>23 DEF UnpackDone
    <3>2. Received'
      BY <2>3, <2>23, <3>1, AllReceived, ReceivedStays
    <3>. QED
      BY <2>6, <2>7, <3>1, <3>2
  <2>. QED
    BY <1>2, <2>8, <2>9, <2>10, <2>11, <2>12, <2>13, <2>14, <2>15, <2>16, <2>17, <2>18, <2>19,
       <2>20, <2>21, <2>22, <2>23 DEF Next
<1>. QED
  BY <1>1, <1>2

\* When no tables are keys and seri_unpack returns, the receiver has the sender's graph:
\* as many tables, in every copy the keys and values of its table (but for the keys that
\* wb_table_hash loses), and references that lead to the copies of the tables they led to.
THEOREM GraphIsReceived == Spec => []RoundTrip
<1>1. SeriInv /\ StoryInv /\ [Next]_vars => StoryInv'
  BY StoryInvKept
<1>2. StoryInv => RoundTrip
  BY DEF StoryInv, RoundTrip, Received
<1>. QED
  BY <1>1, <1>2, StoryInvBegins, SeriInvHolds, PTL DEF Spec
==============================================================================

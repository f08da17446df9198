----------------------------- MODULE ClientsProofs -----------------------------
(***************************************************************************)
(* Proofs about the gateway and remote services, for any number of clients *)
(* of either, whatever they send in whatever pieces.                       *)
(***************************************************************************)
EXTENDS Clients, SequenceTheorems, FiniteSetTheorems, WellFoundedInduction,
        TLAPS

------------------------------------------------------------------------------
(* Induction: a set of natural numbers that is not empty has a least one.   *)

\* < as a set of pairs.
Less == {ss \in Nat \X Nat : ss[1] < ss[2]}

\* There is no infinite descent.
LEMMA LessIsWellFounded == IsWellFoundedOn(Less, Nat)
BY NatLessThanWellFounded DEF OpToRel, Less

\* The least number of a set.
LEMMA Least ==
  ASSUME NEW N \in SUBSET Nat, N # {}
  PROVE  \E n \in N : \A m \in N : n <= m
<1>1. PICK x \in N : \A y \in N : ~ (<<y, x>> \in Less)
  BY LessIsWellFounded, WFMin
<1>2. \A y \in N : ~(y < x)
  BY <1>1 DEF Less
<1>. QED
  BY <1>2

\* The greatest number of a set with a bound.
LEMMA Greatest ==
  ASSUME NEW N \in SUBSET Nat, N # {}, NEW b \in Nat, \A n \in N : n <= b
  PROVE  \E n \in N : \A m \in N : m <= n
<1> DEFINE D == {d \in Nat : b - d \in N}
<1>1. PICK n \in N : TRUE
  OBVIOUS
<1>2. b - n \in Nat /\ b - (b - n) = n
  BY <1>1
<1>3. D \in SUBSET Nat /\ D # {}
  BY <1>2
<1>4. PICK d \in D : \A e \in D : d <= e
  BY <1>3, Least
<1>5. b - d \in N /\ d \in Nat
  BY <1>4
<1>6. ASSUME NEW m \in N
      PROVE  m <= b - d
  <2>1. b - m \in Nat /\ b - (b - m) = m
    OBVIOUS
  <2>2. d <= b - m
    BY <1>4, <2>1
  <2>. QED
    BY <1>5, <2>2
<1>. QED
  BY <1>5, <1>6

------------------------------------------------------------------------------
(* Lines of a text.                                                         *)

\* The first line feed of bytes that have one.
LEMMA FirstLFIsFirst ==
  ASSUME NEW bytes \in Seq(Letters), LFs(bytes) # {}
  PROVE  /\ FirstLF(bytes) \in 1..Len(bytes) /\ bytes[FirstLF(bytes)] = LF
         /\ \A k \in 1 .. FirstLF(bytes) - 1 : bytes[k] # LF
<1>1. DOMAIN bytes = 1..Len(bytes) /\ Len(bytes) \in Nat
  BY LenProperties
<1>2. LFs(bytes) \in SUBSET Nat /\ LFs(bytes) \subseteq 1..Len(bytes)
  BY <1>1 DEF LFs
<1>3. \E k \in LFs(bytes) : \A j \in LFs(bytes) : k <= j
  BY <1>2, Least
<1>4. FirstLF(bytes) \in LFs(bytes) /\ \A j \in LFs(bytes) : FirstLF(bytes) <= j
  BY <1>3 DEF FirstLF
<1> DEFINE f == FirstLF(bytes)
<1> HIDE DEF f
<1>5. f \in LFs(bytes) /\ \A j \in LFs(bytes) : f <= j
  BY <1>4 DEF f
<1>6. f \in 1..Len(bytes) /\ bytes[f] = LF
  BY <1>2, <1>5 DEF LFs
<1>7. ASSUME NEW k \in 1 .. f - 1
      PROVE  bytes[k] # LF
  <2>1. k \in 1..Len(bytes) /\ ~(f <= k)
    BY <1>1, <1>6
  <2>. QED
    BY <1>1, <1>5, <2>1 DEF LFs
<1>. QED
  BY <1>6, <1>7 DEF f

\* A piece of a sequence.
LEMMA PieceIsSequence ==
  ASSUME NEW S, NEW s \in Seq(S), NEW a \in Nat \ {0}, NEW b \in Int, b <= Len(s)
  PROVE  SubSeq(s, a, b) \in Seq(S)
<1>1. \A k \in a..b : s[k] \in S
  <2>1. Len(s) \in Nat
    BY LenProperties
  <2>2. \A k \in a..b : k \in 1..Len(s)
    BY <2>1
  <2>. QED
    BY <2>2, ElementOfSeq
<1>. QED
  BY <1>1, SubSeqProperties

\* A line without its carriage return is still made of letters.
LEMMA StripTyped ==
  ASSUME NEW line \in Seq(Letters)
  PROVE  Strip(line) \in Seq(Letters)
<1>1. Len(line) \in Nat /\ Len(line) - 1 \in Int /\ Len(line) - 1 <= Len(line)
  BY LenProperties
<1>2. SubSeq(line, 1, Len(line) - 1) \in Seq(Letters)
  BY <1>1, PieceIsSequence
<1>. QED
  BY <1>2 DEF Strip

\* Equal pieces of two texts.
LEMMA EqualPieces ==
  ASSUME NEW S, NEW s \in Seq(S), NEW t \in Seq(S), NEW a \in Nat \ {0}, NEW c \in Nat \ {0},
         NEW b \in Int, NEW d \in Int, b <= Len(s), d <= Len(t), d - c = b - a,
         \A k \in a..b : s[k] = t[k - a + c]
  PROVE  SubSeq(s, a, b) = SubSeq(t, c, d)
<1> DEFINE x == SubSeq(s, a, b)
           y == SubSeq(t, c, d)
<1>1. x \in Seq(S) /\ y \in Seq(S)
  BY PieceIsSequence
<1>2. /\ \A k \in a..b : s[k] \in S
      /\ \A k \in c..d : t[k] \in S
  <2>1. Len(s) \in Nat /\ Len(t) \in Nat
    BY LenProperties
  <2>2. (\A k \in a..b : k \in 1..Len(s)) /\ (\A k \in c..d : k \in 1..Len(t))
    BY <2>1
  <2>. QED
    BY <2>2, ElementOfSeq
<1>3. /\ Len(x) = IF a <= b THEN b - a + 1 ELSE 0
      /\ \A i \in 1 .. b - a + 1 : x[i] = s[a + i - 1]
  BY <1>2, SubSeqProperties
<1>4. /\ Len(y) = IF c <= d THEN d - c + 1 ELSE 0
      /\ \A i \in 1 .. d - c + 1 : y[i] = t[c + i - 1]
  BY <1>2, SubSeqProperties
<1> HIDE DEF x, y
<1>5. Len(x) = Len(y)
  BY <1>3, <1>4
<1>6. ASSUME NEW i \in 1..Len(x)
      PROVE  x[i] = y[i]
  <2>1. i \in 1 .. b - a + 1 /\ i \in 1 .. d - c + 1 /\ a + i - 1 \in a..b
    BY <1>3
  <2>2. s[a + i - 1] = t[a + i - 1 - a + c] /\ a + i - 1 - a + c = c + i - 1
    BY <2>1
  <2>. QED
    BY <1>3, <1>4, <2>1, <2>2
<1>7. x = y
  BY <1>1, <1>5, <1>6, SeqEqual
<1>. QED
  BY <1>7 DEF x, y

\* What a prefix of a text is.
LEMMA PrefixOfText ==
  ASSUME NEW text \in Seq(Letters), NEW n \in 0..Len(text)
  PROVE  /\ SubSeq(text, 1, n) \in Seq(Letters) /\ Len(SubSeq(text, 1, n)) = n
         /\ \A k \in 1..n : SubSeq(text, 1, n)[k] = text[k]
         /\ LFs(SubSeq(text, 1, n)) = {k \in 1..n : text[k] = LF}
<1>1. n \in Nat /\ Len(text) \in Nat /\ n <= Len(text)
  BY LenProperties
<1>2. \A k \in 1..n : text[k] \in Letters
  BY <1>1, ElementOfSeq
<1> DEFINE x == SubSeq(text, 1, n)
<1>3. /\ x \in Seq(Letters) /\ Len(x) = IF 1 <= n THEN n - 1 + 1 ELSE 0
      /\ \A k \in 1 .. n - 1 + 1 : x[k] = text[1 + k - 1]
  BY <1>1, <1>2, SubSeqProperties
<1> HIDE DEF x
<1>4. Len(x) = n /\ \A k \in 1..n : x[k] = text[k]
  BY <1>1, <1>3
<1>5. DOMAIN x = 1..n
  BY <1>3, <1>4, LenProperties
<1>6. LFs(x) = {k \in 1..n : text[k] = LF}
  BY <1>4, <1>5 DEF LFs
<1>. QED
  BY <1>3, <1>4, <1>6 DEF x

\* Where a line starts: the greatest of a set of line feeds, or 0.
Starts0(text, k) == {0} \cup {j \in LFs(text) : j < k}
StartOf(text, k) ==
  CHOOSE p \in Starts0(text, k) : \A j \in Starts0(text, k) : j <= p

\* A line has a start, before its end.
LEMMA StartExists ==
  ASSUME NEW text \in Seq(Letters), NEW k \in 1..Len(text)
  PROVE  /\ StartOf(text, k) \in Starts0(text, k)
         /\ \A j \in Starts0(text, k) : j <= StartOf(text, k)
         /\ StartOf(text, k) \in 0 .. k - 1
         /\ LineAt(text, k) = Strip(SubSeq(text, StartOf(text, k) + 1, k - 1))
<1>1. DOMAIN text = 1..Len(text) /\ Len(text) \in Nat /\ k \in Nat
  BY LenProperties
<1>2. Starts0(text, k) \in SUBSET Nat /\ \A j \in Starts0(text, k) : j <= k - 1 /\ j <= k
  BY <1>1 DEF Starts0, LFs
<1>3. Starts0(text, k) # {}
  BY DEF Starts0
<1>4. \E p \in Starts0(text, k) : \A j \in Starts0(text, k) : j <= p
  BY <1>1, <1>2, <1>3, Greatest
<1>5. /\ StartOf(text, k) \in Starts0(text, k)
      /\ \A j \in Starts0(text, k) : j <= StartOf(text, k)
  BY <1>4 DEF StartOf
<1>6. LineAt(text, k) = Strip(SubSeq(text, StartOf(text, k) + 1, k - 1))
  BY DEF LineAt, StartOf, Starts0
<1>. QED
  BY <1>1, <1>2, <1>5, <1>6

\* A line stays what it is when the text goes on.
LEMMA LineKept ==
  ASSUME NEW text \in Seq(Letters), NEW n \in 0..Len(text), NEW e \in n..Len(text),
         NEW k \in 1..n
  PROVE  LineAt(SubSeq(text, 1, e), k) = LineAt(SubSeq(text, 1, n), k)
<1> DEFINE old == SubSeq(text, 1, n)
           new == SubSeq(text, 1, e)
<1>1. /\ Len(text) \in Nat /\ n \in Nat /\ e \in 0..Len(text) /\ n <= e
      /\ k \in 1..n /\ k \in 1..e
  BY LenProperties
<1>2. /\ old \in Seq(Letters) /\ Len(old) = n /\ \A i \in 1..n : old[i] = text[i]
      /\ LFs(old) = {i \in 1..n : text[i] = LF}
  BY PrefixOfText
<1>3. /\ new \in Seq(Letters) /\ Len(new) = e /\ \A i \in 1..e : new[i] = text[i]
      /\ LFs(new) = {i \in 1..e : text[i] = LF}
  BY <1>1, PrefixOfText
<1> HIDE DEF old, new
<1>4. Starts0(new, k) = Starts0(old, k)
  BY <1>1, <1>2, <1>3 DEF Starts0
<1>5. StartOf(new, k) = StartOf(old, k)
  BY <1>4 DEF StartOf
<1>6. PICK a : a = StartOf(old, k)
  OBVIOUS
<1>7. /\ a \in 0 .. k - 1 /\ LineAt(old, k) = Strip(SubSeq(old, a + 1, k - 1))
      /\ LineAt(new, k) = Strip(SubSeq(new, a + 1, k - 1))
  BY <1>1, <1>2, <1>3, <1>5, <1>6, StartExists
<1>8. SubSeq(new, a + 1, k - 1) = SubSeq(old, a + 1, k - 1)
  <2>1. PICK f \in Nat \ {0}, l \in Int : f = a + 1 /\ l = k - 1
    BY <1>1, <1>7
  <2>2. l <= Len(new) /\ l <= Len(old) /\ l - f = l - f
    BY <1>1, <1>2, <1>3, <2>1
  <2>3. \A i \in f..l : new[i] = old[i - f + f]
    BY <1>1, <1>2, <1>3, <1>7, <2>1
  <2>4. SubSeq(new, f, l) = SubSeq(old, f, l)
    BY <1>2, <1>3, <2>2, <2>3, EqualPieces
  <2>. QED
    BY <2>1, <2>4
<1>. QED
  BY <1>7, <1>8 DEF old, new

\* The line that the line feed behind a prefix of whole lines and a line ends.
LEMMA LineAdded ==
  ASSUME NEW text \in Seq(Letters), NEW n \in 0..Len(text), NEW m \in 1 .. Len(text) - n,
         n > 0 => text[n] = LF, text[n + m] = LF, \A i \in 1 .. m - 1 : text[n + i] # LF,
         NEW rest \in Seq(Letters), m <= Len(rest), \A i \in 1..m : rest[i] = text[n + i]
  PROVE  LineAt(SubSeq(text, 1, n + m), n + m) = Strip(SubSeq(rest, 1, m - 1))
<1>1. Len(text) \in Nat /\ n \in Nat /\ m \in Nat \ {0} /\ n + m \in 0..Len(text)
  BY LenProperties
<1>2. PICK e \in 0..Len(text) : e = n + m
  BY <1>1
<1> DEFINE new == SubSeq(text, 1, e)
<1>3. /\ new \in Seq(Letters) /\ Len(new) = e /\ \A i \in 1..e : new[i] = text[i]
      /\ LFs(new) = {i \in 1..e : text[i] = LF}
  BY PrefixOfText
<1> HIDE DEF new
<1>4. e \in 1..Len(new)
  BY <1>1, <1>2, <1>3
<1>5. n \in Starts0(new, e) /\ \A j \in Starts0(new, e) : j <= n
  <2>1. n = 0 \/ n \in LFs(new)
    BY <1>1, <1>2, <1>3
  <2>2. ASSUME NEW j \in LFs(new), j < e, j > n
        PROVE  FALSE
    <3>1. j - n \in 1 .. m - 1 /\ n + (j - n) = j /\ text[j] = LF
      BY <1>1, <1>2, <1>3, <2>2
    <3>2. text[n + (j - n)] # LF
      BY <3>1
    <3>. QED
      BY <3>1, <3>2
  <2>3. LFs(new) \subseteq Nat /\ n < e
    BY <1>1, <1>2, <1>3
  <2>4. \A j \in LFs(new) : j < e => j <= n
    BY <1>1, <2>2, <2>3
  <2>5. n \in Starts0(new, e)
    BY <2>1, <2>3 DEF Starts0
  <2>. QED
    BY <1>1, <2>4, <2>5 DEF Starts0
<1>6. /\ StartOf(new, e) \in Starts0(new, e) /\ \A j \in Starts0(new, e) : j <= StartOf(new, e)
      /\ StartOf(new, e) \in 0 .. e - 1
      /\ LineAt(new, e) = Strip(SubSeq(new, StartOf(new, e) + 1, e - 1))
  BY <1>3, <1>4, StartExists
<1>7. StartOf(new, e) = n
  <2>1. n <= StartOf(new, e) /\ StartOf(new, e) <= n /\ StartOf(new, e) \in Int
    BY <1>5, <1>6
  <2>. QED
    BY <1>1, <2>1
<1>8. SubSeq(new, n + 1, e - 1) = SubSeq(rest, 1, m - 1)
  <2>1. PICK f \in Nat \ {0}, l \in Int, d \in Int : f = n + 1 /\ l = e - 1 /\ d = m - 1
    BY <1>1, <1>2
  <2>2. l <= Len(new) /\ d <= Len(rest) /\ d - 1 = l - f
    BY <1>1, <1>2, <1>3, <2>1
  <2>3. ASSUME NEW i \in f..l
        PROVE  new[i] = rest[i - f + 1]
    <3>1. PICK x \in 1..m : x = i - f + 1 /\ n + x = i /\ i \in 1..e
      BY <1>1, <1>2, <2>1, SMTT(60)
    <3>2. rest[x] = text[n + x]
      OBVIOUS
    <3>. QED
      BY <1>3, <3>1, <3>2
  <2>4. 1 \in Nat \ {0} /\ \A i \in f..l : new[i] = rest[i - f + 1]
    BY <2>3
  <2>5. SubSeq(new, f, l) = SubSeq(rest, 1, d)
    <3> HIDE DEF Letters
    <3>. QED
      BY <1>3, <2>2, <2>4, EqualPieces
  <2>. QED
    BY <2>1, <2>5
<1>. QED
  BY <1>2, <1>6, <1>7, <1>8 DEF new

------------------------------------------------------------------------------
(* Ends of lines, counted.                                                  *)

\* Every number up to that of the ends is that of an end.
Counted(E) == \A i \in 1..Cardinality(E) : \E q \in E : Cardinality({j \in E : j <= q}) = i

\* The end with a number is one of the ends.
LEMMA NthIsEnd ==
  ASSUME NEW E, Counted(E), NEW i \in 1..Cardinality(E)
  PROVE  Nth(E, i) \in E
<1>1. {q \in E : Cardinality({j \in E : j <= q}) = i} # {}
  BY DEF Counted
<1>. QED
  BY <1>1 DEF Nth

\* An end behind all others is the last one.
LEMMA EndAdded ==
  ASSUME NEW E \in SUBSET Nat, IsFiniteSet(E), Counted(E), NEW p \in Nat, \A q \in E : q < p
  PROVE  /\ Counted(E \cup {p}) /\ IsFiniteSet(E \cup {p})
         /\ Cardinality(E) \in Nat /\ Cardinality(E \cup {p}) = Cardinality(E) + 1
         /\ \A i \in 1..Cardinality(E) : Nth(E \cup {p}, i) = Nth(E, i)
         /\ Nth(E \cup {p}, Cardinality(E) + 1) = p
<1> DEFINE F == E \cup {p}
           n == Cardinality(E)
           Count(S, q) == Cardinality({j \in S : j <= q})
<1>1. p \notin E
  OBVIOUS
<1>2. n \in Nat /\ IsFiniteSet(F) /\ Cardinality(F) = n + 1
  BY <1>1, FS_CardinalityType, FS_AddElement
<1>3. ASSUME NEW q \in E
      PROVE  Count(F, q) = Count(E, q) /\ Count(E, q) \in Nat /\ Count(E, q) <= n
  <2>1. {j \in F : j <= q} = {j \in E : j <= q}
    OBVIOUS
  <2>2. {j \in E : j <= q} \subseteq E
    OBVIOUS
  <2>3. IsFiniteSet({j \in E : j <= q}) /\ Cardinality({j \in E : j <= q}) <= n
    BY <2>2, FS_Subset
  <2>. QED
    BY <2>1, <2>3, FS_CardinalityType
<1>4. Count(F, p) = n + 1
  <2>1. \A j \in F : j <= p
    <3>1. \A q \in E : q \in Nat /\ q <= p
      OBVIOUS
    <3>. QED
      BY <3>1
  <2>2. {j \in F : j <= p} = F
    BY <2>1
  <2>. QED
    BY <1>2, <2>2
<1>5. ASSUME NEW i \in 1..n
      PROVE  /\ {q \in F : Count(F, q) = i} = {q \in E : Count(E, q) = i}
             /\ \E q \in F : Count(F, q) = i
  <2>1. i # n + 1
    BY <1>2
  <2>2. {q \in F : Count(F, q) = i} = {q \in E : Count(E, q) = i}
    BY <1>3, <1>4, <2>1
  <2>3. \E q \in E : Count(E, q) = i
    BY DEF Counted
  <2>. QED
    BY <2>2, <2>3
<1>6. {q \in F : Count(F, q) = n + 1} = {p}
  <2>1. \A q \in E : Count(F, q) # n + 1
    BY <1>2, <1>3
  <2>. QED
    BY <1>4, <2>1
<1>7. Counted(F)
  <2>1. \A i \in 1 .. n + 1 : i \in 1..n \/ i = n + 1
    BY <1>2
  <2>2. \E q \in F : Count(F, q) = n + 1
    BY <1>6
  <2>. QED
    BY <1>2, <1>5, <2>1, <2>2 DEF Counted
<1>8. \A i \in 1..n : Nth(F, i) = Nth(E, i)
  BY <1>5 DEF Nth
<1>9. Nth(F, n + 1) = p
  BY <1>6 DEF Nth
<1>. QED
  BY <1>2, <1>7, <1>8, <1>9

------------------------------------------------------------------------------
(* One more line of a text.                                                 *)

\* The ends of the lines of a prefix are numbers, not above its length.
LEMMA EndsTyped ==
  ASSUME NEW c, NEW text \in Seq(Letters), NEW n \in 0..Len(text)
  PROVE  /\ Ends(c, SubSeq(text, 1, n)) \in SUBSET Nat
         /\ Ends(c, SubSeq(text, 1, n)) \subseteq 1..n
         /\ IsFiniteSet(Ends(c, SubSeq(text, 1, n)))
<1>1. n \in Nat
  BY LenProperties
<1>2. Ends(c, SubSeq(text, 1, n)) \subseteq LFs(SubSeq(text, 1, n))
  BY DEF Ends
<1>3. LFs(SubSeq(text, 1, n)) \subseteq 1..n
  BY PrefixOfText
<1>4. IsFiniteSet(1..n)
  BY <1>1, FS_Interval
<1>5. Ends(c, SubSeq(text, 1, n)) \subseteq 1..n
  BY <1>2, <1>3
<1>6. IsFiniteSet(Ends(c, SubSeq(text, 1, n)))
  BY <1>4, <1>5, FS_Subset
<1>. QED
  BY <1>5, <1>6

\* Behind the n bytes of whole lines of a text, rest holds the m bytes of a line
\* and its line feed; L are the lines of those n bytes.
Follows(c, text, n, m, rest, L, line) ==
  /\ text \in Seq(Letters) /\ n \in 0..Len(text) /\ m \in 1 .. Len(text) - n
  /\ n > 0 => text[n] = LF
  /\ text[n + m] = LF /\ \A i \in 1 .. m - 1 : text[n + i] # LF
  /\ rest \in Seq(Letters) /\ m <= Len(rest) /\ \A i \in 1..m : rest[i] = text[n + i]
  /\ Counted(Ends(c, SubSeq(text, 1, n)))
  /\ L \in Seq(Seq(Letters)) /\ L = Expected(c, SubSeq(text, 1, n))
  /\ line \in Seq(Letters) /\ line = Strip(SubSeq(rest, 1, m - 1))

\* A line behind whole lines is one more line of the text, or none if it is skipped.
LEMMA OneMoreLine ==
  ASSUME NEW c, NEW text, NEW n, NEW m, NEW rest, NEW L, NEW line,
         Follows(c, text, n, m, rest, L, line)
  PROVE  /\ Counted(Ends(c, SubSeq(text, 1, n + m)))
         /\ Expected(c, SubSeq(text, 1, n + m)) =
              IF server[c] = "remote" \/ line # <<>> THEN Append(L, line) ELSE L
<1>0. /\ text \in Seq(Letters) /\ n \in 0..Len(text) /\ m \in 1 .. Len(text) - n
      /\ n > 0 => text[n] = LF
      /\ text[n + m] = LF /\ \A i \in 1 .. m - 1 : text[n + i] # LF
      /\ rest \in Seq(Letters) /\ m <= Len(rest) /\ \A i \in 1..m : rest[i] = text[n + i]
      /\ Counted(Ends(c, SubSeq(text, 1, n)))
      /\ L \in Seq(Seq(Letters)) /\ L = Expected(c, SubSeq(text, 1, n))
      /\ line \in Seq(Letters) /\ line = Strip(SubSeq(rest, 1, m - 1))
  BY DEF Follows
<1>1. Len(text) \in Nat /\ n \in Nat /\ m \in Nat \ {0} /\ n + m \in n..Len(text)
  BY <1>0, LenProperties
<1>2. PICK e \in n..Len(text) : e = n + m
  BY <1>1
<1> DEFINE old == SubSeq(text, 1, n)
           new == SubSeq(text, 1, e)
           E == Ends(c, old)
<1>3. LineAt(new, e) = line
  BY <1>0, <1>2, LineAdded
<1>4. \A k \in 1..n : LineAt(new, k) = LineAt(old, k)
  BY <1>0, <1>1, <1>2, LineKept
<1>5. LFs(old) = {k \in 1..n : text[k] = LF} /\ LFs(new) = {k \in 1..e : text[k] = LF}
  <2>1. e \in 0..Len(text)
    BY <1>0, <1>1, <1>2
  <2>. QED
    BY <1>0, <2>1, PrefixOfText
<1>6. E \in SUBSET Nat /\ E \subseteq 1..n /\ IsFiniteSet(E) /\ Counted(E)
  BY <1>0, EndsTyped
<1>7. /\ E = {k \in LFs(old) : server[c] = "remote" \/ LineAt(old, k) # <<>>}
      /\ Ends(c, new) = {k \in LFs(new) : server[c] = "remote" \/ LineAt(new, k) # <<>>}
  BY DEF Ends
<1>8. /\ Expected(c, old) = [i \in 1..Cardinality(E) |-> LineAt(old, Nth(E, i))]
      /\ Expected(c, new) = [i \in 1..Cardinality(Ends(c, new)) |-> LineAt(new, Nth(Ends(c, new), i))]
  BY DEF Expected
<1>9. L = Expected(c, old)
  BY <1>0
<1> HIDE DEF old, new, E
<1>10. LFs(new) = LFs(old) \cup {e} /\ e \notin 1..n /\ LFs(old) \subseteq 1..n
  <2>1. ASSUME NEW k \in 1..e, text[k] = LF
        PROVE  k \in 1..n \/ k = e
    <3>1. CASE k > n /\ k # e
      <4>1. k - n \in 1 .. m - 1 /\ n + (k - n) = k
        BY <1>0, <1>1, <1>2, <3>1
      <4>. QED
        BY <1>0, <2>1, <4>1
    <3>. QED
      BY <1>1, <1>2, <3>1
  <2>2. e \in 1..e /\ text[e] = LF /\ \A k \in 1..n : k \in 1..e
    BY <1>0, <1>1, <1>2
  <2>. QED
    BY <1>0, <1>1, <1>2, <1>5, <2>1, <2>2
<1>11. Ends(c, new) = E \cup (IF server[c] = "remote" \/ line # <<>> THEN {e} ELSE {})
  <2>1. \A k \in LFs(old) : LineAt(new, k) = LineAt(old, k)
    BY <1>4, <1>10
  <2>2. {k \in LFs(old) : server[c] = "remote" \/ LineAt(new, k) # <<>>} = E
    BY <1>7, <2>1
  <2>. QED
    BY <1>3, <1>7, <1>10, <2>2
<1>12. CASE ~(server[c] = "remote" \/ line # <<>>)
  <2>1. Ends(c, new) = E
    BY <1>11, <1>12
  <2>2. \A i \in 1..Cardinality(E) : Nth(E, i) \in 1..n
    BY <1>6, NthIsEnd
  <2>3. Expected(c, new) = L
    BY <1>4, <1>8, <1>9, <2>1, <2>2
  <2>. QED
    BY <1>2, <1>6, <1>12, <2>1, <2>3 DEF new
<1>13. CASE server[c] = "remote" \/ line # <<>>
  <2> DEFINE N == Cardinality(E)
             X == Append(L, line)
  <2>1. Ends(c, new) = E \cup {e} /\ e \in Nat /\ \A q \in E : q < e
    BY <1>1, <1>2, <1>6, <1>11, <1>13
  <2>2. /\ Counted(Ends(c, new)) /\ N \in Nat /\ Cardinality(Ends(c, new)) = N + 1
        /\ \A i \in 1..N : Nth(Ends(c, new), i) = Nth(E, i)
        /\ Nth(Ends(c, new), N + 1) = e
    <3>1. /\ Counted(E \cup {e}) /\ Cardinality(E) \in Nat
          /\ Cardinality(E \cup {e}) = Cardinality(E) + 1
          /\ \A i \in 1..Cardinality(E) : Nth(E \cup {e}, i) = Nth(E, i)
          /\ Nth(E \cup {e}, Cardinality(E) + 1) = e
      BY <1>6, <2>1, EndAdded
    <3>. QED
      BY <2>1, <3>1
  <2>3. \A i \in 1..N : Nth(E, i) \in 1..n
    BY <1>6, NthIsEnd
  <2> HIDE DEF N, X
  <2>4. L = [i \in 1..N |-> LineAt(old, Nth(E, i))]
    BY <1>8, <1>9 DEF N
  <2>5. Len(L) = N
    <3>1. DOMAIN L = 1..N /\ DOMAIN L = 1..Len(L) /\ Len(L) \in Nat
      BY <1>0, <2>4, LenProperties
    <3>. QED
      BY <2>2, <3>1
  <2>6. /\ X \in Seq(Seq(Letters)) /\ Len(X) = N + 1
        /\ \A i \in 1..N : X[i] = L[i]
        /\ X[N + 1] = line
    BY <1>0, <2>5, AppendProperties DEF X
  <2>7. X = [i \in 1 .. N + 1 |-> X[i]]
    BY <2>6, LenProperties
  <2>8. Expected(c, new) = [i \in 1 .. N + 1 |-> LineAt(new, Nth(Ends(c, new), i))]
    BY <1>8, <2>2
  <2>9. ASSUME NEW i \in 1 .. N + 1
        PROVE  LineAt(new, Nth(Ends(c, new), i)) = X[i]
    <3>1. CASE i = N + 1
      BY <1>3, <2>2, <2>6, <3>1 DEF new
    <3>2. CASE i \in 1..N
      <4>1. Nth(Ends(c, new), i) = Nth(E, i) /\ Nth(E, i) \in 1..n
        BY <2>2, <2>3, <3>2
      <4>2. LineAt(new, Nth(E, i)) = LineAt(old, Nth(E, i))
        BY <1>4, <4>1
      <4>. QED
        BY <2>4, <2>6, <3>2, <4>1, <4>2
    <3>. QED
      BY <2>2, <3>1, <3>2
  <2>10. Expected(c, new) = X
    BY <2>7, <2>8, <2>9
  <2>. QED
    BY <1>2, <1>13, <2>2, <2>10 DEF new, X
<1>. QED
  BY <1>12, <1>13

------------------------------------------------------------------------------
(* The inductive invariant.                                                 *)

Messages == [from : Clients \cup {Other}, n : Nat]

ClientsTypeOK ==
  /\ phase \in [Servers -> {"poll", "read", "drain", "exited"}]
  /\ active \in [Servers -> Clients \cup {Other}]
  /\ inbox \in [Servers -> Seq(Messages)]
  /\ executed \in [Servers -> Seq(Messages)]
  /\ lost \in [Servers -> Seq(Messages)]
  /\ server \in [Clients -> Servers]
  /\ sent \in [Clients -> Seq(Letters)]
  /\ input \in [Clients -> Seq(Letters)]
  /\ buf \in [Clients -> Seq(Letters)]
  /\ lines \in [Clients -> Seq(Seq(Letters))]

\* The bytes before the buffer's are whole lines, which were handed over; the
\* buffer's and those on their way follow them.
Position(c) == Len(sent[c]) - Len(input[c]) - Len(buf[c])
Done(c) == SubSeq(sent[c], 1, Position(c))
Framed(c) ==
  /\ Position(c) \in Nat
  /\ \A k \in 1..Len(buf[c]) : buf[c][k] = sent[c][Position(c) + k]
  /\ \A k \in 1..Len(input[c]) : input[c][k] = sent[c][Position(c) + Len(buf[c]) + k]
  /\ Position(c) > 0 => sent[c][Position(c)] = LF
  /\ Counted(Ends(c, Done(c)))
  /\ lines[c] = Expected(c, Done(c))

\* Only the connection a read callback works on has a whole line in its buffer.
ReadingInv ==
  /\ \A s \in Servers : phase[s] = "read" => active[s] \in Clients /\ server[active[s]] = s
  /\ \A c \in Clients :
       LFs(buf[c]) # {} => active[server[c]] = c /\ phase[server[c]] = "read"

ClientsInv ==
  /\ ClientsTypeOK
  /\ \A c \in Clients : Framed(c)
  /\ ReadingInv
  /\ CommandsKeepTheirOrder

------------------------------------------------------------------------------
(* What a step leaves alone.                                                *)

\* A client whose bytes and lines stay is framed as before.
LEMMA FramedStays ==
  ASSUME NEW c \in Clients, Framed(c), server'[c] = server[c], sent'[c] = sent[c],
         input'[c] = input[c], buf'[c] = buf[c], lines'[c] = lines[c]
  PROVE  Framed(c)'
<1>1. Position(c)' = Position(c)
  BY DEF Position
<1>2. Done(c)' = Done(c)
  BY <1>1 DEF Done
<1>3. Ends(c, Done(c))' = Ends(c, Done(c)) /\ Expected(c, Done(c))' = Expected(c, Done(c))
  BY <1>2 DEF Ends, Expected
<1>. QED
  BY <1>1, <1>2, <1>3 DEF Framed

\* A step that moves no bytes and reads no lines.
LEMMA FramingStays ==
  ASSUME ClientsInv, UNCHANGED <<server, sent, input, buf, lines>>
  PROVE  \A c \in Clients : Framed(c)'
BY FramedStays DEF ClientsInv

\* The read callbacks' part when no service enters or leaves one.
LEMMA ReadingStays ==
  ASSUME ClientsTypeOK, ReadingInv, UNCHANGED <<server, buf, active>>,
         \A s \in Servers : phase'[s] = "read" <=> phase[s] = "read"
  PROVE  ReadingInv'
<1>1. \A c \in Clients : server[c] \in Servers
  BY DEF ClientsTypeOK
<1>2. /\ \A s \in Servers : active'[s] = active[s]
      /\ \A c \in Clients : buf'[c] = buf[c] /\ server'[c] = server[c]
  OBVIOUS
<1>. QED
  BY <1>1, <1>2 DEF ReadingInv

------------------------------------------------------------------------------
(* Commands.                                                                *)

\* One more command.
LEMMA OneMoreCommand ==
  ASSUME NEW ms \in Seq(Messages), NEW m \in Messages, NEW c \in Clients
  PROVE  /\ LinesIn(Append(ms, m), c) = LinesIn(ms, c) \cup (IF m.from = c THEN {m.n} ELSE {})
         /\ InOrder(ms, c) /\ (m.from = c => \A x \in LinesIn(ms, c) : x < m.n) =>
              InOrder(Append(ms, m), c)
<1> DEFINE a == Append(ms, m)
<1>1. Len(ms) \in Nat /\ DOMAIN ms = 1..Len(ms)
  BY LenProperties
<1>2. /\ a \in Seq(Messages) /\ Len(a) = Len(ms) + 1
      /\ \A i \in 1..Len(ms) : a[i] = ms[i]
      /\ a[Len(ms) + 1] = m
  BY AppendProperties
<1>3. DOMAIN a = 1..Len(ms) \cup {Len(ms) + 1}
  BY <1>1, <1>2, LenProperties
<1> HIDE DEF a
<1>4. LinesIn(a, c) = LinesIn(ms, c) \cup (IF m.from = c THEN {m.n} ELSE {})
  BY <1>1, <1>2, <1>3 DEF LinesIn
<1>5. ASSUME InOrder(ms, c), m.from = c => \A x \in LinesIn(ms, c) : x < m.n
      PROVE  InOrder(a, c)
  <2> SUFFICES ASSUME NEW i \in DOMAIN a, NEW j \in DOMAIN a, i < j, a[i].from = c, a[j].from = c
               PROVE  a[i].n < a[j].n
    BY DEF InOrder
  <2>1. i \in 1..Len(ms)
    BY <1>1, <1>3
  <2>2. CASE j \in 1..Len(ms)
    BY <1>1, <1>2, <1>5, <2>1, <2>2 DEF InOrder
  <2>3. CASE j = Len(ms) + 1
    BY <1>1, <1>2, <1>5, <2>1, <2>3 DEF LinesIn
  <2>. QED
    BY <1>3, <2>2, <2>3
<1>. QED
  BY <1>4, <1>5 DEF a

Taken == executed["remote"] \o inbox["remote"]
Refused == lost["remote"]

\* What CommandsKeepTheirOrder says of one client.
Ordered(c, taken, refused, n) ==
  /\ InOrder(taken, c) /\ InOrder(refused, c)
  /\ LinesIn(taken, c) \cap LinesIn(refused, c) = {}
  /\ LinesIn(taken, c) \cup LinesIn(refused, c) = 1..n

\* The order of the commands, client by client ...
LEMMA OrderedIs ==
  ASSUME ClientsTypeOK
  PROVE  CommandsKeepTheirOrder <=>
           \A c \in Clients : server[c] = "remote" => Ordered(c, Taken, Refused, Len(lines[c]))
<1>1. \A c \in Clients : DOMAIN lines[c] = 1..Len(lines[c])
  BY LenProperties DEF ClientsTypeOK
<1>. QED
  BY <1>1 DEF CommandsKeepTheirOrder, Ordered, Taken, Refused

\* ... and after a step.
LEMMA OrderedNext ==
  ASSUME ClientsTypeOK'
  PROVE  CommandsKeepTheirOrder' <=>
           \A c \in Clients :
             server'[c] = "remote" => Ordered(c, Taken', Refused', Len(lines'[c]))
<1>1. \A c \in Clients : DOMAIN lines'[c] = 1..Len(lines'[c])
  BY LenProperties DEF ClientsTypeOK
<1>. QED
  BY <1>1 DEF CommandsKeepTheirOrder, Ordered, Taken, Refused

\* The commands are sequences of messages.
LEMMA CommandsTyped ==
  ASSUME ClientsTypeOK
  PROVE  /\ Taken \in Seq(Messages) /\ Refused \in Seq(Messages)
         /\ \A s \in Servers : executed[s] \in Seq(Messages) /\ inbox[s] \in Seq(Messages)
<1>1. "remote" \in Servers
  BY DEF Servers
<1>2. executed["remote"] \in Seq(Messages) /\ inbox["remote"] \in Seq(Messages)
  BY <1>1 DEF ClientsTypeOK
<1>. QED
  BY <1>1, <1>2, ConcatProperties DEF ClientsTypeOK, Taken, Refused

\* A command is taken or refused; the number of a line is one more than those before.
LEMMA OrderedWith ==
  ASSUME NEW c \in Clients, NEW taken \in Seq(Messages), NEW refused \in Seq(Messages),
         NEW n \in Nat, Ordered(c, taken, refused, n), NEW m \in Messages,
         m.from = c => m.n = n + 1
  PROVE  /\ Ordered(c, Append(taken, m), refused, IF m.from = c THEN n + 1 ELSE n)
         /\ Ordered(c, taken, Append(refused, m), IF m.from = c THEN n + 1 ELSE n)
<1>1. 1 .. n + 1 = 1..n \cup {n + 1} /\ n + 1 \notin 1..n /\ \A x \in 1..n : x < n + 1
  OBVIOUS
<1>2. LinesIn(taken, c) \subseteq 1..n /\ LinesIn(refused, c) \subseteq 1..n
  BY DEF Ordered
<1>3. /\ LinesIn(Append(taken, m), c) = LinesIn(taken, c) \cup (IF m.from = c THEN {m.n} ELSE {})
      /\ InOrder(Append(taken, m), c)
  BY <1>1, <1>2, OneMoreCommand DEF Ordered
<1>4. /\ LinesIn(Append(refused, m), c) = LinesIn(refused, c) \cup (IF m.from = c THEN {m.n} ELSE {})
      /\ InOrder(Append(refused, m), c)
  BY <1>1, <1>2, OneMoreCommand DEF Ordered
<1>5. CASE m.from = c
  BY <1>1, <1>2, <1>3, <1>4, <1>5 DEF Ordered
<1>6. CASE m.from # c
  BY <1>3, <1>4, <1>6 DEF Ordered
<1>. QED
  BY <1>5, <1>6

\* The commands and the lines stay.
LEMMA CommandsStay ==
  ASSUME ClientsInv, ClientsTypeOK', Taken' = Taken, UNCHANGED <<lost, lines, server>>
  PROVE  CommandsKeepTheirOrder'
<1>1. Refused' = Refused
  BY DEF Refused
<1>. QED
  BY <1>1, OrderedIs, OrderedNext DEF ClientsInv

------------------------------------------------------------------------------
(* The steps.                                                               *)

\* A place behind the first a of a + n.
LEMMA Behind ==
  ASSUME NEW p \in Nat, NEW a \in Nat, NEW n \in Nat, NEW k \in 1 .. a + n, k > a
  PROVE  \E l \in 1..n : l = k - a /\ p + a + l = p + k
<1>1. k - a \in 1..n /\ p + a + (k - a) = p + k
  OBVIOUS
<1>. QED
  BY <1>1

\* A piece of a client's bytes goes from its way to its buffer.
LEMMA ReadKeeps ==
  ASSUME ClientsInv, NEW c \in Clients, Read(c)
  PROVE  ClientsInv'
<1> USE DEF ClientsInv
<1>1. PICK n \in 1..Len(input[c]) :
        /\ buf' = [buf EXCEPT ![c] = buf[c] \o SubSeq(input[c], 1, n)]
        /\ input' = [input EXCEPT ![c] = SubSeq(input[c], n + 1, Len(input[c]))]
  BY DEF Read, AddToBuffer
<1>2. /\ phase[server[c]] = "poll" /\ active' = [active EXCEPT ![server[c]] = c]
      /\ phase' = [phase EXCEPT ![server[c]] = "read"]
      /\ UNCHANGED <<inbox, server, sent, lines, executed, lost>>
  BY DEF Read, In, Goto, conns
<1>3. /\ buf[c] \in Seq(Letters) /\ input[c] \in Seq(Letters) /\ sent[c] \in Seq(Letters)
      /\ server[c] \in Servers
      /\ Len(buf[c]) \in Nat /\ Len(input[c]) \in Nat /\ Len(sent[c]) \in Nat
  BY LenProperties DEF ClientsTypeOK
<1> DEFINE x == SubSeq(input[c], 1, n)
           y == SubSeq(input[c], n + 1, Len(input[c]))
<1>4. x \in Seq(Letters) /\ Len(x) = n /\ \A k \in 1..n : x[k] = input[c][k]
  <2>1. n \in 0..Len(input[c])
    BY <1>3
  <2>. QED
    BY <1>3, <2>1, PrefixOfText
<1>5. /\ y \in Seq(Letters) /\ Len(y) = Len(input[c]) - n
      /\ \A k \in 1..Len(y) : y[k] = input[c][n + k]
  <2>1. \A k \in (n + 1)..Len(input[c]) : k \in 1..Len(input[c])
    BY <1>3
  <2>2. \A k \in (n + 1)..Len(input[c]) : input[c][k] \in Letters
    BY <1>3, <2>1, ElementOfSeq
  <2>3. /\ y \in Seq(Letters)
        /\ Len(y) = IF n + 1 <= Len(input[c]) THEN Len(input[c]) - (n + 1) + 1 ELSE 0
        /\ \A k \in 1 .. Len(input[c]) - (n + 1) + 1 : y[k] = input[c][(n + 1) + k - 1]
    BY <1>3, <2>2, SubSeqProperties
  <2>4. Len(y) = Len(input[c]) - n
    BY <1>3, <2>3
  <2>5. \A k \in 1..Len(y) : (n + 1) + k - 1 = n + k /\ k \in 1 .. Len(input[c]) - (n + 1) + 1
    BY <1>3, <2>4
  <2>. QED
    BY <2>3, <2>4, <2>5
<1> DEFINE b == buf[c] \o x
<1> HIDE DEF x, y
<1>6. /\ b \in Seq(Letters) /\ Len(b) = Len(buf[c]) + n
      /\ \A k \in 1 .. Len(buf[c]) + n :
           b[k] = IF k <= Len(buf[c]) THEN buf[c][k] ELSE x[k - Len(buf[c])]
  BY <1>3, <1>4, ConcatProperties, ZenonT(60)
<1> HIDE DEF b
<1>7. /\ buf' = [buf EXCEPT ![c] = b] /\ input' = [input EXCEPT ![c] = y]
  BY <1>1 DEF b, x, y
<1>8. /\ buf'[c] = b /\ input'[c] = y
      /\ \A d \in Clients \ {c} : buf'[d] = buf[d] /\ input'[d] = input[d]
  BY <1>7 DEF ClientsTypeOK
<1>9. ClientsTypeOK'
  BY <1>2, <1>3, <1>5, <1>6, <1>7 DEF ClientsTypeOK
<1>10. ASSUME NEW d \in Clients \ {c}
       PROVE  Framed(d)'
  BY <1>2, <1>8, FramedStays
<1>11. Framed(c)'
  <2>1. /\ Position(c) \in Nat
        /\ \A k \in 1..Len(buf[c]) : buf[c][k] = sent[c][Position(c) + k]
        /\ \A k \in 1..Len(input[c]) : input[c][k] = sent[c][Position(c) + Len(buf[c]) + k]
        /\ Position(c) > 0 => sent[c][Position(c)] = LF
        /\ Counted(Ends(c, Done(c))) /\ lines[c] = Expected(c, Done(c))
    BY DEF Framed
  <2>2. sent'[c] = sent[c] /\ lines'[c] = lines[c] /\ server'[c] = server[c]
    BY <1>2
  <2>3. PICK lb \in Nat, li \in Nat, ls \in Nat :
          lb = Len(buf[c]) /\ li = Len(input[c]) /\ ls = Len(sent[c])
    BY <1>3
  <2>4. n \in 1..li /\ Len(b) = lb + n /\ Len(y) = li - n
    BY <1>5, <1>6, <2>3
  <2>5. Position(c)' = Position(c)
    <3>1. Position(c) = ls - li - lb /\ Position(c)' = ls - (li - n) - (lb + n)
      BY <1>8, <2>2, <2>3, <2>4 DEF Position
    <3>. QED
      BY <2>3, <2>4, <3>1
  <2>6. Ends(c, Done(c))' = Ends(c, Done(c)) /\ Expected(c, Done(c))' = Expected(c, Done(c))
    BY <2>2, <2>5 DEF Done, Ends, Expected
  <2>7. PICK p \in Nat : p = Position(c)
    BY <2>1
  <2>8. ASSUME NEW k \in 1..Len(b)
        PROVE  b[k] = sent[c][p + k]
    <3>1. CASE k <= Len(buf[c])
      BY <1>3, <1>6, <2>1, <2>7, <2>8, <3>1
    <3>2. CASE k > Len(buf[c])
      <4>1. n \in Nat /\ k \in 1 .. lb + n /\ k > lb
        BY <2>3, <2>4, <2>8, <3>2
      <4>2. PICK l \in 1..n : l = k - lb /\ p + lb + l = p + k
        <5>1. PICK i \in 1 .. lb + n : i = k /\ i > lb
          BY <4>1
        <5>2. \E l \in 1..n : l = i - lb /\ p + lb + l = p + i
          BY <4>1, <5>1, Behind
        <5>. QED
          BY <5>1, <5>2
      <4>3. b[k] = x[l]
        <5>1. \A i \in 1 .. lb + n : b[i] = IF i <= lb THEN buf[c][i] ELSE x[i - lb]
          BY <1>6, <2>3
        <5>2. k <= lb <=> FALSE
          BY <4>1
        <5>. QED
          BY <4>1, <4>2, <5>1, <5>2
      <4>4. x[l] = input[c][l] /\ l \in 1..li
        BY <1>4, <2>4, <4>1, <4>2
      <4>. QED
        BY <2>1, <2>3, <2>7, <4>2, <4>3, <4>4
    <3>. QED
      BY <1>3, <1>6, <2>8, <3>1, <3>2
  <2>9. ASSUME NEW k \in 1..Len(y)
        PROVE  y[k] = sent[c][p + Len(b) + k]
    <3>1. n + k \in 1..li /\ p + lb + (n + k) = p + Len(b) + k
      BY <2>7, <2>9, <2>3, <2>4
    <3>2. input[c][n + k] = sent[c][p + lb + (n + k)]
      BY <2>1, <2>7, <2>3, <3>1
    <3>. QED
      BY <1>5, <2>9, <3>1, <3>2
  <2>. QED
    BY <1>8, <2>1, <2>2, <2>5, <2>6, <2>7, <2>8, <2>9 DEF Framed
<1>12. ReadingInv'
  <2>1. \A d \in Clients : server[d] \in Servers
    BY DEF ClientsTypeOK
  <2>2. \A d \in Clients : server[d] = server[c] => LFs(buf[d]) = {}
    BY <1>2 DEF ReadingInv
  <2>3. /\ active'[server[c]] = c /\ phase'[server[c]] = "read"
        /\ \A s \in Servers \ {server[c]} : active'[s] = active[s] /\ phase'[s] = phase[s]
    BY <1>2, <1>3 DEF ClientsTypeOK
  <2>4. \A s \in Servers : phase'[s] = "read" => active'[s] \in Clients /\ server'[active'[s]] = s
    BY <1>2, <2>3 DEF ReadingInv
  <2>5. ASSUME NEW d \in Clients, LFs(buf'[d]) # {}
        PROVE  active'[server'[d]] = d /\ phase'[server'[d]] = "read"
    <3>1. CASE d = c
      BY <1>2, <2>3, <3>1
    <3>2. CASE d # c
      <4>1. LFs(buf[d]) # {} /\ server[d] # server[c]
        BY <1>8, <2>2, <2>5, <3>2
      <4>. QED
        BY <1>2, <2>1, <2>3, <4>1 DEF ReadingInv
    <3>. QED
      BY <3>1, <3>2
  <2>. QED
    BY <2>4, <2>5 DEF ReadingInv
<1>13. CommandsKeepTheirOrder'
  BY <1>2, <1>9, CommandsStay DEF Taken
<1>. QED
  BY <1>9, <1>10, <1>11, <1>12, <1>13

\* Taking the first line from a buffer.
LEMMA LineTaken ==
  ASSUME ClientsTypeOK, NEW c \in Clients, Framed(c), LFs(buf[c]) # {},
         UNCHANGED <<server, sent, input>>, buf'[c] = After(buf[c]),
         lines'[c] = IF server[c] = "remote" \/ FirstLine(buf[c]) # <<>>
                       THEN Append(lines[c], FirstLine(buf[c])) ELSE lines[c]
  PROVE  Framed(c)' /\ buf'[c] \in Seq(Letters) /\ FirstLine(buf[c]) \in Seq(Letters)
<1>1. /\ buf[c] \in Seq(Letters) /\ input[c] \in Seq(Letters) /\ sent[c] \in Seq(Letters)
      /\ lines[c] \in Seq(Seq(Letters))
  BY DEF ClientsTypeOK
<1>2. PICK p \in Nat, lb \in Nat, li \in Nat, ls \in Nat :
        p = Position(c) /\ lb = Len(buf[c]) /\ li = Len(input[c]) /\ ls = Len(sent[c])
  BY <1>1, LenProperties DEF Framed
<1>3. PICK m \in 1..lb : /\ m = FirstLF(buf[c]) /\ buf[c][m] = LF
                         /\ \A k \in 1 .. m - 1 : buf[c][k] # LF
  BY <1>1, <1>2, FirstLFIsFirst
<1>4. p = ls - li - lb
  BY <1>2 DEF Position
<1> DEFINE b == SubSeq(buf[c], m + 1, lb)
           line == Strip(SubSeq(buf[c], 1, m - 1))
<1>5. buf'[c] = b /\ FirstLine(buf[c]) = line
  BY <1>2, <1>3 DEF After, FirstLine
<1>6. line \in Seq(Letters)
  <2>1. m - 1 \in Int /\ m - 1 <= Len(buf[c]) /\ 1 \in Nat \ {0}
    BY <1>2, <1>3
  <2>. QED
    BY <1>1, <2>1, PieceIsSequence, StripTyped
<1>7. b \in Seq(Letters) /\ Len(b) = lb - m /\ \A k \in 1 .. lb - m : b[k] = buf[c][m + k]
  <2>1. \A k \in (m + 1)..lb : k \in 1..lb
    BY <1>3
  <2>2. \A k \in (m + 1)..lb : buf[c][k] \in Letters
    BY <1>1, <1>2, <2>1, ElementOfSeq
  <2>3. /\ b \in Seq(Letters) /\ Len(b) = IF m + 1 <= lb THEN lb - (m + 1) + 1 ELSE 0
        /\ \A k \in 1 .. lb - (m + 1) + 1 : b[k] = buf[c][(m + 1) + k - 1]
    BY <1>3, <2>2, SubSeqProperties, SMTT(30)
  <2>4. Len(b) = lb - m
    BY <1>3, <2>3
  <2>5. \A k \in 1 .. lb - m : (m + 1) + k - 1 = m + k /\ k \in 1 .. lb - (m + 1) + 1
    BY <1>3
  <2>. QED
    BY <2>3, <2>4, <2>5
<1> HIDE DEF b, line
<1>8. /\ \A k \in 1..lb : buf[c][k] = sent[c][p + k]
      /\ \A k \in 1..li : input[c][k] = sent[c][p + lb + k]
      /\ p > 0 => sent[c][p] = LF
      /\ Counted(Ends(c, SubSeq(sent[c], 1, p))) /\ lines[c] = Expected(c, SubSeq(sent[c], 1, p))
  BY <1>2 DEF Framed, Done
<1>9. /\ p \in 0..Len(sent[c]) /\ m \in 1 .. Len(sent[c]) - p /\ m <= Len(buf[c])
      /\ p + m \in Nat /\ p + m > 0
  <2>1. ls - p = lb + li /\ p <= ls /\ m <= ls - p
    BY <1>3, <1>4
  <2>2. p \in 0..ls /\ m \in 1 .. ls - p /\ m <= lb /\ p + m \in Nat /\ p + m > 0
    BY <1>3, <2>1
  <2>. QED
    BY <1>2, <2>2
<1>10. /\ \A i \in 1..m : buf[c][i] = sent[c][p + i]
       /\ \A i \in 1 .. m - 1 : sent[c][p + i] # LF
       /\ sent[c][p + m] = LF
  <2>1. \A i \in 1..m : i \in 1..lb
    BY <1>3
  <2>2. \A i \in 1 .. m - 1 : i \in 1..lb
    BY <1>3
  <2>. QED
    BY <1>3, <1>8, <2>1, <2>2
<1>11. /\ Counted(Ends(c, SubSeq(sent[c], 1, p + m)))
       /\ Expected(c, SubSeq(sent[c], 1, p + m)) =
            IF server[c] = "remote" \/ line # <<>> THEN Append(lines[c], line) ELSE lines[c]
  <2>1. line = Strip(SubSeq(buf[c], 1, m - 1))
    BY DEF line
  <2>2. PICK text \in Seq(Letters), rest \in Seq(Letters), L \in Seq(Seq(Letters)) :
          text = sent[c] /\ rest = buf[c] /\ L = lines[c]
    BY <1>1
  <2>3. /\ p \in 0..Len(text) /\ m \in 1 .. Len(text) - p /\ m <= Len(rest)
        /\ p > 0 => text[p] = LF
        /\ \A i \in 1 .. m - 1 : text[p + i] # LF
        /\ \A i \in 1..m : rest[i] = text[p + i]
        /\ Counted(Ends(c, SubSeq(text, 1, p))) /\ L = Expected(c, SubSeq(text, 1, p))
        /\ line = Strip(SubSeq(rest, 1, m - 1))
    BY <1>8, <1>9, <1>10, <2>1, <2>2
  <2>4. text[p + m] = LF
    BY <1>10, <2>2
  <2>5. Follows(c, text, p, m, rest, L, line)
    BY <1>6, <2>3, <2>4 DEF Follows
  <2>6. /\ Counted(Ends(c, SubSeq(text, 1, p + m)))
        /\ Expected(c, SubSeq(text, 1, p + m)) =
             IF server[c] = "remote" \/ line # <<>> THEN Append(L, line) ELSE L
    BY <2>5, OneMoreLine
  <2>. QED
    BY <2>2, <2>6
<1>12. /\ sent'[c] = sent[c] /\ input'[c] = input[c] /\ server'[c] = server[c]
       /\ Len(buf'[c]) = lb - m
  BY <1>5, <1>7
<1>13. Position(c)' = p + m
  <2>1. Position(c)' = ls - li - (lb - m)
    BY <1>2, <1>12 DEF Position
  <2>. QED
    BY <1>3, <1>4, <2>1
<1>14. /\ Ends(c, Done(c))' = Ends(c, SubSeq(sent[c], 1, p + m))
       /\ Expected(c, Done(c))' = Expected(c, SubSeq(sent[c], 1, p + m))
  BY <1>12, <1>13 DEF Done, Ends, Expected
<1>15. lines'[c] = Expected(c, Done(c))' /\ Counted(Ends(c, Done(c)))'
  BY <1>5, <1>11, <1>14 DEF Counted
<1>16. ASSUME NEW k \in 1 .. lb - m
       PROVE  b[k] = sent[c][p + m + k]
  <2>1. m + k \in 1..lb /\ p + (m + k) = p + m + k
    BY <1>3
  <2>2. buf[c][m + k] = sent[c][p + (m + k)]
    BY <1>8, <2>1
  <2>. QED
    BY <1>7, <2>1, <2>2
<1>17. ASSUME NEW k \in 1..li
       PROVE  input[c][k] = sent[c][p + m + (lb - m) + k]
  <2>1. p + m + (lb - m) + k = p + lb + k
    BY <1>3
  <2>. QED
    BY <1>8, <2>1
<1>18. Framed(c)'
  BY <1>2, <1>5, <1>9, <1>10, <1>12, <1>13, <1>15, <1>16, <1>17, ZenonT(60) DEF Framed
<1>. QED
  BY <1>5, <1>6, <1>7, <1>18

\* A command at the end of the inbox is behind all that were taken.
LEMMA AppendedBehind ==
  ASSUME NEW S, NEW s \in Seq(S), NEW t \in Seq(S), NEW e \in S
  PROVE  s \o Append(t, e) = Append(s \o t, e)
<1>1. <<e>> \in Seq(S)
  OBVIOUS
<1>2. s \o t \in Seq(S)
  BY ConcatProperties
<1>3. Append(t, e) = t \o <<e>> /\ Append(s \o t, e) = (s \o t) \o <<e>>
  BY <1>2, AppendIsConcat
<1>4. (s \o t) \o <<e>> = s \o (t \o <<e>>)
  BY <1>1, ConcatAssociative
<1>. QED
  BY <1>3, <1>4

\* The first command of the inbox, executed, leaves those that were taken in
\* their order.
LEMMA HeadMoves ==
  ASSUME NEW S, NEW s \in Seq(S), NEW t \in Seq(S), t # <<>>
  PROVE  Append(s, Head(t)) \o Tail(t) = s \o t
<1> DEFINE h == Head(t)
           l == Tail(t)
           x == <<h>> \o l
<1>1. /\ h \in S /\ l \in Seq(S) /\ Len(l) = Len(t) - 1 /\ Len(t) \in Nat \ {0}
      /\ \A i \in 1..Len(l) : l[i] = t[i + 1]
  BY HeadTailProperties, EmptySeq
<1>2. <<h>> \in Seq(S) /\ Len(<<h>>) = 1 /\ <<h>>[1] = h /\ h = t[1]
  BY <1>1
<1>3. Append(s, h) = s \o <<h>>
  BY <1>1, AppendIsConcat
<1>4. (s \o <<h>>) \o l = s \o x
  BY <1>1, <1>2, ConcatAssociative
<1>5. /\ x \in Seq(S) /\ Len(x) = Len(<<h>>) + Len(l)
      /\ \A i \in 1 .. Len(<<h>>) + Len(l) :
           x[i] = IF i <= Len(<<h>>) THEN <<h>>[i] ELSE l[i - Len(<<h>>)]
  BY <1>1, <1>2, ConcatProperties
<1> HIDE DEF h, l, x
<1>6. Len(x) = Len(t) /\ \A i \in 1..Len(t) : x[i] = IF i <= 1 THEN <<h>>[i] ELSE l[i - 1]
  BY <1>1, <1>2, <1>5
<1>7. ASSUME NEW i \in 1..Len(t)
      PROVE  x[i] = t[i]
  <2>1. CASE i = 1
    BY <1>2, <1>6, <2>1
  <2>2. CASE i # 1
    <3>1. i - 1 \in 1..Len(l) /\ (i - 1) + 1 = i /\ ~(i <= 1)
      BY <1>1, <2>2
    <3>. QED
      BY <1>1, <1>6, <3>1
  <2>. QED
    BY <2>1, <2>2
<1>8. x = t
  BY <1>5, <1>6, <1>7, SeqEqual
<1>. QED
  BY <1>3, <1>4, <1>8 DEF h, l

\* A step that moves no bytes, reads no lines and keeps the order of the commands.
LEMMA QuietKeeps ==
  ASSUME ClientsInv, ClientsTypeOK', Taken' = Taken,
         UNCHANGED <<server, sent, input, buf, lines, active, lost>>,
         \A s \in Servers : phase'[s] = "read" <=> phase[s] = "read"
  PROVE  ClientsInv'
<1>1. \A c \in Clients : Framed(c)'
  BY FramingStays
<1>2. ReadingInv'
  BY ReadingStays DEF ClientsInv
<1>3. CommandsKeepTheirOrder'
  BY CommandsStay
<1>. QED
  BY <1>1, <1>2, <1>3 DEF ClientsInv

\* A client connects.
LEMMA AcceptKeeps ==
  ASSUME ClientsInv, NEW c \in Clients, Accept(c)
  PROVE  ClientsInv'
<1>1. UNCHANGED <<phase, active, inbox, server, sent, input, buf, lines, executed, lost>>
  BY DEF Accept
<1>2. ClientsTypeOK' /\ Taken' = Taken
  BY <1>1 DEF ClientsInv, ClientsTypeOK, Taken
<1>. QED
  BY <1>1, <1>2, QuietKeeps

\* The same of the end of a connection.
LEMMA EndKeeps ==
  ASSUME ClientsInv, NEW c \in Clients, End(c)
  PROVE  ClientsInv'
<1>1. UNCHANGED <<phase, active, inbox, server, sent, input, buf, lines, executed, lost>>
  BY DEF End
<1>2. ClientsTypeOK' /\ Taken' = Taken
  BY <1>1 DEF ClientsInv, ClientsTypeOK, Taken
<1>. QED
  BY <1>1, <1>2, QuietKeeps

\* The drain loop begins.
LEMMA WakeKeeps ==
  ASSUME ClientsInv, NEW s \in Servers, Wake(s)
  PROVE  ClientsInv'
<1>1. /\ UNCHANGED <<active, inbox, server, sent, input, buf, lines, executed, lost>>
      /\ phase[s] = "poll" /\ phase' = [phase EXCEPT ![s] = "drain"]
  BY DEF Wake, In, Goto, conns
<1>2. ClientsTypeOK' /\ Taken' = Taken
  BY <1>1 DEF ClientsInv, ClientsTypeOK, Taken
<1>3. \A r \in Servers : phase'[r] = "read" <=> phase[r] = "read"
  BY <1>1 DEF ClientsInv, ClientsTypeOK
<1>. QED
  BY <1>1, <1>2, <1>3, QuietKeeps

\* The drain loop ends.
LEMMA DrainedKeeps ==
  ASSUME ClientsInv, NEW s \in Servers, Drained(s)
  PROVE  ClientsInv'
<1>1. /\ UNCHANGED <<active, inbox, server, sent, input, buf, lines, executed, lost>>
      /\ phase[s] = "drain"
      /\ phase' = [phase EXCEPT ![s] = IF quit[s] THEN "exited" ELSE "poll"]
  BY DEF Drained, In, Goto, conns
<1>2. ClientsTypeOK' /\ Taken' = Taken
  BY <1>1 DEF ClientsInv, ClientsTypeOK, Taken
<1>3. \A r \in Servers : phase'[r] = "read" <=> phase[r] = "read"
  BY <1>1 DEF ClientsInv, ClientsTypeOK
<1>. QED
  BY <1>1, <1>2, <1>3, QuietKeeps

\* A command is executed: it goes from the inbox to the executed ones.
LEMMA ExecuteKeeps ==
  ASSUME ClientsInv, NEW s \in Servers, Execute(s)
  PROVE  ClientsInv'
<1>1. /\ UNCHANGED <<phase, active, server, sent, input, buf, lines, lost>>
      /\ inbox[s] # <<>>
      /\ executed' = [executed EXCEPT ![s] = Append(executed[s], Head(inbox[s]))]
      /\ inbox' = [inbox EXCEPT ![s] = Tail(inbox[s])]
  BY DEF Execute, Received
<1>2. executed[s] \in Seq(Messages) /\ inbox[s] \in Seq(Messages)
  BY CommandsTyped DEF ClientsInv
<1>3. /\ Tail(inbox[s]) \in Seq(Messages)
      /\ Append(executed[s], Head(inbox[s])) \in Seq(Messages)
  BY <1>1, <1>2, HeadTailProperties, AppendProperties
<1>4. ClientsTypeOK'
  BY <1>1, <1>3 DEF ClientsInv, ClientsTypeOK
<1>5. Taken' = Taken
  <2>1. CASE s = "remote"
    <3>1. Append(executed[s], Head(inbox[s])) \o Tail(inbox[s]) = executed[s] \o inbox[s]
      BY <1>1, <1>2, HeadMoves
    <3>2. /\ executed'[s] = Append(executed[s], Head(inbox[s]))
          /\ inbox'[s] = Tail(inbox[s])
      BY <1>1 DEF ClientsInv, ClientsTypeOK
    <3>. QED
      BY <2>1, <3>1, <3>2 DEF Taken
  <2>2. CASE s # "remote"
    BY <1>1, <2>2, SMTT(40) DEF ClientsInv, ClientsTypeOK, Taken
  <2>. QED
    BY <2>1, <2>2
<1>. QED
  BY <1>1, <1>4, <1>5, QuietKeeps

\* The read callback returns: its client's buffer has no whole line any more.
LEMMA LastLineKeeps ==
  ASSUME ClientsInv, NEW s \in Servers, LastLine(s)
  PROVE  ClientsInv'
<1>1. /\ UNCHANGED <<inbox, server, sent, input, buf, lines, executed, lost>>
      /\ phase[s] = "read" /\ LFs(buf[active[s]]) = {}
      /\ phase' = [phase EXCEPT ![s] = "poll"]
      /\ active' = [active EXCEPT ![s] = Other]
  BY DEF LastLine, IsLast, In, Goto, conns
<1>2. ClientsTypeOK' /\ Taken' = Taken
  BY <1>1 DEF ClientsInv, ClientsTypeOK, Taken
<1>3. \A c \in Clients : Framed(c)'
  BY <1>1, FramingStays
<1>4. ReadingInv'
  <2>1. /\ phase'[s] = "poll"
        /\ \A r \in Servers \ {s} : phase'[r] = phase[r] /\ active'[r] = active[r]
    BY <1>1 DEF ClientsInv, ClientsTypeOK
  <2>2. \A r \in Servers : phase'[r] = "read" => active'[r] \in Clients /\ server'[active'[r]] = r
    BY <1>1, <2>1 DEF ClientsInv, ReadingInv
  <2>3. ASSUME NEW c \in Clients, LFs(buf'[c]) # {}
        PROVE  active'[server'[c]] = c /\ phase'[server'[c]] = "read"
    <3>1. LFs(buf[c]) # {} /\ server[c] \in Servers
      BY <1>1, <2>3 DEF ClientsInv, ClientsTypeOK
    <3>2. active[server[c]] = c /\ phase[server[c]] = "read"
      BY <3>1 DEF ClientsInv, ReadingInv
    <3>3. server[c] # s
      BY <1>1, <3>1, <3>2
    <3>. QED
      BY <1>1, <2>1, <3>1, <3>2, <3>3
  <2>. QED
    BY <2>2, <2>3 DEF ReadingInv
<1>5. CommandsKeepTheirOrder'
  BY <1>1, <1>2, CommandsStay
<1>. QED
  BY <1>2, <1>3, <1>4, <1>5 DEF ClientsInv

\* A command sent is taken or refused.
LEMMA SentIs ==
  ASSUME ClientsTypeOK, NEW s \in Servers, NEW m \in Messages, Send(s, m), UNCHANGED executed
  PROVE  /\ inbox' \in [Servers -> Seq(Messages)] /\ lost' \in [Servers -> Seq(Messages)]
         /\ s # "remote" => Taken' = Taken /\ Refused' = Refused
         /\ s = "remote" => \/ Taken' = Append(Taken, m) /\ Refused' = Refused
                            \/ Taken' = Taken /\ Refused' = Append(Refused, m)
<1>1. executed[s] \in Seq(Messages) /\ inbox[s] \in Seq(Messages) /\ lost[s] \in Seq(Messages)
  BY DEF ClientsTypeOK
<1>2. CASE inbox' = [inbox EXCEPT ![s] = Append(inbox[s], m)] /\ lost' = lost
  <2>1. Append(inbox[s], m) \in Seq(Messages)
    BY <1>1, AppendProperties
  <2>2. inbox' \in [Servers -> Seq(Messages)] /\ inbox'[s] = Append(inbox[s], m)
    BY <1>2, <2>1 DEF ClientsTypeOK
  <2>3. executed[s] \o Append(inbox[s], m) = Append(executed[s] \o inbox[s], m)
    <3>1. PICK x \in Seq(Messages), y \in Seq(Messages) : x = executed[s] /\ y = inbox[s]
      BY <1>1
    <3>2. x \o Append(y, m) = Append(x \o y, m)
      BY AppendedBehind
    <3>. QED
      BY <3>1, <3>2
  <2>4. s = "remote" => Taken' = Append(Taken, m)
    BY <2>2, <2>3 DEF Taken
  <2>5. s # "remote" => Taken' = Taken
    BY <1>2 DEF Taken, ClientsTypeOK
  <2>. QED
    BY <1>2, <2>2, <2>4, <2>5 DEF ClientsTypeOK, Refused
<1>3. CASE lost' = [lost EXCEPT ![s] = Append(lost[s], m)] /\ inbox' = inbox
  <2>1. Append(lost[s], m) \in Seq(Messages)
    BY <1>1, AppendProperties
  <2>2. lost' \in [Servers -> Seq(Messages)] /\ lost'[s] = Append(lost[s], m)
    BY <1>3, <2>1 DEF ClientsTypeOK
  <2>3. s # "remote" => Refused' = Refused
    BY <1>3 DEF Refused, ClientsTypeOK
  <2>. QED
    BY <1>3, <2>2, <2>3 DEF ClientsTypeOK, Taken, Refused
<1>. QED
  BY <1>2, <1>3 DEF Send

\* Another service's command is of no client.
LEMMA SendQuitKeeps ==
  ASSUME ClientsInv, NEW s \in Servers, SendQuit(s)
  PROVE  ClientsInv'
<1>1. /\ UNCHANGED <<phase, active, server, sent, input, buf, lines, executed>>
      /\ Send(s, FromOther)
  BY DEF SendQuit, conns
<1>2. FromOther \in Messages /\ \A c \in Clients : FromOther.from # c
  BY OtherAssumption DEF FromOther, Messages
<1>3. /\ inbox' \in [Servers -> Seq(Messages)] /\ lost' \in [Servers -> Seq(Messages)]
      /\ \/ Taken' = Taken /\ Refused' = Refused
         \/ Taken' = Append(Taken, FromOther) /\ Refused' = Refused
         \/ Taken' = Taken /\ Refused' = Append(Refused, FromOther)
  BY <1>1, <1>2, SentIs DEF ClientsInv
<1>4. ClientsTypeOK'
  BY <1>1, <1>3 DEF ClientsInv, ClientsTypeOK
<1>5. (\A c \in Clients : Framed(c)') /\ ReadingInv'
  BY <1>1, FramingStays, ReadingStays DEF ClientsInv
<1>6. CommandsKeepTheirOrder'
  <2>1. Taken \in Seq(Messages) /\ Refused \in Seq(Messages)
    BY CommandsTyped DEF ClientsInv
  <2>2. ASSUME NEW c \in Clients, server'[c] = "remote"
        PROVE  Ordered(c, Taken', Refused', Len(lines'[c]))
    <3>1. Len(lines[c]) \in Nat
      BY LenProperties DEF ClientsInv, ClientsTypeOK
    <3>2. Ordered(c, Taken, Refused, Len(lines[c]))
      BY <1>1, <2>2, OrderedIs DEF ClientsInv
    <3>3. /\ Ordered(c, Append(Taken, FromOther), Refused, Len(lines[c]))
          /\ Ordered(c, Taken, Append(Refused, FromOther), Len(lines[c]))
      BY <1>2, <2>1, <3>1, <3>2, OrderedWith
    <3>. QED
      BY <1>1, <1>3, <3>2, <3>3
  <2>. QED
    BY <1>4, <2>2, OrderedNext
<1>. QED
  BY <1>4, <1>5, <1>6 DEF ClientsInv

\* A line of the buffer is handed over, or skipped.
LEMMA NextLineKeeps ==
  ASSUME ClientsInv, NEW s \in Servers, NextLine(s)
  PROVE  ClientsInv'
<1>1. PICK c : c = active[s]
  OBVIOUS
<1>2. /\ phase[s] = "read" /\ LFs(buf[c]) # {}
      /\ buf' = [buf EXCEPT ![c] = After(buf[c])]
      /\ UNCHANGED <<phase, active, server, sent, input, executed>>
  BY <1>1 DEF NextLine, In, conns
<1>3. c \in Clients /\ server[c] = s
  BY <1>1, <1>2 DEF ClientsInv, ReadingInv
<1>4. \/ /\ s # "remote" /\ FirstLine(buf[c]) = <<>>
         /\ UNCHANGED <<lines, inbox, lost>>
      \/ /\ s = "remote" \/ FirstLine(buf[c]) # <<>>
         /\ lines' = [lines EXCEPT ![c] = Append(lines[c], FirstLine(buf[c]))]
         /\ s = "remote" => Send("remote", [from |-> c, n |-> Len(lines'[c])])
         /\ s # "remote" => UNCHANGED <<inbox, lost>>
  BY <1>1 DEF NextLine, IsHandedOver, on_line, handle_message
<1>5. /\ lines'[c] = IF server[c] = "remote" \/ FirstLine(buf[c]) # <<>>
                       THEN Append(lines[c], FirstLine(buf[c])) ELSE lines[c]
      /\ buf'[c] = After(buf[c])
      /\ \A d \in Clients \ {c} : lines'[d] = lines[d] /\ buf'[d] = buf[d]
  BY <1>2, <1>3, <1>4 DEF ClientsInv, ClientsTypeOK
<1>6. Framed(c)' /\ buf'[c] \in Seq(Letters) /\ FirstLine(buf[c]) \in Seq(Letters)
  BY <1>2, <1>3, <1>5, LineTaken DEF ClientsInv
<1>7. \A d \in Clients : Framed(d)'
  <2>1. ASSUME NEW d \in Clients, d # c
        PROVE  Framed(d)'
    BY <1>2, <1>5, <2>1, FramedStays DEF ClientsInv
  <2>. QED
    BY <1>6, <2>1
<1>8. /\ lines[c] \in Seq(Seq(Letters)) /\ Len(lines[c]) \in Nat
      /\ Append(lines[c], FirstLine(buf[c])) \in Seq(Seq(Letters))
      /\ Len(Append(lines[c], FirstLine(buf[c]))) = Len(lines[c]) + 1
  <2>1. lines[c] \in Seq(Seq(Letters))
    BY <1>3 DEF ClientsInv, ClientsTypeOK
  <2>. QED
    BY <1>6, <2>1, LenProperties, AppendProperties
<1>9. /\ lines' \in [Clients -> Seq(Seq(Letters))]
      /\ buf' \in [Clients -> Seq(Letters)]
  <2>1. buf' \in [Clients -> Seq(Letters)]
    BY <1>2, <1>3, <1>5, <1>6 DEF ClientsInv, ClientsTypeOK
  <2>2. lines' \in [Clients -> Seq(Seq(Letters))]
    BY <1>3, <1>4, <1>8 DEF ClientsInv, ClientsTypeOK
  <2>. QED
    BY <2>1, <2>2
<1>10. ReadingInv'
  <2>1. /\ \A r \in Servers : phase'[r] = "read" => active'[r] \in Clients /\ server'[active'[r]] = r
    BY <1>2 DEF ClientsInv, ReadingInv
  <2>2. ASSUME NEW d \in Clients, LFs(buf'[d]) # {}
        PROVE  active'[server'[d]] = d /\ phase'[server'[d]] = "read"
    <3>1. CASE d = c
      BY <1>1, <1>2, <1>3, <3>1
    <3>2. CASE d # c
      BY <1>2, <1>5, <2>2, <3>2 DEF ClientsInv, ReadingInv
    <3>. QED
      BY <3>1, <3>2
  <2>. QED
    BY <2>1, <2>2 DEF ReadingInv
<1>11. CASE s # "remote" \/ UNCHANGED <<lines, inbox, lost>>
  <2>1. UNCHANGED <<inbox, lost>>
    BY <1>4, <1>11
  <2>2. Taken' = Taken /\ Refused' = Refused
    BY <1>2, <2>1 DEF Taken, Refused
  <2>3. ClientsTypeOK'
    BY <1>2, <1>9, <2>1 DEF ClientsInv, ClientsTypeOK
  <2>4. \A d \in Clients : server[d] = "remote" => lines'[d] = lines[d]
    BY <1>3, <1>5, <1>11
  <2>5. CommandsKeepTheirOrder'
    BY <1>2, <2>2, <2>3, <2>4, OrderedIs, OrderedNext DEF ClientsInv
  <2>. QED
    BY <1>7, <1>10, <2>3, <2>5 DEF ClientsInv
<1>12. CASE s = "remote" /\ ~UNCHANGED <<lines, inbox, lost>>
  <2>1. /\ lines'[c] = Append(lines[c], FirstLine(buf[c]))
        /\ Send("remote", [from |-> c, n |-> Len(lines'[c])])
    BY <1>3, <1>4, <1>5, <1>12
  <2>2. Len(lines'[c]) = Len(lines[c]) + 1
    BY <1>8, <2>1
  <2>3. PICK m \in Messages : m = [from |-> c, n |-> Len(lines'[c])] /\ m.from = c
                              /\ m.n = Len(lines[c]) + 1
    <3>1. PICK k \in Nat : k = Len(lines'[c]) /\ k = Len(lines[c]) + 1
      BY <1>8, <2>2
    <3>2. [from |-> c, n |-> k] \in Messages
      BY <1>3 DEF Messages
    <3>. QED
      BY <3>1, <3>2
  <2>4. /\ inbox' \in [Servers -> Seq(Messages)] /\ lost' \in [Servers -> Seq(Messages)]
        /\ \/ Taken' = Append(Taken, m) /\ Refused' = Refused
           \/ Taken' = Taken /\ Refused' = Append(Refused, m)
    BY <1>2, <1>12, <2>1, <2>3, SentIs DEF ClientsInv
  <2>5. ClientsTypeOK'
    BY <1>2, <1>9, <2>4 DEF ClientsInv, ClientsTypeOK
  <2>6. Taken \in Seq(Messages) /\ Refused \in Seq(Messages)
    BY CommandsTyped DEF ClientsInv
  <2>7. ASSUME NEW d \in Clients, server'[d] = "remote"
        PROVE  Ordered(d, Taken', Refused', Len(lines'[d]))
    <3>1. Len(lines[d]) \in Nat
      BY LenProperties DEF ClientsInv, ClientsTypeOK
    <3>2. Ordered(d, Taken, Refused, Len(lines[d]))
      BY <1>2, <2>7, OrderedIs DEF ClientsInv
    <3>3. m.from = d => m.n = Len(lines[d]) + 1
      BY <2>3
    <3>4. Len(lines'[d]) = IF m.from = d THEN Len(lines[d]) + 1 ELSE Len(lines[d])
      BY <1>5, <2>2, <2>3
    <3>5. /\ Ordered(d, Append(Taken, m), Refused, Len(lines'[d]))
          /\ Ordered(d, Taken, Append(Refused, m), Len(lines'[d]))
      BY <2>6, <3>1, <3>2, <3>3, <3>4, OrderedWith
    <3>. QED
      BY <2>4, <3>5
  <2>8. CommandsKeepTheirOrder'
    BY <2>5, <2>7, OrderedNext
  <2>. QED
    BY <1>7, <1>10, <2>5, <2>8 DEF ClientsInv
<1>. QED
  BY <1>11, <1>12

------------------------------------------------------------------------------
(* The invariant holds.                                                     *)

\* At first nothing was read, handed over or sent.
LEMMA InitHasInv == Init => ClientsInv
<1> SUFFICES ASSUME Init
             PROVE  ClientsInv
  OBVIOUS
<1>1. PICK start \in Starts : server = start.server /\ sent = start.sent
  BY DEF Init
<1>2. server \in [Clients -> Servers] /\ sent \in [Clients -> Seq(Letters)]
  BY <1>1, StartsAssumption
<1>3. <<>> \in Seq(Messages) /\ <<>> \in Seq(Letters) /\ <<>> \in Seq(Seq(Letters))
  OBVIOUS
<1>4. ClientsTypeOK
  BY <1>2, <1>3 DEF Init, ClientsTypeOK
<1>5. ASSUME NEW c \in Clients
      PROVE  Framed(c) /\ LFs(buf[c]) = {}
  <2>1. buf[c] = <<>> /\ input[c] = sent[c] /\ lines[c] = <<>> /\ sent[c] \in Seq(Letters)
    BY <1>2 DEF Init
  <2>2. PICK ls \in Nat : ls = Len(sent[c])
    BY <2>1, LenProperties
  <2>3. Position(c) = 0
    <3>1. Len(buf[c]) = 0 /\ Len(input[c]) = ls
      BY <2>1, <2>2
    <3>2. Position(c) = ls - ls - 0
      BY <2>2, <3>1 DEF Position
    <3>. QED
      BY <3>2
  <2>4. Done(c) = <<>>
    BY <2>1, <2>3, SubSeqEmpty DEF Done
  <2>5. Ends(c, Done(c)) = {} /\ LFs(buf[c]) = {}
    BY <2>1, <2>4 DEF Ends, LFs
  <2>6. Cardinality({}) = 0
    BY FS_EmptySet
  <2>7. Counted(Ends(c, Done(c)))
    BY <2>5, <2>6 DEF Counted
  <2>8. Expected(c, Done(c)) = <<>>
    <3>1. Cardinality(Ends(c, Done(c))) = 0
      BY <2>5, <2>6
    <3>2. Expected(c, Done(c)) =
            [i \in 1..0 |-> LineAt(Done(c), Nth(Ends(c, Done(c)), i))]
      BY <3>1 DEF Expected
    <3>. QED
      BY <3>2
  <2>. QED
    BY <2>1, <2>2, <2>3, <2>5, <2>7, <2>8 DEF Framed
<1>6. ReadingInv
  BY <1>5 DEF Init, ReadingInv
<1>7. CommandsKeepTheirOrder
  <2>1. \A c \in Clients : lines[c] = <<>>
    BY DEF Init
  <2>2. executed["remote"] \o inbox["remote"] = <<>> /\ lost["remote"] = <<>>
    BY DEF Init, Servers
  <2>. QED
    BY <2>1, <2>2 DEF CommandsKeepTheirOrder, InOrder, LinesIn
<1>. QED
  BY <1>4, <1>5, <1>6, <1>7 DEF ClientsInv

\* Every step keeps it.
LEMMA NextKeepsInv == ClientsInv /\ [Next]_vars => ClientsInv'
<1> SUFFICES ASSUME ClientsInv, [Next]_vars
             PROVE  ClientsInv'
  OBVIOUS
<1>1. ASSUME NEW c \in Clients, Accept(c)
      PROVE  ClientsInv'
  BY <1>1, AcceptKeeps
<1>2. ASSUME NEW c \in Clients, End(c)
      PROVE  ClientsInv'
  BY <1>2, EndKeeps
<1>3. ASSUME NEW c \in Clients, Read(c)
      PROVE  ClientsInv'
  BY <1>3, ReadKeeps
<1>4. ASSUME NEW s \in Servers, NextLine(s)
      PROVE  ClientsInv'
  BY <1>4, NextLineKeeps
<1>5. ASSUME NEW s \in Servers, LastLine(s)
      PROVE  ClientsInv'
  BY <1>5, LastLineKeeps
<1>6. ASSUME NEW s \in Servers, Wake(s)
      PROVE  ClientsInv'
  BY <1>6, WakeKeeps
<1>7. ASSUME NEW s \in Servers, Execute(s)
      PROVE  ClientsInv'
  BY <1>7, ExecuteKeeps
<1>8. ASSUME NEW s \in Servers, Drained(s)
      PROVE  ClientsInv'
  BY <1>8, DrainedKeeps
<1>9. ASSUME NEW s \in Servers, SendQuit(s)
      PROVE  ClientsInv'
  BY <1>9, SendQuitKeeps
<1>10. CASE UNCHANGED vars
  <2>1. UNCHANGED <<phase, active, inbox, server, sent, input, buf, lines, executed, lost>>
    BY <1>10 DEF vars, conns
  <2>2. ClientsTypeOK' /\ Taken' = Taken
    BY <2>1 DEF ClientsInv, ClientsTypeOK, Taken
  <2>. QED
    BY <2>1, <2>2, QuietKeeps
<1>. QED
  BY <1>1, <1>2, <1>3, <1>4, <1>5, <1>6, <1>7, <1>8, <1>9, <1>10 DEF Next, Thread

\* The inductive invariant of both services.
THEOREM ClientsInvHolds == Spec => []ClientsInv
<1>. QED
  BY InitHasInv, NextKeepsInv, PTL DEF Spec

\* The bytes of a client before those of its buffer, those of the buffer and
\* those on their way are the ones it sent.
LEMMA FramedIsWhole ==
  ASSUME ClientsTypeOK, NEW c \in Clients, Framed(c)
  PROVE  Done(c) \o buf[c] \o input[c] = sent[c]
<1>1. /\ buf[c] \in Seq(Letters) /\ input[c] \in Seq(Letters) /\ sent[c] \in Seq(Letters)
      /\ Len(buf[c]) \in Nat /\ Len(input[c]) \in Nat /\ Len(sent[c]) \in Nat
  BY LenProperties DEF ClientsTypeOK
<1>2. PICK p \in Nat, lb \in Nat, li \in Nat, ls \in Nat :
        p = Position(c) /\ lb = Len(buf[c]) /\ li = Len(input[c]) /\ ls = Len(sent[c])
  BY <1>1 DEF Framed
<1>3. PICK text \in Seq(Letters), b \in Seq(Letters), i \in Seq(Letters) :
        text = sent[c] /\ b = buf[c] /\ i = input[c]
  BY <1>1
<1>4. p = ls - li - lb /\ Len(text) = ls /\ Len(b) = lb /\ Len(i) = li
  BY <1>2, <1>3 DEF Position
<1>5. /\ \A k \in 1..lb : b[k] = text[p + k]
      /\ \A k \in 1..li : i[k] = text[p + lb + k]
  BY <1>2, <1>3 DEF Framed
<1> DEFINE d == SubSeq(text, 1, p)
           x == d \o b
           y == x \o i
<1>6. d \in Seq(Letters) /\ Len(d) = p /\ \A k \in 1..p : d[k] = text[k]
  <2>1. p = ls - li - lb
    BY <1>4
  <2>2. p \in 0..ls
    <3>1. \A a, e, f, g \in Nat : a = g - f - e => a \in 0..g
      OBVIOUS
    <3>. QED
      BY <2>1, <3>1
  <2>3. p \in 0..Len(text)
    BY <1>4, <2>2
  <2>. QED
    BY <2>3, PrefixOfText
<1> HIDE DEF d
<1>7. /\ x \in Seq(Letters) /\ Len(x) = p + lb
      /\ \A k \in 1 .. p + lb : x[k] = IF k <= p THEN d[k] ELSE b[k - p]
  <2>1. /\ x \in Seq(Letters) /\ Len(x) = Len(d) + Len(b)
        /\ \A k \in 1 .. Len(d) + Len(b) : x[k] = IF k <= Len(d) THEN d[k] ELSE b[k - Len(d)]
    BY <1>3, <1>6, ConcatProperties, ZenonT(60)
  <2>. QED
    BY <1>4, <1>6, <2>1
<1> HIDE DEF x
<1>8. /\ y \in Seq(Letters) /\ Len(y) = p + lb + li
      /\ \A k \in 1 .. p + lb + li : y[k] = IF k <= p + lb THEN x[k] ELSE i[k - (p + lb)]
  <2>1. /\ y \in Seq(Letters) /\ Len(y) = Len(x) + Len(i)
        /\ \A k \in 1 .. Len(x) + Len(i) : y[k] = IF k <= Len(x) THEN x[k] ELSE i[k - Len(x)]
    BY <1>3, <1>7, ConcatProperties, ZenonT(60)
  <2>. QED
    BY <1>4, <1>7, <2>1
<1> HIDE DEF y
<1>9. Len(y) = ls
  BY <1>4, <1>8
<1>10. ASSUME NEW k \in 1..Len(y)
       PROVE  y[k] = text[k]
  <2>1. CASE k <= p
    BY <1>6, <1>7, <1>8, <2>1
  <2>2. CASE k > p /\ k <= p + lb
    <3>1. k - p \in 1..lb /\ p + (k - p) = k /\ k \in 1 .. p + lb /\ k \in 1 .. p + lb + li
      BY <1>8, <2>2
    <3>2. b[k - p] = text[p + (k - p)]
      BY <1>5, <3>1
    <3>. QED
      BY <1>7, <1>8, <2>2, <3>1, <3>2
  <2>3. CASE k > p + lb
    <3>1. k - (p + lb) \in 1..li /\ p + lb + (k - (p + lb)) = k
      BY <1>8, <2>3
    <3>2. i[k - (p + lb)] = text[p + lb + (k - (p + lb))]
      BY <1>5, <3>1
    <3>. QED
      BY <1>8, <2>3, <3>1, <3>2
  <2>. QED
    BY <1>8, <2>1, <2>2, <2>3
<1>11. y = text
  BY <1>4, <1>8, <1>9, <1>10, SeqEqual
<1>. QED
  BY <1>2, <1>3, <1>11 DEF Done, d, x, y

\* However a client's bytes are cut into pieces, and whatever other clients of
\* either service send meanwhile, the lines handed over are those of its bytes.
THEOREM LinesComeWhole == Spec => []LinesAreFramed
<1>1. ClientsInv => LinesAreFramed
  <2> SUFFICES ASSUME ClientsInv, NEW c \in Clients
               PROVE  /\ Position(c) >= 0
                      /\ Done(c) \o buf[c] \o input[c] = sent[c]
                      /\ Position(c) > 0 => Done(c)[Position(c)] = LF
                      /\ lines[c] = Expected(c, Done(c))
                      /\ LFs(buf[c]) # {} => active[server[c]] = c /\ phase[server[c]] = "read"
    BY DEF LinesAreFramed, Position, Done
  <2>1. ClientsTypeOK /\ Framed(c) /\ ReadingInv
    BY DEF ClientsInv
  <2>2. Done(c) \o buf[c] \o input[c] = sent[c]
    BY <2>1, FramedIsWhole
  <2>3. PICK p \in Nat : p = Position(c)
    BY <2>1 DEF Framed
  <2>4. p > 0 => SubSeq(sent[c], 1, p)[p] = LF
    <3>1. p \in 0..Len(sent[c]) /\ sent[c] \in Seq(Letters)
      <4>1. /\ buf[c] \in Seq(Letters) /\ input[c] \in Seq(Letters) /\ sent[c] \in Seq(Letters)
            /\ Len(buf[c]) \in Nat /\ Len(input[c]) \in Nat /\ Len(sent[c]) \in Nat
        BY <2>1, LenProperties DEF ClientsTypeOK
      <4>2. PICK lb \in Nat, li \in Nat, ls \in Nat :
              lb = Len(buf[c]) /\ li = Len(input[c]) /\ ls = Len(sent[c])
        BY <4>1
      <4>3. p = ls - li - lb
        BY <2>3, <4>2 DEF Position
      <4>4. p <= ls
        BY <4>3
      <4>. QED
        BY <4>1, <4>2, <4>4
    <3>2. \A k \in 1..p : SubSeq(sent[c], 1, p)[k] = sent[c][k]
      BY <3>1, PrefixOfText
    <3>. QED
      BY <2>1, <2>3, <3>2 DEF Framed
  <2>. QED
    BY <2>1, <2>2, <2>3, <2>4 DEF Framed, ReadingInv, Done
<1>. QED
  BY <1>1, ClientsInvHolds, PTL

\* The remote service executes the lines of each client in their order, and loses
\* none but those its inbox refused.
THEOREM CommandsStayInOrder == Spec => []CommandsKeepTheirOrder
<1>1. ClientsInv => CommandsKeepTheirOrder
  BY DEF ClientsInv
<1>. QED
  BY <1>1, ClientsInvHolds, PTL
================================================================================

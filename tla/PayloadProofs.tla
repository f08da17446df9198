---------------------------- MODULE PayloadProofs -----------------------------
(***************************************************************************)
(* Proofs about a message's bytes, for blocks of any size, chunks of any   *)
(* bytes and any number of pushes.                                         *)
(***************************************************************************)
EXTENDS Payload, SequenceTheorems, TLAPS

------------------------------------------------------------------------------
(* The position in the stream of offset o of block number b.                *)

At(b, o) == (b - 1) * BLOCK_SIZE + o + 1
Offsets == 0 .. BLOCK_SIZE - 1

\* Blocks follow each other: (b - 1) * BLOCK_SIZE bytes are before block b.
LEMMA AtOrder ==
  ASSUME NEW b \in Nat, NEW c \in Nat, b < c, NEW o \in Offsets, NEW p \in Offsets
  PROVE  At(b, o) <= (c - 1) * BLOCK_SIZE /\ At(b, o) < At(c, p)
<1>1. BLOCK_SIZE \in Nat \ {0} /\ o \in Nat /\ p \in Nat /\ o < BLOCK_SIZE
  BY SizesAssumption DEF Offsets
<1>2. PICK d \in Nat : c - 1 = b + d
  <2>1. c - 1 - b \in Nat /\ c - 1 = b + (c - 1 - b)
    OBVIOUS
  <2>. QED
    BY <2>1
<1>3. (c - 1) * BLOCK_SIZE = b * BLOCK_SIZE + d * BLOCK_SIZE
  BY <1>1, <1>2
<1>4. d * BLOCK_SIZE \in Nat /\ b * BLOCK_SIZE \in Nat
  BY <1>1
<1>5. (b - 1) * BLOCK_SIZE = b * BLOCK_SIZE - BLOCK_SIZE
  BY <1>1
<1>. QED
  BY <1>1, <1>3, <1>4, <1>5 DEF At

\* A position is that of one byte of one block.
LEMMA AtInjective ==
  ASSUME NEW b \in Nat, NEW c \in Nat, NEW o \in Offsets, NEW p \in Offsets, At(b, o) = At(c, p)
  PROVE  b = c /\ o = p
<1>1. At(b, o) \in Int /\ At(c, p) \in Int /\ o \in Nat /\ p \in Nat
  BY SizesAssumption DEF At, Offsets
<1>2. ~(b < c) /\ ~(c < b)
  BY <1>1, AtOrder
<1>3. b = c
  BY <1>2
<1>. QED
  BY <1>1, <1>3, SizesAssumption DEF At

\* ByteAt finds it by division.
LEMMA AtDivision ==
  ASSUME NEW p \in Nat \ {0}
  PROVE  /\ (p - 1) \div BLOCK_SIZE + 1 \in Nat \ {0}
         /\ (p - 1) % BLOCK_SIZE \in Offsets
         /\ At((p - 1) \div BLOCK_SIZE + 1, (p - 1) % BLOCK_SIZE) = p
<1> DEFINE q == (p - 1) \div BLOCK_SIZE
           r == (p - 1) % BLOCK_SIZE
<1>1. BLOCK_SIZE \in Nat \ {0} /\ p - 1 \in Nat
  BY SizesAssumption
<1>2. q \in Nat /\ r \in Offsets /\ p - 1 = q * BLOCK_SIZE + r
  BY <1>1 DEF Offsets
<1>. QED
  BY <1>1, <1>2 DEF At, Offsets

------------------------------------------------------------------------------
(* The inductive invariant.                                                 *)

\* The blocks hold the first len bytes of the stream, and rest is all of it that
\* is behind them.
StreamInv ==
  /\ len + Len(rest) = Len(written)
  /\ Len(written) <= MaxLen
  /\ len = (current - 1) * BLOCK_SIZE + ptr
  /\ \A b \in 1..current, o \in Offsets :
       At(b, o) <= len => chain[b][o] = written[At(b, o)]
  /\ \A k \in 1..Len(rest) : written[len + k] = rest[k]
  /\ phase # "push" => rest = <<>>

\* An address was taken and its tag is not written yet; there is room for it.
Pending == ptr < BLOCK_SIZE /\ (phase = "tag" \/ (phase = "push" /\ rest = <<Tag>>))

\* An address is that of a tag in the stream, or of the one that is pending.
TagsInv ==
  \A a \in tags :
    /\ a.block \in 1..current /\ a.o \in Offsets
    /\ a.at = At(a.block, a.o)
    /\ a.at <= len => written[a.at] \in {Tag, Mark}
    /\ a.at > len => a.at = len + 1 /\ Pending

\* The payload is filled with the stream, a block at a time.
PayloadInv ==
  /\ phase \in {"pack", "tag", "push"} => payload = <<>> /\ block = 1
  /\ phase = "flatten" =>
       /\ block # 0
       /\ Len(payload) = (block - 1) * BLOCK_SIZE /\ Len(payload) <= len
       /\ \A p \in 1..Len(payload) : payload[p] = written[p]
  /\ phase \in {"free", "packed", "rejected", "queued", "lost", "received", "read", "done",
                "removed", "invalid"} => payload = written

\* The sums of the sizes of the pushes.
Sums(S) ==
  /\ S \in [0..Len(widths) -> Nat]
  /\ S[0] = 0
  /\ \A k \in 1..Len(widths) : S[k] = S[k - 1] + widths[k]
  /\ \A i, j \in 0..Len(widths) : i <= j => S[i] <= S[j]
  /\ S[Len(widths)] = Len(written)

\* The reader has got the first of the pieces that were pushed.
ReadInv ==
  /\ Len(got) <= Len(widths)
  /\ \A k \in 1..Len(got) : Len(got[k]) = widths[k]
  /\ phase = "done" => Len(got) = Len(widths)
  /\ \E S : Sums(S) /\ rb_ptr = S[Len(got)]

PackInv ==
  /\ TypeOK
  /\ StreamInv
  /\ TagsInv
  /\ PayloadInv
  /\ ReadInv
  /\ HeapIsInUse

------------------------------------------------------------------------------
(* The types.                                                               *)

Phases == {"pack", "tag", "push", "flatten", "free", "packed", "queued", "received", "read",
           "done", "removed", "refused", "raised", "rejected", "lost", "invalid"}

ChainTypeOK ==
  /\ chain \in Seq(Blocks) /\ chain # <<>>
  /\ ptr \in 0..BLOCK_SIZE
  /\ len \in Nat
  /\ rest \in Seq(AnyByte)
  /\ tags \subseteq [block : Nat, o : Nat, at : Nat]
  /\ written \in Seq(AnyByte)

ReadTypeOK ==
  /\ payload \in Seq(AnyByte)
  /\ block \in Nat
  /\ rb_ptr \in 0..Len(payload)
  /\ got \in Seq(Seq(AnyByte))
  /\ widths \in Seq(Nat)

\* The chain and the stream, from which len has its bound.
Written == ChainTypeOK /\ StreamInv /\ TagsInv

\* What the type invariant says, part by part.
LEMMA TypeParts ==
  ASSUME TypeOK
  PROVE  ChainTypeOK /\ ReadTypeOK /\ phase \in Phases /\ heap \subseteq Nat \cup {MESSAGE}
<1>1. len \in Nat
  BY SizesAssumption DEF TypeOK
<1>. QED
  BY <1>1 DEF TypeOK, ChainTypeOK, ReadTypeOK, Phases

\* The parts make the type invariant.
LEMMA PartsType ==
  ASSUME ChainTypeOK', StreamInv', ReadTypeOK', phase' \in Phases,
         heap' \subseteq Nat \cup {MESSAGE}
  PROVE  TypeOK'
<1>1. len' \in 0..MaxLen
  <2>1. /\ len' \in Nat /\ Len(rest') \in Nat /\ len' + Len(rest') = Len(written')
        /\ Len(written') <= MaxLen /\ Len(written') \in Nat
    BY LenProperties DEF ChainTypeOK, StreamInv
  <2>. QED
    BY <2>1, SizesAssumption
<1>. QED
  BY <1>1 DEF TypeOK, ChainTypeOK, ReadTypeOK, Phases

\* What the variables of the writer are, element by element.
LEMMA ChainTyped ==
  ASSUME ChainTypeOK
  PROVE  /\ current \in Nat \ {0} /\ DOMAIN chain = 1..current
         /\ ptr \in Nat /\ ptr <= BLOCK_SIZE /\ BLOCK_SIZE \in Nat \ {0}
         /\ \A b \in 1..current : chain[b] \in Blocks
         /\ Len(rest) \in Nat /\ \A k \in 1..Len(rest) : rest[k] \in AnyByte
         /\ Len(written) \in Nat /\ \A k \in 1..Len(written) : written[k] \in AnyByte
<1>1. current \in Nat \ {0} /\ DOMAIN chain = 1..current /\ \A b \in 1..current : chain[b] \in Blocks
  BY EmptySeq, LenProperties, ElementOfSeq DEF ChainTypeOK, current
<1>2. Len(rest) \in Nat /\ \A k \in 1..Len(rest) : rest[k] \in AnyByte
  BY LenProperties, ElementOfSeq DEF ChainTypeOK
<1>3. Len(written) \in Nat /\ \A k \in 1..Len(written) : written[k] \in AnyByte
  BY LenProperties, ElementOfSeq DEF ChainTypeOK
<1>. QED
  BY <1>1, <1>2, <1>3, SizesAssumption DEF ChainTypeOK

\* A copy changes the bytes behind ptr in the current block.
LEMMA CopiedIs ==
  ASSUME ChainTypeOK, NEW bs \in Seq(AnyByte), ptr + Len(bs) <= BLOCK_SIZE
  PROVE  /\ Copied(bs) \in Seq(Blocks) /\ Len(Copied(bs)) = current
         /\ \A b \in 1..current, o \in Offsets :
              Copied(bs)[b][o] = IF b = current /\ o \in ptr .. ptr + Len(bs) - 1
                                 THEN bs[o - ptr + 1] ELSE chain[b][o]
<1> DEFINE new == [o \in Offsets |-> IF o \in ptr .. ptr + Len(bs) - 1
                                    THEN bs[o - ptr + 1] ELSE chain[current][o]]
<1>1. chain[current] \in Blocks /\ current \in 1..current
  BY ChainTyped
<1>2. DOMAIN chain[current] = Offsets
  BY <1>1 DEF Blocks, Offsets
<1>3. Copied(bs) = [chain EXCEPT ![current] = new]
  BY <1>1, <1>2, ChainTyped DEF Copied
<1>4. \A o \in ptr .. ptr + Len(bs) - 1 : bs[o - ptr + 1] \in AnyByte
  <2> SUFFICES ASSUME NEW o \in ptr .. ptr + Len(bs) - 1
               PROVE  bs[o - ptr + 1] \in AnyByte
    OBVIOUS
  <2>1. o - ptr + 1 \in 1..Len(bs)
    BY ChainTyped, LenProperties
  <2>. QED
    BY <2>1, ElementOfSeq
<1>5. new \in Blocks
  BY <1>1, <1>4 DEF Blocks, Offsets
<1> HIDE DEF new
<1>6. /\ Copied(bs) \in Seq(Blocks) /\ Len(Copied(bs)) = current
      /\ \A b \in 1..current : Copied(bs)[b] = IF b = current THEN new ELSE chain[b]
  BY <1>1, <1>3, <1>5, ExceptSeq DEF ChainTypeOK, current
<1>. QED
  BY <1>6 DEF new

\* A new block is behind the others.
LEMMA BlockIsBehind ==
  ASSUME NEW blocks \in Seq(Blocks)
  PROVE  /\ Append(blocks, BlankBlock) \in Seq(Blocks)
         /\ Append(blocks, BlankBlock) # <<>>
         /\ Len(Append(blocks, BlankBlock)) = Len(blocks) + 1
         /\ \A b \in 1..Len(blocks) : Append(blocks, BlankBlock)[b] = blocks[b]
<1>1. BlankBlock \in Blocks
  BY DEF BlankBlock, Blocks, AnyByte
<1>. QED
  BY <1>1, AppendProperties

------------------------------------------------------------------------------
(* The writer.                                                              *)

\* The first n bytes of the rest are copied to where they belong.
LEMMA Filled ==
  ASSUME ChainTypeOK, StreamInv, NEW n \in 0..Len(rest), NEW bs \in Seq(AnyByte), Len(bs) = n,
         \A k \in 1..n : bs[k] = rest[k], ptr + n <= BLOCK_SIZE,
         NEW b \in 1..current, NEW o \in Offsets, At(b, o) <= len + n
  PROVE  Copied(bs)[b][o] = written[At(b, o)]
<1>1. /\ current \in Nat \ {0} /\ ptr \in Nat /\ len \in Nat /\ n \in Nat /\ n <= Len(rest)
      /\ BLOCK_SIZE \in Nat \ {0} /\ o \in Nat /\ b \in Nat /\ b <= current
      /\ Len(rest) \in Nat
  BY ChainTyped DEF ChainTypeOK, Offsets
<1>2. len = (current - 1) * BLOCK_SIZE + ptr
  BY DEF StreamInv
<1>3. (current - 1) * BLOCK_SIZE \in Nat /\ At(b, o) \in Int
  BY <1>1 DEF At
<1>4. CASE b = current /\ o \in ptr .. ptr + n - 1
  <2>1. o - ptr + 1 \in 1..n /\ At(b, o) = len + (o - ptr + 1)
    BY <1>1, <1>2, <1>3, <1>4 DEF At
  <2>2. Copied(bs)[b][o] = rest[o - ptr + 1]
    BY <1>4, <2>1, CopiedIs
  <2>3. o - ptr + 1 \in 1..Len(rest)
    BY <1>1, <2>1
  <2>. QED
    BY <2>1, <2>2, <2>3 DEF StreamInv
<1>5. CASE ~(b = current /\ o \in ptr .. ptr + n - 1)
  <2>1. At(b, o) <= len
    <3>1. CASE b < current
      <4>1. At(b, o) <= (current - 1) * BLOCK_SIZE
        BY <1>1, <3>1, AtOrder
      <4>. QED
        BY <1>1, <1>2, <1>3, <4>1
    <3>2. CASE b = current
      <4>1. At(b, o) = (current - 1) * BLOCK_SIZE + o + 1
        BY <3>2 DEF At
      <4>2. o < ptr + n
        BY <1>1, <1>2, <1>3, <4>1
      <4>3. o < ptr
        BY <1>1, <1>5, <3>2, <4>2
      <4>. QED
        BY <1>1, <1>2, <1>3, <4>1, <4>3
    <3>. QED
      BY <1>1, <3>1, <3>2
  <2>2. Copied(bs)[b][o] = chain[b][o]
    BY <1>5, CopiedIs
  <2>. QED
    BY <2>1, <2>2 DEF StreamInv
<1>. QED
  BY <1>4, <1>5

\* No byte of a new block is in the stream yet.
LEMMA BehindTheStream ==
  ASSUME NEW n \in Nat, NEW b \in 1 .. n + 1, NEW o \in Offsets, At(b, o) <= n * BLOCK_SIZE
  PROVE  b \in 1..n
<1>1. b = n + 1 => At(b, o) = n * BLOCK_SIZE + o + 1
  BY DEF At
<1>2. n * BLOCK_SIZE \in Nat /\ o \in Nat
  BY SizesAssumption DEF Offsets
<1>. QED
  BY <1>1, <1>2

\* wb_push is called for the next bytes.
LEMMA PushStep ==
  ASSUME Written, NEW bs \in Chunks \cup {<<Tag>>}, Push(bs)
  PROVE  Written'
<1> USE DEF Written
<1>1. /\ phase \in {"pack", "tag"} /\ phase' = "push" /\ rest' = bs /\ written' = written \o bs
      /\ Len(written) + Len(bs) <= MaxLen
      /\ UNCHANGED <<chain, ptr, len, tags>>
      /\ phase = "tag" => bs = <<Tag>>
  BY DEF Push
<1>2. bs \in Seq(AnyByte)
  <2>1. \A x \in Chunks : x \in Seq(AnyByte)
    BY ChunksAssumption, SeqMonotonic DEF AnyByte
  <2>2. <<Tag>> \in Seq(AnyByte)
    BY DEF AnyByte
  <2>. QED
    BY <2>1, <2>2
<1>3. rest = <<>> /\ Len(rest) = 0 /\ len = Len(written) /\ len \in Nat
  BY <1>1 DEF StreamInv, ChainTypeOK
<1>4. /\ written' \in Seq(AnyByte) /\ Len(written') = len + Len(bs)
      /\ \A i \in 1 .. len + Len(bs) :
           written'[i] = IF i <= len THEN written[i] ELSE bs[i - len]
  BY <1>1, <1>2, <1>3, ConcatProperties DEF ChainTypeOK
<1>5. Len(bs) \in Nat
  BY <1>2, LenProperties
<1>6. \A k \in 1..Len(bs) : written'[len + k] = bs[k]
  BY <1>3, <1>4, <1>5
<1>7. \A b \in 1..current, o \in Offsets :
        At(b, o) <= len => chain[b][o] = written'[At(b, o)]
  <2> SUFFICES ASSUME NEW b \in 1..current, NEW o \in Offsets, At(b, o) <= len
               PROVE  chain[b][o] = written'[At(b, o)]
    OBVIOUS
  <2>1. b \in Nat \ {0} /\ (b - 1) * BLOCK_SIZE \in Nat /\ At(b, o) \in Nat \ {0}
    <3>1. b \in Nat \ {0}
      BY ChainTyped
    <3>. QED
      BY <3>1, SizesAssumption DEF At, Offsets
  <2>. QED
    BY <1>3, <1>4, <1>5, <2>1 DEF StreamInv
<1>8. ChainTypeOK'
  BY <1>1, <1>2, <1>4 DEF ChainTypeOK
<1>9. StreamInv'
  <2>1. Len(written') <= MaxLen /\ Len(written') = len + Len(bs)
    BY <1>1, <1>3, <1>4
  <2>2. current' = current
    BY <1>1 DEF current
  <2>. QED
    BY <1>1, <1>6, <1>7, <2>1, <2>2 DEF StreamInv
<1>10. TagsInv'
  <2> SUFFICES ASSUME NEW a \in tags
               PROVE  /\ a.block \in 1..current' /\ a.o \in Offsets
                      /\ a.at = At(a.block, a.o)
                      /\ a.at <= len' => written'[a.at] \in {Tag, Mark}
                      /\ a.at > len' => a.at = len' + 1 /\ Pending'
    BY <1>1 DEF TagsInv
  <2>1. a.at \in Nat \ {0}
    <3>1. a.block \in Nat \ {0} /\ a.o \in Nat /\ a.at = At(a.block, a.o)
      BY ChainTyped DEF TagsInv, Offsets
    <3>. QED
      BY <3>1, SizesAssumption DEF At
  <2>2. current' = current
    BY <1>1 DEF current
  <2>3. a.at <= len => written'[a.at] = written[a.at]
    BY <1>3, <1>4, <1>5, <2>1
  <2>4. Pending => Pending'
    BY <1>1 DEF Pending
  <2>. QED
    BY <1>1, <2>2, <2>3, <2>4 DEF TagsInv
<1>. QED
  BY <1>8, <1>9, <1>10

\* Where no address is pending, all keep their tags while the stream grows.
LEMMA TagsStay ==
  ASSUME ChainTypeOK, TagsInv, UNCHANGED <<tags, written>>, len' \in Nat, len <= len',
         current' \in Nat, current <= current', \A a \in tags : a.at <= len
  PROVE  TagsInv'
<1> SUFFICES ASSUME NEW a \in tags
             PROVE  /\ a.block \in 1..current' /\ a.o \in Offsets
                    /\ a.at = At(a.block, a.o)
                    /\ a.at <= len' => written[a.at] \in {Tag, Mark}
                    /\ a.at > len' => a.at = len' + 1 /\ Pending'
  BY DEF TagsInv
<1>1. a.at \in Nat /\ a.at <= len /\ len \in Nat /\ current \in Nat
  BY ChainTyped DEF ChainTypeOK
<1>2. ~(a.at > len')
  BY <1>1
<1>3. a.block \in 1..current'
  BY <1>1 DEF TagsInv
<1>. QED
  BY <1>1, <1>2, <1>3 DEF TagsInv

\* The current block is full: a new one is linked.
LEMMA PushFullStep ==
  ASSUME Written, PushFull
  PROVE  Written'
<1> USE DEF Written
<1>1. /\ phase = "push" /\ ptr = BLOCK_SIZE
      /\ chain' = Append(chain, BlankBlock) /\ ptr' = 0
      /\ UNCHANGED <<phase, len, rest, tags, written>>
  BY DEF PushFull, NewBlock
<1>2. /\ chain' \in Seq(Blocks) /\ chain' # <<>> /\ current' = current + 1
      /\ \A b \in 1..current : chain'[b] = chain[b]
      /\ current \in Nat \ {0} /\ BLOCK_SIZE \in Nat \ {0}
  BY <1>1, BlockIsBehind, ChainTyped DEF ChainTypeOK, current
<1>3. ChainTypeOK'
  BY <1>1, <1>2 DEF ChainTypeOK
<1>4. len = current * BLOCK_SIZE /\ len \in Nat
  <2>1. len = (current - 1) * BLOCK_SIZE + BLOCK_SIZE /\ len \in Nat
    BY <1>1 DEF StreamInv, ChainTypeOK
  <2>. QED
    BY <1>2, <2>1
<1>5. len' = (current' - 1) * BLOCK_SIZE + ptr'
  BY <1>1, <1>2, <1>4
<1>6. \A b \in 1..current', o \in Offsets :
        At(b, o) <= len' => chain'[b][o] = written'[At(b, o)]
  <2> SUFFICES ASSUME NEW b \in 1..current', NEW o \in Offsets, At(b, o) <= len'
               PROVE  chain'[b][o] = written'[At(b, o)]
    OBVIOUS
  <2>1. b \in 1..current
    BY <1>1, <1>2, <1>4, BehindTheStream
  <2>. QED
    BY <1>1, <1>2, <2>1 DEF StreamInv
<1>7. StreamInv'
  BY <1>1, <1>5, <1>6 DEF StreamInv
<1>8. \A a \in tags : a.at <= len
  <2> SUFFICES ASSUME NEW a \in tags
               PROVE  a.at <= len
    OBVIOUS
  <2>1. ~Pending /\ a.at \in Nat
    BY <1>1, <1>2 DEF Pending, ChainTypeOK
  <2>. QED
    BY <1>4, <2>1 DEF TagsInv
<1>9. TagsInv'
  BY <1>1, <1>2, <1>4, <1>8, TagsStay
<1>. QED
  BY <1>3, <1>7, <1>9

\* What is left to push fits the current block.
LEMMA PushFitsStep ==
  ASSUME Written, PushFits
  PROVE  Written'
<1> USE DEF Written
<1> DEFINE n == Len(rest)
<1>1. /\ phase = "push" /\ ptr < BLOCK_SIZE /\ ptr <= BLOCK_SIZE - n
      /\ chain' = Copied(rest) /\ ptr' = ptr + n /\ len' = len + n /\ rest' = <<>>
      /\ phase' = "pack"
      /\ UNCHANGED <<tags, written>>
  BY DEF PushFits, Fits
<1>2. /\ n \in Nat /\ ptr \in Nat /\ BLOCK_SIZE \in Nat \ {0} /\ len \in Nat
      /\ current \in Nat \ {0} /\ rest \in Seq(AnyByte)
  BY ChainTyped DEF ChainTypeOK
<1>3. ptr + n <= BLOCK_SIZE
  BY <1>1, <1>2
<1>4. chain' \in Seq(Blocks) /\ current' = current
  BY <1>1, <1>2, <1>3, CopiedIs DEF current
<1>5. chain' # <<>>
  BY <1>2, <1>4 DEF current
<1> HIDE DEF n
<1>6. ChainTypeOK'
  BY <1>1, <1>2, <1>3, <1>4, <1>5 DEF ChainTypeOK
<1>7. \A b \in 1..current', o \in Offsets :
        At(b, o) <= len' => chain'[b][o] = written'[At(b, o)]
  BY <1>1, <1>2, <1>3, <1>4, Filled DEF n
<1>8. len' = (current' - 1) * BLOCK_SIZE + ptr'
  <2>1. len = (current - 1) * BLOCK_SIZE + ptr /\ (current - 1) * BLOCK_SIZE \in Nat
    BY <1>2 DEF StreamInv
  <2>. QED
    BY <1>1, <1>2, <1>4, <2>1
<1>9. StreamInv'
  <2>1. len' + Len(rest') = Len(written') /\ Len(rest') = 0
    BY <1>1, <1>2 DEF StreamInv, n
  <2>. QED
    BY <1>1, <1>7, <1>8, <2>1 DEF StreamInv
<1>10. TagsInv'
  <2> SUFFICES ASSUME NEW a \in tags
               PROVE  /\ a.block \in 1..current' /\ a.o \in Offsets
                      /\ a.at = At(a.block, a.o)
                      /\ a.at <= len' => written'[a.at] \in {Tag, Mark}
                      /\ a.at > len' => a.at = len' + 1 /\ Pending'
    BY <1>1 DEF TagsInv
  <2>1. a.at \in Nat
    BY DEF ChainTypeOK
  <2>2. CASE a.at <= len
    BY <1>1, <1>2, <1>4, <2>1, <2>2 DEF TagsInv
  <2>3. CASE a.at > len
    <3>1. a.at = len + 1 /\ rest = <<Tag>>
      BY <1>1, <2>3 DEF TagsInv, Pending
    <3>2. Len(rest) = 1 /\ rest[1] = Tag
      BY <3>1
    <3>3. n = 1 /\ written[len + 1] = Tag
      BY <3>2 DEF StreamInv, n
    <3>. QED
      BY <1>1, <1>2, <1>4, <3>1, <3>3 DEF TagsInv
  <2>. QED
    BY <1>2, <2>1, <2>2, <2>3
<1>. QED
  BY <1>6, <1>9, <1>10

\* The block is filled, and the others wait for a new one.
LEMMA PushSplitStep ==
  ASSUME Written, PushSplit
  PROVE  Written'
<1> USE DEF Written
<1> DEFINE copy == BLOCK_SIZE - ptr
           bs == SubSeq(rest, 1, copy)
           left == SubSeq(rest, copy + 1, Len(rest))
<1>1. /\ phase = "push" /\ ptr < BLOCK_SIZE /\ ~(ptr <= BLOCK_SIZE - Len(rest))
      /\ chain' = Append(Copied(bs), BlankBlock) /\ ptr' = 0 /\ len' = len + copy /\ rest' = left
      /\ UNCHANGED <<phase, tags, written>>
  BY DEF PushSplit, Fits, NewBlock, Count
<1>2. /\ Len(rest) \in Nat /\ ptr \in Nat /\ BLOCK_SIZE \in Nat \ {0} /\ len \in Nat
      /\ current \in Nat \ {0} /\ rest \in Seq(AnyByte)
  BY ChainTyped DEF ChainTypeOK
<1>3. copy \in Nat \ {0} /\ copy < Len(rest) /\ ptr + copy = BLOCK_SIZE
  BY <1>1, <1>2
<1> HIDE DEF copy
<1>4. bs \in Seq(AnyByte) /\ Len(bs) = copy /\ \A k \in 1..copy : bs[k] = rest[k]
  <2>1. \A i \in 1..copy : rest[i] \in AnyByte
    BY <1>2, <1>3, ElementOfSeq
  <2>. QED
    BY <1>2, <1>3, <2>1, SubSeqProperties
<1>5. /\ left \in Seq(AnyByte) /\ Len(left) = Len(rest) - copy
      /\ \A k \in 1 .. Len(rest) - copy : left[k] = rest[copy + k]
  <2>1. \A i \in copy + 1 .. Len(rest) : rest[i] \in AnyByte
    BY <1>2, <1>3, ElementOfSeq
  <2>2. /\ left \in Seq(AnyByte)
        /\ Len(left) = IF copy + 1 <= Len(rest) THEN Len(rest) - (copy + 1) + 1 ELSE 0
        /\ \A k \in 1 .. Len(rest) - (copy + 1) + 1 : left[k] = rest[copy + 1 + k - 1]
    BY <1>2, <1>3, <2>1, SubSeqProperties
  <2>. QED
    BY <1>2, <1>3, <2>2
<1> HIDE DEF bs, left
<1>6. /\ Copied(bs) \in Seq(Blocks) /\ Len(Copied(bs)) = current
  BY <1>2, <1>3, <1>4, CopiedIs
<1>7. /\ chain' \in Seq(Blocks) /\ chain' # <<>> /\ current' = current + 1
      /\ \A b \in 1..current : chain'[b] = Copied(bs)[b]
  BY <1>1, <1>6, BlockIsBehind DEF current
<1>8. ChainTypeOK'
  BY <1>1, <1>2, <1>3, <1>5, <1>7 DEF ChainTypeOK
<1>9. len + copy = current * BLOCK_SIZE
  <2>1. len = (current - 1) * BLOCK_SIZE + ptr
    BY DEF StreamInv
  <2>2. (current - 1) * BLOCK_SIZE = current * BLOCK_SIZE - BLOCK_SIZE
    BY <1>2
  <2>3. current * BLOCK_SIZE \in Nat
    BY <1>2
  <2>. QED
    BY <1>2, <1>3, <2>1, <2>2, <2>3
<1>10. \A b \in 1..current', o \in Offsets :
         At(b, o) <= len' => chain'[b][o] = written'[At(b, o)]
  <2> SUFFICES ASSUME NEW b \in 1..current', NEW o \in Offsets, At(b, o) <= len'
               PROVE  chain'[b][o] = written'[At(b, o)]
    OBVIOUS
  <2>1. b \in 1..current
    BY <1>1, <1>2, <1>7, <1>9, BehindTheStream
  <2>2. copy \in 0..Len(rest)
    BY <1>2, <1>3
  <2>3. Copied(bs)[b][o] = written[At(b, o)]
    BY <1>1, <1>2, <1>3, <1>4, <2>1, <2>2, Filled
  <2>. QED
    BY <1>1, <1>7, <2>1, <2>3
<1>11. StreamInv'
  <2>1. len' + Len(rest') = Len(written')
    <3>1. Len(rest') = Len(rest) - copy /\ len' = len + copy /\ written' = written
      BY <1>1, <1>5
    <3>2. len + Len(rest) = Len(written)
      BY DEF StreamInv
    <3>. QED
      BY <1>2, <1>3, <3>1, <3>2
  <2>2. len' = (current' - 1) * BLOCK_SIZE + ptr'
    BY <1>1, <1>2, <1>7, <1>9
  <2>3. \A k \in 1..Len(rest') : written'[len' + k] = rest'[k]
    <3> SUFFICES ASSUME NEW k \in 1..Len(rest')
                 PROVE  written'[len' + k] = rest'[k]
      OBVIOUS
    <3>1. copy + k \in 1..Len(rest) /\ rest'[k] = rest[copy + k] /\ len' + k = len + (copy + k)
      BY SMTT(30), <1>1, <1>2, <1>3, <1>5
    <3>. QED
      BY <1>1, <3>1 DEF StreamInv
  <2>. QED
    BY <1>1, <1>10, <2>1, <2>2, <2>3 DEF StreamInv
<1>12. \A a \in tags : a.at <= len
  <2> SUFFICES ASSUME NEW a \in tags
               PROVE  a.at <= len
    OBVIOUS
  <2>1. rest # <<Tag>>
    <3>1. Len(rest) # 1
      <4>1. \A c \in Nat \ {0}, n \in Nat : c < n => n # 1
        OBVIOUS
      <4>. QED
        BY <1>2, <1>3, <4>1
    <3>2. Len(<<Tag>>) = 1
      OBVIOUS
    <3>. QED
      BY <3>1, <3>2
  <2>2. ~Pending /\ a.at \in Nat
    BY <1>1, <2>1 DEF Pending, ChainTypeOK
  <2>. QED
    BY <1>2, <2>2 DEF TagsInv
<1>13. TagsInv'
  BY <1>1, <1>2, <1>3, <1>7, <1>12, TagsStay
<1>. QED
  BY <1>8, <1>11, <1>13

\* The address of the next byte, and there is room for the byte.
LEMMA TakeAddressStep ==
  ASSUME Written, TakeAddress
  PROVE  Written'
<1> USE DEF Written
<1>1. /\ phase = "pack" /\ phase' = "tag" /\ UNCHANGED <<len, rest, written>>
      /\ wb_address
  BY DEF TakeAddress
<1>2. /\ ptr \in Nat /\ ptr <= BLOCK_SIZE /\ BLOCK_SIZE \in Nat \ {0} /\ len \in Nat
      /\ current \in Nat \ {0} /\ rest = <<>>
      /\ len = (current - 1) * BLOCK_SIZE + ptr
  BY <1>1, ChainTyped DEF ChainTypeOK, StreamInv
<1>3. \A a \in tags : a.at <= len /\ a.at \in Nat
  BY <1>1, <1>2 DEF TagsInv, Pending, ChainTypeOK
<1>4. PICK c \in Nat, o \in Offsets :
        /\ tags' = tags \cup {[block |-> c, o |-> o, at |-> len + 1]}
        /\ At(c, o) = len + 1 /\ c = current' /\ ptr' < BLOCK_SIZE
        /\ ChainTypeOK' /\ StreamInv' /\ current <= current'
  <2>1. CASE ptr = BLOCK_SIZE
    <3>1. /\ tags' = tags \cup {[block |-> current + 1, o |-> 0, at |-> len + 1]}
          /\ chain' = Append(chain, BlankBlock) /\ ptr' = 0
      BY <1>1, <2>1 DEF wb_address, NewBlock
    <3>2. /\ chain' \in Seq(Blocks) /\ chain' # <<>> /\ current' = current + 1
          /\ \A b \in 1..current : chain'[b] = chain[b]
      BY <3>1, BlockIsBehind DEF ChainTypeOK, current
    <3>3. len = current * BLOCK_SIZE
      BY <1>2, <2>1
    <3>4. At(current + 1, 0) = len + 1 /\ 0 \in Offsets
      BY <1>2, <3>3 DEF At, Offsets
    <3>5. ChainTypeOK'
      <4>1. tags' \subseteq [block : Nat, o : Nat, at : Nat]
        BY <1>2, <3>1 DEF ChainTypeOK
      <4>. QED
        BY <1>1, <1>2, <3>1, <3>2, <4>1 DEF ChainTypeOK
    <3>6. len' = (current' - 1) * BLOCK_SIZE + ptr'
      BY <1>1, <1>2, <3>1, <3>2, <3>3
    <3>7. \A b \in 1..current', o \in Offsets :
            At(b, o) <= len' => chain'[b][o] = written'[At(b, o)]
      <4> SUFFICES ASSUME NEW b \in 1..current', NEW o \in Offsets, At(b, o) <= len'
                   PROVE  chain'[b][o] = written'[At(b, o)]
        OBVIOUS
      <4>1. b \in 1..current
        BY <1>1, <1>2, <3>2, <3>3, BehindTheStream
      <4>. QED
        BY <1>1, <3>2, <4>1 DEF StreamInv
    <3>8. StreamInv'
      BY <1>1, <1>2, <3>6, <3>7 DEF StreamInv
    <3>9. current + 1 \in Nat /\ current <= current' /\ ptr' < BLOCK_SIZE
      BY <1>2, <3>1, <3>2
    <3>. QED
      BY <3>1, <3>2, <3>4, <3>5, <3>8, <3>9
  <2>2. CASE ptr # BLOCK_SIZE
    <3>1. /\ tags' = tags \cup {[block |-> current, o |-> ptr, at |-> len + 1]}
          /\ UNCHANGED <<chain, ptr>>
      BY <1>1, <2>2 DEF wb_address
    <3>2. current' = current
      BY <3>1 DEF current
    <3>3. At(current, ptr) = len + 1 /\ ptr \in Offsets
      BY <1>2, <2>2 DEF At, Offsets
    <3>4. ChainTypeOK'
      <4>1. tags' \subseteq [block : Nat, o : Nat, at : Nat]
        BY <1>2, <3>1 DEF ChainTypeOK
      <4>. QED
        BY <1>1, <3>1, <4>1 DEF ChainTypeOK
    <3>5. StreamInv'
      BY <1>1, <1>2, <3>1, <3>2 DEF StreamInv
    <3>. QED
      BY <1>2, <2>2, <3>1, <3>2, <3>3, <3>4, <3>5
  <2>. QED
    BY <2>1, <2>2
<1>5. TagsInv'
  <2> SUFFICES ASSUME NEW a \in tags'
               PROVE  /\ a.block \in 1..current' /\ a.o \in Offsets
                      /\ a.at = At(a.block, a.o)
                      /\ a.at <= len' => written'[a.at] \in {Tag, Mark}
                      /\ a.at > len' => a.at = len' + 1 /\ Pending'
    BY DEF TagsInv
  <2>1. current' \in Nat \ {0}
    BY <1>2, <1>4
  <2>2. CASE a \in tags
    BY <1>1, <1>2, <1>3, <1>4, <2>1, <2>2 DEF TagsInv
  <2>3. CASE a \notin tags
    <3>1. a = [block |-> c, o |-> o, at |-> len + 1]
      BY <1>4, <2>3
    <3>2. a.block = c /\ a.o = o /\ a.at = len + 1
      BY <3>1
    <3>3. Pending'
      BY <1>1, <1>4 DEF Pending
    <3>. QED
      BY <1>1, <1>2, <1>4, <2>1, <3>2, <3>3
  <2>. QED
    BY <2>2, <2>3
<1>. QED
  BY <1>4, <1>5

\* The tag changes in the chain and in the stream.
LEMMA ChangeMarkStep ==
  ASSUME Written, NEW a \in tags, change_mark(a)
  PROVE  Written'
<1> USE DEF Written
<1>1. /\ phase = "pack"
      /\ chain' = [chain EXCEPT ![a.block][a.o] = Mark]
      /\ written' = [written EXCEPT ![a.at] = Mark]
      /\ UNCHANGED <<phase, ptr, len, rest, tags>>
  BY DEF change_mark
<1>2. /\ current \in Nat \ {0} /\ len \in Nat /\ rest = <<>> /\ len = Len(written)
      /\ Len(written) \in Nat /\ chain \in Seq(Blocks) /\ written \in Seq(AnyByte)
  BY <1>1, ChainTyped DEF ChainTypeOK, StreamInv
<1>3. /\ a.block \in 1..current /\ a.o \in Offsets /\ a.at = At(a.block, a.o)
      /\ a.at <= len /\ a.at \in 1..Len(written)
  <2>1. a.block \in 1..current /\ a.o \in Offsets /\ a.at = At(a.block, a.o) /\ a.at <= len
    BY <1>1, <1>2 DEF TagsInv, Pending, ChainTypeOK
  <2>2. a.at \in Nat \ {0}
    <3>1. a.block \in Nat \ {0} /\ a.o \in Nat
      BY <1>2, <2>1 DEF Offsets
    <3>. QED
      BY <2>1, <3>1, SizesAssumption DEF At
  <2>. QED
    BY <1>2, <2>1, <2>2
<1>4. Mark \in AnyByte
  BY DEF AnyByte
<1>5. /\ written' \in Seq(AnyByte) /\ Len(written') = Len(written)
      /\ \A i \in 1..Len(written) : written'[i] = IF i = a.at THEN Mark ELSE written[i]
  BY <1>1, <1>2, <1>3, <1>4, ExceptSeq
<1>6. /\ chain' \in Seq(Blocks) /\ current' = current
      /\ \A b \in 1..current, o \in Offsets :
           chain'[b][o] = IF b = a.block /\ o = a.o THEN Mark ELSE chain[b][o]
  <2> DEFINE new == [chain[a.block] EXCEPT ![a.o] = Mark]
  <2>1. chain[a.block] \in Blocks /\ new \in Blocks
    BY <1>3, <1>4, ChainTyped DEF Blocks, Offsets
  <2>2. \A o \in Offsets : new[o] = IF o = a.o THEN Mark ELSE chain[a.block][o]
    BY <2>1 DEF Blocks, Offsets
  <2>3. chain' = [chain EXCEPT ![a.block] = new]
    BY <1>1
  <2> HIDE DEF new
  <2>4. /\ chain' \in Seq(Blocks) /\ Len(chain') = current
        /\ \A b \in 1..current : chain'[b] = IF b = a.block THEN new ELSE chain[b]
    BY <1>2, <1>3, <2>1, <2>3, ExceptSeq DEF current
  <2>. QED
    BY <2>2, <2>4 DEF current
<1>7. ChainTypeOK'
  <2>1. chain' # <<>>
    BY <1>2, <1>6 DEF current
  <2>. QED
    BY <1>1, <1>5, <1>6, <2>1 DEF ChainTypeOK
<1>8. \A b \in 1..current, o \in Offsets :
        At(b, o) <= len => chain'[b][o] = written'[At(b, o)]
  <2> SUFFICES ASSUME NEW b \in 1..current, NEW o \in Offsets, At(b, o) <= len
               PROVE  chain'[b][o] = written'[At(b, o)]
    OBVIOUS
  <2>1. b \in Nat \ {0} /\ a.block \in Nat
    BY <1>2, <1>3
  <2>2. At(b, o) \in 1..Len(written)
    <3>1. (b - 1) * BLOCK_SIZE \in Nat /\ o \in Nat
      BY <2>1, SizesAssumption DEF Offsets
    <3>. QED
      BY <1>2, <3>1 DEF At
  <2>3. At(b, o) = a.at <=> b = a.block /\ o = a.o
    BY <1>3, <2>1, AtInjective
  <2>. QED
    BY <1>5, <1>6, <2>2, <2>3 DEF StreamInv
<1>9. StreamInv'
  BY <1>1, <1>2, <1>5, <1>6, <1>8 DEF StreamInv
<1>10. TagsInv'
  <2> SUFFICES ASSUME NEW x \in tags
               PROVE  /\ x.block \in 1..current' /\ x.o \in Offsets
                      /\ x.at = At(x.block, x.o)
                      /\ x.at <= len' => written'[x.at] \in {Tag, Mark}
                      /\ x.at > len' => x.at = len' + 1 /\ Pending'
    BY <1>1 DEF TagsInv
  <2>1. x.at \in 1..Len(written) /\ x.at <= len
    <3>1. x.block \in Nat \ {0} /\ x.o \in Nat /\ x.at = At(x.block, x.o) /\ x.at <= len
      BY <1>1, <1>2 DEF TagsInv, Pending, Offsets, ChainTypeOK
    <3>2. x.at \in Nat \ {0}
      BY <3>1, SizesAssumption DEF At
    <3>. QED
      BY <1>2, <3>1, <3>2
  <2>. QED
    BY <1>1, <1>2, <1>5, <1>6, <2>1 DEF TagsInv
<1>. QED
  BY <1>7, <1>9, <1>10

\* A step that leaves the writer alone leaves what it wrote.
LEMMA WrittenKept ==
  ASSUME Written, UNCHANGED <<chain, ptr, len, rest, tags, written>>,
         phase \notin {"tag", "push"}, phase' # "push"
  PROVE  Written'
<1> USE DEF Written
<1>1. ChainTypeOK' /\ current' = current
  BY DEF ChainTypeOK, current
<1>2. StreamInv'
  BY <1>1 DEF StreamInv
<1>3. \A a \in tags : ~(a.at > len)
  BY DEF TagsInv, Pending
<1>4. TagsInv'
  BY <1>1, <1>3 DEF TagsInv
<1>. QED
  BY <1>1, <1>2, <1>4

\* The steps outside of wb_push, wb_address and change_mark.
Elsewhere ==
  \/ Refuse \/ Raise \/ Flatten \/ Seri \/ Free \/ SendRaises \/ SendMessage
  \/ RecvMessage \/ Unpack \/ Remove \/ Read \/ ReadNull \/ ReadRaises

\* Every step keeps what is known about the chain.
LEMMA WrittenStep ==
  ASSUME Written, [Next]_vars
  PROVE  Written'
<1>1. ASSUME Elsewhere
      PROVE  Written'
  <2>1. /\ UNCHANGED <<chain, ptr, len, rest, tags, written>>
        /\ phase \notin {"tag", "push"} /\ phase' # "push"
    BY <1>1 DEF Elsewhere, Refuse, Raise, Flatten, Seri, Free, SendRaises, SendMessage,
                RecvMessage, Unpack, Remove, Read, ReadNull, ReadRaises, ReadEnds, writer, bytes
  <2>. QED
    BY <2>1, WrittenKept
<1>2. ASSUME UNCHANGED vars
      PROVE  Written'
  <2>1. UNCHANGED <<chain, ptr, len, rest, tags, written, phase>> /\ current' = current
    BY <1>2 DEF vars, writer, current
  <2>. QED
    BY <2>1 DEF Written, ChainTypeOK, StreamInv, TagsInv, Pending
<1>. QED
  BY <1>1, <1>2, PushStep, PushFullStep, PushFitsStep, PushSplitStep, TakeAddressStep,
     ChangeMarkStep DEF Next, Elsewhere

------------------------------------------------------------------------------
(* The payload.                                                             *)

\* The bytes seri copies from a block are the next ones of the stream.
LEMMA FrontIs ==
  ASSUME Written, NEW b \in Nat \ {0}, NEW n \in 0..BLOCK_SIZE, (b - 1) * BLOCK_SIZE + n <= len
  PROVE  /\ Front(b, n) \in Seq(AnyByte) /\ Len(Front(b, n)) = n
         /\ \A k \in 1..n : Front(b, n)[k] = written[(b - 1) * BLOCK_SIZE + k]
<1>1. /\ current \in Nat \ {0} /\ ptr \in Nat /\ ptr <= BLOCK_SIZE /\ BLOCK_SIZE \in Nat \ {0}
      /\ len \in Nat /\ len = (current - 1) * BLOCK_SIZE + ptr /\ n \in Nat
      /\ \A c \in 1..current : chain[c] \in Blocks
  BY ChainTyped DEF Written, ChainTypeOK, StreamInv
<1>2. ASSUME NEW k \in 1..n
      PROVE  /\ chain[b][k - 1] \in AnyByte
             /\ chain[b][k - 1] = written[(b - 1) * BLOCK_SIZE + k]
  <2>1. k - 1 \in Offsets /\ k \in Nat \ {0} /\ k <= n
    BY <1>1 DEF Offsets
  <2>2. At(b, k - 1) = (b - 1) * BLOCK_SIZE + k /\ (b - 1) * BLOCK_SIZE \in Nat
    BY <1>1, <2>1 DEF At
  <2>3. At(b, k - 1) <= len
    BY <1>1, <2>1, <2>2
  <2>4. b <= current
    <3>1. len <= current * BLOCK_SIZE
      <4>1. (current - 1) * BLOCK_SIZE = current * BLOCK_SIZE - BLOCK_SIZE /\ current * BLOCK_SIZE \in Nat
        BY <1>1
      <4>. QED
        BY <1>1, <4>1
    <3>2. current < b => current * BLOCK_SIZE <= (b - 1) * BLOCK_SIZE
      <4> SUFFICES ASSUME current < b
                   PROVE  current * BLOCK_SIZE <= (b - 1) * BLOCK_SIZE
        OBVIOUS
      <4>1. PICK d \in Nat : b - 1 = current + d
        <5>1. b - 1 - current \in Nat /\ b - 1 = current + (b - 1 - current)
          BY <1>1
        <5>. QED
          BY <5>1
      <4>2. (b - 1) * BLOCK_SIZE = current * BLOCK_SIZE + d * BLOCK_SIZE
        BY <1>1, <4>1
      <4>3. d * BLOCK_SIZE \in Nat /\ current * BLOCK_SIZE \in Nat
        BY <1>1
      <4>. QED
        BY <4>2, <4>3
    <3>3. (b - 1) * BLOCK_SIZE < len
      BY <1>1, <2>1, <2>2, <2>3
    <3>4. current * BLOCK_SIZE \in Nat
      BY <1>1
    <3>. QED
      BY <1>1, <2>2, <3>1, <3>2, <3>3, <3>4
  <2>5. chain[b] \in Blocks /\ chain[b][k - 1] = written[At(b, k - 1)]
    BY <1>1, <2>1, <2>3, <2>4 DEF Written, StreamInv
  <2>. QED
    BY <2>1, <2>2, <2>5 DEF Blocks, Offsets
<1>3. Front(b, n) = [k \in 1..n |-> chain[b][k - 1]]
  BY DEF Front
<1>4. Front(b, n) \in Seq(AnyByte) /\ Len(Front(b, n)) = n
  BY SMTT(30), <1>1, <1>2, <1>3
<1>. QED
  BY <1>2, <1>3, <1>4

\* A copied part continues the payload.
LEMMA PayloadGrows ==
  ASSUME Written, payload \in Seq(AnyByte), NEW b \in Nat \ {0}, NEW n \in 0..BLOCK_SIZE,
         Len(payload) = (b - 1) * BLOCK_SIZE, Len(payload) + n <= len,
         \A p \in 1..Len(payload) : payload[p] = written[p],
         payload' = payload \o Front(b, n)
  PROVE  /\ payload' \in Seq(AnyByte) /\ Len(payload') = Len(payload) + n
         /\ \A p \in 1..Len(payload') : payload'[p] = written[p]
<1>1. Len(payload) \in Nat /\ n \in Nat
  BY LenProperties, SizesAssumption
<1> DEFINE f == Front(b, n)
<1>2. f \in Seq(AnyByte) /\ Len(f) = n /\ \A k \in 1..n : f[k] = written[Len(payload) + k]
  BY FrontIs
<1>. HIDE DEF f
<1>3. payload' = payload \o f
  BY DEF f
<1>4. /\ payload \o f \in Seq(AnyByte) /\ Len(payload \o f) = Len(payload) + Len(f)
      /\ \A p \in 1 .. Len(payload) + Len(f) :
           (payload \o f)[p] = IF p <= Len(payload) THEN payload[p] ELSE f[p - Len(payload)]
  BY <1>2, ConcatProperties
<1>5. ASSUME NEW p \in 1 .. Len(payload) + n
      PROVE  payload'[p] = written[p]
  <2>1. CASE p <= Len(payload)
    BY <1>1, <1>2, <1>3, <1>4, <2>1
  <2>2. CASE ~(p <= Len(payload))
    <3>1. p - Len(payload) \in 1..n /\ Len(payload) + (p - Len(payload)) = p
      BY <1>1, <2>2
    <3>2. f[p - Len(payload)] = written[p]
      BY <1>2, <3>1
    <3>. QED
      BY <1>2, <1>3, <1>4, <2>2, <3>2
  <2>. QED
    BY <2>1, <2>2
<1>. QED
  BY <1>2, <1>3, <1>4, <1>5

\* seri copies the next block into the payload.
LEMMA SeriStep ==
  ASSUME Written, ReadTypeOK, PayloadInv, Seri
  PROVE  PayloadInv' /\ payload' \in Seq(AnyByte) /\ block' \in Nat /\ Len(payload) <= Len(payload')
<1> DEFINE n == len - Len(payload)
<1>1. phase = "flatten" /\ UNCHANGED <<len, written>>
  BY DEF Seri, writer
<1>2. /\ block \in Nat \ {0} /\ payload \in Seq(AnyByte) /\ Len(payload) \in Nat
      /\ Len(payload) = (block - 1) * BLOCK_SIZE /\ Len(payload) <= len /\ len \in Nat
      /\ \A p \in 1..Len(payload) : payload[p] = written[p]
      /\ BLOCK_SIZE \in Nat \ {0}
  BY <1>1, LenProperties, SizesAssumption DEF PayloadInv, ReadTypeOK, Written, ChainTypeOK
<1>3. CASE /\ n >= BLOCK_SIZE
           /\ payload' = payload \o Front(block, BLOCK_SIZE) /\ block' = block + 1
           /\ UNCHANGED phase
  <2>1. BLOCK_SIZE \in 0..BLOCK_SIZE /\ Len(payload) + BLOCK_SIZE <= len
    BY <1>2, <1>3
  <2>2. /\ payload' \in Seq(AnyByte) /\ Len(payload') = Len(payload) + BLOCK_SIZE
        /\ \A p \in 1..Len(payload') : payload'[p] = written[p]
    BY <1>2, <1>3, <2>1, PayloadGrows
  <2>3. Len(payload') = (block' - 1) * BLOCK_SIZE
    <3>1. (block - 1) * BLOCK_SIZE + BLOCK_SIZE = block * BLOCK_SIZE
      BY <1>2
    <3>2. block' - 1 = block
      BY <1>2, <1>3
    <3>. QED
      BY <1>2, <2>2, <3>1, <3>2
  <2>4. block' \in Nat \ {0} /\ Len(payload') <= len' /\ Len(payload) <= Len(payload')
    BY <1>1, <1>2, <1>3, <2>1, <2>2
  <2>. QED
    BY <1>1, <1>3, <2>2, <2>3, <2>4 DEF PayloadInv
<1>4. CASE /\ n < BLOCK_SIZE
           /\ payload' = payload \o Front(block, n)
           /\ phase' = "free" /\ UNCHANGED block
  <2>1. n \in 0..BLOCK_SIZE /\ Len(payload) + n = len
    BY <1>2, <1>4
  <2>0. payload' = payload \o Front(block, n)
    BY <1>4
  <2> HIDE DEF n
  <2>2. /\ payload' \in Seq(AnyByte) /\ Len(payload') = Len(payload) + n
        /\ \A p \in 1..Len(payload') : payload'[p] = written[p]
    <3>1. Len(payload) + n <= len
      BY <1>2, <2>1
    <3>. QED
      BY <1>2, <2>0, <2>1, <3>1, PayloadGrows
  <2>3. written \in Seq(AnyByte) /\ Len(written) = len
    <3>1. rest = <<>> /\ written \in Seq(AnyByte) /\ len + Len(rest) = Len(written)
      BY <1>1 DEF Written, StreamInv, ChainTypeOK
    <3>. QED
      BY <1>2, <3>1
  <2>4. payload' = written
    BY <2>1, <2>2, <2>3, SeqEqual
  <2>. QED
    BY <1>1, <1>2, <1>4, <2>1, <2>2, <2>3, <2>4 DEF PayloadInv
<1>. QED
  BY <1>3, <1>4 DEF Seri, SeriBlock

------------------------------------------------------------------------------
(* The payload and the reader.                                              *)

Writing == {"pack", "tag", "push"}
Carrying == {"free", "packed", "rejected", "queued", "lost", "received", "read", "done",
             "removed", "invalid"}

\* What an action does to the payload and the reader: the writer leaves them
\* alone, a writer that fails ends, and what carries the payload leaves it as it is.
WriterActs ==
  /\ phase \in Writing /\ phase' \in Writing
  /\ UNCHANGED <<payload, block, rb_ptr, got>>
WriterFails ==
  /\ phase = "pack" /\ phase' \in {"refused", "raised"}
  /\ UNCHANGED <<payload, block, rb_ptr, got, written, widths>>
PayloadCarried ==
  /\ phase \in Carrying /\ phase' \in Carrying
  /\ phase' = "done" => ReadNull
  /\ UNCHANGED <<payload, block, rb_ptr, got, written, widths>>

\* Every action of the writer is of the first kind.
LEMMA WritersAct ==
  ASSUME \/ \E bs \in Chunks \cup {<<Tag>>} : Push(bs)
         \/ PushFull \/ PushFits \/ PushSplit \/ TakeAddress
         \/ \E a \in tags : change_mark(a)
  PROVE  WriterActs
<1>1. ASSUME NEW bs \in Chunks \cup {<<Tag>>}, Push(bs)
      PROVE  WriterActs
  BY <1>1 DEF WriterActs, Writing, Push, reader
<1>2. ASSUME PushFull \/ PushFits \/ PushSplit
      PROVE  WriterActs
  BY <1>2 DEF WriterActs, Writing, PushFull, PushFits, PushSplit, reader
<1>3. ASSUME TakeAddress
      PROVE  WriterActs
  BY <1>3 DEF WriterActs, Writing, TakeAddress, reader
<1>4. ASSUME NEW a \in tags, change_mark(a)
      PROVE  WriterActs
  BY <1>4 DEF WriterActs, Writing, change_mark, reader
<1>. QED
  BY <1>1, <1>2, <1>3, <1>4

\* The kinds of the other actions.
LEMMA OthersAct ==
  /\ Refuse \/ Raise => WriterFails
  /\ Free \/ SendRaises \/ SendMessage \/ RecvMessage \/ Unpack \/ Remove => PayloadCarried
  /\ ReadNull \/ ReadRaises => PayloadCarried
<1>1. Refuse \/ Raise => WriterFails
  BY DEF Refuse, Raise, WriterFails, reader
<1>2. Free \/ SendRaises \/ SendMessage \/ RecvMessage \/ Unpack \/ Remove => PayloadCarried
  BY DEF Free, SendRaises, SendMessage, RecvMessage, Unpack, Remove, PayloadCarried, Carrying,
         bytes, reader
<1>3. ReadNull \/ ReadRaises => PayloadCarried
  BY DEF ReadNull, ReadRaises, ReadEnds, PayloadCarried, Carrying, bytes, reader
<1>. QED
  BY <1>1, <1>2, <1>3

\* The steps, by what they are about.
LEMMA Kinds ==
  ASSUME [Next]_vars
  PROVE  \/ WriterActs
         \/ WriterFails
         \/ Flatten
         \/ Seri
         \/ PayloadCarried
         \/ Read
         \/ UNCHANGED vars
BY WritersAct, OthersAct DEF Next

\* The payload follows the stream, and keeps its type.
LEMMA PayloadStep ==
  ASSUME Written, ReadTypeOK, PayloadInv, [Next]_vars
  PROVE  /\ PayloadInv' /\ payload' \in Seq(AnyByte) /\ block' \in Nat
         /\ Len(payload) <= Len(payload')
<1>1. Len(payload) \in Nat /\ payload \in Seq(AnyByte) /\ block \in Nat
  BY LenProperties DEF ReadTypeOK
<1>2. CASE WriterActs
  BY <1>1, <1>2 DEF WriterActs, Writing, PayloadInv
<1>3. CASE WriterFails
  BY <1>1, <1>3 DEF WriterFails, PayloadInv
<1>4. CASE Flatten
  <2>1. /\ phase' = "flatten" /\ payload = <<>> /\ block = 1
        /\ payload' = <<>> /\ block' = 1 /\ len' = len /\ written' = written
    BY <1>4 DEF Flatten, PayloadInv, writer
  <2>2. Len(payload') = 0 /\ (block' - 1) * BLOCK_SIZE = 0
    BY <2>1, SizesAssumption
  <2>3. len \in Nat
    BY DEF Written, ChainTypeOK
  <2>. QED
    BY <1>1, <2>1, <2>2, <2>3 DEF PayloadInv
<1>5. CASE Seri
  BY <1>5, SeriStep
<1>6. CASE PayloadCarried
  BY <1>1, <1>6 DEF PayloadCarried, Carrying, PayloadInv
<1>7. CASE Read
  BY <1>1, <1>7 DEF Read, PayloadInv
<1>8. CASE UNCHANGED vars
  BY <1>1, <1>8 DEF vars, writer, PayloadInv
<1>. QED
  BY <1>2, <1>3, <1>4, <1>5, <1>6, <1>7, <1>8, Kinds

\* A push adds a sum.
LEMMA SumsGrow ==
  ASSUME widths \in Seq(Nat), NEW S, Sums(S), Len(written) \in Nat, NEW w \in Nat,
         widths' = Append(widths, w), Len(written') = Len(written) + w
  PROVE  \E T : Sums(T)' /\ \A k \in 0..Len(widths) : T[k] = S[k]
<1> DEFINE n == Len(widths)
<1>1. n \in Nat /\ S \in [0..n -> Nat] /\ S[0] = 0 /\ S[n] = Len(written)
      /\ \A k \in 1..n : S[k] = S[k - 1] + widths[k]
      /\ \A i, j \in 0..n : i <= j => S[i] <= S[j]
  BY LenProperties DEF Sums
<1>2. Len(widths') = n + 1 /\ widths'[n + 1] = w /\ \A k \in 1..n : widths'[k] = widths[k]
  BY AppendProperties
<1>3. PICK m \in Nat : m = n
  BY <1>1
<1>4. PICK T : T = [k \in 0 .. m + 1 |-> IF k <= m THEN S[k] ELSE S[m] + w]
  OBVIOUS
<1> HIDE DEF n
<1>5. T \in [0 .. m + 1 -> Nat] /\ \A k \in 0..m : T[k] = S[k]
  BY <1>1, <1>3, <1>4
<1>6. T[m + 1] = S[m] + w /\ S[m] \in Nat
  <2>1. m + 1 \in 0 .. m + 1 /\ ~(m + 1 <= m) /\ m \in 0..m
    OBVIOUS
  <2>2. T[m + 1] = S[m] + w
    BY <1>4, <2>1
  <2>. QED
    BY <1>1, <1>3, <2>1, <2>2
<1>7. ASSUME NEW k \in 1 .. m + 1
      PROVE  T[k] = T[k - 1] + widths'[k]
  <2>1. CASE k <= m
    <3>1. k \in 1..m /\ k \in 0..m /\ k - 1 \in 0..m
      BY <2>1
    <3>. QED
      BY <1>1, <1>2, <1>3, <1>5, <3>1
  <2>2. CASE k = m + 1
    <3>1. k - 1 = m /\ m \in 0..m
      BY <2>2
    <3>. QED
      BY <1>2, <1>3, <1>5, <1>6, <2>2, <3>1
  <2>3. k <= m \/ k = m + 1
    OBVIOUS
  <2>. QED
    BY <2>1, <2>2, <2>3
<1>8. ASSUME NEW i \in 0 .. m + 1, NEW j \in 0 .. m + 1, i <= j
      PROVE  T[i] <= T[j]
  <2>1. CASE j <= m
    <3>1. i \in 0..m /\ j \in 0..m
      BY <1>8, <2>1
    <3>. QED
      BY <1>1, <1>3, <1>5, <1>8, <3>1
  <2>2. CASE j = m + 1 /\ i <= m
    <3>1. i \in 0..m /\ m \in 0..m
      BY <2>2
    <3>2. T[i] = S[i] /\ S[i] <= S[m] /\ S[i] \in Nat
      BY SMTT(30), <1>1, <1>3, <1>5, <3>1
    <3>. QED
      BY <1>6, <2>2, <3>2
  <2>3. CASE j = m + 1 /\ i = m + 1
    BY <1>6, <2>3
  <2>. QED
    BY <1>8, <2>1, <2>2, <2>3
<1>9. T[0] = 0 /\ T[m + 1] = Len(written')
  <2>1. 0 \in 0..m
    OBVIOUS
  <2>. QED
    BY <1>1, <1>3, <1>5, <1>6, <2>1
<1>10. Len(widths') = m + 1
  BY <1>2, <1>3
<1>11. Sums(T)'
  BY <1>5, <1>7, <1>8, <1>9, <1>10 DEF Sums
<1>. QED
  BY <1>3, <1>5, <1>11 DEF n

\* Only a push changes the sizes and how long the stream is.
LEMMA WidthsStep ==
  ASSUME Written, ReadTypeOK, [Next]_vars
  PROVE  \/ UNCHANGED widths /\ Len(written') = Len(written)
         \/ \E w \in Nat : widths' = Append(widths, w) /\ Len(written') = Len(written) + w
<1>1. ASSUME NEW bs \in Chunks \cup {<<Tag>>}, Push(bs)
      PROVE  \E w \in Nat : widths' = Append(widths, w) /\ Len(written') = Len(written) + w
  <2>1. widths' = Append(widths, Len(bs)) /\ written' = written \o bs
    BY <1>1 DEF Push
  <2>2. bs \in Seq(AnyByte) /\ written \in Seq(AnyByte)
    <3>1. <<Tag>> \in Seq(AnyByte)
      BY DEF AnyByte
    <3>2. Chunks \subseteq Seq(AnyByte)
      BY ChunksAssumption DEF AnyByte
    <3>. QED
      BY <3>1, <3>2 DEF Written, ChainTypeOK
  <2>3. Len(bs) \in Nat /\ Len(written') = Len(written) + Len(bs)
    BY <2>1, <2>2, LenProperties, ConcatProperties
  <2>. QED
    BY <2>1, <2>3
<1>2. ASSUME NEW a \in tags, change_mark(a)
      PROVE  UNCHANGED widths /\ Len(written') = Len(written)
  <2>1. widths' = widths /\ written' = [written EXCEPT ![a.at] = Mark]
    BY <1>2 DEF change_mark
  <2>2. DOMAIN written' = DOMAIN written
    BY <2>1
  <2>3. written \in Seq(AnyByte)
    BY DEF Written, ChainTypeOK
  <2>4. Written'
    BY WrittenStep
  <2>5. written' \in Seq(AnyByte)
    BY <2>4 DEF Written, ChainTypeOK
  <2>. QED
    BY <2>1, <2>2, <2>3, <2>5, LenProperties
<1>3. ASSUME \/ PushFull \/ PushFits \/ PushSplit \/ TakeAddress \/ Flatten \/ Seri
             \/ PayloadCarried \/ WriterFails \/ Read \/ UNCHANGED vars
      PROVE  UNCHANGED <<widths, written>>
  BY <1>3 DEF PushFull, PushFits, PushSplit, TakeAddress, Flatten, Seri, PayloadCarried,
              WriterFails, Read, vars, writer
<1>. QED
  BY <1>1, <1>2, <1>3, OthersAct DEF Next

\* The sums of a step later are the same, and maybe one more.
LEMMA SumsStep ==
  ASSUME Written, ReadTypeOK, NEW S, Sums(S), [Next]_vars
  PROVE  /\ widths' \in Seq(Nat) /\ Len(widths) <= Len(widths')
         /\ \A k \in 1..Len(widths) : widths'[k] = widths[k]
         /\ \E T : Sums(T)' /\ \A k \in 0..Len(widths) : T[k] = S[k]
<1>1. widths \in Seq(Nat) /\ written \in Seq(AnyByte)
  BY DEF ReadTypeOK, Written, ChainTypeOK
<1>2. Len(widths) \in Nat /\ Len(written) \in Nat
  BY <1>1, LenProperties
<1>3. CASE UNCHANGED widths /\ Len(written') = Len(written)
  <2>1. Sums(S)'
    BY <1>3 DEF Sums
  <2>. QED
    BY <1>1, <1>2, <1>3, <2>1
<1>4. ASSUME NEW w \in Nat, widths' = Append(widths, w), Len(written') = Len(written) + w
      PROVE  /\ widths' \in Seq(Nat) /\ Len(widths) <= Len(widths')
             /\ \A k \in 1..Len(widths) : widths'[k] = widths[k]
             /\ \E T : Sums(T)' /\ \A k \in 0..Len(widths) : T[k] = S[k]
  <2>1. /\ widths' \in Seq(Nat) /\ Len(widths') = Len(widths) + 1
        /\ \A k \in 1..Len(widths) : widths'[k] = widths[k]
    BY <1>1, <1>4, AppendProperties
  <2>2. \E T : Sums(T)' /\ \A k \in 0..Len(widths) : T[k] = S[k]
    BY <1>1, <1>2, <1>4, SumsGrow
  <2>. QED
    BY <1>2, <2>1, <2>2
<1>. QED
  BY <1>3, <1>4, WidthsStep

\* A piece is as long as it was asked for.
LEMMA PieceIs ==
  ASSUME NEW s \in Seq(AnyByte), NEW i \in Nat, NEW w \in Nat, i + w <= Len(s)
  PROVE  SubSeq(s, i + 1, i + w) \in Seq(AnyByte) /\ Len(SubSeq(s, i + 1, i + w)) = w
<1>1. \A k \in i + 1 .. i + w : s[k] \in AnyByte
  BY LenProperties, ElementOfSeq
<1>2. i + 1 \in Int /\ i + w \in Int
  OBVIOUS
<1>3. PICK m \in Int, n \in Int : m = i + 1 /\ n = i + w
  BY <1>2
<1>4. \A k \in m..n : s[k] \in AnyByte
  BY <1>1, <1>3
<1>5. SubSeq(s, m, n) \in Seq(AnyByte)
  BY <1>4, SubSeqProperties
<1>6. Len(SubSeq(s, m, n)) = IF m <= n THEN n - m + 1 ELSE 0
  BY <1>4, SubSeqProperties
<1>. QED
  BY <1>3, <1>5, <1>6

\* One more piece is read, of the size that is next.
LEMMA PieceStep ==
  ASSUME Written, ReadTypeOK, PayloadInv, ReadInv, Read
  PROVE  ReadInv' /\ rb_ptr' \in 0..Len(payload') /\ got' \in Seq(Seq(AnyByte))
<1> DEFINE n == Len(got)
           piece == SubSeq(payload, rb_ptr + 1, rb_ptr + sz)
<1>1. /\ phase = "read" /\ Len(payload) - rb_ptr >= sz
      /\ got' = Append(got, piece) /\ rb_ptr' = rb_ptr + sz
      /\ UNCHANGED <<phase, payload, written, widths>>
  BY DEF Read, Remains
<1>2. payload = written
  BY <1>1 DEF PayloadInv
<1>3. PICK S : Sums(S) /\ rb_ptr = S[n]
  BY DEF ReadInv
<1>4. /\ payload \in Seq(AnyByte) /\ rb_ptr \in Nat /\ got \in Seq(Seq(AnyByte))
      /\ widths \in Seq(Nat) /\ Len(payload) \in Nat /\ rb_ptr <= Len(payload)
      /\ n \in Nat /\ Len(widths) \in Nat /\ n <= Len(widths)
  BY LenProperties DEF ReadTypeOK, ReadInv
<1>5. S[Len(widths)] = Len(payload)
  BY <1>2, <1>3 DEF Sums
<1>6. n < Len(widths)
  <2> SUFFICES ASSUME n = Len(widths)
               PROVE  FALSE
    BY <1>4
  <2>1. sz = 1
    BY <1>4, AppendProperties DEF sz, Widths
  <2>2. rb_ptr = Len(payload)
    BY <1>3, <1>5
  <2>. QED
    BY <1>1, <1>4, <2>1, <2>2
<1>7. n + 1 \in 1..Len(widths) /\ n + 1 \in 0..Len(widths) /\ (n + 1) - 1 = n
  BY <1>4, <1>6
<1>8. sz = widths[n + 1] /\ sz \in Nat
  BY <1>4, <1>7, AppendProperties, ElementOfSeq DEF sz, Widths
<1>9. rb_ptr' = S[n + 1]
  BY <1>1, <1>3, <1>7, <1>8 DEF Sums
<1>10. piece \in Seq(AnyByte) /\ Len(piece) = sz
  <2>1. PICK w \in Nat : w = sz
    BY <1>8
  <2>2. rb_ptr + w <= Len(payload)
    BY <1>1, <1>4, <2>1
  <2>. QED
    BY <1>4, <2>1, <2>2, PieceIs
<1> HIDE DEF piece
<1>11. /\ got' \in Seq(Seq(AnyByte)) /\ Len(got') = n + 1 /\ got'[n + 1] = piece
       /\ \A k \in 1..n : got'[k] = got[k]
  BY <1>1, <1>4, <1>10, AppendProperties
<1>12. \A k \in 1..Len(got') : Len(got'[k]) = widths[k]
  <2> SUFFICES ASSUME NEW k \in 1 .. n + 1
               PROVE  Len(got'[k]) = widths[k]
    BY <1>11
  <2>1. CASE k = n + 1
    BY <1>8, <1>10, <1>11, <2>1
  <2>2. CASE k \in 1..n
    BY <1>11, <2>2 DEF ReadInv
  <2>. QED
    BY <1>4, <2>1, <2>2
<1>13. Sums(S)'
  BY <1>1, <1>3 DEF Sums
<1>14. rb_ptr' \in 0..Len(payload')
  BY SMTT(30), <1>1, <1>4, <1>8
<1>15. Len(got') <= Len(widths') /\ phase' # "done"
  BY <1>1, <1>4, <1>7, <1>11
<1>16. \E T : Sums(T)' /\ rb_ptr' = T[Len(got')]
  BY <1>9, <1>11, <1>13
<1>. QED
  BY <1>1, <1>11, <1>12, <1>14, <1>15, <1>16 DEF ReadInv

\* NULL is given behind the last piece only.
LEMMA NullIsLast ==
  ASSUME Written, ReadTypeOK, PayloadInv, ReadInv, ReadNull
  PROVE  Len(got) = Len(widths)
<1> DEFINE n == Len(got)
<1>1. phase = "read" /\ Len(payload) - rb_ptr < sz
  BY DEF ReadNull, ReadEnds, Remains
<1>2. payload = written
  BY <1>1 DEF PayloadInv
<1>3. PICK S : Sums(S) /\ rb_ptr = S[n]
  BY DEF ReadInv
<1>4. /\ rb_ptr \in Nat /\ widths \in Seq(Nat) /\ Len(payload) \in Nat
      /\ n \in Nat /\ Len(widths) \in Nat /\ n <= Len(widths)
  BY LenProperties DEF ReadTypeOK, ReadInv
<1>5. ASSUME n < Len(widths)
      PROVE  FALSE
  <2>1. n + 1 \in 1..Len(widths) /\ n + 1 \in 0..Len(widths) /\ (n + 1) - 1 = n
        /\ Len(widths) \in 0..Len(widths) /\ n + 1 <= Len(widths)
    BY <1>4, <1>5
  <2>2. sz = widths[n + 1]
    BY <1>4, <2>1, AppendProperties DEF sz, Widths
  <2>3. S[n + 1] = S[n] + widths[n + 1]
    BY <1>3, <2>1 DEF Sums
  <2>4. S[n + 1] <= S[Len(widths)] /\ S[Len(widths)] = Len(payload)
    BY <1>2, <1>3, <2>1 DEF Sums
  <2>5. widths[n + 1] \in Nat
    BY <1>4, <2>1, ElementOfSeq
  <2>. QED
    BY <1>1, <1>3, <1>4, <2>2, <2>3, <2>4, <2>5
<1>. QED
  BY <1>4, <1>5

\* Every step keeps what is known about the reader.
LEMMA ReadStep ==
  ASSUME Written, ReadTypeOK, PayloadInv, ReadInv, [Next]_vars
  PROVE  ReadTypeOK' /\ ReadInv'
<1>1. /\ payload' \in Seq(AnyByte) /\ block' \in Nat /\ Len(payload) <= Len(payload')
      /\ Len(payload) \in Nat /\ Len(payload') \in Nat
  BY PayloadStep, LenProperties DEF ReadTypeOK
<1>2. PICK S : Sums(S) /\ rb_ptr = S[Len(got)]
  BY DEF ReadInv
<1>3. /\ widths' \in Seq(Nat) /\ Len(widths) <= Len(widths')
      /\ \A k \in 1..Len(widths) : widths'[k] = widths[k]
      /\ \E T : Sums(T)' /\ \A k \in 0..Len(widths) : T[k] = S[k]
  BY <1>2, SumsStep
<1>4. /\ Len(got) \in Nat /\ Len(widths) \in Nat /\ Len(widths') \in Nat
      /\ Len(got) <= Len(widths) /\ got \in Seq(Seq(AnyByte)) /\ rb_ptr \in 0..Len(payload)
  BY <1>3, LenProperties DEF ReadTypeOK, ReadInv
<1>5. CASE Read
  BY <1>1, <1>3, <1>5, PieceStep DEF ReadTypeOK
<1>6. CASE /\ UNCHANGED <<rb_ptr, got>>
           /\ phase' = "done" => Len(got) = Len(widths')
  <2>1. ReadTypeOK'
    BY <1>1, <1>3, <1>4, <1>6 DEF ReadTypeOK
  <2>2. PICK T : Sums(T)' /\ \A k \in 0..Len(widths) : T[k] = S[k]
    BY <1>3
  <2>3. Len(got) \in 0..Len(widths)
    BY <1>4
  <2>4. \E U : Sums(U)' /\ rb_ptr' = U[Len(got')]
    BY <1>2, <1>6, <2>2, <2>3
  <2>5. \A k \in 1..Len(got') : Len(got'[k]) = widths'[k]
    <3> SUFFICES ASSUME NEW k \in 1..Len(got)
                 PROVE  Len(got[k]) = widths'[k]
      BY <1>6
    <3>1. k \in 1..Len(widths)
      BY <1>4
    <3>. QED
      BY <1>3, <3>1 DEF ReadInv
  <2>6. Len(got') <= Len(widths')
    BY <1>3, <1>4, <1>6
  <2>. QED
    BY <1>6, <2>1, <2>4, <2>5, <2>6 DEF ReadInv
<1>7. CASE WriterActs \/ WriterFails \/ Flatten \/ Seri
  <2>1. UNCHANGED <<rb_ptr, got>> /\ phase' # "done"
    BY <1>7 DEF WriterActs, WriterFails, Flatten, Seri, Writing, reader
  <2>. QED
    BY <1>6, <2>1
<1>8. CASE PayloadCarried
  <2>1. UNCHANGED <<rb_ptr, got, widths>>
    BY <1>8 DEF PayloadCarried
  <2>2. phase' = "done" => Len(got) = Len(widths')
    BY <1>8, <2>1, NullIsLast DEF PayloadCarried
  <2>. QED
    BY <1>6, <2>1, <2>2
<1>9. CASE UNCHANGED vars
  <2>1. UNCHANGED <<rb_ptr, got, widths, phase>>
    BY <1>9 DEF vars, reader
  <2>. QED
    BY <1>6, <2>1 DEF ReadInv
<1>. QED
  BY <1>5, <1>6, <1>7, <1>8, <1>9, Kinds

------------------------------------------------------------------------------
(* What is allocated.                                                       *)

Allocated == 2..Len(chain)

\* A new block is allocated when the chain grows.
LEMMA BlockAllocated ==
  ASSUME ChainTypeOK, heap = Allocated, Len(chain') = Len(chain) + 1,
         heap' = heap \cup {current + 1}
  PROVE  heap' = Allocated'
<1>1. Len(chain) \in Nat \ {0}
  BY ChainTyped DEF current
<1>. QED
  BY <1>1 DEF Allocated, current

\* Every step keeps what is allocated to what is in use.
LEMMA HeapStep ==
  ASSUME Written, Written', phase \in Phases, HeapIsInUse, [Next]_vars
  PROVE  HeapIsInUse' /\ phase' \in Phases
<1>1. Len(chain) \in Nat \ {0} /\ ChainTypeOK /\ StreamInv
  BY ChainTyped DEF Written, current
<1>2. CASE WriterActs
  <2>1. heap = Allocated /\ phase' \in Writing
    BY <1>2 DEF WriterActs, Writing, HeapIsInUse, Allocated
  <2>2. heap' = Allocated'
    <3>1. ASSUME Len(chain') = Len(chain), heap' = heap
          PROVE  heap' = Allocated'
      BY <2>1, <3>1 DEF Allocated
    <3>2. ASSUME NEW bs \in Chunks \cup {<<Tag>>}, Push(bs)
          PROVE  heap' = Allocated'
      BY <3>1, <3>2 DEF Push
    <3>3. ASSUME NEW a \in tags, change_mark(a)
          PROVE  heap' = Allocated'
      <4>1. DOMAIN chain' = DOMAIN chain /\ heap' = heap
        BY <3>3 DEF change_mark
      <4>2. Len(chain') = Len(chain)
        BY <4>1, LenProperties DEF Written, ChainTypeOK
      <4>. QED
        BY <3>1, <4>1, <4>2
    <3>4. ASSUME PushFits
          PROVE  heap' = Allocated'
      <4>1. chain' = Copied(rest) /\ heap' = heap /\ ptr + Len(rest) <= BLOCK_SIZE
            /\ rest \in Seq(AnyByte)
        BY <1>1, <3>4, ChainTyped DEF PushFits, Fits, ChainTypeOK
      <4>2. Len(chain') = Len(chain)
        BY <1>1, <4>1, CopiedIs DEF current
      <4>. QED
        BY <3>1, <4>1, <4>2
    <3>5. ASSUME PushFull
          PROVE  heap' = Allocated'
      <4>1. Len(chain') = Len(chain) + 1 /\ heap' = heap \cup {current + 1}
        BY <1>1, <3>5, BlockIsBehind DEF PushFull, NewBlock, ChainTypeOK
      <4>. QED
        BY <1>1, <2>1, <4>1, BlockAllocated
    <3>6. ASSUME PushSplit
          PROVE  heap' = Allocated'
      <4> DEFINE copy == BLOCK_SIZE - ptr
                 bs == SubSeq(rest, 1, copy)
      <4>1. /\ ptr < BLOCK_SIZE /\ ~(ptr <= BLOCK_SIZE - Len(rest))
            /\ chain' = Append(Copied(bs), BlankBlock) /\ heap' = heap \cup {current + 1}
        BY <3>6 DEF PushSplit, Fits, NewBlock
      <4>2. copy \in Nat /\ copy <= Len(rest) /\ rest \in Seq(AnyByte) /\ ptr + copy <= BLOCK_SIZE
        BY <1>1, <4>1, ChainTyped DEF ChainTypeOK
      <4>3. bs \in Seq(AnyByte) /\ Len(bs) = copy
        <5>1. PICK w \in Nat : w = copy
          BY <4>2
        <5>2. SubSeq(rest, 0 + 1, 0 + w) \in Seq(AnyByte) /\ Len(SubSeq(rest, 0 + 1, 0 + w)) = w
          BY <4>2, <5>1, PieceIs
        <5>. QED
          BY <5>1, <5>2
      <4>4. Copied(bs) \in Seq(Blocks) /\ Len(Copied(bs)) = current
        BY <1>1, <4>2, <4>3, CopiedIs
      <4>5. Len(chain') = Len(chain) + 1
        BY <4>1, <4>4, BlockIsBehind DEF current
      <4>. QED
        BY <1>1, <2>1, <4>1, <4>5, BlockAllocated
    <3>7. ASSUME TakeAddress
          PROVE  heap' = Allocated'
      <4>1. CASE ptr = BLOCK_SIZE
        <5>1. Len(chain') = Len(chain) + 1 /\ heap' = heap \cup {current + 1}
          BY <1>1, <3>7, <4>1, BlockIsBehind DEF TakeAddress, wb_address, NewBlock, ChainTypeOK
        <5>. QED
          BY <1>1, <2>1, <5>1, BlockAllocated
      <4>2. CASE ptr # BLOCK_SIZE
        BY <3>1, <3>7, <4>2 DEF TakeAddress, wb_address
      <4>. QED
        BY <4>1, <4>2
    <3>8. ASSUME UNCHANGED vars
          PROVE  heap' = Allocated'
      BY <3>1, <3>8 DEF vars, writer
    <3>9. ~(WriterFails \/ Flatten \/ Seri \/ PayloadCarried \/ Read)
      BY <1>2 DEF WriterActs, Writing, WriterFails, Flatten, Seri, PayloadCarried, Carrying, Read
    <3>. QED
      BY <3>2, <3>3, <3>4, <3>5, <3>6, <3>7, <3>8, <3>9, OthersAct DEF Next
  <2>. QED
    BY <2>1, <2>2 DEF HeapIsInUse, Writing, Allocated, Phases
<1>3. CASE Refuse \/ Raise
  <2>1. heap = Allocated /\ phase = "pack" /\ chain' = chain
    BY <1>3 DEF Refuse, Raise, HeapIsInUse, Allocated, writer
  <2>2. \/ phase' = "refused" /\ heap' = heap \ Allocated
        \/ phase' = "raised" /\ heap' = heap
    BY <1>3 DEF Refuse, Raise, wb_free, Allocated
  <2>. QED
    BY <2>1, <2>2 DEF HeapIsInUse, Allocated, Phases
<1>4. CASE Flatten \/ Seri
  <2>1. \/ phase = "pack" /\ phase' = "flatten" /\ heap' = heap \cup {PAYLOAD}
        \/ phase = "flatten" /\ phase' \in {"flatten", "free"} /\ heap' = heap
    BY <1>4 DEF Flatten, Seri, SeriBlock
  <2>2. chain' = chain
    BY <1>4 DEF Flatten, Seri, writer
  <2>. QED
    BY <2>1, <2>2 DEF HeapIsInUse, Phases
<1>5. CASE Free
  <2>1. phase = "free" /\ phase' = "packed" /\ heap' = heap \ Allocated
    BY <1>5 DEF Free, wb_free, Allocated
  <2>2. heap = {PAYLOAD} \cup Allocated
    BY <2>1 DEF HeapIsInUse, Allocated
  <2>3. PAYLOAD \notin Allocated
    BY <1>1 DEF PAYLOAD, Allocated
  <2>4. heap' = {PAYLOAD}
    BY <2>1, <2>2, <2>3
  <2>. QED
    BY <2>1, <2>4 DEF HeapIsInUse, Phases
<1>6. CASE SendRaises \/ SendMessage \/ RecvMessage \/ Unpack
  <2>1. \/ phase = "packed" /\ phase' = "rejected" /\ heap' = heap
        \/ phase = "packed" /\ phase' \in {"queued", "lost"} /\ heap' = heap \cup {MESSAGE}
        \/ phase = "queued" /\ phase' = "received" /\ heap' = heap
        \/ phase = "received" /\ phase' = "read" /\ heap' = heap
    BY <1>6 DEF SendRaises, SendMessage, RecvMessage, Unpack
  <2>. QED
    BY <2>1 DEF HeapIsInUse, Phases
<1>7. CASE Remove \/ ReadNull \/ ReadRaises
  <2>1. /\ phase \in {"received", "read"} /\ phase' \in {"removed", "done", "invalid"}
        /\ heap' = heap \ {PAYLOAD}
    BY <1>7 DEF Remove, ReadNull, ReadRaises, ReadEnds
  <2>2. heap = {PAYLOAD, MESSAGE} /\ PAYLOAD # MESSAGE
    BY <2>1 DEF HeapIsInUse, PAYLOAD, MESSAGE
  <2>3. heap' = {MESSAGE}
    BY <2>1, <2>2
  <2>. QED
    BY <2>1, <2>3 DEF HeapIsInUse, Phases
<1>8. CASE Read
  BY <1>8 DEF Read, HeapIsInUse, writer
<1>9. CASE UNCHANGED vars
  BY <1>9 DEF vars, writer, HeapIsInUse
<1>10. Next => \/ WriterActs \/ Refuse \/ Raise \/ Flatten \/ Seri \/ Free \/ SendRaises
               \/ SendMessage \/ RecvMessage \/ Unpack \/ Remove \/ Read \/ ReadNull
               \/ ReadRaises
  BY WritersAct DEF Next
<1>. QED
  BY <1>2, <1>3, <1>4, <1>5, <1>6, <1>7, <1>8, <1>9, <1>10

------------------------------------------------------------------------------
(* The theorems.                                                            *)

\* Every byte of the stream is in the block and at the offset ByteAt finds.
LEMMA ByteIs ==
  ASSUME Written, NEW p \in 1..len
  PROVE  ByteAt(p) = written[p]
<1> DEFINE b == (p - 1) \div BLOCK_SIZE + 1
           o == (p - 1) % BLOCK_SIZE
<1>1. /\ len \in Nat /\ p \in Nat \ {0} /\ current \in Nat \ {0} /\ ptr \in Nat
      /\ ptr <= BLOCK_SIZE /\ BLOCK_SIZE \in Nat \ {0}
      /\ len = (current - 1) * BLOCK_SIZE + ptr
  BY ChainTyped DEF Written, ChainTypeOK, StreamInv
<1>2. b \in Nat \ {0} /\ o \in Offsets /\ At(b, o) = p
  BY <1>1, AtDivision
<1>3. ByteAt(p) = chain[b][o]
  BY DEF ByteAt
<1> HIDE DEF b, o
<1>4. b <= current
  <2> SUFFICES ASSUME current < b
               PROVE  FALSE
    BY <1>1, <1>2
  <2>1. PICK d \in Nat : b - 1 = current + d
    <3>1. b - 1 - current \in Nat /\ b - 1 = current + (b - 1 - current)
      BY <1>1, <1>2
    <3>. QED
      BY <3>1
  <2>2. (b - 1) * BLOCK_SIZE = current * BLOCK_SIZE + d * BLOCK_SIZE
    BY <1>1, <2>1
  <2>3. (current - 1) * BLOCK_SIZE = current * BLOCK_SIZE - BLOCK_SIZE
    BY <1>1
  <2>4. d * BLOCK_SIZE \in Nat /\ current * BLOCK_SIZE \in Nat /\ o \in Nat /\ p <= len
    BY <1>1, <1>2 DEF Offsets
  <2>. QED
    BY <1>1, <1>2, <2>2, <2>3, <2>4 DEF At
<1>5. b \in 1..current /\ At(b, o) <= len
  BY <1>1, <1>2, <1>4
<1>. QED
  BY <1>2, <1>3, <1>5 DEF Written, StreamInv

\* Nothing but blocks, the payload and the message is allocated.
LEMMA HeapTyped ==
  ASSUME ChainTypeOK, phase \in Phases, HeapIsInUse
  PROVE  heap \subseteq Nat \cup {MESSAGE}
<1>1. 2..Len(chain) \subseteq Nat /\ PAYLOAD \in Nat
  BY ChainTyped DEF current, PAYLOAD
<1>. QED
  BY <1>1 DEF HeapIsInUse, Phases

\* The invariant holds at the start.
LEMMA InitHolds ==
  ASSUME Init
  PROVE  PackInv
<1>1. /\ phase = "pack" /\ chain = <<BlankBlock>> /\ ptr = 0 /\ len = 0 /\ rest = <<>>
      /\ tags = {} /\ heap = {} /\ payload = <<>> /\ block = 1 /\ rb_ptr = 0 /\ got = <<>>
      /\ written = <<>> /\ widths = <<>>
  BY DEF Init
<1>2. BlankBlock \in Blocks
  BY DEF BlankBlock, Blocks, AnyByte
<1>3. /\ chain \in Seq(Blocks) /\ chain # <<>> /\ Len(chain) = 1 /\ Len(rest) = 0
      /\ Len(written) = 0 /\ Len(payload) = 0 /\ Len(got) = 0 /\ Len(widths) = 0
  BY <1>1, <1>2
<1>4. TypeOK
  BY <1>1, <1>3, SizesAssumption DEF TypeOK
<1>5. StreamInv
  <2>1. (current - 1) * BLOCK_SIZE = 0 /\ MaxLen \in Nat
    BY <1>3, SizesAssumption DEF current
  <2>2. ASSUME NEW b \in 1..current, NEW o \in Offsets, At(b, o) <= len
        PROVE  FALSE
    <3>1. b = 1 /\ o \in Nat
      BY <1>3 DEF current, Offsets
    <3>2. (b - 1) * BLOCK_SIZE = 0
      BY <3>1, SizesAssumption
    <3>. QED
      BY <1>1, <2>2, <3>1, <3>2 DEF At
  <2>. QED
    BY <1>1, <1>3, <2>1, <2>2 DEF StreamInv
<1>6. TagsInv /\ PayloadInv
  BY <1>1 DEF TagsInv, PayloadInv
<1>7. ReadInv
  <2>1. PICK S : S = [k \in 0..0 |-> 0]
    OBVIOUS
  <2>2. Sums(S)
    BY <1>3, <2>1 DEF Sums
  <2>. QED
    BY <1>1, <1>3, <2>1, <2>2 DEF ReadInv
<1>8. HeapIsInUse
  BY <1>1, <1>3 DEF HeapIsInUse
<1>. QED
  BY <1>4, <1>5, <1>6, <1>7, <1>8 DEF PackInv

\* The invariant is inductive.
LEMMA InvariantStep ==
  ASSUME PackInv, [Next]_vars
  PROVE  PackInv'
<1>1. Written /\ ReadTypeOK /\ phase \in Phases
  BY TypeParts DEF PackInv, Written
<1>2. PayloadInv /\ ReadInv /\ HeapIsInUse
  BY DEF PackInv
<1>3. Written'
  BY <1>1, WrittenStep
<1>4. PayloadInv'
  BY <1>1, <1>2, PayloadStep
<1>5. ReadTypeOK' /\ ReadInv'
  BY <1>1, <1>2, ReadStep
<1>6. HeapIsInUse' /\ phase' \in Phases
  BY <1>1, <1>2, <1>3, HeapStep
<1>7. (heap \subseteq Nat \cup {MESSAGE})'
  <2>1. (ChainTypeOK /\ phase \in Phases /\ HeapIsInUse => heap \subseteq Nat \cup {MESSAGE})'
    BY HeapTyped, PTL
  <2>. QED
    BY <1>3, <1>6, <2>1 DEF Written
<1>8. TypeOK'
  BY <1>3, <1>5, <1>6, <1>7, PartsType DEF Written, MESSAGE
<1>. QED
  BY <1>3, <1>4, <1>5, <1>6, <1>8 DEF PackInv, Written

\* The invariant always holds.
LEMMA PackInvHolds == Spec => []PackInv
<1>1. Init => PackInv
  BY InitHolds
<1>2. PackInv /\ [Next]_vars => PackInv'
  BY InvariantStep
<1>. QED
  BY <1>1, <1>2, PTL DEF Spec

\* The model's variables have their types: the cursors stay in the block, the
\* stream and the payload.
THEOREM PayloadTypes == Spec => []TypeOK
<1>1. PackInv => TypeOK
  BY DEF PackInv
<1>. QED
  BY <1>1, PackInvHolds, PTL

\* However pushes of any sizes fall on the boundaries of blocks of any size, the
\* blocks are full and hold the stream.
THEOREM BlocksHoldTheStream == Spec => []ChainHoldsTheStream
<1>1. ASSUME PackInv
      PROVE  ChainHoldsTheStream
  <2>1. Written
    BY <1>1, TypeParts DEF PackInv, Written
  <2>2. ASSUME NEW p \in 1..len
        PROVE  ByteAt(p) = written[p]
    BY <2>1, ByteIs
  <2>. QED
    BY <2>1, <2>2 DEF ChainHoldsTheStream, Written, StreamInv
<1>. QED
  BY <1>1, PackInvHolds, PTL

\* An address of a table's tag stays one, whatever is pushed after it.
THEOREM AddressesStay == Spec => []AddressesKeepTheirTags
<1>1. ASSUME PackInv
      PROVE  AddressesKeepTheirTags
  <2>1. Written
    BY <1>1, TypeParts DEF PackInv, Written
  <2>2. ASSUME NEW a \in tags
        PROVE  /\ a.block \in DOMAIN chain /\ a.o \in DOMAIN chain[a.block]
               /\ a.at <= len => /\ chain[a.block][a.o] \in {Tag, Mark}
                                 /\ ByteAt(a.at) = chain[a.block][a.o]
    <3>1. /\ a.block \in 1..current /\ a.o \in Offsets /\ a.at = At(a.block, a.o)
          /\ a.at <= len => written[a.at] \in {Tag, Mark}
      BY <2>1 DEF Written, TagsInv
    <3>2. a.block \in DOMAIN chain /\ a.o \in DOMAIN chain[a.block]
      BY <2>1, <3>1, ChainTyped DEF Written, Blocks, Offsets
    <3>3. ASSUME a.at <= len
          PROVE  /\ chain[a.block][a.o] \in {Tag, Mark}
                 /\ ByteAt(a.at) = chain[a.block][a.o]
      <4>1. chain[a.block][a.o] = written[a.at]
        BY <2>1, <3>1, <3>3 DEF Written, StreamInv
      <4>2. a.at \in 1..len
        <5>1. a.block - 1 \in Nat /\ a.o \in Nat /\ BLOCK_SIZE \in Nat /\ len \in Nat
          BY <2>1, <3>1, ChainTyped, SizesAssumption DEF Written, ChainTypeOK, Offsets
        <5>2. (a.block - 1) * BLOCK_SIZE \in Nat
          BY <5>1
        <5>. QED
          BY <3>1, <3>3, <5>1, <5>2 DEF At
      <4>. QED
        BY <2>1, <3>1, <3>3, <4>1, <4>2, ByteIs
    <3>. QED
      BY <3>2, <3>3
  <2>. QED
    BY <2>2 DEF AddressesKeepTheirTags
<1>. QED
  BY <1>1, PackInvHolds, PTL

\* The reader is given the stream in the pieces that were pushed, and NULL only
\* behind the last of them.
THEOREM PiecesComeBack == Spec => []ReadsWhatWasPushed
<1>1. ASSUME PackInv
      PROVE  ReadsWhatWasPushed
  <2>1. PayloadInv /\ ReadInv /\ Len(got) \in Nat /\ Len(widths) \in Nat
    BY <1>1, TypeParts, LenProperties DEF PackInv, ReadTypeOK
  <2>2. \A k \in 1..Len(got) : k <= Len(widths) /\ Len(got[k]) = widths[k]
    BY <2>1 DEF ReadInv
  <2>. QED
    BY <2>1, <2>2 DEF ReadsWhatWasPushed, PayloadInv, ReadInv
<1>. QED
  BY <1>1, PackInvHolds, PTL

\* What is allocated is what is in use, at every step of a message's life.
THEOREM HeapStaysInUse == Spec => []HeapIsInUse
<1>1. PackInv => HeapIsInUse
  BY DEF PackInv
<1>. QED
  BY <1>1, PackInvHolds, PTL
==============================================================================

-------------------------------- MODULE Payload --------------------------------
(***************************************************************************)
(* A message's bytes below module Seri, and who owns them.  lua-seri.c     *)
(* writes the values into a chain of blocks, changes tags in it through    *)
(* addresses it kept, copies the blocks into one payload and frees them.   *)
(* A message_t carries the pointer to the receiver's inbox and Lua state,  *)
(* where the payload is read in pieces of the sizes written, and freed.    *)
(***************************************************************************)
EXTENDS Integers, Sequences

CONSTANTS
  BLOCK_SIZE,    \* bytes in a block (128)
  Bytes,         \* bytes other than the tag of a table
  Tag, Mark,     \* that tag, before and after change_mark
  Junk,          \* a byte of a block that was not written
  Chunks,        \* what one wb_push may be given
  MaxLen,        \* bound: bytes pushed in a behaviour
  MaxPushes      \* bound: calls of wb_push

ASSUME SizesAssumption == BLOCK_SIZE \in Nat \ {0} /\ MaxLen \in Nat /\ MaxPushes \in Nat
ASSUME BytesAssumption == Tag \notin Bytes \cup {Mark, Junk} /\ Mark # Junk
ASSUME ChunksAssumption == Chunks \subseteq Seq(Bytes)

\* Allocations besides blocks: the buffer of seri and the message_t.
PAYLOAD == 0
MESSAGE == -1

VARIABLES
  phase,    \* "pack", "tag" (an address was just taken), "push" (in wb_push),
            \* "flatten" (in seri), "free", "packed", "queued", "received",
            \* "read", "done"; or "refused", "raised", "rejected",
            \* "lost", "removed", "invalid"
  chain,    \* wb->head and the blocks behind it; the last is wb->current
  ptr,      \* wb->ptr
  len,      \* wb->len
  rest,     \* what wb_push has left to copy
  tags,     \* addresses of tags
  heap,     \* allocations: numbers of blocks, PAYLOAD, MESSAGE
  payload,  \* the bytes behind the length
  block,    \* seri: number of the block b
  rb_ptr,   \* rb->ptr
  got,      \* bytes read
  written,  \* the stream meant so far (not code)
  widths    \* sizes of the pushes (not code)

writer == <<chain, ptr, len, rest, tags>>
reader == <<rb_ptr, got>>
vars == <<phase, writer, heap, payload, block, reader, written, widths>>

BlankBlock == [o \in 0 .. BLOCK_SIZE - 1 |-> Junk]

\* wb_init; the first block is on the stack of seri_pack.
Init ==
  /\ phase = "pack"
  /\ chain = <<BlankBlock>>
  /\ ptr = 0
  /\ len = 0
  /\ rest = <<>>
  /\ tags = {}
  /\ heap = {}
  /\ payload = <<>>
  /\ block = 1
  /\ rb_ptr = 0
  /\ got = <<>>
  /\ written = <<>>
  /\ widths = <<>>

current == Len(chain)

\* memcpy(b->current->buffer + b->ptr, bs, Len(bs))
Copied(bs) ==
  [chain EXCEPT ![current] =
     [o \in DOMAIN @ |-> IF o \in ptr .. ptr + Len(bs) - 1 THEN bs[o - ptr + 1] ELSE @[o]]]

------------------------------------------------------------------------------
(* The writer.                                                              *)

\* wb_push begins.  After an address was taken it is given the tag.
Push(bs) ==
  /\ \/ phase = "pack" /\ bs \in Chunks
     \/ phase = "tag" /\ bs = <<Tag>>
  /\ Len(written) + Len(bs) <= MaxLen /\ Len(widths) < MaxPushes
  /\ phase' = "push"
  /\ rest' = bs
  /\ written' = written \o bs
  /\ widths' = Append(widths, Len(bs))
  /\ UNCHANGED <<chain, ptr, len, tags, heap, payload, block, reader>>

\* b->current = b->current->next = blk_alloc(), behind the given blocks.
NewBlock(blocks) ==
  /\ chain' = Append(blocks, BlankBlock)
  /\ heap' = heap \cup {current + 1}
  /\ ptr' = 0

PushFull ==
  /\ phase = "push"
  /\ ptr = BLOCK_SIZE
  /\ NewBlock(chain)
  /\ UNCHANGED <<phase, len, rest, tags, payload, block, reader, written, widths>>

Fits == ptr <= BLOCK_SIZE - Len(rest)

\* The rest fits: wb_push returns.
PushFits ==
  /\ phase = "push"
  /\ ptr < BLOCK_SIZE
  /\ Fits
  /\ chain' = Copied(rest)
  /\ ptr' = ptr + Len(rest)
  /\ len' = len + Len(rest)
  /\ rest' = <<>>
  /\ phase' = "pack"
  /\ UNCHANGED <<tags, heap, payload, block, reader, written, widths>>

\* Mutant: what did not fit in the block is not counted.
Count_last(n) == UNCHANGED len

\* b->len += copy
Count(n) == len' = len + n

\* The block takes a part of it.
PushSplit ==
  /\ phase = "push"
  /\ ptr < BLOCK_SIZE
  /\ ~Fits
  /\ LET copy == BLOCK_SIZE - ptr
     IN  /\ NewBlock(Copied(SubSeq(rest, 1, copy)))
         /\ Count(copy)
         /\ rest' = SubSeq(rest, copy + 1, Len(rest))
  /\ UNCHANGED <<phase, tags, payload, block, reader, written, widths>>

\* Mutant: an address behind the block when it is full.
wb_address_stays ==
  /\ tags' = tags \cup {[block |-> current, o |-> ptr, at |-> len + 1]}
  /\ UNCHANGED <<chain, ptr, heap>>

\* wb_address: where the next byte will be, in a fresh block if this one is full.
wb_address ==
  IF ptr = BLOCK_SIZE
  THEN /\ tags' = tags \cup {[block |-> current + 1, o |-> 0, at |-> len + 1]}
       /\ NewBlock(chain)
  ELSE /\ tags' = tags \cup {[block |-> current, o |-> ptr, at |-> len + 1]}
       /\ UNCHANGED <<chain, ptr, heap>>

\* mark_table, before the tag of the table is pushed.
TakeAddress ==
  /\ phase = "pack"
  /\ len < MaxLen /\ Len(widths) < MaxPushes
  /\ wb_address
  /\ phase' = "tag"
  /\ UNCHANGED <<len, rest, payload, block, reader, written, widths>>

\* change_mark, when a later value refers to the table.
change_mark(a) ==
  /\ phase = "pack"
  /\ a \in tags
  /\ chain' = [chain EXCEPT ![a.block][a.o] = Mark]
  /\ written' = [written EXCEPT ![a.at] = Mark]
  /\ UNCHANGED <<phase, ptr, len, rest, tags, heap, payload, block, reader, widths>>

\* Mutant: the loop ends one block early.
wb_free_early == heap' = heap \ (2 .. Len(chain) - 1)

\* wb_free: every block but the first.
wb_free == heap' = heap \ (2 .. Len(chain))

\* A value of an unsupported type: the blocks are freed, then the error raised.
Refuse ==
  /\ phase = "pack"
  /\ wb_free
  /\ phase' = "refused"
  /\ UNCHANGED <<writer, payload, block, reader, written, widths>>

\* Any other error, of a Lua function to be packed or of a __pairs metamethod,
\* leaves seri_pack at once.
Raise ==
  /\ phase = "pack"
  /\ phase' = "raised"
  /\ UNCHANGED <<writer, heap, payload, block, reader, written, widths>>

\* seri: the payload is allocated ...
Flatten ==
  /\ phase = "pack"
  /\ phase' = "flatten"
  /\ heap' = heap \cup {PAYLOAD}
  /\ UNCHANGED <<writer, payload, block, reader, written, widths>>

\* Bytes of the block b, up to the n-th.
Front(b, n) == [k \in 1..n |-> chain[b][k - 1]]

SeriBlock ==
  /\ payload' = payload \o Front(block, BLOCK_SIZE)
  /\ block' = block + 1

\* ... and filled block by block; seri_pack frees the blocks.
Seri ==
  /\ phase = "flatten"
  /\ LET n == len - Len(payload)
     IN  \/ /\ n >= BLOCK_SIZE
            /\ SeriBlock
            /\ UNCHANGED phase
         \/ /\ n < BLOCK_SIZE
            /\ payload' = payload \o Front(block, n)
            /\ phase' = "free"
            /\ UNCHANGED block
  /\ UNCHANGED <<writer, heap, reader, written, widths>>

Free ==
  /\ phase = "free"
  /\ wb_free
  /\ phase' = "packed"
  /\ UNCHANGED <<writer, payload, block, reader, written, widths>>

------------------------------------------------------------------------------
(* The way to the receiver.                                                 *)

bytes == <<writer, payload, block, reader, written, widths>>

\* lservice_send_message, to an id that is no number: compose_message raises.
SendRaises ==
  /\ phase = "packed"
  /\ phase' = "rejected"
  /\ UNCHANGED <<heap, bytes>>

\* compose_message and message_new; the push is accepted or, unnoticed, not.
SendMessage ==
  /\ phase = "packed"
  /\ heap' = heap \cup {MESSAGE}
  /\ phase' \in {"queued", "lost"}
  /\ UNCHANGED bytes

\* lservice_recv_message: the payload's pointer goes to Lua.
RecvMessage ==
  /\ phase = "queued"
  /\ phase' = "received"
  /\ UNCHANGED <<heap, bytes>>

\* luaseri_unpack_remove, of a request or an awaited response ...
Unpack ==
  /\ phase = "received"
  /\ phase' = "read"
  /\ UNCHANGED <<heap, bytes>>

\* ... or luaseri_remove, of another response.
Remove ==
  /\ phase = "received"
  /\ phase' = "removed"
  /\ heap' = heap \ {PAYLOAD}
  /\ UNCHANGED bytes

------------------------------------------------------------------------------
(* The reader.  Every value is read in pieces of the sizes it was written.  *)

\* Sizes the pushes still to be read had, and the type byte that is tried last.
Widths == Append(widths, 1)
\* The number of rb_read calls that returned is kept in the domain of got.
sz == Widths[Len(got) + 1]

\* Mutant: one byte is held back.
Remains_short == Len(payload) - rb_ptr - 1
Remains == Len(payload) - rb_ptr   \* rb->len

\* rb_read returns a pointer to sz bytes.
Read ==
  /\ phase = "read"
  /\ Remains >= sz
  /\ got' = Append(got, SubSeq(payload, rb_ptr + 1, rb_ptr + sz))
  /\ rb_ptr' = rb_ptr + sz
  /\ UNCHANGED <<phase, writer, heap, payload, block, written, widths>>

\* seri_unpackptr frees the payload, however the reading ended.
ReadEnds(how) ==
  /\ phase = "read"
  /\ phase' = how
  /\ heap' = heap \ {PAYLOAD}
  /\ UNCHANGED bytes

\* rb_read returns NULL: seri_unpack ends, or raises an error if it was in the
\* middle of a value.
ReadNull == Remains < sz /\ ReadEnds("done")

\* A reference that unpack_ref refuses raises an error before the end.
ReadRaises == got # <<>> /\ ReadEnds("invalid")

------------------------------------------------------------------------------

Next ==
  \/ \E bs \in Chunks \cup {<<Tag>>} : Push(bs)
  \/ PushFull
  \/ PushFits
  \/ PushSplit
  \/ TakeAddress
  \/ \E a \in tags : change_mark(a)
  \/ Refuse
  \/ Raise
  \/ Flatten
  \/ Seri
  \/ Free
  \/ SendRaises
  \/ SendMessage
  \/ RecvMessage
  \/ Unpack
  \/ Remove
  \/ Read
  \/ ReadNull
  \/ ReadRaises

Spec == Init /\ [][Next]_vars

------------------------------------------------------------------------------
(* Properties.                                                              *)

AnyByte == Bytes \cup {Tag, Mark, Junk}
Blocks == [0 .. BLOCK_SIZE - 1 -> AnyByte]

\* The variables have the types of the C declarations; the cursors stay in the
\* block and the stream.
TypeOK ==
  /\ phase \in {"pack", "tag", "push", "flatten", "free", "packed", "queued",
                "received", "read", "done", "removed", "refused", "raised", "rejected", "lost",
                "invalid"}
  /\ chain \in Seq(Blocks) /\ chain # <<>>
  /\ ptr \in 0..BLOCK_SIZE
  /\ len \in 0..MaxLen
  /\ rest \in Seq(AnyByte)
  /\ tags \subseteq [block : Nat, o : Nat, at : Nat]
  /\ heap \subseteq Nat \cup {MESSAGE}
  /\ payload \in Seq(AnyByte)
  /\ block \in Nat
  /\ rb_ptr \in 0..Len(payload)
  /\ got \in Seq(Seq(AnyByte))
  /\ written \in Seq(AnyByte)
  /\ widths \in Seq(Nat)

\* Byte number p of the stream, in the chain.
ByteAt(p) == chain[(p - 1) \div BLOCK_SIZE + 1][(p - 1) % BLOCK_SIZE]

\* However pushes fall on block boundaries, every block but the last is full and
\* the blocks hold the stream: seri, which relies on both, copies len bytes of it.
ChainHoldsTheStream ==
  /\ len + Len(rest) = Len(written)
  /\ len = (current - 1) * BLOCK_SIZE + ptr
  /\ \A p \in 1..len : ByteAt(p) = written[p]

\* An address kept since a table was begun still is, blocks later, the address
\* of that table's tag, so that change_mark changes it and its assert holds.
AddressesKeepTheirTags ==
  \A a \in tags :
    /\ a.block \in DOMAIN chain /\ a.o \in DOMAIN chain[a.block]
    /\ a.at <= len => /\ chain[a.block][a.o] \in {Tag, Mark}
                      /\ ByteAt(a.at) = chain[a.block][a.o]

\* The payload is the stream, with the tags as they were changed last.  The
\* reader gets the pieces that were pushed, and NULL only behind the last: it
\* never ends in the middle of a value.
ReadsWhatWasPushed ==
  /\ phase \in {"free", "packed", "read", "done"} => payload = written
  /\ \A k \in 1..Len(got) : k <= Len(widths) /\ Len(got[k]) = widths[k]
  /\ phase = "done" => Len(got) = Len(widths)

\* What is allocated is what is in use: nothing is used after it was freed, and
\* this is all that is never freed: the message_t of every message, the payload
\* of one the inbox refused or that had no receiver, and the blocks of a writer
\* stopped by another error than that of an unsupported type.
HeapIsInUse ==
  heap = CASE phase \in {"pack", "tag", "push", "raised"} -> 2..Len(chain)
           [] phase \in {"flatten", "free"} -> {PAYLOAD} \cup (2..Len(chain))
           [] phase \in {"packed", "rejected"} -> {PAYLOAD}
           [] phase \in {"queued", "lost", "received", "read"} -> {PAYLOAD, MESSAGE}
           [] phase \in {"done", "removed", "invalid"} -> {MESSAGE}
           [] phase = "refused" -> {}
==============================================================================

-------------------------------- MODULE Queue --------------------------------
(***************************************************************************)
(* The inbox of a service: the lock-free ring buffer of src/src/queue.c,   *)
(* at the granularity of its memory accesses.  head and tail are           *)
(* sequentially consistent atomics, data is plain memory.  Every load,     *)
(* store and assert of queue_push_ptr, queue_pop_ptr and queue_length is   *)
(* one step; what a thread computes on its locals between two of them is   *)
(* folded into the step.                                                   *)
(*                                                                         *)
(* Writers is the set of threads that call queue_push_ptr.  The code is    *)
(* written for one ("Allow only one reader and one writer"); service_send  *)
(* calls it from every thread that sends to the service, without a lock.   *)
(* There is one reader, the service's own thread.                          *)
(***************************************************************************)
EXTENDS Integers, Sequences

CONSTANTS
  Writers,   \* threads that push
  Values,    \* messages that may be pushed: non-NULL pointers
  Size,      \* q->size, _SERVICE_MQ_DEF_SIZE_ in service.c
  Null       \* NULL; also the content of a slot never written (malloc)

\* queue_new asserts that the size is a power of two.
ASSUME SizeAssumption ==
  /\ Size \in Nat \ {0}
  /\ \E k \in 0..30 : Size = 2^k

\* queue_push_ptr asserts that the pushed pointer is not NULL.
ASSUME NullAssumption == Null \notin Values

VARIABLES
  head,      \* q->head: slot of the oldest message
  tail,      \* q->tail: slot the next message goes to
  data,      \* q->data
  aborted,   \* an assert failed: the process is gone
  wpc,       \* per writer: where it is in queue_push_ptr
  wval,      \* per writer: the argument v
  wtail,     \* per writer: the local tail
  result,    \* per writer: what its last queue_push_ptr returned
  rpc,       \* where the reader is in queue_pop_ptr or queue_length
  rhead,     \* the reader's local head
  rval,      \* the reader's local v
  taken,     \* what the reader's last queue_pop_ptr returned
  rtail,     \* queue_length: the loaded tail
  len        \* what the reader's last queue_length returned

ring    == <<head, tail, data>>
writer  == <<wpc, wval, wtail, result>>
popper  == <<rhead, rval, taken>>
measure == <<rtail, len>>
vars    == <<head, tail, data, aborted, wpc, wval, wtail, result,
             rpc, rhead, rval, taken, rtail, len>>

Slots == 0..(Size - 1)

\* Mutant: the mask is forgotten.
queue_position_unmasked(p) == p

\* p & (size - 1) for a size that is a power of two.
queue_position(p) == p % Size

Init ==
  /\ head = 0
  /\ tail = 0
  /\ data = [i \in Slots |-> Null]
  /\ aborted = FALSE
  /\ wpc = [w \in Writers |-> "idle"]
  /\ wval = [w \in Writers |-> Null]
  /\ wtail = [w \in Writers |-> 0]
  /\ result = [w \in Writers |-> "none"]
  /\ rpc = "idle"
  /\ rhead = 0
  /\ rval = Null
  /\ taken = Null
  /\ rtail = 0
  /\ len = 0

------------------------------------------------------------------------------
(* queue_push_ptr(q, v), called by writer w.                                *)

WriterAt(w, from, to) ==
  /\ ~aborted
  /\ wpc[w] = from
  /\ wpc' = [wpc EXCEPT ![w] = to]

\* queue_push_open: the load of q->tail.
PushLoadTail(w, v) ==
  /\ WriterAt(w, "idle", "open")
  /\ wval' = [wval EXCEPT ![w] = v]
  /\ wtail' = [wtail EXCEPT ![w] = tail]
  /\ UNCHANGED <<ring, aborted, result, rpc, popper, measure>>

\* Mutants: a slot more is kept free; the ring is never found full.
Full_early(w) == queue_position(wtail[w] + 2) = head
Full_never(w) == FALSE

\* queue_push_open: the condition on the loaded head.
Full(w) == queue_position(wtail[w] + 1) = head

\* queue_push_open: the load of q->head finds the ring full, push returns 1.
PushFull(w) ==
  /\ WriterAt(w, "open", "done")
  /\ Full(w)
  /\ result' = [result EXCEPT ![w] = "full"]
  /\ UNCHANGED <<ring, aborted, wval, wtail, rpc, popper, measure>>

\* queue_push_open: the load of q->head finds room.
PushRoom(w) ==
  /\ WriterAt(w, "open", "write")
  /\ ~Full(w)
  /\ UNCHANGED <<ring, aborted, wval, wtail, result, rpc, popper, measure>>

\* Mutants: data[tail + 1] = v, and data[tail++] = v.
PushWrite_beyond(w) ==
  /\ WriterAt(w, "write", "check")
  /\ data' = [data EXCEPT ![queue_position(wtail[w] + 1)] = wval[w]]
  /\ UNCHANGED <<head, tail, aborted, wval, wtail, result, rpc, popper, measure>>

PushWrite_increment(w) ==
  /\ WriterAt(w, "write", "check")
  /\ data' = [data EXCEPT ![wtail[w]] = wval[w]]
  /\ wtail' = [wtail EXCEPT ![w] = queue_position(@ + 1)]
  /\ UNCHANGED <<head, tail, aborted, wval, result, rpc, popper, measure>>

\* data[tail] = v
PushWrite(w) ==
  /\ WriterAt(w, "write", "check")
  /\ data' = [data EXCEPT ![wtail[w]] = wval[w]]
  /\ UNCHANGED <<head, tail, aborted, wval, wtail, result, rpc, popper, measure>>

\* queue_push_close: assert(atomic_int_load(&q->tail) == tail)
PushAssert(w) ==
  /\ WriterAt(w, "check", "store")
  /\ aborted' = (tail # wtail[w])
  /\ UNCHANGED <<ring, wval, wtail, result, rpc, popper, measure>>

\* queue_push_close: the store of q->tail; push returns 0.
PushStore(w) ==
  /\ WriterAt(w, "store", "done")
  /\ tail' = queue_position(wtail[w] + 1)
  /\ result' = [result EXCEPT ![w] = "ok"]
  /\ UNCHANGED <<head, data, aborted, wval, wtail, rpc, popper, measure>>

PushReturn(w) ==
  /\ WriterAt(w, "done", "idle")
  /\ UNCHANGED <<ring, aborted, wval, wtail, result, rpc, popper, measure>>

Push(w) ==
  \/ \E v \in Values : PushLoadTail(w, v)
  \/ PushFull(w)
  \/ PushRoom(w)
  \/ PushWrite(w)
  \/ PushAssert(w)
  \/ PushStore(w)

------------------------------------------------------------------------------
(* queue_pop_ptr(q) and queue_length(q), called by the reader.              *)

ReaderAt(from, to) ==
  /\ ~aborted
  /\ rpc = from
  /\ rpc' = to

\* queue_pop_open: the load of q->head.
PopLoadHead ==
  /\ ReaderAt("idle", "open")
  /\ rhead' = head
  /\ UNCHANGED <<ring, aborted, writer, rval, taken, measure>>

\* queue_pop_open: the load of q->tail finds the ring empty, pop returns NULL.
PopEmpty ==
  /\ ReaderAt("open", "done")
  /\ rhead = tail
  /\ taken' = Null
  /\ UNCHANGED <<ring, aborted, writer, rhead, rval, measure>>

\* queue_pop_open: the load of q->tail finds a message.
PopSome ==
  /\ ReaderAt("open", "read")
  /\ rhead # tail
  /\ UNCHANGED <<ring, aborted, writer, popper, measure>>

\* v = data[head]
PopRead ==
  /\ ReaderAt("read", "check")
  /\ rval' = data[rhead]
  /\ UNCHANGED <<ring, aborted, writer, rhead, taken, measure>>

\* queue_pop_close: assert(atomic_int_load(&q->head) == head)
PopAssert ==
  /\ ReaderAt("check", "store")
  /\ aborted' = (head # rhead)
  /\ UNCHANGED <<ring, writer, popper, measure>>

\* Mutant: the head stays.
PopStore_without_store ==
  /\ ReaderAt("store", "done")
  /\ taken' = rval
  /\ UNCHANGED <<ring, aborted, writer, rhead, rval, measure>>

\* queue_pop_close: the store of q->head; pop returns v.
PopStore ==
  /\ ReaderAt("store", "done")
  /\ head' = queue_position(rhead + 1)
  /\ taken' = rval
  /\ UNCHANGED <<tail, data, aborted, writer, rhead, rval, measure>>

PopReturn ==
  /\ ReaderAt("done", "idle")
  /\ UNCHANGED <<ring, aborted, writer, popper, measure>>

Pop ==
  \/ PopLoadHead
  \/ PopEmpty
  \/ PopSome
  \/ PopRead
  \/ PopAssert
  \/ PopStore

\* queue_length: the load of q->tail.
LengthLoadTail ==
  /\ ReaderAt("idle", "length")
  /\ rtail' = tail
  /\ UNCHANGED <<ring, aborted, writer, popper, len>>

\* The messages between two positions of the ring, as queue_length counts them.
Distance(from, to) == IF to - from < 0 THEN to - from + Size ELSE to - from

\* Mutant: length <= 0 instead of length < 0.
LengthLoadHead_empty_is_full ==
  /\ ReaderAt("length", "measured")
  /\ len' = IF rtail - head <= 0 THEN rtail - head + Size ELSE rtail - head
  /\ UNCHANGED <<ring, aborted, writer, popper, rtail>>

\* queue_length: the load of q->head, and the result.
LengthLoadHead ==
  /\ ReaderAt("length", "measured")
  /\ len' = Distance(head, rtail)
  /\ UNCHANGED <<ring, aborted, writer, popper, rtail>>

LengthReturn ==
  /\ ReaderAt("measured", "idle")
  /\ UNCHANGED <<ring, aborted, writer, popper, measure>>

Length ==
  \/ LengthLoadTail
  \/ LengthLoadHead

------------------------------------------------------------------------------

Next ==
  \/ \E w \in Writers : Push(w) \/ PushReturn(w)
  \/ Pop \/ PopReturn
  \/ Length \/ LengthReturn

Spec == Init /\ [][Next]_vars

------------------------------------------------------------------------------
\* The messages in the ring, oldest first.
Occupied    == Distance(head, tail)
SlotOf(i)   == IF head + i < Size THEN head + i ELSE head + i - Size
Contents    == [i \in 1..Occupied |-> data[SlotOf(i - 1)]]

------------------------------------------------------------------------------
(* Properties.                                                              *)

WriterStates == {"idle", "open", "write", "check", "store", "done"}
ReaderStates == {"idle", "open", "read", "check", "store", "done",
                 "length", "measured"}

\* The variables have the types the C declarations and the pcs give them.
TypeOK ==
  /\ head \in Slots
  /\ tail \in Slots
  /\ data \in [Slots -> Values \cup {Null}]
  /\ aborted \in BOOLEAN
  /\ wpc \in [Writers -> WriterStates]
  /\ wval \in [Writers -> Values \cup {Null}]
  /\ wtail \in [Writers -> Slots]
  /\ result \in [Writers -> {"none", "ok", "full"}]
  /\ rpc \in ReaderStates
  /\ rhead \in Slots
  /\ rval \in Values \cup {Null}
  /\ taken \in Values \cup {Null}
  /\ rtail \in Slots
  /\ len \in 0..(Size - 1)

\* The asserts of queue_push_close ("Allow only one writer") and of
\* queue_pop_close ("Allow only one reader") never fail.
NoAbort == ~aborted

\* data is plain memory: the write of a slot in queue_push_ptr and the read of
\* a slot in queue_pop_ptr, or two writes, are never both next on one slot.
NoSlotRace ==
  /\ \A w \in Writers :
       (wpc[w] = "write" /\ rpc = "read") => wtail[w] # rhead
  /\ \A w, x \in Writers :
       (w # x /\ wpc[w] = "write" /\ wpc[x] = "write") => wtail[w] # wtail[x]

\* The length the reader is told never exceeds what it can pop, whatever is
\* pushed meanwhile: service_recv relies on it when it pops on length > 0.
LengthIsSafe == rpc = "measured" => len <= Occupied

\* The ring buffer implements the mailbox: accepted messages come out once, in
\* order, a push is refused only when the ring holds Size - 1 messages, and a
\* pop returns NULL only when there is none.
Box == INSTANCE Mailbox WITH Capacity <- Size - 1, inbox <- Contents
ImplementsMailbox == Box!Spec

\* A push that reports success (queue.h: "0 succ") has added its message to the
\* ring and disturbed no other.
SuccessMeansQueued ==
  [][\A w \in Writers :
       (wpc[w] = "store" /\ wpc'[w] = "done")
         => Contents' = Append(Contents, wval[w])]_vars

------------------------------------------------------------------------------
(* The inductive invariant of the one-writer ring.                          *)

\* A writer past its loads still sees the tail it loaded and a free slot, and
\* once written that slot holds its message.
WriterInv(w) ==
  /\ wpc[w] \in {"open", "write", "check", "store"} =>
       /\ wtail[w] = tail
       /\ wval[w] \in Values
  /\ wpc[w] \in {"write", "check", "store"} => queue_position(tail + 1) # head
  /\ wpc[w] \in {"check", "store"} => data[tail] = wval[w]

\* The reader past its loads still sees the head it loaded and a message there,
\* which is the one it has read; a length it measures is never an overestimate.
ReaderInv ==
  /\ rpc \in {"open", "read", "check", "store"} => rhead = head
  /\ rpc \in {"read", "check", "store"} => head # tail
  /\ rpc \in {"check", "store"} => rval = data[head]
  /\ rpc = "length" => Distance(head, rtail) <= Occupied
  /\ rpc = "measured" => len <= Occupied

\* What every step of the ring preserves when only one thread pushes: no assert
\* has failed, and both threads' locals agree with the shared ring.
Inv ==
  /\ ~aborted
  /\ \A w \in Writers : WriterInv(w)
  /\ ReaderInv
==============================================================================

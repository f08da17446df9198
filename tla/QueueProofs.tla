----------------------------- MODULE QueueProofs -----------------------------
(***************************************************************************)
(* Proofs about the ring buffer, for every size and every set of messages. *)
(* Type correctness holds for any number of writers; everything else needs *)
(* the one writer the code asks for, stated as SingleWriter.               *)
(***************************************************************************)
EXTENDS Queue, SequenceTheorems, TLAPS

\* "Allow only one reader and one writer" (src/src/queue.h).
SingleWriter == \A w, x \in Writers : w = x

------------------------------------------------------------------------------

\* What the proofs use of the size.
LEMMA SizePositive == Size \in Nat \ {0}
BY SizeAssumption

\* The two values of a remainder the wrap-around of the ring needs.
LEMMA Remainder ==
  ASSUME NEW n \in Nat \ {0}
  PROVE  /\ n % n = 0
         /\ \A p \in 0..(n - 1) : p % n = p
OBVIOUS

\* queue_position advances a slot by one and wraps at the end of the ring.
LEMMA PositionWraps ==
  ASSUME NEW p \in Slots
  PROVE  /\ queue_position(p + 1) = IF p + 1 = Size THEN 0 ELSE p + 1
         /\ queue_position(p + 1) \in Slots
<1>1. p + 1 # Size => p + 1 \in 0..(Size - 1)
  BY SizePositive DEF Slots
<1>. QED
  BY <1>1, SizePositive, Remainder DEF Slots, queue_position

\* The ring holds at most Size - 1 messages, none exactly when head and tail
\* meet, and Size - 1 exactly when the slot after tail is head.
LEMMA DistanceBounds ==
  ASSUME NEW h \in Slots, NEW t \in Slots
  PROVE  /\ Distance(h, t) \in 0..(Size - 1)
         /\ Distance(h, t) = 0 <=> h = t
         /\ Distance(h, t) = Size - 1 <=> queue_position(t + 1) = h
BY PositionWraps, SizePositive DEF Distance, Slots

\* The variables keep their types, whatever the number of writers.
THEOREM TypeCorrect == Spec => []TypeOK
<1>1. Init => TypeOK
  <2>1. 0 \in Slots /\ 0 \in 0..(Size - 1)
    BY SizePositive DEF Slots
  <2>. QED
    BY <2>1 DEF Init, TypeOK, WriterStates, ReaderStates
<1>2. TypeOK /\ [Next]_vars => TypeOK'
  <2> SUFFICES ASSUME TypeOK, [Next]_vars
               PROVE  TypeOK'
    OBVIOUS
  <2> USE DEF TypeOK, WriterStates, ReaderStates, WriterAt, ReaderAt, ring,
              writer, popper, measure
  <2>1. ASSUME NEW w \in Writers, NEW v \in Values, PushLoadTail(w, v)
        PROVE  TypeOK'
    BY <2>1 DEF PushLoadTail
  <2>2. ASSUME NEW w \in Writers, PushFull(w)
        PROVE  TypeOK'
    BY <2>2 DEF PushFull, Full
  <2>3. ASSUME NEW w \in Writers, PushRoom(w)
        PROVE  TypeOK'
    BY <2>3 DEF PushRoom, Full
  <2>4. ASSUME NEW w \in Writers, PushWrite(w)
        PROVE  TypeOK'
    BY <2>4 DEF PushWrite
  <2>5. ASSUME NEW w \in Writers, PushAssert(w)
        PROVE  TypeOK'
    BY <2>5 DEF PushAssert
  <2>6. ASSUME NEW w \in Writers, PushStore(w)
        PROVE  TypeOK'
    BY <2>6, PositionWraps DEF PushStore
  <2>7. ASSUME NEW w \in Writers, PushReturn(w)
        PROVE  TypeOK'
    BY <2>7 DEF PushReturn
  <2>8. CASE PopLoadHead
    BY <2>8 DEF PopLoadHead
  <2>9. CASE PopEmpty
    BY <2>9 DEF PopEmpty
  <2>10. CASE PopSome
    BY <2>10 DEF PopSome
  <2>11. CASE PopRead
    BY <2>11 DEF PopRead
  <2>12. CASE PopAssert
    BY <2>12 DEF PopAssert
  <2>13. CASE PopStore
    BY <2>13, PositionWraps DEF PopStore
  <2>14. CASE PopReturn
    BY <2>14 DEF PopReturn
  <2>15. CASE LengthLoadTail
    BY <2>15 DEF LengthLoadTail
  <2>16. CASE LengthLoadHead
    BY <2>16, DistanceBounds DEF LengthLoadHead
  <2>17. CASE LengthReturn
    BY <2>17 DEF LengthReturn
  <2>18. CASE UNCHANGED vars
    BY <2>18 DEF vars
  <2>. QED
    BY <2>1, <2>2, <2>3, <2>4, <2>5, <2>6, <2>7, <2>8, <2>9, <2>10, <2>11,
       <2>12, <2>13, <2>14, <2>15, <2>16, <2>17, <2>18
       DEF Next, Push, Pop, Length
<1>. QED
  BY <1>1, <1>2, PTL DEF Spec

------------------------------------------------------------------------------

\* One writer's steps, and the reader's, preserve the inductive invariant.
LEMMA InvStep ==
  ASSUME SingleWriter, TypeOK, Inv, [Next]_vars
  PROVE  Inv'
<1> USE DEF TypeOK, WriterStates, ReaderStates, WriterAt, ReaderAt, ring,
            writer, popper, measure, Inv, WriterInv, ReaderInv, Occupied
<1>1. ASSUME NEW w \in Writers, NEW v \in Values, PushLoadTail(w, v)
      PROVE  Inv'
  BY <1>1 DEF PushLoadTail, SingleWriter
<1>2. ASSUME NEW w \in Writers, PushFull(w)
      PROVE  Inv'
  BY <1>2 DEF PushFull, Full
<1>3. ASSUME NEW w \in Writers, PushRoom(w)
      PROVE  Inv'
  BY <1>3 DEF PushRoom, Full
<1>4. ASSUME NEW w \in Writers, PushWrite(w)
      PROVE  Inv'
  <2>1. \A x \in Writers : WriterInv(x)'
    BY <1>4 DEF PushWrite, SingleWriter
  <2>2. ReaderInv'
    BY <1>4 DEF PushWrite
  <2>. QED
    BY <1>4, <2>1, <2>2 DEF PushWrite
<1>5. ASSUME NEW w \in Writers, PushAssert(w)
      PROVE  Inv'
  BY <1>5 DEF PushAssert
<1>6. ASSUME NEW w \in Writers, PushStore(w)
      PROVE  Inv'
  <2>1. \A x \in Writers : WriterInv(x)'
    BY <1>6 DEF PushStore, SingleWriter
  <2>2. /\ tail' = IF tail + 1 = Size THEN 0 ELSE tail + 1
        /\ tail' # head
    BY <1>6, PositionWraps DEF PushStore
  <2>3. Distance(head, tail') = Distance(head, tail) + 1
    BY <2>2, SizePositive DEF Distance, Slots
  <2>4. ReaderInv'
    BY <1>6, <2>2, <2>3, DistanceBounds DEF PushStore
  <2>. QED
    BY <1>6, <2>1, <2>4 DEF PushStore
<1>7. ASSUME NEW w \in Writers, PushReturn(w)
      PROVE  Inv'
  BY <1>7 DEF PushReturn
<1>8. CASE PopLoadHead
  BY <1>8 DEF PopLoadHead
<1>9. CASE PopEmpty
  BY <1>9 DEF PopEmpty
<1>10. CASE PopSome
  BY <1>10 DEF PopSome
<1>11. CASE PopRead
  BY <1>11 DEF PopRead
<1>12. CASE PopAssert
  BY <1>12 DEF PopAssert
<1>13. CASE PopStore
  <2>1. /\ head' = IF head + 1 = Size THEN 0 ELSE head + 1
        /\ head' \in Slots
    BY <1>13, PositionWraps DEF PopStore
  <2>2. head # tail /\ UNCHANGED tail
    BY <1>13 DEF PopStore
  <2>3. queue_position(tail + 1) = IF tail + 1 = Size THEN 0 ELSE tail + 1
    BY PositionWraps
  <2>4. queue_position(tail + 1) # head'
    BY <2>1, <2>2, <2>3, SizePositive DEF Slots
  <2>. QED
    BY <1>13, <2>2, <2>4 DEF PopStore
<1>14. CASE PopReturn
  BY <1>14 DEF PopReturn
<1>15. CASE LengthLoadTail
  BY <1>15, DistanceBounds DEF LengthLoadTail
<1>16. CASE LengthLoadHead
  BY <1>16 DEF LengthLoadHead
<1>17. CASE LengthReturn
  BY <1>17 DEF LengthReturn
<1>18. CASE UNCHANGED vars
  BY <1>18 DEF vars
<1>. QED
  BY <1>1, <1>2, <1>3, <1>4, <1>5, <1>6, <1>7, <1>8, <1>9, <1>10, <1>11,
     <1>12, <1>13, <1>14, <1>15, <1>16, <1>17, <1>18
     DEF Next, Push, Pop, Length

\* With one writer the inductive invariant holds in every reachable state.
THEOREM InvHolds ==
  ASSUME SingleWriter
  PROVE  Spec => []Inv
<1>1. Init => Inv
  BY DEF Init, Inv, WriterInv, ReaderInv
<1>2. TypeOK /\ Inv /\ [Next]_vars => Inv'
  BY InvStep
<1>. QED
  BY <1>1, <1>2, TypeCorrect, PTL DEF Spec

\* With one writer the asserts of queue_push_close and queue_pop_close never
\* fail.
THEOREM AssertsHold ==
  ASSUME SingleWriter
  PROVE  Spec => []NoAbort
<1>1. Inv => NoAbort
  BY DEF Inv, NoAbort
<1>. QED
  BY <1>1, InvHolds, PTL

\* With one writer a slot is never written while it is read or written.
THEOREM SlotsDoNotRace ==
  ASSUME SingleWriter
  PROVE  Spec => []NoSlotRace
<1>1. TypeOK /\ Inv => NoSlotRace
  <2> SUFFICES ASSUME TypeOK, Inv
               PROVE  NoSlotRace
    OBVIOUS
  <2>1. ASSUME NEW w \in Writers, wpc[w] = "write", rpc = "read"
        PROVE  wtail[w] # rhead
    BY <2>1 DEF Inv, WriterInv, ReaderInv
  <2>. QED
    BY <2>1 DEF NoSlotRace, SingleWriter
<1>. QED
  BY <1>1, TypeCorrect, InvHolds, PTL

\* With one writer the length the reader is told is never more than it can pop.
THEOREM LengthIsNeverTooLong ==
  ASSUME SingleWriter
  PROVE  Spec => []LengthIsSafe
<1>1. Inv => LengthIsSafe
  BY DEF Inv, ReaderInv, LengthIsSafe
<1>. QED
  BY <1>1, InvHolds, PTL

------------------------------------------------------------------------------

\* The slots of the ring in order: Occupied of them hold a message, tail is the
\* next one and none of the first Occupied is tail.
LEMMA SlotOrder ==
  ASSUME TypeOK
  PROVE  /\ Occupied \in 0..(Size - 1)
         /\ \A i \in 0..Occupied : SlotOf(i) \in Slots
         /\ \A i \in 0..(Occupied - 1) : SlotOf(i) # tail
         /\ SlotOf(0) = head
         /\ SlotOf(Occupied) = tail
BY SizePositive DEF TypeOK, Occupied, Distance, SlotOf, Slots

\* The mailbox content as a sequence.
LEMMA ContentsSeq ==
  ASSUME TypeOK
  PROVE  /\ Contents \in Seq(Values \cup {Null})
         /\ Len(Contents) = Occupied
         /\ \A i \in 1..Occupied : Contents[i] = data[SlotOf(i - 1)]
<1>1. Occupied \in Nat
  BY SlotOrder
<1>2. \A i \in 1..Occupied : data[SlotOf(i - 1)] \in Values \cup {Null}
  <2> TAKE i \in 1..Occupied
  <2>1. i - 1 \in 0..Occupied
    BY <1>1
  <2>. QED
    BY <2>1, SlotOrder DEF TypeOK
<1>. QED
  BY <1>1, <1>2 DEF Contents

\* A step that leaves the ring alone leaves the mailbox alone.
LEMMA ContentsUnchanged ==
  UNCHANGED ring => UNCHANGED Contents
BY DEF ring, Contents, Occupied, SlotOf, Distance

\* The store of the tail appends the writer's message.
LEMMA StoreAppends ==
  ASSUME TypeOK, Inv, NEW w \in Writers, PushStore(w)
  PROVE  /\ Occupied < Size - 1
         /\ Contents' = Append(Contents, data[tail])
<1> DEFINE n == Occupied
<1>1. /\ wpc[w] = "store"
      /\ tail' = queue_position(wtail[w] + 1)
      /\ UNCHANGED <<head, data>>
  BY DEF PushStore, WriterAt
<1>2. /\ tail' = IF tail + 1 = Size THEN 0 ELSE tail + 1
      /\ queue_position(tail + 1) # head
      /\ tail' # head
  BY <1>1, PositionWraps DEF Inv, WriterInv, TypeOK
<1>3. n \in 0..(Size - 1) /\ n # Size - 1
  BY <1>2, DistanceBounds, SlotOrder DEF Occupied, TypeOK
<1>4. Occupied' = n + 1
  BY <1>1, <1>2, SizePositive DEF Occupied, Distance, Slots, TypeOK
<1>5. Contents' = [i \in 1..(n + 1) |-> data[SlotOf(i - 1)]]
  BY <1>1, <1>4 DEF Contents, SlotOf
<1>6. data[tail] = data[SlotOf((n + 1) - 1)]
  BY <1>3, SlotOrder
<1>7. [i \in 1..(n + 1) |-> data[SlotOf(i - 1)]] = Append(Contents, data[tail])
  <2> DEFINE f == [i \in 1..(n + 1) |-> data[SlotOf(i - 1)]]
  <2>1. Append(Contents, data[tail])
          = [i \in 1..(n + 1) |-> IF i = n + 1 THEN data[tail] ELSE Contents[i]]
    BY <1>3, ContentsSeq, AppendProperties
  <2>2. \A i \in 1..(n + 1) :
          f[i] = IF i = n + 1 THEN data[tail] ELSE Contents[i]
    BY <1>3, <1>6, ContentsSeq
  <2>. QED
    BY <2>1, <2>2
<1>8. Occupied < Size - 1
  BY <1>3, SizePositive
<1>. QED
  BY <1>5, <1>7, <1>8

\* The write of a slot does not touch a message in the ring.
LEMMA WriteKeepsContents ==
  ASSUME TypeOK, Inv, NEW w \in Writers, PushWrite(w)
  PROVE  UNCHANGED Contents
<1>1. /\ data' = [data EXCEPT ![tail] = wval[w]]
      /\ UNCHANGED <<head, tail>>
  BY DEF PushWrite, WriterAt, Inv, WriterInv
<1>2. /\ UNCHANGED Occupied
      /\ \A i : SlotOf(i)' = SlotOf(i)
  BY <1>1 DEF Occupied, Distance, SlotOf
<1>3. \A i \in 1..Occupied : data'[SlotOf(i - 1)] = data[SlotOf(i - 1)]
  <2> TAKE i \in 1..Occupied
  <2>1. i - 1 \in 0..(Occupied - 1)
    BY SlotOrder
  <2>2. SlotOf(i - 1) \in Slots /\ SlotOf(i - 1) # tail
    BY <2>1, SlotOrder
  <2>. QED
    BY <1>1, <2>2 DEF TypeOK
<1>. QED
  BY <1>1, <1>2, <1>3 DEF Contents

\* The store of the head takes the oldest message.
LEMMA StoreTakes ==
  ASSUME TypeOK, Inv, PopStore
  PROVE  /\ Contents # <<>>
         /\ taken' = Head(Contents)
         /\ Contents' = Tail(Contents)
<1> DEFINE n == Occupied
<1>1. /\ head # tail
      /\ rval = data[head]
      /\ taken' = rval
      /\ head' = queue_position(head + 1)
      /\ UNCHANGED <<tail, data>>
  BY DEF PopStore, ReaderAt, Inv, ReaderInv
<1>2. /\ head' = IF head + 1 = Size THEN 0 ELSE head + 1
      /\ head \in Slots
      /\ tail \in Slots
  BY <1>1, PositionWraps DEF TypeOK
<1>3. n \in 1..(Size - 1)
  BY <1>1, DistanceBounds, SlotOrder DEF Occupied, TypeOK
<1>4. Occupied' = n - 1
  BY <1>1, <1>2, SizePositive DEF Occupied, Distance, Slots
<1>5. \A i \in 1..(n - 1) : SlotOf(i - 1)' = SlotOf((i + 1) - 1)
  BY <1>2, <1>3, SizePositive DEF SlotOf, Slots
<1>6. Contents # <<>> /\ Head(Contents) = data[head]
  <2>1. Contents[1] = data[head]
    BY <1>3, ContentsSeq, SlotOrder
  <2>. QED
    BY <1>3, <2>1, ContentsSeq
<1>7. Tail(Contents) = [i \in 1..(n - 1) |-> Contents[i + 1]]
  <2>1. /\ Tail(Contents) \in Seq(Values \cup {Null})
        /\ Len(Tail(Contents)) = n - 1
        /\ \A i \in 1..(n - 1) : Tail(Contents)[i] = Contents[i + 1]
    BY <1>3, <1>6, ContentsSeq, HeadTailProperties
  <2>2. Tail(Contents) \in [1..(n - 1) -> Values \cup {Null}]
    BY <2>1, LenProperties
  <2>. QED
    BY <2>1, <2>2
<1>8. \A i \in 1..(n - 1) : Contents[i + 1] = data'[SlotOf(i - 1)']
  BY <1>1, <1>3, <1>5, ContentsSeq
<1>9. Contents' = [i \in 1..(n - 1) |-> data'[SlotOf(i - 1)']]
  BY <1>4 DEF Contents
<1>. QED
  BY <1>1, <1>6, <1>7, <1>8, <1>9

\* Every step of the code is a step of the mailbox or leaves it alone.
LEMMA BoxStep ==
  ASSUME TypeOK, Inv, [Next]_vars
  PROVE  [Box!Next]_(Box!mvars)
<1> SUFFICES Box!Next \/ UNCHANGED <<Contents, result, taken>>
  BY DEF Box!mvars
<1>1. ASSUME NEW w \in Writers, NEW v \in Values, PushLoadTail(w, v)
      PROVE  UNCHANGED <<Contents, result, taken>>
  BY <1>1, ContentsUnchanged DEF PushLoadTail, popper
<1>2. ASSUME NEW w \in Writers, PushFull(w)
      PROVE  Box!Refuse(w)
  <2>1. Len(Contents) = Size - 1
    BY <1>2, DistanceBounds, ContentsSeq
       DEF PushFull, Full, WriterAt, Inv, WriterInv, TypeOK, Occupied
  <2>. QED
    BY <1>2, <2>1, ContentsUnchanged DEF PushFull, Full, popper, Box!Refuse
<1>3. ASSUME NEW w \in Writers, PushRoom(w)
      PROVE  UNCHANGED <<Contents, result, taken>>
  BY <1>3, ContentsUnchanged DEF PushRoom, Full, popper
<1>4. ASSUME NEW w \in Writers, PushWrite(w)
      PROVE  UNCHANGED <<Contents, result, taken>>
  BY <1>4, WriteKeepsContents DEF PushWrite, popper
<1>5. ASSUME NEW w \in Writers, PushAssert(w)
      PROVE  UNCHANGED <<Contents, result, taken>>
  BY <1>5, ContentsUnchanged DEF PushAssert, popper
<1>6. ASSUME NEW w \in Writers, PushStore(w)
      PROVE  Box!Accept(w, wval[w]) /\ wval[w] \in Values
  <2>1. data[tail] = wval[w] /\ wval[w] \in Values
    BY <1>6 DEF PushStore, WriterAt, Inv, WriterInv
  <2>2. Len(Contents) < Size - 1 /\ Contents' = Append(Contents, wval[w])
    BY <1>6, <2>1, StoreAppends, ContentsSeq
  <2>. QED
    BY <1>6, <2>1, <2>2 DEF PushStore, popper, Box!Accept
<1>7. ASSUME NEW w \in Writers, PushReturn(w)
      PROVE  UNCHANGED <<Contents, result, taken>>
  BY <1>7, ContentsUnchanged DEF PushReturn, popper
<1>8. CASE PopLoadHead
  BY <1>8, ContentsUnchanged DEF PopLoadHead, writer
<1>9. CASE PopEmpty
  <2>1. Occupied = 0
    BY <1>9, DistanceBounds
       DEF PopEmpty, ReaderAt, Inv, ReaderInv, TypeOK, Occupied
  <2>2. Contents = <<>>
    BY <2>1 DEF Contents
  <2>3. Box!TakeNothing
    BY <1>9, <2>2, ContentsUnchanged DEF PopEmpty, writer, Box!TakeNothing
  <2>. QED
    BY <2>3 DEF Box!Next
<1>10. CASE PopSome
  BY <1>10, ContentsUnchanged DEF PopSome, writer, popper
<1>11. CASE PopRead
  BY <1>11, ContentsUnchanged DEF PopRead, writer
<1>12. CASE PopAssert
  BY <1>12, ContentsUnchanged DEF PopAssert, writer, popper
<1>13. CASE PopStore
  <2>1. Box!Take
    BY <1>13, StoreTakes DEF PopStore, writer, Box!Take
  <2>. QED
    BY <2>1 DEF Box!Next
<1>14. CASE PopReturn
  BY <1>14, ContentsUnchanged DEF PopReturn, writer, popper
<1>15. CASE LengthLoadTail
  BY <1>15, ContentsUnchanged DEF LengthLoadTail, writer, popper
<1>16. CASE LengthLoadHead
  BY <1>16, ContentsUnchanged DEF LengthLoadHead, writer, popper
<1>17. CASE LengthReturn
  BY <1>17, ContentsUnchanged DEF LengthReturn, writer, popper
<1>18. CASE UNCHANGED vars
  BY <1>18, ContentsUnchanged DEF vars, ring
<1>. QED
  BY <1>1, <1>2, <1>3, <1>4, <1>5, <1>6, <1>7, <1>8, <1>9, <1>10, <1>11,
     <1>12, <1>13, <1>14, <1>15, <1>16, <1>17, <1>18
     DEF Next, Push, Pop, Length, Box!Next

\* With one writer the ring buffer implements the mailbox.
THEOREM RingImplementsMailbox ==
  ASSUME SingleWriter
  PROVE  Spec => ImplementsMailbox
<1>1. Init => Box!Init
  <2> SUFFICES ASSUME Init
               PROVE  Box!Init
    OBVIOUS
  <2>1. Occupied = 0
    BY DEF Init, Occupied, Distance
  <2>2. Contents = <<>>
    BY <2>1 DEF Contents
  <2>. QED
    BY <2>2 DEF Init, Box!Init
<1>2. TypeOK /\ Inv /\ [Next]_vars => [Box!Next]_(Box!mvars)
  BY BoxStep
<1>. QED
  BY <1>1, <1>2, TypeCorrect, InvHolds, PTL
     DEF Spec, ImplementsMailbox, Box!Spec

\* Everything between head and tail is a message, so that NULL from a pop means
\* that the ring was empty.
HoldsMessages == Contents \in Seq(Values)

\* Every step keeps the contents messages.
LEMMA HoldsMessagesStep ==
  ASSUME TypeOK, Inv, HoldsMessages, [Next]_vars
  PROVE  HoldsMessages'
<1>1. [Box!Next]_(Box!mvars)
  BY BoxStep
<1>2. ASSUME NEW w \in Writers, NEW v \in Values, Box!Accept(w, v)
      PROVE  HoldsMessages'
  BY <1>2 DEF Box!Accept, HoldsMessages
<1>3. ASSUME NEW w \in Writers, Box!Refuse(w)
      PROVE  HoldsMessages'
  BY <1>3 DEF Box!Refuse, HoldsMessages
<1>4. CASE Box!Take
  BY <1>4 DEF Box!Take, HoldsMessages
<1>5. CASE Box!TakeNothing
  BY <1>5 DEF Box!TakeNothing, HoldsMessages
<1>6. CASE UNCHANGED Box!mvars
  BY <1>6 DEF Box!mvars, HoldsMessages
<1>. QED
  BY <1>1, <1>2, <1>3, <1>4, <1>5, <1>6 DEF Box!Next

\* The ring is empty at the start.
LEMMA InitHoldsMessages == Init => HoldsMessages
<1> SUFFICES ASSUME Init
             PROVE  HoldsMessages
  OBVIOUS
<1>1. Occupied = 0
  BY DEF Init, Occupied, Distance
<1>. QED
  BY <1>1 DEF HoldsMessages, Contents

\* With one writer the ring holds nothing but messages.
THEOREM MessagesInside ==
  ASSUME SingleWriter
  PROVE  Spec => []HoldsMessages
<1>1. TypeOK /\ Inv /\ HoldsMessages /\ [Next]_vars => HoldsMessages'
  BY HoldsMessagesStep
<1>. QED
  BY <1>1, InitHoldsMessages, TypeCorrect, InvHolds, PTL DEF Spec

------------------------------------------------------------------------------

\* Only the store of the tail takes a writer from "store" to "done".
LEMMA OnlyStoreSucceeds ==
  ASSUME TypeOK, [Next]_vars, NEW w \in Writers,
         wpc[w] = "store", wpc'[w] = "done"
  PROVE  PushStore(w)
<1> USE DEF TypeOK, WriterStates, WriterAt
<1>1. ASSUME NEW x \in Writers, Push(x)
      PROVE  PushStore(w)
  BY <1>1 DEF Push, PushLoadTail, PushFull, PushRoom, PushWrite, PushAssert,
              PushStore
<1>2. ASSUME NEW x \in Writers, PushReturn(x)
      PROVE  FALSE
  BY <1>2 DEF PushReturn
<1>3. Pop \/ PopReturn => UNCHANGED wpc
  BY DEF Pop, PopLoadHead, PopEmpty, PopSome, PopRead, PopAssert, PopStore,
         PopReturn, writer
<1>4. Length \/ LengthReturn => UNCHANGED wpc
  BY DEF Length, LengthLoadTail, LengthLoadHead, LengthReturn, writer
<1>. QED
  BY <1>1, <1>2, <1>3, <1>4 DEF Next, vars

\* With one writer a push that returns 0 has added its message to the ring and
\* disturbed no other.
THEOREM SuccessIsTruthful ==
  ASSUME SingleWriter
  PROVE  Spec => SuccessMeansQueued
<1> DEFINE Truthful ==
      \A w \in Writers :
        (wpc[w] = "store" /\ wpc'[w] = "done")
          => Contents' = Append(Contents, wval[w])
<1>1. TypeOK /\ Inv /\ [Next]_vars => Truthful
  <2> SUFFICES ASSUME TypeOK, Inv, [Next]_vars, NEW w \in Writers,
                      wpc[w] = "store", wpc'[w] = "done"
               PROVE  Contents' = Append(Contents, wval[w])
    OBVIOUS
  <2>1. PushStore(w)
    BY OnlyStoreSucceeds
  <2>2. data[tail] = wval[w]
    BY DEF Inv, WriterInv
  <2>. QED
    BY <2>1, <2>2, StoreAppends
<1>2. TypeOK /\ Inv /\ [Next]_vars => [Truthful]_vars
  BY <1>1
<1>. QED
  BY <1>2, TypeCorrect, InvHolds, PTL DEF Spec, SuccessMeansQueued
==============================================================================

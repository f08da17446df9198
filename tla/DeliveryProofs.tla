--------------------------- MODULE DeliveryProofs ----------------------------
(***************************************************************************)
(* Proofs about the delivery of messages, for every number of messages and *)
(* every size of the ring.  Delivery is a use of the ring buffer by its    *)
(* rules, so the theorems of QueueProofs hold in it; with them the drain   *)
(* loop loses no wakeup.                                                   *)
(***************************************************************************)
EXTENDS Delivery, QueueProofs

\* The sender's number is a message.
LEMMA NextMessage ==
  ASSUME sent \in 0..MaxSends, sent < MaxSends
  PROVE  sent + 1 \in Values /\ sent + 1 \in 0..MaxSends
BY MessagesAssumption DEF Messages

\* The parts of the type invariant that Delivery adds to the ring's, without
\* the history of what was sent.
LoopTypeOK ==
  /\ loop \in {"new", "loading", "failed", "poll", "receive", "length", "pop",
               "retry"}
  /\ pending \in BOOLEAN
  /\ sent \in 0..MaxSends

\* Every step of the senders and of the service's thread is a step of the ring
\* buffer or leaves it alone.
LEMMA StepUsesQueue ==
  ASSUME LoopTypeOK, [DeliveryNext]_dvars
  PROVE  [Next]_vars /\ LoopTypeOK'
<1> USE DEF LoopTypeOK
<1>1. ASSUME NEW w \in Writers, Send(w)
      PROVE  Next /\ LoopTypeOK'
  BY <1>1, NextMessage DEF Send, Next, Push
<1>2. ASSUME NEW w \in Writers, SendPush(w)
      PROVE  Next /\ LoopTypeOK'
  BY <1>2 DEF SendPush, Next, Push
<1>3. ASSUME NEW w \in Writers, SendNotify(w)
      PROVE  Next /\ LoopTypeOK'
  BY <1>3 DEF SendNotify, Next
<1>4. CASE Start \/ Load \/ Wake
  BY <1>4 DEF Start, Load, LoadFails, LoadSucceeds, Wake, LoopMoves
<1>5. CASE RecvLength
  BY <1>5 DEF RecvLength, LoopMoves, Next, Length
<1>6. CASE RecvMeasured
  BY <1>6 DEF RecvMeasured, LoopMoves, Next
<1>7. CASE RecvPop
  BY <1>7 DEF RecvPop, LoopMoves, Next
<1>8. CASE Handle
  BY <1>8 DEF Handle, LoopMoves, Next
<1>9. CASE Nothing
  BY <1>9 DEF Nothing, AfterNothing, LoopMoves, Next
<1>10. CASE UNCHANGED dvars
  BY <1>10 DEF dvars
<1>. QED
  BY <1>1, <1>2, <1>3, <1>4, <1>5, <1>6, <1>7, <1>8, <1>9, <1>10
     DEF DeliveryNext, Receive

\* At the start the loop has its types.
LEMMA InitLoopTypeOK == DeliveryInit => LoopTypeOK
<1>1. 0 \in 0..MaxSends
  BY MessagesAssumption
<1>. QED
  BY <1>1, Zenon DEF DeliveryInit, LoopTypeOK

\* The loop keeps its types: what the ring does is the queue's business.
LEMMA LoopTypes == DeliverySpec => []LoopTypeOK
<1>1. LoopTypeOK /\ [DeliveryNext]_dvars => LoopTypeOK'
  BY StepUsesQueue
<1>. QED
  BY <1>1, InitLoopTypeOK, PTL DEF DeliverySpec

\* Senders and receiver use the ring buffer by its rules: what is proved of the
\* ring buffer holds when service_send and service_recv drive it.
THEOREM DeliveryUsesQueue == DeliverySpec => Spec
<1>1. LoopTypeOK /\ [DeliveryNext]_dvars => [Next]_vars
  BY StepUsesQueue
<1>2. DeliveryInit => Init
  BY DEF DeliveryInit
<1>. QED
  BY <1>1, <1>2, LoopTypes, PTL DEF DeliverySpec, Spec

------------------------------------------------------------------------------

\* Where the service's thread is in queue_length and queue_pop_ptr, and what it
\* knows: a first pop follows a positive length, so there is a message for it.
LoopInv ==
  /\ loop \in {"new", "loading", "failed", "poll", "receive"} => rpc = "idle"
  /\ loop = "length" => rpc \in {"length", "measured"}
  /\ loop \in {"pop", "retry"} =>
       rpc \in {"idle", "open", "read", "check", "store", "done"}
  /\ loop = "pop" =>
       /\ rpc \in {"idle", "open"} => Occupied > 0
       /\ rpc = "done" => taken # Null

\* What is known of the ring buffer in every state.
RingInv == TypeOK /\ Inv /\ HoldsMessages /\ LoopTypeOK

\* The writers' steps only ever add messages, and leave the reader alone.
LEMMA WriterStep ==
  ASSUME RingInv, NEW w \in Writers, Send(w) \/ SendPush(w) \/ SendNotify(w)
  PROVE  /\ UNCHANGED <<loop, rpc, taken, rhead>>
         /\ Occupied \in Nat /\ Occupied' \in Nat
         /\ Occupied' >= Occupied
         /\ Occupied' # Occupied => wpc'[w] = "done"
         /\ pending => pending'
         /\ SendNotify(w) => pending'
         /\ ~SendNotify(w) => wpc[w] # "done"
         /\ \A x \in Writers : x # w => wpc'[x] = wpc[x]
<1> USE DEF RingInv, TypeOK, WriterStates, WriterAt
<1>1. CASE Send(w)
  BY <1>1, SlotOrder DEF Send, PushLoadTail, popper, ring, Occupied, Distance, SendNotify, PushReturn
<1>2. CASE SendPush(w) /\ ~PushStore(w)
  BY <1>2, SlotOrder
     DEF SendPush, PushFull, PushRoom, PushWrite, PushAssert, popper, ring,
         Occupied, Distance, SendNotify, PushReturn
<1>3. CASE SendPush(w) /\ PushStore(w)
  <2>1. /\ wpc[w] = "store"
        /\ tail' = queue_position(wtail[w] + 1)
        /\ UNCHANGED <<head, data, rpc, popper, loop, pending>>
        /\ wpc' = [wpc EXCEPT ![w] = "done"]
    BY <1>3 DEF SendPush, PushStore
  <2>2. /\ tail' = IF tail + 1 = Size THEN 0 ELSE tail + 1
        /\ tail' # head
    BY <2>1, PositionWraps DEF Inv, WriterInv
  <2>3. Occupied' = Occupied + 1
    BY <2>1, <2>2, SizePositive DEF Occupied, Distance, Slots
  <2>4. ~SendNotify(w)
    BY <2>1 DEF SendNotify, PushReturn
  <2>. QED
    BY <2>1, <2>3, <2>4, SlotOrder DEF popper
<1>4. CASE SendNotify(w)
  BY <1>4, SlotOrder DEF SendNotify, PushReturn, popper, ring, Occupied, Distance
<1>. QED
  BY <1>1, <1>2, <1>3, <1>4

\* What a pop returns: NULL only from an empty ring.
LEMMA PopStep ==
  ASSUME RingInv, Pop
  PROVE  /\ UNCHANGED wpc
         /\ rpc' = "open" => rpc = "idle" /\ Occupied' = Occupied
         /\ rpc' = "done" =>
              \/ Occupied = 0 /\ Occupied' = 0 /\ rpc = "open"
              \/ taken' # Null
         /\ rpc \in {"idle", "open", "read", "check", "store"}
         /\ rpc' \in {"open", "read", "check", "store", "done"}
<1> USE DEF RingInv, TypeOK, ReaderAt
<1>1. CASE PopLoadHead
  BY <1>1 DEF PopLoadHead, ring, writer, Occupied, Distance
<1>2. CASE PopEmpty
  <2>1. rhead = head /\ rhead = tail
    BY <1>2 DEF PopEmpty, Inv, ReaderInv
  <2>. QED
    BY <1>2, <2>1, SizePositive
       DEF PopEmpty, ring, writer, Occupied, Distance, Slots
<1>3. CASE PopSome \/ PopRead \/ PopAssert
  BY <1>3 DEF PopSome, PopRead, PopAssert, writer
<1>4. CASE PopStore
  <2>1. Contents # <<>> /\ taken' = Head(Contents)
    BY <1>4, StoreTakes
  <2>2. taken' \in Values
    BY <2>1 DEF HoldsMessages
  <2>3. taken' # Null
    BY <2>2, NullAssumption
  <2>. QED
    BY <1>4, <2>3 DEF PopStore, writer
<1>. QED
  BY <1>1, <1>2, <1>3, <1>4 DEF Pop

\* Every step keeps the invariant of the loop.
LEMMA LoopInvStep ==
  ASSUME RingInv, LoopInv, [DeliveryNext]_dvars
  PROVE  LoopInv'
<1> USE DEF LoopInv
<1>1. ASSUME NEW w \in Writers, Send(w) \/ SendPush(w) \/ SendNotify(w)
      PROVE  LoopInv'
  BY <1>1, WriterStep
<1>2. CASE Start \/ Load \/ Wake
  BY <1>2 DEF Start, Load, LoadFails, LoadSucceeds, Wake, LoopMoves, vars
<1>3. CASE RecvLength
  BY <1>3 DEF RecvLength, LoopMoves, LengthLoadTail, LengthLoadHead, ReaderAt
<1>4. CASE RecvMeasured
  <2>1. /\ rpc = "measured"
        /\ rpc' = "idle"
        /\ UNCHANGED ring
        /\ loop' = IF len > 0 THEN "pop" ELSE "retry"
    BY <1>4 DEF RecvMeasured, LoopMoves, LengthReturn, ReaderAt
  <2>2. len <= Occupied /\ Occupied' = Occupied
    BY <2>1 DEF RingInv, Inv, ReaderInv, ring, Occupied, Distance
  <2>3. len \in Int /\ Occupied \in Int
    BY SlotOrder DEF RingInv, TypeOK
  <2>. QED
    BY <2>1, <2>2, <2>3
<1>5. CASE RecvPop
  BY <1>5, PopStep DEF RecvPop, LoopMoves
<1>6. CASE Handle \/ Nothing
  BY <1>6 DEF Handle, Nothing, AfterNothing, LoopMoves, PopReturn, ReaderAt
<1>7. CASE UNCHANGED dvars
  BY <1>7 DEF dvars, vars, Occupied, Distance
<1>. QED
  BY <1>1, <1>2, <1>3, <1>4, <1>5, <1>6, <1>7 DEF DeliveryNext, Receive

\* No wakeup is lost in a step: only the sender of a message makes the ring
\* non-empty, and signals afterwards; only a pop that found the ring empty lets
\* the service's thread sleep.
LEMMA WakeupStep ==
  ASSUME RingInv, LoopInv, NoLostWakeup, [DeliveryNext]_dvars
  PROVE  NoLostWakeup'
<1> USE DEF NoLostWakeup, AboutToSleep
<1>1. ASSUME NEW w \in Writers, Send(w) \/ SendPush(w) \/ SendNotify(w)
      PROVE  NoLostWakeup'
  BY <1>1, WriterStep
<1>2. CASE Start \/ Load
  BY <1>2 DEF Start, Load, LoadFails, LoadSucceeds, LoopMoves, vars, Occupied,
              Distance
<1>3. CASE Wake \/ RecvLength \/ RecvMeasured \/ Handle
  BY <1>3 DEF Wake, RecvLength, RecvMeasured, Handle, LoopMoves, PopReturn,
              LengthReturn, ReaderAt
<1>4. CASE RecvPop
  BY <1>4, PopStep DEF RecvPop, LoopMoves, LoopInv
<1>5. CASE Nothing
  BY <1>5 DEF Nothing, AfterNothing, LoopMoves, PopReturn, ReaderAt, ring,
              writer, Occupied, Distance
<1>6. CASE UNCHANGED dvars
  BY <1>6 DEF dvars, vars, Occupied, Distance
<1>. QED
  BY <1>1, <1>2, <1>3, <1>4, <1>5, <1>6 DEF DeliveryNext, Receive

------------------------------------------------------------------------------

\* All that was proved of the queue holds of the ring.
LEMMA RingInvHolds ==
  ASSUME SingleWriter
  PROVE  DeliverySpec => []RingInv
BY DeliveryUsesQueue, TypeCorrect, InvHolds, MessagesInside, LoopTypes, PTL
   DEF RingInv

\* The invariant of the loop always holds.
LEMMA LoopInvHolds ==
  ASSUME SingleWriter
  PROVE  DeliverySpec => []LoopInv
<1>1. DeliveryInit => LoopInv
  BY DEF DeliveryInit, Init, LoopInv
<1>2. RingInv /\ LoopInv /\ [DeliveryNext]_dvars => LoopInv'
  BY LoopInvStep
<1>. QED
  BY <1>1, <1>2, RingInvHolds, PTL DEF DeliverySpec

\* With one sender, a service that sleeps while a message is in its inbox has
\* its signal pending.
THEOREM WakeupsAreNotLost ==
  ASSUME SingleWriter
  PROVE  DeliverySpec => []NoLostWakeup
<1>1. DeliveryInit => NoLostWakeup
  <2> SUFFICES ASSUME DeliveryInit
               PROVE  NoLostWakeup
    OBVIOUS
  <2>1. Occupied = 0
    BY DEF DeliveryInit, Init, Occupied, Distance
  <2>. QED
    BY <2>1 DEF NoLostWakeup
<1>2. RingInv /\ LoopInv /\ NoLostWakeup /\ [DeliveryNext]_dvars => NoLostWakeup'
  BY WakeupStep
<1>. QED
  BY <1>1, <1>2, RingInvHolds, LoopInvHolds, PTL DEF DeliverySpec

\* With one sender, the pop that follows a positive queue_length finds a message.
THEOREM FirstPopsSucceed ==
  ASSUME SingleWriter
  PROVE  DeliverySpec => []FirstPopSucceeds
<1>1. LoopInv => FirstPopSucceeds
  BY DEF LoopInv, FirstPopSucceeds
<1>. QED
  BY <1>1, LoopInvHolds, PTL

------------------------------------------------------------------------------
(* The order of the messages.  On their way from the sender to the handler  *)
(* they stand in one line: handled, in the hand of service_recv, in the      *)
(* ring, in the hand of queue_push_ptr.                                      *)

Elements(s) == {s[k] : k \in 1..Len(s)}
Increasing(s) == \A j, k \in 1..Len(s) : j < k => s[j] < s[k]
Below(A, B) == \A a \in A, b \in B : a < b

\* A larger message at the end keeps a sequence increasing.
LEMMA AppendIncreases ==
  ASSUME NEW s \in Seq(Int), NEW m \in Int
  PROVE  /\ Elements(Append(s, m)) = Elements(s) \cup {m}
         /\ Increasing(s) /\ Below(Elements(s), {m}) => Increasing(Append(s, m))
<1> DEFINE a == Append(s, m)
<1>1. /\ Len(s) \in Nat /\ Len(a) = Len(s) + 1
      /\ \A k \in 1..Len(s) : a[k] = s[k]
      /\ a[Len(s) + 1] = m
  BY AppendProperties, LenProperties
<1> HIDE DEF a
<1>2. 1..Len(a) = (1..Len(s)) \cup {Len(s) + 1}
  BY <1>1
<1>3. Elements(a) = Elements(s) \cup {m}
  BY <1>1, <1>2 DEF Elements
<1>4. Increasing(s) /\ Below(Elements(s), {m}) => Increasing(a)
  BY SMTT(30), <1>1, <1>2 DEF Increasing, Below, Elements
<1>. QED
  BY <1>3, <1>4 DEF a

\* The head of an increasing sequence is below the rest, which increases.
LEMMA TailIncreases ==
  ASSUME NEW s \in Seq(Int), s # <<>>
  PROVE  /\ Elements(s) = {Head(s)} \cup Elements(Tail(s))
         /\ Increasing(s) =>
              Increasing(Tail(s)) /\ Below({Head(s)}, Elements(Tail(s)))
<1> DEFINE r == Tail(s)
<1>1. /\ Len(s) \in Nat \ {0} /\ Len(r) = Len(s) - 1
      /\ \A k \in 1..Len(r) : r[k] = s[k + 1]
      /\ Head(s) = s[1]
  BY HeadTailProperties, EmptySeq, LenProperties
<1> HIDE DEF r
<1>2. \A k \in 2..Len(s) : k - 1 \in 1..Len(r) /\ r[k - 1] = s[k]
  BY <1>1
<1>3. 1..Len(s) = {1} \cup 2..Len(s)
  BY <1>1
<1>4. Elements(s) = {Head(s)} \cup Elements(r)
  <2>1. Elements(r) = {s[k] : k \in 2..Len(s)}
    <3>1. \A k \in 1..Len(r) : k + 1 \in 2..Len(s)
      BY <1>1
    <3>. QED
      BY SMTT(30), <1>1, <1>2, <3>1 DEF Elements
  <2>. QED
    BY ZenonT(40), <1>1, <1>3, <2>1 DEF Elements
<1>5. Increasing(s) => Increasing(r) /\ Below({Head(s)}, Elements(r))
  <2> SUFFICES ASSUME Increasing(s)
               PROVE  Increasing(r) /\ Below({Head(s)}, Elements(r))
    OBVIOUS
  <2>1. \A j, k \in 1..Len(r) : j < k => r[j] < r[k]
    <3> TAKE j, k \in 1..Len(r)
    <3>1. j + 1 \in 1..Len(s) /\ k + 1 \in 1..Len(s) /\ (j < k => j + 1 < k + 1)
      BY <1>1
    <3>. QED
      BY <1>1, <3>1 DEF Increasing
  <2>2. \A k \in 1..Len(r) : s[1] < r[k]
    <3> TAKE k \in 1..Len(r)
    <3>1. 1 \in 1..Len(s) /\ k + 1 \in 1..Len(s) /\ 1 < k + 1
      BY <1>1
    <3>. QED
      BY <1>1, <3>1 DEF Increasing
  <2>. QED
    BY <1>1, <2>1, <2>2 DEF Increasing, Below, Elements
<1>. QED
  BY <1>4, <1>5 DEF r

\* Every message in the line was accepted and is below the one that the sender
\* pushes, which is the last it sent.
OrderInv ==
  /\ handled \in Seq(Messages)
  /\ Increasing(handled) /\ Increasing(Contents)
  /\ Below(WasHandled, InHand) /\ Below(WasHandled, InRing) /\ Below(InHand, InRing)
  /\ AcceptedIsAccountedFor
  /\ \A m \in accepted : m \in Messages /\ m <= sent
  /\ \A w \in Writers : wpc[w] \in {"open", "write", "check", "store"} =>
       wval[w] = sent /\ Below(accepted, {sent})

\* The sets of the properties, as elements of sequences.
LEMMA LineElements ==
  ASSUME RingInv
  PROVE  /\ InRing = Elements(Contents)
         /\ WasHandled = Elements(handled)
         /\ Contents \in Seq(Int)
<1>1. Len(Contents) = Occupied
  BY ContentsSeq DEF RingInv
<1>2. Values \subseteq Int
  BY MessagesAssumption DEF Messages
<1>3. Contents \in Seq(Int)
  BY <1>2, SeqMonotonic DEF RingInv, HoldsMessages
<1>. QED
  BY <1>1, <1>3 DEF InRing, WasHandled, Elements

\* The sender takes a number above all that were accepted.
LEMMA SendKeepsOrder ==
  ASSUME SingleWriter, RingInv, OrderInv, NEW w \in Writers, Send(w)
  PROVE  OrderInv'
<1>1. /\ sent' = sent + 1 /\ wpc' = [wpc EXCEPT ![w] = "open"]
      /\ wval' = [wval EXCEPT ![w] = sent + 1]
      /\ UNCHANGED <<ring, popper, rpc, handled, accepted>>
  BY DEF Send, PushLoadTail, WriterAt
<1>2. UNCHANGED <<Contents, InRing, InHand, WasHandled, AcceptedIsAccountedFor>>
  BY <1>1, ContentsUnchanged
     DEF InRing, InHand, WasHandled, AcceptedIsAccountedFor, Occupied, Distance, ring, popper
<1>3. \A x \in Writers : wval'[x] = sent'
  BY <1>1 DEF SingleWriter, RingInv, TypeOK
<1>4. accepted' = accepted /\ handled' = handled /\ sent \in Nat /\ accepted \subseteq Nat
  BY <1>1 DEF RingInv, LoopTypeOK, OrderInv, Messages
<1>5. \A m \in accepted : m < sent'
  BY <1>1, <1>4 DEF OrderInv
<1>. QED
  BY <1>1, <1>2, <1>3, <1>4, <1>5 DEF OrderInv, Below, AcceptedIsAccountedFor

\* The store of the tail puts the sender's message at the end of the line.
LEMMA StoreKeepsOrder ==
  ASSUME SingleWriter, RingInv, OrderInv, NEW w \in Writers, SendPush(w), PushStore(w)
  PROVE  OrderInv'
<1>1. /\ wpc[w] = "store" /\ wpc' = [wpc EXCEPT ![w] = "done"]
      /\ UNCHANGED <<sent, handled, rpc, taken, wval>>
      /\ accepted' = accepted \cup {wval[w]}
  BY DEF SendPush, PushStore, WriterAt, popper
<1>2. wval[w] = sent /\ sent \in Messages /\ Below(accepted, {sent})
  BY <1>1, MessagesAssumption DEF OrderInv, RingInv, Inv, WriterInv
<1>3. Contents' = Append(Contents, sent)
  BY <1>1, <1>2, StoreAppends DEF RingInv, Inv, WriterInv
<1>4. /\ InRing = Elements(Contents) /\ InRing' = Elements(Contents')
      /\ Contents \in Seq(Int)
  <2>1. Len(Contents') = Occupied'
    <3>1. Occupied' \in Nat
      BY WriterStep
    <3>. QED
      BY <3>1 DEF Contents
  <2>. QED
    BY <2>1, LineElements DEF InRing, Elements
<1>5. InRing \subseteq accepted
  BY DEF OrderInv, AcceptedIsAccountedFor
<1>6. Increasing(Contents') /\ InRing' = InRing \cup {sent}
  BY <1>2, <1>3, <1>4, <1>5, AppendIncreases DEF OrderInv, Below, Messages
<1>7. UNCHANGED <<InHand, WasHandled>>
  BY <1>1 DEF InHand, WasHandled
<1>8. \A x \in Writers : wpc'[x] = "done"
  BY <1>1 DEF SingleWriter, RingInv, TypeOK
<1>9. WasHandled \subseteq accepted /\ InHand \subseteq accepted
  BY DEF OrderInv, AcceptedIsAccountedFor
<1>10. Below(WasHandled, InRing)' /\ Below(InHand, InRing)' /\ Below(WasHandled, InHand)'
  BY <1>2, <1>6, <1>7, <1>9 DEF OrderInv, Below
<1>11. AcceptedIsAccountedFor'
  BY <1>1, <1>2, <1>6, <1>7 DEF OrderInv, AcceptedIsAccountedFor
<1>12. \A m \in accepted' : m \in Messages /\ m <= sent'
  BY <1>1, <1>2 DEF OrderInv, Messages
<1>. QED
  BY <1>1, <1>6, <1>8, <1>10, <1>11, <1>12 DEF OrderInv

\* A pop takes the first message of the ring into the reader's hand.
LEMMA PopKeepsOrder ==
  ASSUME RingInv, OrderInv, RecvPop, PopStore
  PROVE  OrderInv'
<1>1. /\ rpc = "store" /\ rpc' = "done"
      /\ UNCHANGED <<sent, handled, accepted, wpc, wval>>
  BY DEF RecvPop, LoopMoves, PopStore, ReaderAt, writer
<1>2. Contents # <<>> /\ taken' = Head(Contents) /\ Contents' = Tail(Contents)
  BY StoreTakes DEF RingInv
<1>3. taken' \in Values
  BY <1>2, HeadTailProperties DEF RingInv, HoldsMessages
<1>4. InHand = {} /\ InHand' = {taken'}
  BY <1>1, <1>3, NullAssumption DEF InHand
<1>5. InRing = Elements(Contents) /\ Contents \in Seq(Int)
  BY LineElements
<1>6. InRing' = Elements(Contents')
  <2>1. Len(Contents) = Occupied /\ Len(Contents') = Len(Contents) - 1
    BY <1>2, <1>5, HeadTailProperties, ContentsSeq DEF RingInv
  <2>2. Len(Contents') = Occupied'
    <3>1. Occupied' \in Nat
      <4>1. head' \in Slots /\ tail' \in Slots
        BY PositionWraps DEF RingInv, TypeOK, PopStore
      <4>. QED
        BY <4>1, DistanceBounds DEF Occupied
    <3>. QED
      BY <3>1 DEF Contents
  <2>. QED
    BY <2>2 DEF InRing, Elements
<1>7. /\ InRing = InHand' \cup InRing'
      /\ Increasing(Contents') /\ Below(InHand', InRing')
  BY <1>2, <1>4, <1>5, <1>6, TailIncreases DEF OrderInv
<1>8. UNCHANGED WasHandled
  BY <1>1 DEF WasHandled
<1>9. Below(WasHandled, InHand)' /\ Below(WasHandled, InRing)'
  BY <1>7, <1>8 DEF OrderInv, Below
<1>10. AcceptedIsAccountedFor'
  BY <1>1, <1>4, <1>7, <1>8 DEF OrderInv, AcceptedIsAccountedFor
<1>. QED
  BY <1>1, <1>7, <1>9, <1>10 DEF OrderInv

\* The handler is given what is in the reader's hand.
LEMMA HandleKeepsOrder ==
  ASSUME RingInv, OrderInv, Handle
  PROVE  OrderInv'
<1>1. /\ rpc = "done" /\ rpc' = "idle" /\ taken # Null
      /\ handled' = Append(handled, taken)
      /\ UNCHANGED <<ring, sent, accepted, wpc, wval>>
  BY DEF Handle, LoopMoves, PopReturn, ReaderAt, writer
<1>2. UNCHANGED <<Contents, InRing>>
  BY <1>1, ContentsUnchanged DEF InRing, Occupied, Distance, ring
<1>3. InHand = {taken} /\ InHand' = {} /\ taken \in Messages
  BY <1>1, MessagesAssumption DEF InHand, RingInv, TypeOK
<1>4. handled \in Seq(Int) /\ handled' \in Seq(Messages)
  <2>1. Messages \subseteq Int
    BY DEF Messages
  <2>. QED
    BY <1>1, <1>3, <2>1, SeqMonotonic, AppendProperties DEF OrderInv
<1>5. WasHandled = Elements(handled) /\ WasHandled' = Elements(handled')
  BY DEF WasHandled, Elements
<1>6. /\ Increasing(handled')
      /\ WasHandled' = WasHandled \cup InHand
  BY <1>1, <1>3, <1>4, <1>5, AppendIncreases DEF OrderInv, Messages
<1>7. Below(WasHandled, InRing)' /\ Below(WasHandled, InHand)' /\ Below(InHand, InRing)'
  BY <1>2, <1>3, <1>6 DEF OrderInv, Below
<1>8. AcceptedIsAccountedFor'
  BY <1>1, <1>2, <1>3, <1>6 DEF OrderInv, AcceptedIsAccountedFor
<1>. QED
  BY <1>1, <1>2, <1>4, <1>6, <1>7, <1>8 DEF OrderInv

\* Every other step leaves the line as it is.
LEMMA OthersKeepOrder ==
  ASSUME OrderInv, UNCHANGED <<Contents, InRing, InHand, handled, accepted, sent, wval>>,
         \A w \in Writers : wpc'[w] \in {"open", "write", "check", "store"} =>
           wpc[w] \in {"open", "write", "check", "store"}
  PROVE  OrderInv'
BY DEF OrderInv, AcceptedIsAccountedFor, WasHandled

\* Every step keeps the order of the messages.
LEMMA OrderStep ==
  ASSUME SingleWriter, RingInv, OrderInv, [DeliveryNext]_dvars
  PROVE  OrderInv'
<1>1. ASSUME UNCHANGED <<ring, rpc, taken, handled, accepted, sent, wpc, wval>>
      PROVE  OrderInv'
  <2>1. UNCHANGED <<Contents, InRing, InHand>>
    BY <1>1, ContentsUnchanged DEF InRing, InHand, Occupied, Distance, ring
  <2>. QED
    BY <1>1, <2>1, OthersKeepOrder
<1>2. ASSUME NEW w \in Writers, SendPush(w) \/ SendNotify(w), ~PushStore(w)
      PROVE  OrderInv'
  <2>1. UNCHANGED <<rpc, taken, handled, sent, wval>>
    BY <1>2 DEF SendPush, SendNotify, PushFull, PushRoom, PushWrite, PushAssert, PushReturn,
                popper
  <2>2. wpc[w] # "store" /\ UNCHANGED accepted
    BY <1>2 DEF SendPush, SendNotify, PushFull, PushRoom, PushWrite, PushAssert, PushReturn,
                PushStore, WriterAt
  <2>3. UNCHANGED <<Contents, head, tail>>
    <3>1. CASE PushWrite(w)
      BY <3>1, WriteKeepsContents DEF RingInv, PushWrite
    <3>2. CASE ~PushWrite(w)
      BY <1>2, <3>2, ContentsUnchanged
         DEF SendPush, SendNotify, PushFull, PushRoom, PushAssert, PushReturn, ring
    <3>. QED
      BY <3>1, <3>2
  <2>4. UNCHANGED <<InRing, InHand>>
    BY <2>1, <2>3 DEF InRing, InHand, Occupied, Distance
  <2>5. \A x \in Writers : wpc'[x] \in {"open", "write", "check", "store"} =>
          wpc[x] \in {"open", "write", "check", "store"}
    BY <1>2 DEF SendPush, SendNotify, PushFull, PushRoom, PushWrite, PushAssert, PushReturn,
                WriterAt, RingInv, TypeOK
  <2>. QED
    BY <2>1, <2>2, <2>3, <2>4, <2>5, OthersKeepOrder
<1>3. ASSUME Start \/ Load \/ Wake
      PROVE  OrderInv'
  BY <1>1, <1>3 DEF Start, Load, LoadFails, LoadSucceeds, Wake, LoopMoves, vars, ring
<1>4. ASSUME RecvLength \/ RecvMeasured \/ Nothing \/ (RecvPop /\ ~PopStore)
      PROVE  OrderInv'
  <2>1. UNCHANGED <<ring, handled, accepted, sent, wpc, wval>>
    BY <1>4 DEF RecvLength, RecvMeasured, Nothing, RecvPop, LoopMoves, LengthLoadTail,
                LengthLoadHead, LengthReturn, PopReturn, Pop, PopLoadHead, PopEmpty, PopSome,
                PopRead, PopAssert, writer
  <2>2. UNCHANGED InHand
    BY <1>4 DEF RecvLength, RecvMeasured, Nothing, RecvPop, LoopMoves, LengthLoadTail,
                LengthLoadHead, LengthReturn, PopReturn, Pop, PopLoadHead, PopEmpty, PopSome,
                PopRead, PopAssert, ReaderAt, InHand
  <2>3. UNCHANGED <<Contents, InRing>>
    BY <2>1, ContentsUnchanged DEF InRing, Occupied, Distance, ring
  <2>. QED
    BY <2>1, <2>2, <2>3, OthersKeepOrder
<1>5. CASE UNCHANGED dvars
  BY <1>1, <1>5 DEF dvars, vars, ring
<1>. QED
  BY <1>2, <1>3, <1>4, <1>5, SendKeepsOrder, StoreKeepsOrder, PopKeepsOrder, HandleKeepsOrder
     DEF DeliveryNext, Receive, SendNotify, PushStore, PushReturn, WriterAt

\* The invariant of the order always holds.
LEMMA OrderInvHolds ==
  ASSUME SingleWriter
  PROVE  DeliverySpec => []OrderInv
<1>1. DeliveryInit => OrderInv
  <2> SUFFICES ASSUME DeliveryInit
               PROVE  OrderInv
    OBVIOUS
  <2>1. Occupied = 0 /\ handled = <<>> /\ rpc = "idle" /\ accepted = {}
    BY DEF DeliveryInit, Init, Occupied, Distance
  <2>2. InRing = {} /\ InHand = {} /\ WasHandled = {}
    BY <2>1 DEF InRing, InHand, WasHandled
  <2>3. Increasing(Contents) /\ Increasing(handled)
    BY <2>1 DEF Contents, Increasing
  <2>4. \A w \in Writers : wpc[w] = "idle"
    BY DEF DeliveryInit, Init
  <2>. QED
    BY <2>1, <2>2, <2>3, <2>4 DEF OrderInv, Below, AcceptedIsAccountedFor
<1>2. SingleWriter /\ RingInv /\ OrderInv /\ [DeliveryNext]_dvars => OrderInv'
  BY OrderStep
<1>. QED
  BY <1>1, <1>2, RingInvHolds, PTL DEF DeliverySpec

\* With one sender, the handler is given messages in the order they were sent,
\* and none twice.
THEOREM MessagesStayInOrder ==
  ASSUME SingleWriter
  PROVE  DeliverySpec => []HandledInOrder
<1>1. OrderInv => HandledInOrder
  BY DEF OrderInv, Increasing, HandledInOrder
<1>. QED
  BY <1>1, OrderInvHolds, PTL

\* With one sender, every message whose push returned 0 is in the ring, on its
\* way to the handler or handled, and no other is.
THEOREM NoMessageIsLost ==
  ASSUME SingleWriter
  PROVE  DeliverySpec => []AcceptedIsAccountedFor
<1>1. OrderInv => AcceptedIsAccountedFor
  BY DEF OrderInv
<1>. QED
  BY <1>1, OrderInvHolds, PTL
==============================================================================

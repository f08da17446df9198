------------------------------ MODULE Delivery -------------------------------
(***************************************************************************)
(* From service_send to the message handler: how a message pushed by one   *)
(* thread reaches the Lua handler on the service's own thread.             *)
(*                                                                         *)
(* The sender runs service_send: queue_push_ptr, then uv_async_send.  The  *)
(* service's thread loads its Lua source, enters uv_run, and each time the *)
(* async handle fires runs the drain loop of service.dispatch, which calls *)
(* service_recv until it returns no message.  The ring buffer in between   *)
(* is module Queue, step by step; the libuv async handle is one flag.      *)
(*                                                                         *)
(* The module extends Queue: its variables are the ring, its actions the   *)
(* steps of the ring's operations, here in the order service_send and      *)
(* service_recv call them.                                                 *)
(***************************************************************************)
EXTENDS Queue

CONSTANT MaxSends  \* bound: number of messages sent

\* Messages are numbered as they are sent.
Messages == 1..MaxSends

ASSUME MessagesAssumption == MaxSends \in Nat /\ Values = Messages

VARIABLES
  loop,      \* where the service's thread is
  pending,   \* the async handle has been signalled and not yet run
  sent,      \* number of service_send calls begun
  accepted,  \* messages whose push returned 0 (not in the code)
  handled    \* messages the handler has been given, in order (not in the code)

dvars == <<vars, loop, pending, sent, accepted, handled>>

DeliveryInit ==
  /\ Init
  /\ loop = "new"
  /\ pending = FALSE
  /\ sent = 0
  /\ accepted = {}
  /\ handled = <<>>

------------------------------------------------------------------------------
(* service_send(s, msg), on the thread of writer w.                         *)

\* The call enters queue_push_ptr with the next message.
Send(w) ==
  /\ sent < MaxSends
  /\ PushLoadTail(w, sent + 1)
  /\ sent' = sent + 1
  /\ UNCHANGED <<loop, pending, accepted, handled>>

\* queue_push_ptr goes on.
SendPush(w) ==
  /\ PushFull(w) \/ PushRoom(w) \/ PushWrite(w) \/ PushAssert(w)
     \/ PushStore(w)
  /\ accepted' = IF wpc[w] = "store" THEN accepted \cup {wval[w]} ELSE accepted
  /\ UNCHANGED <<loop, pending, sent, handled>>

\* Mutant: the loop is not signalled.
SendNotify_silent(w) ==
  /\ PushReturn(w)
  /\ UNCHANGED <<loop, pending, sent, accepted, handled>>

\* queue_push_ptr has returned; whatever it returned, uv_async_send signals the
\* service's loop and service_send returns 1.
SendNotify(w) ==
  /\ PushReturn(w)
  /\ pending' = TRUE
  /\ UNCHANGED <<loop, sent, accepted, handled>>

------------------------------------------------------------------------------
(* The service's thread.                                                    *)

LoopMoves(from, to) ==
  /\ loop = from
  /\ loop' = to
  /\ UNCHANGED <<sent, accepted>>

\* service_start creates the thread.
Start ==
  /\ LoopMoves("new", "loading")
  /\ UNCHANGED <<vars, pending, handled>>

\* service_init_lua: the source cannot be read or compiled, luv cannot be
\* loaded, the chunk raises an error or returns no function.  The thread ends.
LoadFails ==
  /\ LoopMoves("loading", "failed")
  /\ UNCHANGED <<vars, pending, handled>>

\* service_init_lua: the handler is registered and uv_run entered.
LoadSucceeds ==
  /\ LoopMoves("loading", "poll")
  /\ UNCHANGED <<vars, pending, handled>>

\* uv_run: the async handle was signalled; its signal is consumed and
\* service_async_cb calls the handler, which starts to receive.
Wake ==
  /\ pending
  /\ LoopMoves("poll", "receive")
  /\ pending' = FALSE
  /\ UNCHANGED <<vars, handled>>

\* service_recv: queue_length.
RecvLength ==
  /\ \/ LoopMoves("receive", "length") /\ LengthLoadTail
     \/ LoopMoves("length", "length") /\ LengthLoadHead
  /\ UNCHANGED <<pending, handled>>

\* Mutant: length >= 0 instead of length > 0.
RecvMeasured_always ==
  /\ LoopMoves("length", IF len >= 0 THEN "pop" ELSE "retry")
  /\ LengthReturn
  /\ UNCHANGED <<pending, handled>>

\* service_recv: the first queue_pop_ptr is made only if the length is positive.
RecvMeasured ==
  /\ LoopMoves("length", IF len > 0 THEN "pop" ELSE "retry")
  /\ LengthReturn
  /\ UNCHANGED <<pending, handled>>

\* service_recv: inside the first or the second queue_pop_ptr.
RecvPop ==
  /\ loop \in {"pop", "retry"}
  /\ LoopMoves(loop, loop)
  /\ Pop
  /\ UNCHANGED <<pending, handled>>

\* service_recv returns a message and the handler runs.
Handle ==
  /\ loop \in {"pop", "retry"}
  /\ taken # Null
  /\ LoopMoves(loop, "receive")
  /\ PopReturn
  /\ handled' = Append(handled, taken)
  /\ UNCHANGED pending

\* A pop returned NULL.  The first is followed by a second, since blocking is
\* always true; after the second the drain loop ends and the callback returns.
AfterNothing == IF loop = "pop" THEN "retry" ELSE "poll"

\* Mutant: the signal is consumed at the end of the callback.
Nothing_consumes ==
  /\ loop \in {"pop", "retry"}
  /\ taken = Null
  /\ LoopMoves(loop, AfterNothing)
  /\ PopReturn
  /\ pending' = FALSE
  /\ UNCHANGED handled

Nothing ==
  /\ loop \in {"pop", "retry"}
  /\ taken = Null
  /\ LoopMoves(loop, AfterNothing)
  /\ PopReturn
  /\ UNCHANGED <<pending, handled>>

Receive ==
  \/ Wake
  \/ RecvLength
  \/ RecvMeasured
  \/ RecvPop
  \/ Handle
  \/ Nothing

Load == LoadFails \/ LoadSucceeds

DeliveryNext ==
  \/ \E w \in Writers : Send(w) \/ SendPush(w) \/ SendNotify(w)
  \/ Start
  \/ Load
  \/ Receive

\* A thread inside service_send, and the service's own thread, keep running;
\* nobody is obliged to send.
Fairness ==
  /\ \A w \in Writers : WF_dvars(SendPush(w) \/ SendNotify(w))
  /\ WF_dvars(Start)
  /\ WF_dvars(Load)
  /\ WF_dvars(Receive)

DeliverySpec == DeliveryInit /\ [][DeliveryNext]_dvars
FairSpec == DeliverySpec /\ Fairness

------------------------------------------------------------------------------
(* Properties.                                                              *)

\* The service's thread will not look at the ring again without a signal: it
\* waits in uv_run (or has yet to get there), or has just found the ring empty.
AboutToSleep ==
  \/ loop \in {"new", "loading", "poll"}
  \/ loop = "retry" /\ rpc = "done" /\ taken = Null

\* No wakeup is lost: a message in the ring of a service that sleeps or is about
\* to, whose sender has returned from service_send, has a signal pending.
NoLostWakeup ==
  (AboutToSleep /\ Occupied > 0 /\ \A w \in Writers : wpc[w] # "done")
    => pending

\* The handler is given messages in the order they were sent, and none twice.
HandledInOrder ==
  \A i, j \in 1..Len(handled) : i < j => handled[i] < handled[j]

InRing == {Contents[i] : i \in 1..Occupied}
WasHandled == {handled[i] : i \in 1..Len(handled)}
\* The message service_recv has taken from the ring and not yet handed over.
InHand == IF rpc = "done" /\ taken # Null THEN {taken} ELSE {}

\* A message whose push returned 0 is in the ring, on its way to the handler, or
\* handled; no other message is.
AcceptedIsAccountedFor == accepted = InRing \cup InHand \cup WasHandled

\* A positive queue_length means that the pop that follows finds a message: the
\* second pop of service_recv is only ever made after a length of 0.
FirstPopSucceeds ==
  (loop = "pop" /\ rpc = "done") => taken # Null

\* Every accepted message reaches the handler, unless the service's source
\* failed to load.
AcceptedIsHandled ==
  \A m \in Messages :
    m \in accepted ~> (m \in WasHandled \/ loop = "failed")
==============================================================================

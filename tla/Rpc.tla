--------------------------------- MODULE Rpc ----------------------------------
(***************************************************************************)
(* What service.send and service.call promise, whatever becomes of inboxes, *)
(* sessions and coroutines: a request is handled at most once, by a handler *)
(* that goes on only while it does not wait itself, and a call returns only *)
(* after the handler of its own request has returned, and once.  Requests   *)
(* and answers may be lost, and a handler may fail: then nobody is told.    *)
(***************************************************************************)
EXTENDS Integers

CONSTANTS Requests, None

VARIABLES
  handling,  \* r -> "unsent", "sent", "lost", "running", "returned", "failed"
  waits      \* r -> the request whose answer the handler of r waits for, or None

rpc == <<handling, waits>>

\* The first request is the entry point's.
Init ==
  /\ handling = [r \in Requests |-> IF r = 1 THEN "sent" ELSE "unsent"]
  /\ waits = [r \in Requests |-> None]

Goes(r, from, to) ==
  /\ handling[r] = from
  /\ handling' = [handling EXCEPT ![r] = to]

Acts(c) == handling[c] = "running" /\ waits[c] = None

\* The handler of c sends request r, and waits for its answer or does not.
Send(c, r, answer) ==
  /\ Acts(c)
  /\ Goes(r, "unsent", "sent") \/ Goes(r, "unsent", "lost")
  /\ waits' = [waits EXCEPT ![c] = answer]

Handle(r) == Goes(r, "sent", "running") /\ UNCHANGED waits

Finish(r) ==
  /\ Acts(r)
  /\ Goes(r, "running", "returned") \/ Goes(r, "running", "failed")
  /\ UNCHANGED waits

\* The call of c returns.
Answer(c) ==
  /\ waits[c] # None
  /\ handling[waits[c]] = "returned"
  /\ waits' = [waits EXCEPT ![c] = None]
  /\ UNCHANGED handling

Next ==
  \/ \E c, r \in Requests : Send(c, r, None) \/ Send(c, r, r)
  \/ \E r \in Requests : Handle(r) \/ Finish(r) \/ Answer(r)

Spec == Init /\ [][Next]_rpc
==============================================================================

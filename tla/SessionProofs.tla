---------------------------- MODULE SessionProofs -----------------------------
(***************************************************************************)
(* Proofs about requests, responses and coroutines, for any number of      *)
(* services, requests and naps, any size of the inboxes and any faults.    *)
(***************************************************************************)
EXTENDS Session, SequenceTheorems, TLAPS

\* Fewer requests are sent than session_t has values, so no session comes twice.
NoWrap == MaxRequests < SessionMod

------------------------------------------------------------------------------
(* What is in the inboxes.                                                  *)

\* The order in an inbox matters to nothing that is proved here: the messages of
\* a service are a set ...
Mail == [s \in Services |-> {inbox[s][k] : k \in 1..Len(inbox[s])}]

\* ... and each is about a request of its own.
NoTwice ==
  \A s, t \in Services : \A j \in 1..Len(inbox[s]), k \in 1..Len(inbox[t]) :
    inbox[s][j].id = inbox[t][k].id => s = t /\ j = k

InboxTypeOK ==
  /\ inbox \in [Services -> Seq(Messages)]
  /\ \A s \in Services : Len(inbox[s]) <= Capacity

\* What an inbox holds are messages.
LEMMA MailType ==
  ASSUME InboxTypeOK, NEW s \in Services
  PROVE  /\ Len(inbox[s]) \in Nat
         /\ \A k \in 1..Len(inbox[s]) : inbox[s][k] \in Messages
         /\ Mail[s] \subseteq Messages
<1>1. inbox[s] \in Seq(Messages)
  BY DEF InboxTypeOK
<1>2. /\ Len(inbox[s]) \in Nat
      /\ \A k \in 1..Len(inbox[s]) : inbox[s][k] \in Messages
  BY <1>1, LenProperties, ElementOfSeq
<1>. QED
  BY <1>2 DEF Mail

\* A push adds its message, if there is room, and disturbs no other.
LEMMA PushAdds ==
  ASSUME InboxTypeOK, NoTwice, NEW to \in Services, NEW m \in Messages, Push(to, m),
         \A s \in Services : \A x \in Mail[s] : x.id # m.id
  PROVE  /\ InboxTypeOK' /\ NoTwice'
         /\ \/ /\ Mail' = [Mail EXCEPT ![to] = @ \cup {m}]
               /\ UNCHANGED lost
            \/ /\ UNCHANGED Mail
               /\ lost' = lost \cup {m}
<1>1. CASE HasRoom(to)
  <2> DEFINE q == inbox[to]
             n == Len(inbox[to])
             r == Append(q, m)
  <2>1. inbox' = [inbox EXCEPT ![to] = r] /\ UNCHANGED lost
    BY <1>1 DEF Push
  <2>2. /\ q \in Seq(Messages) /\ n \in Nat /\ n < Capacity
    BY <1>1, MailType DEF InboxTypeOK, HasRoom
  <2>3. /\ r \in Seq(Messages) /\ Len(r) = n + 1
        /\ \A k \in 1..n : r[k] = q[k]
        /\ r[n + 1] = m
    BY <2>2, AppendProperties
  <2>4. inbox'[to] = r /\ \A s \in Services \ {to} : inbox'[s] = inbox[s]
    BY <2>1 DEF InboxTypeOK
  <2>5. inbox \in [Services -> Seq(Messages)] /\ Capacity \in Nat
    BY BoundsAssumption DEF InboxTypeOK
  <2>6. Mail[to] = {q[k] : k \in 1..n}
    BY DEF Mail
  <2>11. \A s \in Services : \A k \in 1..Len(inbox[s]) : inbox[s][k].id # m.id
    BY DEF Mail
  <2>12. n = Len(inbox[to]) /\ q = inbox[to]
    OBVIOUS
  <2> HIDE DEF q, n, r
  <2>7. InboxTypeOK'
    <3>1. inbox' \in [Services -> Seq(Messages)]
      BY <2>1, <2>3, <2>5
    <3>2. \A s \in Services : Len(inbox'[s]) <= Capacity
      <4>1. Len(r) <= Capacity
        BY <2>2, <2>3, <2>5
      <4>2. \A s \in Services : Len(inbox[s]) <= Capacity
        BY DEF InboxTypeOK
      <4>. QED
        BY <2>4, <4>1, <4>2
    <3>. QED
      BY <3>1, <3>2 DEF InboxTypeOK
  <2>8. 1..(n + 1) = (1..n) \cup {n + 1}
    BY <2>2
  <2>9. Mail' = [Mail EXCEPT ![to] = @ \cup {m}]
    <3>1. {r[k] : k \in 1..Len(r)} = Mail[to] \cup {m}
      BY <2>3, <2>6, <2>8
    <3>2. \A s \in Services : Mail[s] = {inbox[s][k] : k \in 1..Len(inbox[s])}
      BY DEF Mail
    <3>3. Mail' = [s \in Services |-> {inbox'[s][k] : k \in 1..Len(inbox'[s])}]
      BY DEF Mail
    <3>4. ASSUME NEW s \in Services
          PROVE  {inbox'[s][k] : k \in 1..Len(inbox'[s])} = IF s = to THEN Mail[to] \cup {m} ELSE Mail[s]
      <4>1. CASE s = to
        BY <2>4, <3>1, <4>1
      <4>2. CASE s # to
        BY <2>4, <3>2, <4>2
      <4>. QED
        BY <4>1, <4>2
    <3>5. Mail' = [s \in Services |-> IF s = to THEN Mail[to] \cup {m} ELSE Mail[s]]
      BY <3>3, <3>4
    <3>. QED
      BY <3>5 DEF Mail
  <2>10. NoTwice'
    <3> SUFFICES ASSUME NEW s \in Services, NEW t \in Services,
                        NEW j \in 1..Len(inbox'[s]), NEW k \in 1..Len(inbox'[t]),
                        inbox'[s][j].id = inbox'[t][k].id
                 PROVE  s = t /\ j = k
      BY DEF NoTwice
    <3>1. \/ j \in 1..Len(inbox[s]) /\ inbox'[s][j] = inbox[s][j]
          \/ s = to /\ j = n + 1 /\ inbox'[s][j] = m
      BY <2>3, <2>4, <2>8, <2>12
    <3>2. \/ k \in 1..Len(inbox[t]) /\ inbox'[t][k] = inbox[t][k]
          \/ t = to /\ k = n + 1 /\ inbox'[t][k] = m
      BY <2>3, <2>4, <2>8, <2>12
    <3>3. ASSUME j \in 1..Len(inbox[s]), inbox'[s][j] = inbox[s][j],
                 k \in 1..Len(inbox[t]), inbox'[t][k] = inbox[t][k]
          PROVE  s = t /\ j = k
      BY <3>3 DEF NoTwice
    <3>4. ASSUME j \in 1..Len(inbox[s]), inbox'[s][j] = inbox[s][j], inbox'[t][k] = m
          PROVE  FALSE
      BY <2>11, <3>4
    <3>5. ASSUME k \in 1..Len(inbox[t]), inbox'[t][k] = inbox[t][k], inbox'[s][j] = m
          PROVE  FALSE
      BY <2>11, <3>5
    <3>. QED
      BY <3>1, <3>2, <3>3, <3>4, <3>5
  <2>. QED
    BY <2>1, <2>7, <2>9, <2>10
<1>2. CASE ~HasRoom(to)
  <2>1. UNCHANGED inbox /\ lost' = lost \cup {m}
    BY <1>2 DEF Push
  <2>. QED
    BY <2>1 DEF InboxTypeOK, NoTwice, Mail
<1>. QED
  BY <1>1, <1>2

\* The removal of the first message leaves those about other requests.
LEMMA RemoveTakes ==
  ASSUME InboxTypeOK, NoTwice, NEW s \in Services, inbox[s] # <<>>, Remove(s)
  PROVE  /\ InboxTypeOK' /\ NoTwice'
         /\ Head(inbox[s]) \in Mail[s]
         /\ Mail' = [t \in Services |-> {x \in Mail[t] : x.id # Head(inbox[s]).id}]
<1> DEFINE q == inbox[s]
           n == Len(q)
           r == Tail(q)
<1>1. q \in Seq(Messages) /\ n \in Nat \ {0} /\ n <= Capacity
  BY MailType, EmptySeq DEF InboxTypeOK
<1>2. /\ r \in Seq(Messages) /\ Len(r) = n - 1
      /\ \A k \in 1..Len(r) : r[k] = q[k + 1]
      /\ Head(q) = q[1]
  BY <1>1, HeadTailProperties
<1>3. inbox' = [inbox EXCEPT ![s] = r] /\ inbox \in [Services -> Seq(Messages)]
  BY DEF Remove, InboxTypeOK
<1>4. inbox'[s] = r /\ \A t \in Services \ {s} : inbox'[t] = inbox[t]
  BY <1>3
<1>5. \A t \in Services : Len(inbox[t]) \in Nat
  BY MailType
<1>6. Head(q) \in Mail[s]
  BY <1>1, <1>2 DEF Mail
<1>7. Mail[s] = {q[k] : k \in 1..n}
  BY DEF Mail
<1>8. Capacity \in Nat
  BY BoundsAssumption
<1>9. \A t \in Services : \A j \in 1..Len(inbox[t]) :
        inbox[t][j].id = q[1].id => t = s /\ j = 1
  BY <1>1 DEF NoTwice
<1>10. inbox[s] = q
  OBVIOUS
<1> HIDE DEF q, n, r
<1>11. InboxTypeOK'
  <2>1. inbox' \in [Services -> Seq(Messages)]
    BY <1>2, <1>3
  <2>2. \A t \in Services : Len(inbox'[t]) <= Capacity
    <3>1. Len(r) <= Capacity
      BY <1>1, <1>2, <1>8
    <3>2. \A t \in Services : Len(inbox[t]) <= Capacity
      BY DEF InboxTypeOK
    <3>. QED
      BY <1>4, <3>1, <3>2
  <2>. QED
    BY <2>1, <2>2 DEF InboxTypeOK
<1>12. NoTwice'
  <2> SUFFICES ASSUME NEW t \in Services, NEW u \in Services,
                      NEW j \in 1..Len(inbox'[t]), NEW k \in 1..Len(inbox'[u]),
                      inbox'[t][j].id = inbox'[u][k].id
               PROVE  t = u /\ j = k
    BY DEF NoTwice
  <2> DEFINE jj == IF t = s THEN j + 1 ELSE j
             kk == IF u = s THEN k + 1 ELSE k
  <2>1. jj \in 1..Len(inbox[t]) /\ inbox'[t][j] = inbox[t][jj]
    BY <1>1, <1>2, <1>4, <1>10 DEF n
  <2>2. kk \in 1..Len(inbox[u]) /\ inbox'[u][k] = inbox[u][kk]
    BY <1>1, <1>2, <1>4, <1>10 DEF n
  <2>3. t = u /\ jj = kk
    BY <2>1, <2>2 DEF NoTwice
  <2>. QED
    BY <1>1, <1>2, <1>4, <1>5, <2>3
<1>13. ASSUME NEW t \in Services
       PROVE  Mail'[t] = {x \in Mail[t] : x.id # q[1].id}
  <2>1. CASE t = s
    <3>1. Mail'[s] = {r[k] : k \in 1..Len(r)}
      BY <1>4 DEF Mail
    <3>2. \A k \in 1..Len(r) : k + 1 \in 1..n /\ k + 1 # 1 /\ r[k] = q[k + 1]
      BY <1>1, <1>2
    <3>3. \A k \in 1..n : k # 1 => k - 1 \in 1..Len(r) /\ q[k] = r[k - 1]
      BY <1>1, <1>2
    <3>4. \A k \in 1..n : q[k].id = q[1].id <=> k = 1
      BY <1>9, <1>10 DEF n
    <3>. QED
      BY <1>7, <2>1, <3>1, <3>2, <3>3, <3>4
  <2>2. CASE t # s
    <3>1. Mail'[t] = Mail[t]
      BY <1>4, <2>2 DEF Mail
    <3>2. \A x \in Mail[t] : x.id # q[1].id
      BY <1>9, <2>2 DEF Mail
    <3>. QED
      BY <3>1, <3>2
  <2>. QED
    BY <2>1, <2>2
<1>14. Mail' = [t \in Services |-> Mail'[t]]
  BY DEF Mail
<1>15. Mail' = [t \in Services |-> {x \in Mail[t] : x.id # q[1].id}]
  BY <1>13, <1>14
<1>. QED
  BY <1>2, <1>6, <1>11, <1>12, <1>15 DEF q

------------------------------------------------------------------------------
(* The inductive invariant.                                                 *)

Live == {"running", "calling", "called", "asleep"}
Waiting == {"calling", "called"}

\* Requests are numbered up to requests, and a service has used fewer sessions
\* than requests were sent.
NumbersInv ==
  /\ \A s \in Services : session_id[s] <= requests
  /\ \A c \in Requests : costate[c] = "calling" => session_id[home[c]] < requests
  /\ \A c \in Requests : costate[c] # "none" => c <= requests
  /\ \A c \in Requests : awaiting[c] <= requests
  /\ \A s \in Services : \A m \in Mail[s] : m.id <= requests
  /\ \A m \in lost : m.id <= requests

RunInv ==
  /\ RunningThreadIsRunning
  /\ \A c \in Requests : timer[c] => costate[c] = "asleep"

\* A request in an inbox or lost has no coroutine yet; that of a response has
\* returned.
MailInv ==
  /\ \A s \in Services : \A m \in Mail[s] :
       costate[m.id] = IF m.type = "request" THEN "none" ELSE "returned"
  /\ \A m \in lost : m.type = "request" =>
       /\ costate[m.id] = "none"
       /\ \A s \in Services : \A x \in Mail[s] : x.id # m.id

\* A coroutine in service.call, and no other, waits for a response of its own.
AwaitInv ==
  /\ \A c \in Requests : awaiting[c] # None <=> costate[c] \in Waiting
  /\ \A c, d \in Requests : awaiting[c] # None /\ awaiting[c] = awaiting[d] => c = d

\* The response to request r with session n will find on service s the coroutine
\* that made the request.
Awaits(s, n, r) ==
  \E c \in Requests :
    /\ home[c] = s
    /\ awaiting[c] = r
    /\ \/ costate[c] = "called" /\ n \in Requests /\ suspend[s][n] = c
       \/ costate[c] = "calling" /\ session_id[s] = n

\* So it is for the responses on their way and for those that will be sent.
CallInv ==
  /\ \A s \in Services : \A m \in Mail[s] :
       /\ m.type = "request" /\ m.session > 0 => Awaits(m.from, m.session, m.id)
       /\ m.type = "response" => m.session > 0 /\ Awaits(s, m.session, m.id)
  /\ \A c \in Requests : response[c] > 0 => Awaits(address[c], response[c], c)

\* What a coroutine in service.call waits for: its request, with a session, is in
\* an inbox or has a coroutine that knows the session; its response is in its
\* inbox; or one of them was lost.
Cause(c) ==
  LET r == awaiting[c]
  IN \/ \E s \in Services : \E m \in Mail[s] :
          /\ m.id = r /\ m.session > 0
          /\ m.type = "response" => s = home[c]
     \/ costate[r] \in Live \cup {"failed"} /\ response[r] > 0
     \/ \E m \in lost : m.id = r

CauseInv == \A c \in Requests : costate[c] \in Waiting => Cause(c)

SessionInv ==
  /\ TypeOK
  /\ NoTwice
  /\ NumbersInv
  /\ RunInv
  /\ TablesMatchCoroutines
  /\ RegisteredWhileCalled
  /\ MailInv
  /\ AwaitInv
  /\ CallInv
  /\ CauseInv

------------------------------------------------------------------------------
(* The actions, as the proofs below use them.                               *)

\* The types, one element at a time.
LEMMA Typed ==
  ASSUME TypeOK
  PROVE  /\ InboxTypeOK /\ lost \subseteq Messages
         /\ requests \in Nat /\ requests <= MaxRequests
         /\ \A s \in Services :
              /\ session_id[s] \in Nat \ {0} /\ session_id[s] <= MaxRequests
              /\ running[s] \in Requests \cup {None}
              /\ \A n \in Requests : suspend[s][n] \in Requests \cup {None}
              /\ Mail[s] \subseteq Messages
         /\ \A c \in Requests :
              /\ address[c] \in Services \cup {nil} /\ response[c] \in Sessions \cup {nil}
              /\ home[c] \in Services /\ awaiting[c] \in Requests \cup {None}
<1>1. InboxTypeOK /\ lost \subseteq Messages
  BY DEF TypeOK, InboxTypeOK
<1>2. requests \in Requests /\ session_id \in [Services -> Requests]
  BY DEF TypeOK
<1>3. /\ running \in [Services -> Requests \cup {None}]
      /\ suspend \in [Services -> [Requests -> Requests \cup {None}]]
      /\ address \in [Requests -> Services \cup {nil}]
      /\ response \in [Requests -> Sessions \cup {nil}]
      /\ home \in [Requests -> Services]
      /\ awaiting \in [Requests -> Requests \cup {None}]
  BY DEF TypeOK
<1>4. \A s \in Services : session_id[s] \in Nat \ {0} /\ session_id[s] <= MaxRequests
  BY <1>2, BoundsAssumption DEF Requests
<1>. QED
  BY <1>1, <1>2, <1>3, <1>4, MailType, BoundsAssumption DEF Requests

\* What the steps that start, stop and steer a service's loop leave alone.
Quiet ==
  /\ UNCHANGED <<Mail, lost, running, session_id, suspend, address, response, home,
                 costate, awaiting, requests>>
  /\ \A c \in Requests : timer'[c] => timer[c]
  /\ \A s \in Services : phase'[s] # phase[s] => running[s] = None

\* The steps that touch no call and no message.
LEMMA QuietSteps ==
  ASSUME TypeOK, RunInv, NEW s \in Services,
         \/ Load(s) \/ Wake(s) \/ Drained(s) \/ Exit(s)
         \/ \E c \in Requests : Quit(s, c) \/ \E to \in Services : Spawn(s, c, to)
  PROVE  Quiet /\ TypeOK'
<1>1. UNCHANGED <<inbox, lost, running, session_id, suspend, address, response, home, costate,
                  awaiting, requests, naps>>
  BY DEF Load, Wake, Drained, Exit, Quit, Spawn, tables, coros
<1>2. \A t \in Services :
        phase'[t] # phase[t] => phase[t] \in {"none", "loading", "poll"} \/ running[t] = None
  BY DEF Load, Wake, Drained, Draining, Exit, Quit, Spawn, TypeOK
<1>3. \A t \in Services : phase'[t] # phase[t] => running[t] = None
  BY <1>2 DEF RunInv, RunningThreadIsRunning
<1>4. \A c \in Requests : timer'[c] => timer[c]
  BY DEF Load, Wake, Drained, Exit, Quit, Spawn, coros
<1>5. /\ pending' \in [Services -> BOOLEAN]
      /\ closed' \in [Services -> BOOLEAN]
      /\ quit' \in [Services -> BOOLEAN]
  BY DEF Load, Wake, Drained, Exit, Quit, CloseAsync, Spawn, TypeOK
<1>6. timer' \in [Requests -> BOOLEAN]
  <2>1. ASSUME Drained(s)
        PROVE  timer' \in [Requests -> BOOLEAN]
    BY <2>1 DEF Drained
  <2>2. ASSUME NEW c \in Requests, Quit(s, c)
        PROVE  timer' \in [Requests -> BOOLEAN]
    BY <2>2 DEF Quit
  <2>3. ASSUME UNCHANGED timer
        PROVE  timer' \in [Requests -> BOOLEAN]
    BY <2>3 DEF TypeOK
  <2>. QED
    BY <2>1, <2>2, <2>3 DEF Load, Wake, Exit, Spawn, coros
<1>7. \E t \in Services : \E p \in {"loading", "failed", "poll", "drain", "exited"} :
        phase' \in {phase, [phase EXCEPT ![t] = p]}
  <2>1. ASSUME Load(s)
        PROVE  \E p \in {"failed", "poll"} : phase' = [phase EXCEPT ![s] = p]
    BY <2>1 DEF Load
  <2>2. ASSUME Wake(s) \/ Drained(s) \/ Exit(s)
        PROVE  \E p \in {"drain", "poll", "exited"} : phase' = [phase EXCEPT ![s] = p]
    BY <2>2 DEF Wake, Drained, Exit
  <2>3. ASSUME NEW to \in Services, NEW c \in Requests, Spawn(s, c, to)
        PROVE  phase' = [phase EXCEPT ![to] = "loading"]
    BY <2>3 DEF Spawn
  <2>4. ASSUME NEW c \in Requests, Quit(s, c)
        PROVE  phase' = phase
    BY <2>4 DEF Quit
  <2>. QED
    BY <2>1, <2>2, <2>3, <2>4
<1>8. phase' \in [Services -> {"none", "loading", "failed", "poll", "drain", "timer",
                               "exited"}]
  BY <1>7 DEF TypeOK
<1>9. UNCHANGED Mail
  BY <1>1 DEF Mail
<1>. QED
  BY <1>1, <1>3, <1>4, <1>5, <1>6, <1>8, <1>9 DEF Quiet, TypeOK

\* A coroutine that runs, or makes a call, is the one its service runs.
LEMMA OneRuns ==
  ASSUME TypeOK, RunInv, NEW s \in Services, NEW c \in Requests, running[s] = c
  PROVE  /\ home[c] = s /\ costate[c] \in {"running", "calling"}
         /\ phase[s] \in {"drain", "timer"} /\ ~timer[c]
         /\ \A t \in Services \ {s} : running[t] # c
         /\ \A d \in Requests \ {c} :
              costate[d] \in {"running", "calling"} => home[d] # s
<1>1. c # None
  BY DEF Requests, None
<1>2. /\ home[c] = s /\ costate[c] \in {"running", "calling"}
      /\ phase[s] \in {"drain", "timer"}
  BY <1>1 DEF RunInv, RunningThreadIsRunning
<1>3. ~timer[c]
  BY <1>2 DEF RunInv
<1>4. \A t \in Services \ {s} : running[t] # c
  BY <1>1, <1>2 DEF RunInv, RunningThreadIsRunning
<1>5. \A d \in Requests \ {c} : costate[d] \in {"running", "calling"} => home[d] # s
  BY DEF RunInv, RunningThreadIsRunning
<1>. QED
  BY <1>2, <1>3, <1>4, <1>5

\* A coroutine c of s goes from one state to another, and nothing that others
\* wait for changes.
Turn(s, c, from, to) ==
  /\ UNCHANGED <<Mail, lost, session_id, suspend, address, response, home, awaiting,
                 requests>>
  /\ home[c] = s /\ costate[c] = from
  /\ costate' = [costate EXCEPT ![c] = to]
  /\ running' = [running EXCEPT ![s] = IF to = "running" THEN c ELSE None]
  /\ \A t \in Services \ {s} : phase'[t] = phase[t]
  /\ to = "running" => phase'[s] = "timer"

\* It wakes, falls asleep or fails.
Turns(s, c) ==
  \/ /\ Turn(s, c, "asleep", "running") /\ running[s] = None
     /\ timer' = [timer EXCEPT ![c] = FALSE]
  \/ /\ Turn(s, c, "running", "asleep") /\ running[s] = c
     /\ timer' = [timer EXCEPT ![c] = TRUE]
  \/ Turn(s, c, "running", "failed") /\ running[s] = c /\ UNCHANGED timer

\* The steps at which a coroutine only changes its state.
LEMMA TurnSteps ==
  ASSUME TypeOK, RunInv, NEW s \in Services, NEW c \in Requests,
         TimerFires(s, c) \/ Sleep(s, c) \/ Fail(s, c)
  PROVE  TypeOK' /\ Turns(s, c)
<1> USE DEF tables, coros, Turn
<1>0. UNCHANGED Mail
  BY DEF TimerFires, Sleep, Fail, Mail
<1>1. ASSUME TimerFires(s, c)
      PROVE  /\ TypeOK' /\ Turn(s, c, "asleep", "running") /\ running[s] = None
             /\ timer' = [timer EXCEPT ![c] = FALSE]
  <2>1. phase[s] = "poll" /\ timer[c]
    BY <1>1 DEF TimerFires
  <2>2. running[s] = None /\ costate[c] = "asleep"
    BY <2>1 DEF RunInv, RunningThreadIsRunning
  <2>3. TypeOK'
    BY <1>1 DEF TimerFires, Resume, TypeOK
  <2>4. Turn(s, c, "asleep", "running")
    BY <1>0, <1>1, <2>2 DEF TimerFires, Resume, TypeOK
  <2>. QED
    BY <1>1, <2>2, <2>3, <2>4 DEF TimerFires
<1>2. ASSUME Sleep(s, c)
      PROVE  /\ TypeOK' /\ Turn(s, c, "running", "asleep") /\ running[s] = c
             /\ timer' = [timer EXCEPT ![c] = TRUE]
  <2>1. naps[c] + 1 \in 0..MaxNaps
    <3>1. naps[c] \in 0..MaxNaps /\ naps[c] < MaxNaps
      BY <1>2 DEF Sleep, TypeOK
    <3>. QED
      BY <3>1, BoundsAssumption
  <2>2. home[c] = s
    BY <1>2, OneRuns DEF Sleep, Runs
  <2>. QED
    BY <1>0, <1>2, <2>1, <2>2 DEF Sleep, Runs, StartTimer, Yield, TypeOK
<1>3. ASSUME Fail(s, c)
      PROVE  TypeOK' /\ Turn(s, c, "running", "failed") /\ running[s] = c /\ UNCHANGED timer
  <2>1. home[c] = s
    BY <1>3, OneRuns DEF Fail, Runs
  <2>. QED
    BY <1>0, <1>3, <2>1 DEF Fail, Runs, Yield, TypeOK
<1>. QED
  BY <1>1, <1>2, <1>3 DEF Turns

\* The service receives the request m, and its coroutine begins to run.
GetsRequest(s, m) ==
  /\ m \in Mail[s] /\ m \in Messages /\ m.type = "request"
  /\ running[s] = None /\ phase[s] = "drain"
  /\ Mail' = [t \in Services |-> {x \in Mail[t] : x.id # m.id}]
  /\ address' = [address EXCEPT ![m.id] = m.from]
  /\ response' = [response EXCEPT ![m.id] = m.session]
  /\ home' = [home EXCEPT ![m.id] = s]
  /\ running' = [running EXCEPT ![s] = m.id]
  /\ costate' = [costate EXCEPT ![m.id] = "running"]
  /\ UNCHANGED <<phase, session_id, suspend, awaiting, timer, requests, lost>>

\* A request is taken from the inbox.
LEMMA RequestStep ==
  ASSUME TypeOK, NoTwice, NEW s \in Services, ReceiveRequest(s)
  PROVE  TypeOK' /\ NoTwice' /\ \E m \in Mail[s] : GetsRequest(s, m)
<1> DEFINE m == Head(inbox[s])
<1>1. /\ InboxTypeOK' /\ NoTwice'
      /\ m \in Mail[s]
      /\ Mail' = [t \in Services |-> {x \in Mail[t] : x.id # m.id}]
  BY RemoveTakes DEF ReceiveRequest, TypeOK, InboxTypeOK
<1>2. m \in Messages
  BY <1>1, MailType DEF TypeOK, InboxTypeOK
<1> HIDE DEF m
<1>3. /\ running[s] = None /\ phase[s] = "drain" /\ m.type = "request"
      /\ address' = [address EXCEPT ![m.id] = m.from]
      /\ response' = [response EXCEPT ![m.id] = m.session]
      /\ home' = [home EXCEPT ![m.id] = s]
      /\ running' = [running EXCEPT ![s] = m.id]
      /\ costate' = [costate EXCEPT ![m.id] = "running"]
      /\ UNCHANGED <<pending, closed, quit, phase, session_id, suspend, awaiting, timer, naps,
                     requests, lost>>
  BY DEF ReceiveRequest, Resume, Draining, m
<1>4. m.id \in Requests /\ m.from \in Services /\ m.session \in Sessions
  BY <1>2 DEF Messages
<1>5. TypeOK'
  BY <1>1, <1>3, <1>4 DEF TypeOK, InboxTypeOK
<1>. QED
  BY <1>1, <1>2, <1>3, <1>5 DEF GetsRequest

\* The service receives the response m, which coroutine c waits for, and c goes on.
GetsResponse(s, c, m) ==
  /\ m \in Mail[s] /\ m \in Messages /\ m.type = "response"
  /\ running[s] = None /\ phase[s] = "drain"
  /\ home[c] = s /\ costate[c] = "called" /\ awaiting[c] = m.id
  /\ m.session \in Requests /\ suspend[s][m.session] = c
  /\ Mail' = [t \in Services |-> {x \in Mail[t] : x.id # m.id}]
  /\ suspend' = [suspend EXCEPT ![s][m.session] = None]
  /\ awaiting' = [awaiting EXCEPT ![c] = None]
  /\ running' = [running EXCEPT ![s] = c]
  /\ costate' = [costate EXCEPT ![c] = "running"]
  /\ UNCHANGED <<phase, session_id, address, response, home, timer, requests, lost>>

\* A response is taken from the inbox.
LEMMA ResponseStep ==
  ASSUME TypeOK, NoTwice, RunInv, CallInv, NEW s \in Services, ReceiveResponse(s)
  PROVE  TypeOK' /\ NoTwice' /\ \E m \in Mail[s], c \in Requests : GetsResponse(s, c, m)
<1> DEFINE m == Head(inbox[s])
<1>1. /\ InboxTypeOK' /\ NoTwice'
      /\ m \in Mail[s]
      /\ Mail' = [t \in Services |-> {x \in Mail[t] : x.id # m.id}]
  BY RemoveTakes DEF ReceiveResponse, TypeOK, InboxTypeOK
<1>2. m \in Messages
  BY <1>1, MailType DEF TypeOK, InboxTypeOK
<1>3. /\ running[s] = None /\ phase[s] = "drain" /\ m.type = "response"
  BY <1>2 DEF ReceiveResponse, Draining, Messages
<1>4. PICK c \in Requests :
        /\ home[c] = s /\ awaiting[c] = m.id /\ costate[c] = "called"
        /\ m.session \in Requests /\ suspend[s][m.session] = c
  <2>1. Awaits(s, m.session, m.id)
    BY <1>1, <1>3 DEF CallInv
  <2>2. \A c \in Requests : home[c] = s => costate[c] # "calling"
    BY <1>3 DEF RunInv, RunningThreadIsRunning, Requests, None
  <2>. QED
    BY <2>1, <2>2 DEF Awaits
<1>5. c # None
  BY DEF Requests, None
<1>6. /\ suspend' = [suspend EXCEPT ![s][m.session] = None]
      /\ awaiting' = [awaiting EXCEPT ![c] = None]
      /\ running' = [running EXCEPT ![s] = c]
      /\ costate' = [costate EXCEPT ![c] = "running"]
      /\ UNCHANGED <<pending, closed, quit, phase, session_id, address, response, home, timer,
                     naps, requests, lost>>
  BY <1>4, <1>5 DEF ReceiveResponse, Unregister, Resume
<1> HIDE DEF m
<1>7. TypeOK'
  BY <1>1, <1>4, <1>6 DEF TypeOK, InboxTypeOK
<1>. QED
  BY <1>1, <1>2, <1>3, <1>4, <1>6, <1>7 DEF GetsResponse

\* The message m is pushed to service to, and may be lost.
Posted(to, m) ==
  /\ m \in Messages
  /\ \/ Mail' = [Mail EXCEPT ![to] = @ \cup {m}] /\ UNCHANGED lost
     \/ UNCHANGED Mail /\ lost' = lost \cup {m}

\* A session that did not wrap is carried as it is.
LEMMA SessionIsKept ==
  ASSUME NEW n \in Sessions
  PROVE  n % SessionMod = n
BY BoundsAssumption DEF Sessions

\* Coroutine c of service s sends a request with session n.
Requested(s, c, to, n) ==
  /\ running[s] = c /\ costate[c] = "running"
  /\ requests + 1 \in Requests /\ requests' = requests + 1
  /\ Posted(to, [type |-> "request", from |-> s, session |-> n, id |-> requests + 1])
  /\ UNCHANGED <<phase, running, session_id, suspend, address, response, home, timer>>

Sends(s, c, to) == Requested(s, c, to, 0) /\ UNCHANGED <<costate, awaiting>>

Calls(s, c, to) ==
  /\ Requested(s, c, to, session_id[s])
  /\ costate' = [costate EXCEPT ![c] = "calling"]
  /\ awaiting' = [awaiting EXCEPT ![c] = requests + 1]

\* A new message keeps the types, wherever it ends up.
LEMMA PushTypes ==
  ASSUME TypeOK, NoTwice, NEW to \in Services, NEW m \in Messages, Push(to, m),
         \A s \in Services : \A x \in Mail[s] : x.id # m.id
  PROVE  /\ InboxTypeOK' /\ NoTwice' /\ Posted(to, m)
         /\ pending' \in [Services -> BOOLEAN] /\ lost' \subseteq Messages
<1>1. InboxTypeOK
  BY DEF TypeOK, InboxTypeOK
<1>2. pending' \in [Services -> BOOLEAN]
  BY DEF Push, TypeOK, CanBeSignalled
<1>3. lost' \subseteq Messages
  BY DEF Push, TypeOK
<1>. QED
  BY <1>1, <1>2, <1>3, PushAdds DEF Posted

\* The next number is in no inbox yet.
LEMMA NumberIsNew ==
  ASSUME TypeOK, NumbersInv
  PROVE  \A t \in Services : \A x \in Mail[t] : x.id # requests + 1
<1> SUFFICES ASSUME NEW t \in Services, NEW x \in Mail[t]
             PROVE  x.id # requests + 1
  OBVIOUS
<1>1. x \in Messages
  BY Typed
<1>2. x.id \in Nat /\ requests \in Nat
  BY <1>1, Typed DEF Messages, Requests
<1>3. x.id <= requests
  BY DEF NumbersInv
<1>. QED
  BY <1>2, <1>3

\* A coroutine sends.
LEMMA SendStep ==
  ASSUME TypeOK, NoTwice, NumbersInv, NEW s \in Services, NEW c \in Requests,
         NEW to \in Services, Send(s, c, to)
  PROVE  TypeOK' /\ NoTwice' /\ Sends(s, c, to)
<1> DEFINE m == [type |-> "request", from |-> s, session |-> 0, id |-> requests + 1]
<1>1. requests + 1 \in Requests /\ requests \in Nat
  BY BoundsAssumption DEF Send, TypeOK, Requests
<1>2. 0 \in Sessions
  BY BoundsAssumption DEF Sessions
<1>3. m \in Messages /\ m.id = requests + 1 /\ Message("request", s, 0, requests + 1) = m
  BY <1>1, <1>2, SessionIsKept DEF Messages, Message
<1>4. \A t \in Services : \A x \in Mail[t] : x.id # m.id
  BY <1>3, NumberIsNew
<1> HIDE DEF m
<1>5. Push(to, m)
  BY <1>3 DEF Send
<1>6. /\ InboxTypeOK' /\ NoTwice' /\ Posted(to, m)
      /\ pending' \in [Services -> BOOLEAN] /\ lost' \subseteq Messages
  BY <1>3, <1>4, <1>5, PushTypes
<1>7. /\ running[s] = c /\ costate[c] = "running" /\ requests' = requests + 1
      /\ UNCHANGED <<closed, quit, phase, running, session_id, suspend, address, response, home,
                     timer, naps, costate, awaiting>>
  BY DEF Send, Runs, tables, coros
<1>8. TypeOK'
  BY <1>1, <1>6, <1>7 DEF TypeOK, InboxTypeOK
<1>. QED
  BY <1>1, <1>6, <1>7, <1>8 DEF Sends, Requested, m

\* A coroutine calls: the request goes out.
LEMMA CallSendStep ==
  ASSUME NoWrap, TypeOK, NoTwice, NumbersInv, NEW s \in Services, NEW c \in Requests,
         NEW to \in Services, CallSend(s, c, to)
  PROVE  TypeOK' /\ NoTwice' /\ Calls(s, c, to)
<1> DEFINE n == session_id[s]
           m == [type |-> "request", from |-> s, session |-> n, id |-> requests + 1]
<1>1. requests + 1 \in Requests /\ requests \in Nat
  BY BoundsAssumption DEF CallSend, TypeOK, Requests
<1>2. n \in Sessions
  <2>1. n \in Requests
    BY DEF TypeOK
  <2>. QED
    BY <2>1, BoundsAssumption DEF Sessions, NoWrap, Requests
<1>3. m \in Messages /\ m.id = requests + 1 /\ Message("request", s, n, requests + 1) = m
  BY <1>1, <1>2, SessionIsKept DEF Messages, Message
<1>4. \A t \in Services : \A x \in Mail[t] : x.id # m.id
  BY <1>3, NumberIsNew
<1>5. Push(to, m)
  BY <1>3 DEF CallSend
<1> HIDE DEF m
<1>6. /\ InboxTypeOK' /\ NoTwice' /\ Posted(to, m)
      /\ pending' \in [Services -> BOOLEAN] /\ lost' \subseteq Messages
  BY <1>3, <1>4, <1>5, PushTypes
<1>7. /\ running[s] = c /\ costate[c] = "running" /\ requests' = requests + 1
      /\ costate' = [costate EXCEPT ![c] = "calling"]
      /\ awaiting' = [awaiting EXCEPT ![c] = requests + 1]
      /\ UNCHANGED <<closed, quit, phase, running, session_id, suspend, address, response, home,
                     timer, naps>>
  BY DEF CallSend, Runs, tables
<1>8. TypeOK'
  BY <1>1, <1>6, <1>7 DEF TypeOK, InboxTypeOK
<1>. QED
  BY <1>1, <1>6, <1>7, <1>8 DEF Calls, Requested, m

\* Coroutine c of service s, which makes a call, is registered and yields.
Suspended(s, c) ==
  /\ running[s] = c /\ costate[c] = "calling"
  /\ session_id[s] + 1 \in Requests
  /\ suspend' = [suspend EXCEPT ![s][session_id[s]] = c]
  /\ session_id' = [session_id EXCEPT ![s] = @ + 1]
  /\ costate' = [costate EXCEPT ![c] = "called"]
  /\ running' = [running EXCEPT ![s] = None]
  /\ \A t \in Services \ {s} : phase'[t] = phase[t]
  /\ UNCHANGED <<Mail, lost, address, response, home, awaiting, timer, requests>>

\* The caller is suspended under its session.
LEMMA CallSuspendStep ==
  ASSUME TypeOK, RunInv, NumbersInv, NEW s \in Services, NEW c \in Requests, CallSuspend(s, c)
  PROVE  TypeOK' /\ Suspended(s, c)
<1>1. running[s] = c /\ costate[c] = "calling" /\ home[c] = s
  BY OneRuns DEF CallSuspend
<1>2. session_id[s] \in Requests /\ session_id[s] + 1 \in Requests
  <2>1. session_id[s] < requests
    BY <1>1 DEF NumbersInv
  <2>. QED
    BY <2>1, Typed, BoundsAssumption DEF Requests
<1>3. phase' \in [Services -> {"none", "loading", "failed", "poll", "drain", "timer",
                               "exited"}]
  BY DEF CallSuspend, Yield, TypeOK
<1>4. TypeOK'
  BY <1>2, <1>3 DEF CallSuspend, Register, NextSession, Yield, TypeOK
<1>5. \A t \in Services \ {s} : phase'[t] = phase[t]
  BY DEF CallSuspend, Yield, TypeOK
<1>6. UNCHANGED Mail
  BY DEF CallSuspend, Mail
<1>. QED
  BY <1>1, <1>2, <1>4, <1>5, <1>6 DEF CallSuspend, Register, NextSession, Yield, Suspended

\* Coroutine c of service s ends, with a response if one is wanted.
Returned(s, c) ==
  /\ running[s] = c /\ costate[c] = "running"
  /\ \/ /\ response[c] > 0 /\ address[c] \in Services
        /\ Posted(address[c],
                  [type |-> "response", from |-> s, session |-> response[c], id |-> c])
     \/ ~(response[c] > 0) /\ UNCHANGED <<Mail, lost>>
  /\ address' = [address EXCEPT ![c] = nil]
  /\ response' = [response EXCEPT ![c] = nil]
  /\ costate' = [costate EXCEPT ![c] = "returned"]
  /\ running' = [running EXCEPT ![s] = None]
  /\ \A t \in Services \ {s} : phase'[t] = phase[t]
  /\ UNCHANGED <<session_id, suspend, home, awaiting, timer, requests>>

\* A coroutine returns, and answers if it was called.
LEMMA ReturnStep ==
  ASSUME TypeOK, NoTwice, TablesMatchCoroutines, MailInv,
         NEW s \in Services, NEW c \in Requests, Return(s, c)
  PROVE  TypeOK' /\ NoTwice' /\ Returned(s, c)
<1> DEFINE m == [type |-> "response", from |-> s, session |-> response[c], id |-> c]
<1>1. running[s] = c /\ costate[c] = "running"
  BY DEF Return, Runs
<1>2. /\ address' = [address EXCEPT ![c] = nil]
      /\ response' = [response EXCEPT ![c] = nil]
      /\ costate' = [costate EXCEPT ![c] = "returned"]
      /\ running' = [running EXCEPT ![s] = None]
      /\ UNCHANGED <<closed, quit, session_id, suspend, home, awaiting, timer, naps, requests>>
  BY DEF Return, EndSession, Yield
<1>3. /\ phase' \in [Services -> {"none", "loading", "failed", "poll", "drain", "timer",
                                  "exited"}]
      /\ \A t \in Services \ {s} : phase'[t] = phase[t]
  BY DEF Return, Yield, TypeOK
<1>4. InboxTypeOK
  BY DEF TypeOK, InboxTypeOK
<1>5. /\ InboxTypeOK' /\ NoTwice'
      /\ \/ /\ response[c] > 0 /\ address[c] \in Services
            /\ Posted(address[c], m)
         \/ ~(response[c] > 0) /\ UNCHANGED <<Mail, lost>>
      /\ pending' \in [Services -> BOOLEAN] /\ lost' \subseteq Messages
  <2>1. CASE response[c] > 0
    <3>1. response[c] \in Sessions /\ address[c] \in Services
      <4>1. response[c] # nil /\ address[c] # nil
        BY <2>1 DEF TablesMatchCoroutines, nil
      <4>. QED
        BY <4>1, Typed
    <3>2. m \in Messages /\ m.id = c /\ Message("response", s, response[c], c) = m
      BY <3>1, SessionIsKept DEF Messages, Message
    <3>3. \A t \in Services : \A x \in Mail[t] : x.id # c
      BY <1>1 DEF MailInv
    <3> HIDE DEF m
    <3>4. Push(address[c], m)
      BY <2>1, <3>2 DEF Return, IsWanted
    <3>. QED
      BY <2>1, <3>1, <3>2, <3>3, <3>4, PushTypes
  <2>2. CASE ~(response[c] > 0)
    <3>1. UNCHANGED <<inbox, pending, lost>>
      BY <2>2 DEF Return, IsWanted
    <3>2. InboxTypeOK' /\ NoTwice' /\ UNCHANGED Mail
      BY <1>4, <3>1 DEF InboxTypeOK, NoTwice, Mail
    <3>3. pending' \in [Services -> BOOLEAN] /\ lost' \subseteq Messages
      BY <3>1 DEF TypeOK
    <3>. QED
      BY <2>2, <3>1, <3>2, <3>3
  <2>. QED
    BY <2>1, <2>2
<1> HIDE DEF m
<1>6. nil \in Services \cup {nil} /\ nil \in Sessions \cup {nil}
  OBVIOUS
<1>7. TypeOK'
  BY <1>2, <1>3, <1>5, <1>6 DEF TypeOK, InboxTypeOK
<1>. QED
  BY <1>1, <1>2, <1>3, <1>5, <1>7 DEF Returned, m

\* Every step is one of these.
SessionStep ==
  \/ Quiet
  \/ \E s \in Services : \E m \in Mail[s] : GetsRequest(s, m)
  \/ \E s \in Services, c \in Requests :
       \/ Turns(s, c)
       \/ \E m \in Mail[s] : GetsResponse(s, c, m)
       \/ \E to \in Services : Sends(s, c, to) \/ Calls(s, c, to)
       \/ Suspended(s, c)
       \/ Returned(s, c)

\* Every step keeps the types, and is one of these kinds.
LEMMA Steps ==
  ASSUME NoWrap, SessionInv, [Next]_vars
  PROVE  TypeOK' /\ NoTwice' /\ SessionStep
<1> USE DEF SessionInv
<1>1. ASSUME NEW s \in Services, Loop(s)
      PROVE  TypeOK' /\ NoTwice' /\ SessionStep
  <2>1. CASE Load(s) \/ Wake(s) \/ Drained(s) \/ Exit(s)
    <3>1. UNCHANGED inbox
      BY <2>1 DEF Load, Wake, Drained, Exit
    <3>. QED
      BY <2>1, <3>1, QuietSteps DEF NoTwice, SessionStep
  <2>2. CASE ReceiveRequest(s)
    BY <2>2, RequestStep DEF SessionStep
  <2>3. CASE ReceiveResponse(s)
    BY <2>3, ResponseStep DEF SessionStep
  <2>4. ASSUME NEW c \in Requests, TimerFires(s, c)
        PROVE  TypeOK' /\ NoTwice' /\ SessionStep
    <3>1. UNCHANGED inbox
      BY <2>4 DEF TimerFires
    <3>. QED
      BY <2>4, <3>1, TurnSteps DEF NoTwice, SessionStep
  <2>. QED
    BY <1>1, <2>1, <2>2, <2>3, <2>4 DEF Loop
<1>2. ASSUME NEW s \in Services, Coroutine(s)
      PROVE  TypeOK' /\ NoTwice' /\ SessionStep
  <2>1. ASSUME NEW c \in Requests, NEW to \in Services, Spawn(s, c, to) \/ Quit(s, c)
        PROVE  TypeOK' /\ NoTwice' /\ SessionStep
    <3>1. UNCHANGED inbox
      BY <2>1 DEF Spawn, Quit
    <3>. QED
      BY <2>1, <3>1, QuietSteps DEF NoTwice, SessionStep
  <2>2. ASSUME NEW c \in Requests, NEW to \in Services, Send(s, c, to) \/ CallSend(s, c, to)
        PROVE  TypeOK' /\ NoTwice' /\ SessionStep
    BY <2>2, SendStep, CallSendStep DEF SessionStep
  <2>3. ASSUME NEW c \in Requests, Sleep(s, c) \/ Fail(s, c) \/ CallSuspend(s, c)
        PROVE  TypeOK' /\ NoTwice' /\ SessionStep
    <3>1. UNCHANGED inbox
      BY <2>3 DEF Sleep, Fail, CallSuspend
    <3>. QED
      BY <2>3, <3>1, TurnSteps, CallSuspendStep DEF NoTwice, SessionStep
  <2>4. ASSUME NEW c \in Requests, Return(s, c)
        PROVE  TypeOK' /\ NoTwice' /\ SessionStep
    BY <2>4, ReturnStep DEF SessionStep
  <2>. QED
    BY <1>2, <2>1, <2>2, <2>3, <2>4, ServicesAssumption DEF Coroutine
<1>3. CASE UNCHANGED vars
  <2>1. UNCHANGED Mail
    BY <1>3 DEF vars, Mail
  <2>2. TypeOK' /\ NoTwice'
    BY <1>3 DEF vars, TypeOK, NoTwice
  <2>. QED
    BY <1>3, <2>1, <2>2 DEF vars, SessionStep, Quiet
<1>. QED
  BY <1>1, <1>2, <1>3 DEF Next, Thread

------------------------------------------------------------------------------
(* Every step keeps every part of the invariant.                            *)

\* What the tables are indexed by.
LEMMA Domains ==
  ASSUME TypeOK
  PROVE  /\ DOMAIN running = Services /\ DOMAIN session_id = Services
         /\ DOMAIN suspend = Services /\ DOMAIN phase = Services
         /\ \A s \in Services : DOMAIN suspend[s] = Requests
         /\ DOMAIN address = Requests /\ DOMAIN response = Requests
         /\ DOMAIN home = Requests /\ DOMAIN costate = Requests
         /\ DOMAIN awaiting = Requests /\ DOMAIN timer = Requests
BY DEF TypeOK

\* What a push does to a service's mail.
LEMMA PostedAdds ==
  ASSUME NEW to \in Services, NEW m, Posted(to, m)
  PROVE  /\ m \in Messages
         /\ \A t \in Services : Mail[t] \subseteq Mail'[t] /\ Mail'[t] \subseteq Mail[t] \cup {m}
         /\ \A t \in Services \ {to} : Mail'[t] = Mail[t]
         /\ lost \subseteq lost' /\ lost' \subseteq lost \cup {m}
         /\ (m \in Mail'[to] /\ lost' = lost) \/ (m \in lost' /\ Mail' = Mail)
<1>1. DOMAIN Mail = Services
  BY DEF Mail
<1>2. m \in Messages
  BY DEF Posted
<1>3. ASSUME Mail' = [Mail EXCEPT ![to] = @ \cup {m}], lost' = lost
      PROVE  /\ \A t \in Services : Mail'[t] = IF t = to THEN Mail[to] \cup {m} ELSE Mail[t]
             /\ lost' = lost
  BY <1>1, <1>3
<1>4. ASSUME UNCHANGED Mail, lost' = lost \cup {m}
      PROVE  (\A t \in Services : Mail'[t] = Mail[t]) /\ lost' = lost \cup {m}
  BY <1>4
<1> DEFINE Stays ==
             /\ \A t \in Services : Mail[t] \subseteq Mail'[t] /\ Mail'[t] \subseteq Mail[t] \cup {m}
             /\ \A t \in Services \ {to} : Mail'[t] = Mail[t]
             /\ lost \subseteq lost' /\ lost' \subseteq lost \cup {m}
             /\ (m \in Mail'[to] /\ lost' = lost) \/ (m \in lost' /\ Mail' = Mail)
<1>5. ASSUME Mail' = [Mail EXCEPT ![to] = @ \cup {m}], lost' = lost
      PROVE  Stays
  <2>1. \A t \in Services : Mail'[t] = IF t = to THEN Mail[to] \cup {m} ELSE Mail[t]
    BY <1>3, <1>5
  <2>. QED
    BY <1>5, <2>1
<1>6. ASSUME UNCHANGED Mail, lost' = lost \cup {m}
      PROVE  Stays
  BY <1>4, <1>6
<1> HIDE DEF Stays
<1>7. Stays
  BY <1>5, <1>6 DEF Posted
<1>. QED
  BY <1>2, <1>7 DEF Stays

\* No number of a request, an inbox or a lost message exceeds the count.
LEMMA NumbersStep ==
  ASSUME SessionInv, TypeOK', SessionStep
  PROVE  NumbersInv'
<1> USE DEF SessionInv
<1>1. ASSUME Quiet
      PROVE  NumbersInv'
  BY <1>1 DEF Quiet, NumbersInv
<1>2. ASSUME NEW s \in Services, NEW c \in Requests, Turns(s, c)
      PROVE  NumbersInv'
  BY <1>2, Domains DEF Turns, Turn, NumbersInv
<1>3. ASSUME NEW s \in Services, NEW m \in Mail[s], GetsRequest(s, m)
      PROVE  NumbersInv'
  <2>1. m.id \in Requests /\ m.id <= requests
    BY <1>3 DEF GetsRequest, Messages, NumbersInv
  <2>. QED
    BY <1>3, <2>1, Domains DEF GetsRequest, NumbersInv
<1>4. ASSUME NEW s \in Services, NEW c \in Requests, NEW m \in Mail[s], GetsResponse(s, c, m)
      PROVE  NumbersInv'
  BY <1>4, Domains, Typed DEF GetsResponse, NumbersInv, None
<1>5. ASSUME NEW s \in Services, NEW c \in Requests, NEW to \in Services, NEW n,
             Requested(s, c, to, n),
             \/ UNCHANGED <<costate, awaiting>>
             \/ /\ costate' = [costate EXCEPT ![c] = "calling"]
                /\ awaiting' = [awaiting EXCEPT ![c] = requests + 1]
      PROVE  NumbersInv'
  <2> DEFINE m == [type |-> "request", from |-> s, session |-> n, id |-> requests + 1]
  <2>1. /\ running[s] = c /\ costate[c] = "running" /\ requests' = requests + 1
        /\ Posted(to, m) /\ UNCHANGED <<session_id, home>>
    BY <1>5 DEF Requested
  <2>2. m.id = requests + 1
    OBVIOUS
  <2> HIDE DEF m
  <2>3. /\ \A t \in Services : Mail'[t] \subseteq Mail[t] \cup {m} /\ Mail[t] \subseteq Messages
        /\ lost' \subseteq lost \cup {m} /\ lost \subseteq Messages
    BY <2>1, PostedAdds, Typed
  <2>4. requests \in Nat /\ \A x \in Messages : x.id \in Nat
    BY Typed DEF Messages, Requests
  <2>5. /\ \A t \in Services : \A x \in Mail'[t] : x.id <= requests'
        /\ \A x \in lost' : x.id <= requests'
    BY <2>1, <2>2, <2>3, <2>4 DEF NumbersInv
  <2>6. \A t \in Services : session_id[t] \in Nat /\ session_id[t] <= requests
    BY Typed DEF NumbersInv
  <2>7. \A d \in Requests : costate'[d] # "none" => costate[d] # "none"
    BY <1>5, <2>1, Domains
  <2>8. \A d \in Requests : d \in Nat /\ awaiting[d] \in Nat /\ home[d] \in Services
    BY Typed DEF Requests, None
  <2>9. \A d \in Requests : awaiting'[d] \in {awaiting[d], requests + 1}
    BY <1>5, Domains
  <2>. QED
    BY <2>1, <2>4, <2>5, <2>6, <2>7, <2>8, <2>9 DEF NumbersInv
<1>6. ASSUME NEW s \in Services, NEW c \in Requests, Suspended(s, c)
      PROVE  NumbersInv'
  <2>1. /\ running[s] = c /\ costate[c] = "calling"
        /\ session_id' = [session_id EXCEPT ![s] = @ + 1]
        /\ costate' = [costate EXCEPT ![c] = "called"]
        /\ UNCHANGED <<Mail, lost, home, awaiting, requests>>
    BY <1>6 DEF Suspended
  <2>2. home[c] = s /\ \A d \in Requests \ {c} : costate[d] = "calling" => home[d] # s
    BY <2>1, OneRuns
  <2>3. session_id[s] < requests /\ session_id[s] \in Nat /\ requests \in Nat
    BY <2>1, <2>2, Typed DEF NumbersInv
  <2>4. \A t \in Services : session_id'[t] = IF t = s THEN session_id[s] + 1 ELSE session_id[t]
    BY <2>1, Domains
  <2>5. \A d \in Requests : costate'[d] = IF d = c THEN "called" ELSE costate[d]
    BY <2>1, Domains
  <2>6. \A t \in Services : session_id'[t] <= requests'
    BY <2>1, <2>3, <2>4 DEF NumbersInv
  <2>7. \A d \in Requests : costate'[d] = "calling" => session_id'[home'[d]] < requests'
    BY <2>1, <2>2, <2>4, <2>5, Typed DEF NumbersInv
  <2>. QED
    BY <2>1, <2>5, <2>6, <2>7 DEF NumbersInv
<1>7. ASSUME NEW s \in Services, NEW c \in Requests, Returned(s, c)
      PROVE  NumbersInv'
  <2> DEFINE m == [type |-> "response", from |-> s, session |-> response[c], id |-> c]
  <2>1. c <= requests
    BY <1>7 DEF Returned, NumbersInv
  <2>2. /\ \A t \in Services : Mail'[t] \subseteq Mail[t] \cup {m}
        /\ lost' \subseteq lost \cup {m}
    BY <1>7, PostedAdds DEF Returned
  <2>3. m.id = c
    OBVIOUS
  <2> HIDE DEF m
  <2>4. /\ \A t \in Services : \A x \in Mail'[t] : x.id <= requests
        /\ \A x \in lost' : x.id <= requests
    BY <2>1, <2>2, <2>3 DEF NumbersInv
  <2>5. \A d \in Requests : costate'[d] = IF d = c THEN "returned" ELSE costate[d]
    BY <1>7, Domains DEF Returned
  <2>6. UNCHANGED <<session_id, home, awaiting, requests>>
    BY <1>7 DEF Returned
  <2>. QED
    BY <2>1, <2>4, <2>5, <2>6 DEF NumbersInv
<1>. QED
  BY <1>1, <1>2, <1>3, <1>4, <1>5, <1>6, <1>7 DEF SessionStep, Sends, Calls

\* A coroutine of s that stops or starts, while no other of s runs, is what the
\* service runs or not: what starts, stops or goes on running keeps RunInv.
LEMMA RunKept ==
  ASSUME TypeOK, TypeOK', RunInv, NEW s \in Services, NEW c \in Requests,
         NEW to \in {"running", "calling", "called", "asleep", "returned", "failed"},
         running[s] = c \/ (running[s] = None /\ costate[c] \notin {"running", "calling"}),
         costate' = [costate EXCEPT ![c] = to],
         NEW r \in {None, c}, running' = [running EXCEPT ![s] = r],
         r = c <=> to \in {"running", "calling"},
         home'[c] = s, \A d \in Requests \ {c} : home'[d] = home[d],
         \A t \in Services \ {s} : phase'[t] = phase[t],
         to \in {"running", "calling"} => phase'[s] \in {"drain", "timer"},
         \A d \in Requests : timer'[d] => (d # c /\ timer[d]) \/ (d = c /\ to = "asleep")
  PROVE  RunInv'
<1>1. \A d \in Requests : costate'[d] = IF d = c THEN to ELSE costate[d]
  BY Domains
<1>2. \A t \in Services :
        running'[t] = IF t # s THEN running[t]
                      ELSE IF to \in {"running", "calling"} THEN c ELSE None
  BY Domains
<1>3. \A d \in Requests : d # None
  BY DEF Requests, None
<1>4. \A t \in Services \ {s} : running[t] # c
  <2>1. ASSUME running[s] = c
        PROVE  \A t \in Services \ {s} : running[t] # c
    BY <2>1, OneRuns
  <2>2. ASSUME costate[c] \notin {"running", "calling"}
        PROVE  \A t \in Services \ {s} : running[t] # c
    BY <1>3, <2>2 DEF RunInv, RunningThreadIsRunning
  <2>. QED
    BY <2>1, <2>2
<1>5. \A d \in Requests \ {c} : costate[d] \in {"running", "calling"} => home[d] # s
  BY <1>3 DEF RunInv, RunningThreadIsRunning
<1>6. ASSUME NEW d \in Requests, costate'[d] \in {"running", "calling"}
      PROVE  running'[home'[d]] = d
  <2>1. CASE d = c
    BY <1>1, <1>2, <1>6, <2>1
  <2>2. CASE d # c
    <3>1. costate[d] \in {"running", "calling"} /\ home'[d] = home[d] /\ home[d] # s
      BY <1>1, <1>5, <1>6, <2>2
    <3>2. running[home[d]] = d /\ home[d] \in Services
      BY <3>1, Typed DEF RunInv, RunningThreadIsRunning
    <3>. QED
      BY <1>2, <3>1, <3>2
  <2>. QED
    BY <2>1, <2>2
<1>7. ASSUME NEW t \in Services, running'[t] # None
      PROVE  /\ home'[running'[t]] = t
             /\ costate'[running'[t]] \in {"running", "calling"}
             /\ phase'[t] \in {"drain", "timer"}
  <2>1. CASE t = s
    BY <1>1, <1>2, <1>7, <2>1
  <2>2. CASE t # s
    <3>1. running'[t] = running[t] /\ phase'[t] = phase[t] /\ running[t] # None
      BY <1>2, <1>7, <2>2
    <3>2. running[t] \in Requests /\ running[t] # c
      BY <1>4, <2>2, <3>1, Typed
    <3>3. /\ home[running[t]] = t /\ costate[running[t]] \in {"running", "calling"}
          /\ phase[t] \in {"drain", "timer"}
      BY <3>1 DEF RunInv, RunningThreadIsRunning
    <3>. QED
      BY <1>1, <3>1, <3>2, <3>3
  <2>. QED
    BY <2>1, <2>2
<1>8. \A d \in Requests : timer'[d] => costate'[d] = "asleep"
  BY <1>1 DEF RunInv
<1>. QED
  BY <1>6, <1>7, <1>8 DEF RunInv, RunningThreadIsRunning

\* A coroutine that returns, fails or suspends itself leaves running_thread nil.
LEMMA RunLeaves ==
  ASSUME TypeOK, TypeOK', RunInv, NEW s \in Services, NEW c \in Requests,
         NEW to \in {"called", "returned", "failed"}, running[s] = c,
         costate' = [costate EXCEPT ![c] = to], running' = [running EXCEPT ![s] = None],
         \A t \in Services \ {s} : phase'[t] = phase[t], UNCHANGED <<home, timer>>
  PROVE  RunInv'
<1>1. c # None /\ home[c] = s /\ \A d \in Requests : timer[d] => d # c
  BY OneRuns DEF Requests, None
<1>2. /\ to \in {"running", "calling", "called", "asleep", "returned", "failed"}
      /\ to \notin {"running", "calling"}
  OBVIOUS
<1>3. None \in {None, c} /\ (None = c <=> to \in {"running", "calling"})
  BY <1>1, <1>2
<1>4. home'[c] = s /\ \A d \in Requests \ {c} : home'[d] = home[d]
  BY <1>1
<1>5. \A d \in Requests : timer'[d] => (d # c /\ timer[d]) \/ (d = c /\ to = "asleep")
  BY <1>1
<1>. QED
  BY <1>2, <1>3, <1>4, <1>5, RunKept

\* A service that runs none resumes c, in the drain or in a timer callback.
LEMMA RunEnters ==
  ASSUME TypeOK, TypeOK', RunInv, NEW s \in Services, NEW c \in Requests,
         running[s] = None, costate[c] \notin {"running", "calling"},
         costate' = [costate EXCEPT ![c] = "running"], running' = [running EXCEPT ![s] = c],
         home'[c] = s, \A d \in Requests \ {c} : home'[d] = home[d],
         \A t \in Services \ {s} : phase'[t] = phase[t], phase'[s] \in {"drain", "timer"},
         \A d \in Requests : timer'[d] => d # c /\ timer[d]
  PROVE  RunInv'
<1>1. /\ "running" \in {"running", "calling", "called", "asleep", "returned", "failed"}
      /\ "running" \in {"running", "calling"} /\ c \in {None, c}
  OBVIOUS
<1>2. \A d \in Requests : timer'[d] => (d # c /\ timer[d]) \/ (d = c /\ "running" = "asleep")
  OBVIOUS
<1>. QED
  BY <1>1, <1>2, RunKept

\* A service goes on to run at most one coroutine, and the others sleep or wait.
LEMMA RunStep ==
  ASSUME SessionInv, TypeOK', SessionStep
  PROVE  RunInv'
<1> USE DEF SessionInv
<1>0. \A c \in Requests : c # None
  BY DEF Requests, None
<1>1. ASSUME Quiet
      PROVE  RunInv'
  BY <1>1 DEF Quiet, RunInv, RunningThreadIsRunning
<1>2. ASSUME NEW s \in Services, NEW c \in Requests, Turns(s, c)
      PROVE  RunInv'
  <2>1. ASSUME Turn(s, c, "asleep", "running"), running[s] = None,
               timer' = [timer EXCEPT ![c] = FALSE]
        PROVE  RunInv'
    <3>1. \A d \in Requests : timer'[d] => d # c /\ timer[d]
      BY <2>1, Domains
    <3>2. /\ costate[c] \notin {"running", "calling"} /\ home'[c] = s
          /\ \A d \in Requests \ {c} : home'[d] = home[d]
          /\ costate' = [costate EXCEPT ![c] = "running"]
          /\ running' = [running EXCEPT ![s] = c]
          /\ \A t \in Services \ {s} : phase'[t] = phase[t]
          /\ phase'[s] \in {"drain", "timer"}
      BY <2>1 DEF Turn
    <3>. QED
      BY <2>1, <3>1, <3>2, RunEnters
  <2>2. ASSUME Turn(s, c, "running", "asleep"), running[s] = c,
               timer' = [timer EXCEPT ![c] = TRUE]
        PROVE  RunInv'
    <3>1. \A d \in Requests : timer'[d] => (d # c /\ timer[d]) \/ d = c
      BY <2>2, Domains
    <3>2. /\ costate' = [costate EXCEPT ![c] = "asleep"]
          /\ running' = [running EXCEPT ![s] = None] /\ home'[c] = s
          /\ \A d \in Requests \ {c} : home'[d] = home[d]
          /\ \A t \in Services \ {s} : phase'[t] = phase[t]
      BY <2>2 DEF Turn
    <3>3. /\ "asleep" \in {"running", "calling", "called", "asleep", "returned", "failed"}
          /\ None \in {None, c} /\ (None = c <=> "asleep" \in {"running", "calling"})
          /\ "asleep" \notin {"running", "calling"}
      BY <1>0
    <3>. QED
      BY <2>2, <3>1, <3>2, <3>3, RunKept
  <2>3. ASSUME Turn(s, c, "running", "failed"), running[s] = c, UNCHANGED timer
        PROVE  RunInv'
    <3>1. /\ costate' = [costate EXCEPT ![c] = "failed"]
          /\ running' = [running EXCEPT ![s] = None] /\ UNCHANGED <<home, timer>>
          /\ \A t \in Services \ {s} : phase'[t] = phase[t]
      BY <2>3 DEF Turn
    <3>. QED
      BY <2>3, <3>1, RunLeaves
  <2>. QED
    BY <1>2, <2>1, <2>2, <2>3 DEF Turns
<1>3. ASSUME NEW s \in Services, NEW m \in Mail[s], GetsRequest(s, m)
      PROVE  RunInv'
  <2>1. m.id \in Requests /\ costate[m.id] = "none"
    BY <1>3 DEF GetsRequest, Messages, MailInv
  <2>2. \A d \in Requests : timer'[d] => d # m.id /\ timer[d]
    BY <1>3, <2>1 DEF GetsRequest, RunInv
  <2>3. home'[m.id] = s /\ \A d \in Requests \ {m.id} : home'[d] = home[d]
    BY <1>3, <2>1, Domains DEF GetsRequest
  <2>4. /\ running[s] = None /\ costate[m.id] \notin {"running", "calling"}
        /\ costate' = [costate EXCEPT ![m.id] = "running"]
        /\ running' = [running EXCEPT ![s] = m.id]
        /\ \A t \in Services \ {s} : phase'[t] = phase[t]
        /\ phase'[s] \in {"drain", "timer"}
    BY <1>3, <2>1 DEF GetsRequest
  <2>. QED
    BY <2>1, <2>2, <2>3, <2>4, RunEnters
<1>4. ASSUME NEW s \in Services, NEW c \in Requests, NEW m \in Mail[s], GetsResponse(s, c, m)
      PROVE  RunInv'
  <2>1. \A d \in Requests : timer'[d] => d # c /\ timer[d]
    BY <1>4 DEF GetsResponse, RunInv
  <2>2. /\ running[s] = None /\ costate[c] \notin {"running", "calling"}
        /\ costate' = [costate EXCEPT ![c] = "running"]
        /\ running' = [running EXCEPT ![s] = c] /\ home'[c] = s
        /\ \A d \in Requests \ {c} : home'[d] = home[d]
        /\ \A t \in Services \ {s} : phase'[t] = phase[t]
        /\ phase'[s] \in {"drain", "timer"}
    BY <1>4 DEF GetsResponse
  <2>. QED
    BY <2>1, <2>2, RunEnters
<1>5. ASSUME NEW s \in Services, NEW c \in Requests, NEW to \in Services, Sends(s, c, to)
      PROVE  RunInv'
  BY <1>5 DEF Sends, Requested, RunInv, RunningThreadIsRunning
<1>6. ASSUME NEW s \in Services, NEW c \in Requests, NEW to \in Services, Calls(s, c, to)
      PROVE  RunInv'
  <2>1. /\ running[s] = c /\ costate' = [costate EXCEPT ![c] = "calling"]
        /\ UNCHANGED <<running, phase, home, timer>>
    BY <1>6 DEF Calls, Requested
  <2>2. /\ home[c] = s /\ phase[s] \in {"drain", "timer"}
        /\ \A d \in Requests : timer[d] => d # c
    BY <2>1, OneRuns
  <2>3. running' = [running EXCEPT ![s] = c]
    BY <2>1 DEF TypeOK
  <2>. QED
    BY <2>1, <2>2, <2>3, RunKept
<1>7. ASSUME NEW s \in Services, NEW c \in Requests, Suspended(s, c)
      PROVE  RunInv'
  <2>1. /\ running[s] = c /\ costate' = [costate EXCEPT ![c] = "called"]
        /\ running' = [running EXCEPT ![s] = None]
        /\ \A t \in Services \ {s} : phase'[t] = phase[t]
        /\ UNCHANGED <<home, timer>>
    BY <1>7 DEF Suspended
  <2>. QED
    BY <2>1, RunLeaves
<1>8. ASSUME NEW s \in Services, NEW c \in Requests, Returned(s, c)
      PROVE  RunInv'
  <2>1. /\ running[s] = c /\ costate' = [costate EXCEPT ![c] = "returned"]
        /\ running' = [running EXCEPT ![s] = None]
        /\ \A t \in Services \ {s} : phase'[t] = phase[t]
        /\ UNCHANGED <<home, timer>>
    BY <1>8 DEF Returned
  <2>. QED
    BY <2>1, RunLeaves
<1>. QED
  BY <1>1, <1>2, <1>3, <1>4, <1>5, <1>6, <1>7, <1>8 DEF SessionStep

\* The tables name the requests whose handlers have begun and not returned.
LEMMA TablesStep ==
  ASSUME SessionInv, TypeOK', SessionStep
  PROVE  TablesMatchCoroutines'
<1> USE DEF SessionInv, TablesMatchCoroutines
<1>1. ASSUME Quiet
      PROVE  TablesMatchCoroutines'
  BY <1>1 DEF Quiet
<1>2. ASSUME NEW s \in Services, NEW c \in Requests, Turns(s, c)
      PROVE  TablesMatchCoroutines'
  BY <1>2, Domains DEF Turns, Turn
<1>3. ASSUME NEW s \in Services, NEW m \in Mail[s], GetsRequest(s, m)
      PROVE  TablesMatchCoroutines'
  <2>1. m.id \in Requests /\ m.from # nil /\ m.session # nil
    BY <1>3, ServicesAssumption, BoundsAssumption DEF GetsRequest, Messages, Sessions, nil
  <2>. QED
    BY <1>3, <2>1, Domains DEF GetsRequest
<1>4. ASSUME NEW s \in Services, NEW c \in Requests, NEW m \in Mail[s], GetsResponse(s, c, m)
      PROVE  TablesMatchCoroutines'
  BY <1>4, Domains DEF GetsResponse
<1>5. ASSUME NEW s \in Services, NEW c \in Requests, NEW to \in Services,
             Sends(s, c, to) \/ Calls(s, c, to)
      PROVE  TablesMatchCoroutines'
  BY <1>5, Domains DEF Sends, Calls, Requested
<1>6. ASSUME NEW s \in Services, NEW c \in Requests, Suspended(s, c)
      PROVE  TablesMatchCoroutines'
  BY <1>6, Domains DEF Suspended
<1>7. ASSUME NEW s \in Services, NEW c \in Requests, Returned(s, c)
      PROVE  TablesMatchCoroutines'
  BY <1>7, Domains DEF Returned
<1>. QED
  BY <1>1, <1>2, <1>3, <1>4, <1>5, <1>6, <1>7 DEF SessionStep

\* Where no call begins to wait and none returns, the registrations stay.
LEMMA RegisteredKept ==
  ASSUME TypeOK, RegisteredWhileCalled, UNCHANGED <<suspend, session_id>>,
         \A d \in Requests : costate'[d] = "called" <=> costate[d] = "called",
         \A d \in Requests : costate[d] = "called" => home'[d] = home[d]
  PROVE  RegisteredWhileCalled'
<1>1. ASSUME NEW s \in Services, NEW n \in Requests, suspend'[s][n] # None
      PROVE  /\ home'[suspend'[s][n]] = s
             /\ costate'[suspend'[s][n]] = "called" /\ n < session_id'[s]
  <2>1. suspend'[s][n] = suspend[s][n] /\ suspend[s][n] \in Requests
    BY <1>1, Typed
  <2>2. home[suspend[s][n]] = s /\ costate[suspend[s][n]] = "called" /\ n < session_id[s]
    BY <1>1, <2>1 DEF RegisteredWhileCalled
  <2>. QED
    BY <2>1, <2>2
<1>2. ASSUME NEW d \in Requests, costate'[d] = "called"
      PROVE  \E n \in Requests : \A k \in Requests : suspend'[home'[d]][k] = d <=> k = n
  BY <1>2 DEF RegisteredWhileCalled
<1>. QED
  BY <1>1, <1>2 DEF RegisteredWhileCalled

\* A coroutine is registered when it suspends and unregistered when its response
\* arrives; a number is used for one registration only.
LEMMA RegisteredStep ==
  ASSUME SessionInv, TypeOK', SessionStep
  PROVE  RegisteredWhileCalled'
<1> USE DEF SessionInv
<1>0. \A c \in Requests : c # None
  BY DEF Requests, None
<1>1. ASSUME Quiet
      PROVE  RegisteredWhileCalled'
  BY <1>1, RegisteredKept DEF Quiet
<1>2. ASSUME NEW s \in Services, NEW c \in Requests, Turns(s, c)
      PROVE  RegisteredWhileCalled'
  <2>1. UNCHANGED <<suspend, session_id, home>>
    BY <1>2 DEF Turns, Turn
  <2>2. \A d \in Requests : costate'[d] = "called" <=> costate[d] = "called"
    BY <1>2, Domains DEF Turns, Turn
  <2>. QED
    BY <2>1, <2>2, RegisteredKept
<1>3. ASSUME NEW s \in Services, NEW m \in Mail[s], GetsRequest(s, m)
      PROVE  RegisteredWhileCalled'
  <2>1. m.id \in Requests /\ costate[m.id] = "none"
    BY <1>3 DEF GetsRequest, Messages, MailInv
  <2>2. UNCHANGED <<suspend, session_id>>
    BY <1>3 DEF GetsRequest
  <2>3. \A d \in Requests : costate'[d] = "called" <=> costate[d] = "called"
    BY <1>3, <2>1, Domains DEF GetsRequest
  <2>4. \A d \in Requests : costate[d] = "called" => home'[d] = home[d]
    BY <1>3, <2>1, Domains DEF GetsRequest
  <2>. QED
    BY <2>2, <2>3, <2>4, RegisteredKept
<1>4. ASSUME NEW s \in Services, NEW c \in Requests, NEW m \in Mail[s], GetsResponse(s, c, m)
      PROVE  RegisteredWhileCalled'
  <2> DEFINE n == m.session
  <2>1. /\ home[c] = s /\ costate[c] = "called" /\ n \in Requests /\ suspend[s][n] = c
        /\ suspend' = [suspend EXCEPT ![s][n] = None]
        /\ costate' = [costate EXCEPT ![c] = "running"]
        /\ UNCHANGED <<session_id, home>>
    BY <1>4 DEF GetsResponse
  <2> HIDE DEF n
  <2>2. \A t \in Services, k \in Requests :
          suspend'[t][k] = IF t = s /\ k = n THEN None ELSE suspend[t][k]
    BY <2>1, Domains
  <2>3. \A d \in Requests : costate'[d] = IF d = c THEN "running" ELSE costate[d]
    BY <2>1, Domains
  <2>4. \A t \in Services, k \in Requests : suspend[t][k] = c => t = s /\ k = n
    BY <1>0, <2>1 DEF RegisteredWhileCalled
  <2>5. ASSUME NEW t \in Services, NEW k \in Requests, suspend'[t][k] # None
        PROVE  /\ home'[suspend'[t][k]] = t
               /\ costate'[suspend'[t][k]] = "called" /\ k < session_id'[t]
    <3>1. suspend'[t][k] = suspend[t][k] /\ suspend[t][k] # c /\ suspend[t][k] \in Requests
      BY <2>2, <2>4, <2>5, Typed
    <3>. QED
      BY <1>0, <2>1, <2>3, <2>5, <3>1 DEF RegisteredWhileCalled
  <2>6. ASSUME NEW d \in Requests, costate'[d] = "called"
        PROVE  \E k \in Requests : \A j \in Requests : suspend'[home'[d]][j] = d <=> j = k
    <3>1. d # c /\ costate[d] = "called" /\ home'[d] = home[d] /\ home[d] \in Services
      BY <2>1, <2>3, <2>6, Typed
    <3>2. PICK k \in Requests : \A j \in Requests : suspend[home[d]][j] = d <=> j = k
      BY <3>1 DEF RegisteredWhileCalled
    <3>3. \A j \in Requests : suspend'[home[d]][j] = d <=> suspend[home[d]][j] = d
      BY <1>0, <2>1, <2>2, <3>1
    <3>. QED
      BY <3>1, <3>2, <3>3
  <2>. QED
    BY <2>5, <2>6 DEF RegisteredWhileCalled
<1>5. ASSUME NEW s \in Services, NEW c \in Requests, NEW to \in Services,
             Sends(s, c, to) \/ Calls(s, c, to)
      PROVE  RegisteredWhileCalled'
  <2>1. UNCHANGED <<suspend, session_id, home>>
    BY <1>5 DEF Sends, Calls, Requested
  <2>2. \A d \in Requests : costate'[d] = "called" <=> costate[d] = "called"
    BY <1>5, Domains DEF Sends, Calls, Requested
  <2>. QED
    BY <2>1, <2>2, RegisteredKept
<1>6. ASSUME NEW s \in Services, NEW c \in Requests, Suspended(s, c)
      PROVE  RegisteredWhileCalled'
  <2> DEFINE n == session_id[s]
  <2>1. /\ running[s] = c /\ costate[c] = "calling" /\ n + 1 \in Requests
        /\ suspend' = [suspend EXCEPT ![s][n] = c]
        /\ session_id' = [session_id EXCEPT ![s] = n + 1]
        /\ costate' = [costate EXCEPT ![c] = "called"]
        /\ UNCHANGED home
    BY <1>6 DEF Suspended
  <2>2. home[c] = s /\ n \in Requests
    BY <2>1, OneRuns DEF TypeOK
  <2>3. \A t \in Services : session_id[t] \in Nat
    BY Typed
  <2>4. \A t \in Services : session_id'[t] = IF t = s THEN n + 1 ELSE session_id[t]
    BY <2>1, Domains
  <2>5. suspend[s][n] = None
    BY <2>2, <2>3 DEF RegisteredWhileCalled
  <2> HIDE DEF n
  <2>6. \A t \in Services, k \in Requests :
          suspend'[t][k] = IF t = s /\ k = n THEN c ELSE suspend[t][k]
    BY <2>1, <2>2, Domains
  <2>7. \A d \in Requests : costate'[d] = IF d = c THEN "called" ELSE costate[d]
    BY <2>1, Domains
  <2>8. \A t \in Services, k \in Requests : suspend[t][k] # c
    BY <1>0, <2>1 DEF RegisteredWhileCalled
  <2>9. ASSUME NEW t \in Services, NEW k \in Requests, suspend'[t][k] # None
        PROVE  /\ home'[suspend'[t][k]] = t
               /\ costate'[suspend'[t][k]] = "called" /\ k < session_id'[t]
    <3>1. CASE t = s /\ k = n
      <4>1. n < n + 1
        BY <2>2 DEF Requests
      <4>. QED
        BY <2>1, <2>2, <2>4, <2>6, <2>7, <3>1, <4>1
    <3>2. CASE ~(t = s /\ k = n)
      <4>1. suspend'[t][k] = suspend[t][k] /\ suspend[t][k] # c /\ suspend[t][k] \in Requests
        BY <2>6, <2>8, <2>9, <3>2, Typed
      <4>2. home[suspend[t][k]] = t /\ costate[suspend[t][k]] = "called" /\ k < session_id[t]
        BY <1>0, <4>1 DEF RegisteredWhileCalled
      <4>3. k < session_id'[t]
        <5>1. k \in Nat
          BY DEF Requests
        <5>. QED
          BY <2>3, <2>4, <4>2, <5>1 DEF n
      <4>. QED
        BY <2>1, <2>7, <4>1, <4>2, <4>3
    <3>. QED
      BY <3>1, <3>2
  <2>10. ASSUME NEW d \in Requests, costate'[d] = "called"
         PROVE  \E k \in Requests : \A j \in Requests : suspend'[home'[d]][j] = d <=> j = k
    <3>1. CASE d = c
      BY <2>1, <2>2, <2>6, <2>8, <3>1
    <3>2. CASE d # c
      <4>1. costate[d] = "called" /\ home'[d] = home[d] /\ home[d] \in Services
        BY <2>1, <2>7, <2>10, <3>2, Typed
      <4>2. PICK k \in Requests : \A j \in Requests : suspend[home[d]][j] = d <=> j = k
        BY <4>1 DEF RegisteredWhileCalled
      <4>3. \A j \in Requests : suspend'[home[d]][j] = d <=> suspend[home[d]][j] = d
        BY <1>0, <2>5, <2>6, <3>2, <4>1
      <4>. QED
        BY <4>1, <4>2, <4>3
    <3>. QED
      BY <3>1, <3>2
  <2>. QED
    BY <2>9, <2>10 DEF RegisteredWhileCalled
<1>7. ASSUME NEW s \in Services, NEW c \in Requests, Returned(s, c)
      PROVE  RegisteredWhileCalled'
  <2>1. UNCHANGED <<suspend, session_id, home>>
    BY <1>7 DEF Returned
  <2>2. \A d \in Requests : costate'[d] = "called" <=> costate[d] = "called"
    BY <1>7, Domains DEF Returned
  <2>. QED
    BY <2>1, <2>2, RegisteredKept
<1>. QED
  BY <1>1, <1>2, <1>3, <1>4, <1>5, <1>6, <1>7 DEF SessionStep

\* Where no message comes and the coroutines that messages are about stay as they
\* are, the mail is right.
LEMMA MailKept ==
  ASSUME MailInv, UNCHANGED lost, \A t \in Services : Mail'[t] \subseteq Mail[t],
         \A t \in Services : \A x \in Mail'[t] : costate'[x.id] = costate[x.id],
         \A x \in lost : costate[x.id] = "none" => costate'[x.id] = "none" \/ x.type # "request"
  PROVE  MailInv'
BY DEF MailInv

\* A request has no coroutine while it is in an inbox, and its coroutine has
\* returned while the response is in one.
LEMMA MailStep ==
  ASSUME SessionInv, TypeOK', SessionStep
  PROVE  MailInv'
<1> USE DEF SessionInv
<1>1. ASSUME Quiet
      PROVE  MailInv'
  BY <1>1 DEF Quiet, MailInv
<1>2. ASSUME NEW c \in Requests, NEW st, UNCHANGED <<Mail, lost>>,
             costate[c] \in Live, costate' = [costate EXCEPT ![c] = st]
      PROVE  MailInv'
  <2>1. \A t \in Services : \A x \in Mail[t] : x.id # c
    BY <1>2 DEF MailInv, Live
  <2>2. \A x \in Messages : x.id \in Requests
    BY DEF Messages
  <2>3. \A d \in Requests : d # c => costate'[d] = costate[d]
    BY <1>2, Domains
  <2>4. \A t \in Services : \A x \in Mail'[t] : costate'[x.id] = costate[x.id]
    BY <1>2, <2>1, <2>2, <2>3, Typed
  <2>5. \A x \in lost : costate[x.id] = "none" => costate'[x.id] = "none"
    BY <1>2, <2>2, <2>3, Typed DEF Live
  <2>. QED
    BY <1>2, <2>4, <2>5, MailKept
<1>3. ASSUME NEW s \in Services, NEW m \in Mail[s], GetsRequest(s, m)
      PROVE  MailInv'
  <2>1. /\ m \in Messages /\ m.type = "request" /\ UNCHANGED lost
        /\ costate' = [costate EXCEPT ![m.id] = "running"]
        /\ \A t \in Services : Mail'[t] = {x \in Mail[t] : x.id # m.id}
    BY <1>3 DEF GetsRequest
  <2>2. \A x \in Messages : x.id \in Requests
    BY DEF Messages
  <2>3. \A d \in Requests : d # m.id => costate'[d] = costate[d]
    BY <2>1, Domains
  <2>4. \A t \in Services : \A x \in Mail'[t] : costate'[x.id] = costate[x.id]
    BY <2>1, <2>2, <2>3, Typed
  <2>5. \A x \in lost : x.type = "request" => x.id # m.id
    BY DEF MailInv
  <2>6. \A x \in lost : costate[x.id] = "none" => costate'[x.id] = "none" \/ x.type # "request"
    BY <2>2, <2>3, <2>5, Typed
  <2>. QED
    BY <2>1, <2>4, <2>6, MailKept
<1>4. ASSUME NEW s \in Services, NEW c \in Requests, NEW m \in Mail[s], GetsResponse(s, c, m)
      PROVE  MailInv'
  <2>1. /\ costate[c] = "called" /\ UNCHANGED lost
        /\ costate' = [costate EXCEPT ![c] = "running"]
        /\ \A t \in Services : Mail'[t] = {x \in Mail[t] : x.id # m.id}
    BY <1>4 DEF GetsResponse
  <2>2. \A x \in Messages : x.id \in Requests
    BY DEF Messages
  <2>3. \A d \in Requests : d # c => costate'[d] = costate[d]
    BY <2>1, Domains
  <2>4. \A t \in Services : \A x \in Mail[t] : x.id # c
    BY <2>1 DEF MailInv
  <2>5. \A t \in Services : \A x \in Mail'[t] : costate'[x.id] = costate[x.id]
    BY <2>1, <2>2, <2>3, <2>4, Typed
  <2>6. \A x \in lost : costate[x.id] = "none" => costate'[x.id] = "none"
    BY <2>1, <2>2, <2>3, Typed
  <2>. QED
    BY <2>1, <2>5, <2>6, MailKept
<1>5. ASSUME NEW s \in Services, NEW c \in Requests, NEW to \in Services, NEW n,
             Requested(s, c, to, n),
             \A d \in Requests : d # c => costate'[d] = costate[d]
      PROVE  MailInv'
  <2> DEFINE m == [type |-> "request", from |-> s, session |-> n, id |-> requests + 1]
  <2>1. /\ costate[c] = "running" /\ requests + 1 \in Requests /\ Posted(to, m)
    BY <1>5 DEF Requested
  <2>2. m.id = requests + 1 /\ m.type = "request"
    OBVIOUS
  <2> HIDE DEF m
  <2>3. /\ \A t \in Services : Mail'[t] \subseteq Mail[t] \cup {m} /\ Mail[t] \subseteq Messages
        /\ lost \subseteq Messages
        /\ lost' = lost \/ (lost' \subseteq lost \cup {m} /\ Mail' = Mail)
    BY <2>1, PostedAdds, Typed
  <2>4. requests \in Nat /\ \A x \in Messages : x.id \in Nat /\ x.id \in Requests
    BY Typed DEF Messages, Requests
  <2>5. /\ \A t \in Services : \A x \in Mail[t] : x.id # requests + 1
        /\ \A x \in lost : x.id # requests + 1
    BY <2>3, <2>4 DEF NumbersInv
  <2>6. costate[requests + 1] = "none"
    BY <2>1, <2>4 DEF NumbersInv
  <2>7. \A d \in Requests :
          costate[d] \in {"none", "returned"} => costate'[d] = costate[d]
    BY <1>5, <2>1
  <2>8. \A t \in Services : \A x \in Mail'[t] :
          costate'[x.id] = IF x.type = "request" THEN "none" ELSE "returned"
    <3> SUFFICES ASSUME NEW t \in Services, NEW x \in Mail'[t]
                 PROVE  costate'[x.id] = IF x.type = "request" THEN "none" ELSE "returned"
      OBVIOUS
    <3>1. CASE x = m
      BY <2>1, <2>2, <2>6, <2>7, <3>1
    <3>2. CASE x \in Mail[t]
      <4>1. costate[x.id] = IF x.type = "request" THEN "none" ELSE "returned"
        BY <3>2 DEF MailInv
      <4>2. x.id \in Requests
        BY <2>3, <2>4, <3>2
      <4>. QED
        BY <2>7, <4>1, <4>2
    <3>. QED
      BY <2>3, <3>1, <3>2
  <2>9. ASSUME NEW x \in lost', x.type = "request"
        PROVE  /\ costate'[x.id] = "none"
               /\ \A t \in Services : \A y \in Mail'[t] : y.id # x.id
    <3>1. CASE x \in lost
      <4>1. /\ costate[x.id] = "none" /\ x.id \in Requests
            /\ \A t \in Services : \A y \in Mail[t] : y.id # x.id
        BY <2>3, <2>4, <2>9, <3>1 DEF MailInv
      <4>. QED
        BY <2>2, <2>3, <2>5, <2>7, <3>1, <4>1
    <3>2. CASE x \notin lost
      <4>1. x = m /\ Mail' = Mail
        BY <2>3, <3>2
      <4>. QED
        BY <2>1, <2>2, <2>5, <2>6, <2>7, <4>1
    <3>. QED
      BY <3>1, <3>2
  <2>. QED
    BY <2>8, <2>9 DEF MailInv
<1>6. ASSUME NEW s \in Services, NEW c \in Requests, Returned(s, c)
      PROVE  MailInv'
  <2> DEFINE m == [type |-> "response", from |-> s, session |-> response[c], id |-> c]
  <2>1. costate[c] = "running" /\ \A d \in Requests :
          costate'[d] = IF d = c THEN "returned" ELSE costate[d]
    BY <1>6, Domains DEF Returned
  <2>2. /\ \A t \in Services : Mail'[t] \subseteq Mail[t] \cup {m}
        /\ lost' \subseteq lost \cup {m}
    BY <1>6, PostedAdds DEF Returned
  <2>3. m.id = c /\ m.type = "response"
    OBVIOUS
  <2> HIDE DEF m
  <2>4. \A x \in Messages : x.id \in Requests
    BY DEF Messages
  <2>5. \A t \in Services : \A x \in Mail'[t] :
          costate'[x.id] = IF x.type = "request" THEN "none" ELSE "returned"
    <3> SUFFICES ASSUME NEW t \in Services, NEW x \in Mail'[t]
                 PROVE  costate'[x.id] = IF x.type = "request" THEN "none" ELSE "returned"
      OBVIOUS
    <3>1. CASE x = m
      BY <2>1, <2>3, <3>1
    <3>2. CASE x \in Mail[t]
      <4>1. costate[x.id] = IF x.type = "request" THEN "none" ELSE "returned"
        BY <3>2 DEF MailInv
      <4>2. x.id \in Requests
        BY <2>4, <3>2, Typed
      <4>. QED
        BY <2>1, <4>1, <4>2
    <3>. QED
      BY <2>2, <3>1, <3>2
  <2>6. ASSUME NEW x \in lost', x.type = "request"
        PROVE  /\ costate'[x.id] = "none"
               /\ \A t \in Services : \A y \in Mail'[t] : y.id # x.id
    <3>1. x \in lost
      BY <2>2, <2>3, <2>6
    <3>2. /\ costate[x.id] = "none" /\ x.id \in Requests
          /\ \A t \in Services : \A y \in Mail[t] : y.id # x.id
      BY <2>4, <2>6, <3>1, Typed DEF MailInv
    <3>. QED
      BY <2>1, <2>2, <2>3, <3>2
  <2>. QED
    BY <2>5, <2>6 DEF MailInv
<1>7. ASSUME NEW s \in Services, NEW c \in Requests, Turns(s, c)
      PROVE  MailInv'
  BY <1>2, <1>7 DEF Turns, Turn, Live
<1>8. ASSUME NEW s \in Services, NEW c \in Requests, Suspended(s, c)
      PROVE  MailInv'
  BY <1>2, <1>8 DEF Suspended, Live
<1>9. ASSUME NEW s \in Services, NEW c \in Requests, NEW to \in Services,
             Sends(s, c, to) \/ Calls(s, c, to)
      PROVE  MailInv'
  <2>1. \A d \in Requests : d # c => costate'[d] = costate[d]
    BY <1>9, Domains DEF Sends, Calls
  <2>. QED
    BY <1>5, <1>9, <2>1 DEF Sends, Calls
<1>. QED
  BY <1>1, <1>3, <1>4, <1>6, <1>7, <1>8, <1>9 DEF SessionStep

\* A coroutine waits from service.call to the response, each for another request.
LEMMA AwaitStep ==
  ASSUME SessionInv, TypeOK', SessionStep
  PROVE  AwaitInv'
<1> USE DEF SessionInv, Waiting
<1>1. ASSUME UNCHANGED awaiting,
             \A d \in Requests : costate'[d] \in Waiting <=> costate[d] \in Waiting
      PROVE  AwaitInv'
  BY <1>1 DEF AwaitInv
<1>2. ASSUME Quiet
      PROVE  AwaitInv'
  BY <1>1, <1>2 DEF Quiet
<1>3. ASSUME NEW s \in Services, NEW c \in Requests, Turns(s, c) \/ Suspended(s, c) \/ Returned(s, c)
      PROVE  AwaitInv'
  <2>1. UNCHANGED awaiting
    BY <1>3 DEF Turns, Turn, Suspended, Returned
  <2>2. \A d \in Requests : costate'[d] \in Waiting <=> costate[d] \in Waiting
    BY <1>3, Domains DEF Turns, Turn, Suspended, Returned
  <2>. QED
    BY <1>1, <2>1, <2>2
<1>4. ASSUME NEW s \in Services, NEW m \in Mail[s], GetsRequest(s, m)
      PROVE  AwaitInv'
  <2>1. m.id \in Requests /\ costate[m.id] = "none"
    BY <1>4 DEF GetsRequest, Messages, MailInv
  <2>2. \A d \in Requests : costate'[d] \in Waiting <=> costate[d] \in Waiting
    BY <1>4, <2>1, Domains DEF GetsRequest
  <2>. QED
    BY <1>1, <1>4, <2>2 DEF GetsRequest
<1>5. ASSUME NEW s \in Services, NEW c \in Requests, NEW m \in Mail[s], GetsResponse(s, c, m)
      PROVE  AwaitInv'
  <2>1. \A d \in Requests : /\ costate'[d] = IF d = c THEN "running" ELSE costate[d]
                            /\ awaiting'[d] = IF d = c THEN None ELSE awaiting[d]
    BY <1>5, Domains DEF GetsResponse
  <2>. QED
    BY <2>1 DEF AwaitInv
<1>6. ASSUME NEW s \in Services, NEW c \in Requests, NEW to \in Services, Sends(s, c, to)
      PROVE  AwaitInv'
  BY <1>1, <1>6 DEF Sends
<1>7. ASSUME NEW s \in Services, NEW c \in Requests, NEW to \in Services, Calls(s, c, to)
      PROVE  AwaitInv'
  <2>1. \A d \in Requests : /\ costate'[d] = IF d = c THEN "calling" ELSE costate[d]
                            /\ awaiting'[d] = IF d = c THEN requests + 1 ELSE awaiting[d]
    BY <1>7, Domains DEF Calls
  <2>2. \A d \in Requests : awaiting[d] # requests + 1
    <3>1. requests \in Nat /\ \A d \in Requests : awaiting[d] \in Nat
      BY Typed DEF Requests, None
    <3>. QED
      BY <3>1 DEF NumbersInv
  <2>3. requests + 1 # None
    BY Typed DEF None
  <2>. QED
    BY <2>1, <2>2, <2>3 DEF AwaitInv
<1>. QED
  BY <1>2, <1>3, <1>4, <1>5, <1>6, <1>7 DEF SessionStep

\* The response to request r arrives.
Arrives(r) ==
  \E s \in Services, c \in Requests : \E m \in Mail[s] : GetsResponse(s, c, m) /\ m.id = r

\* What awaits a response goes on to await it until it arrives.
LEMMA AwaitsStep ==
  ASSUME SessionInv, TypeOK', SessionStep,
         NEW s \in Services, NEW n, NEW r \in Requests, Awaits(s, n, r)
  PROVE  Awaits(s, n, r)' \/ Arrives(r)
<1> USE DEF SessionInv
<1>0. \A c \in Requests : c # None
  BY DEF Requests, None
<1>1. PICK d \in Requests :
        /\ home[d] = s /\ awaiting[d] = r
        /\ \/ costate[d] = "called" /\ n \in Requests /\ suspend[s][n] = d
           \/ costate[d] = "calling" /\ session_id[s] = n
  BY DEF Awaits
<1>2. ASSUME home'[d] = s, awaiting'[d] = r, costate'[d] = costate[d],
             costate[d] = "called" => suspend'[s][n] = suspend[s][n],
             costate[d] = "calling" => session_id'[s] = session_id[s]
      PROVE  Awaits(s, n, r)'
  BY <1>1, <1>2 DEF Awaits
<1>3. ASSUME Quiet
      PROVE  Awaits(s, n, r)'
  BY <1>1, <1>2, <1>3 DEF Quiet
<1>4. ASSUME NEW t \in Services, NEW c \in Requests, Turns(t, c) \/ Returned(t, c)
      PROVE  Awaits(s, n, r)'
  <2>1. UNCHANGED <<home, awaiting, suspend, session_id>>
    BY <1>4 DEF Turns, Turn, Returned
  <2>2. costate'[d] = costate[d]
    BY <1>1, <1>4, Domains DEF Turns, Turn, Returned
  <2>. QED
    BY <1>1, <1>2, <2>1, <2>2
<1>5. ASSUME NEW t \in Services, NEW m \in Mail[t], GetsRequest(t, m)
      PROVE  Awaits(s, n, r)'
  <2>1. m.id \in Requests /\ costate[m.id] = "none"
    BY <1>5 DEF GetsRequest, Messages, MailInv
  <2>2. home'[d] = home[d] /\ costate'[d] = costate[d]
    BY <1>1, <1>5, <2>1, Domains DEF GetsRequest
  <2>3. UNCHANGED <<awaiting, suspend, session_id>>
    BY <1>5 DEF GetsRequest
  <2>. QED
    BY <1>1, <1>2, <2>2, <2>3
<1>6. ASSUME NEW t \in Services, NEW c \in Requests, NEW m \in Mail[t], GetsResponse(t, c, m)
      PROVE  Awaits(s, n, r)' \/ Arrives(r)
  <2>1. CASE d = c
    BY <1>1, <1>6, <2>1 DEF GetsResponse, Arrives
  <2>2. CASE d # c
    <3>1. home'[d] = s /\ awaiting'[d] = r /\ costate'[d] = costate[d]
      BY <1>1, <1>6, <2>2, Domains DEF GetsResponse
    <3>2. costate[d] = "called" => suspend'[s][n] = suspend[s][n]
      BY <1>1, <1>6, <2>2, Domains DEF GetsResponse
    <3>3. session_id' = session_id
      BY <1>6 DEF GetsResponse
    <3>. QED
      BY <1>2, <3>1, <3>2, <3>3
  <2>. QED
    BY <2>1, <2>2
<1>7. ASSUME NEW t \in Services, NEW c \in Requests, NEW to \in Services,
             Sends(t, c, to) \/ Calls(t, c, to)
      PROVE  Awaits(s, n, r)'
  <2>1. UNCHANGED <<home, suspend, session_id>>
    BY <1>7 DEF Sends, Calls, Requested
  <2>2. costate'[d] = costate[d] /\ awaiting'[d] = awaiting[d]
    BY <1>1, <1>7, Domains DEF Sends, Calls, Requested
  <2>. QED
    BY <1>1, <1>2, <2>1, <2>2
<1>8. ASSUME NEW t \in Services, NEW c \in Requests, Suspended(t, c)
      PROVE  Awaits(s, n, r)'
  <2>1. /\ running[t] = c /\ costate[c] = "calling" /\ session_id[t] \in Requests
        /\ suspend' = [suspend EXCEPT ![t][session_id[t]] = c]
        /\ session_id' = [session_id EXCEPT ![t] = @ + 1]
        /\ costate' = [costate EXCEPT ![c] = "called"]
        /\ UNCHANGED <<home, awaiting>>
    BY <1>8 DEF Suspended, TypeOK
  <2>2. home[c] = t /\ \A e \in Requests \ {c} : costate[e] = "calling" => home[e] # t
    BY <2>1, OneRuns
  <2>3. CASE d = c
    <3>1. s = t /\ session_id[t] = n /\ suspend'[t][n] = c /\ costate'[c] = "called"
      BY <1>1, <2>1, <2>2, <2>3, Domains
    <3>. QED
      BY <1>1, <2>1, <2>3, <3>1 DEF Awaits
  <2>4. CASE d # c
    <3>1. costate'[d] = costate[d]
      BY <2>1, <2>4, Domains
    <3>2. ASSUME costate[d] = "called"
          PROVE  suspend'[s][n] = suspend[s][n]
      <4>1. n \in Requests /\ suspend[s][n] = d
        BY <1>1, <3>2
      <4>2. n < session_id[s]
        BY <1>0, <4>1 DEF RegisteredWhileCalled
      <4>3. n # session_id[s]
        BY <4>2, Typed
      <4>. QED
        BY <2>1, <4>3, Domains
    <3>3. costate[d] = "calling" => session_id'[s] = session_id[s]
      BY <1>1, <2>1, <2>2, <2>4, Domains
    <3>. QED
      BY <1>1, <1>2, <2>1, <3>1, <3>2, <3>3
  <2>. QED
    BY <2>3, <2>4
<1>. QED
  BY <1>3, <1>4, <1>5, <1>6, <1>7, <1>8 DEF SessionStep

\* Every session that a request or a response carries, or a handler knows, is
\* that of a call which awaits it.
LEMMA CallStep ==
  ASSUME SessionInv, TypeOK', SessionStep
  PROVE  CallInv'
<1> USE DEF SessionInv
<1> DEFINE Right(t, x) ==
             /\ x.type = "request" /\ x.session > 0 => Awaits(x.from, x.session, x.id)
             /\ x.type = "response" => x.session > 0 /\ Awaits(t, x.session, x.id)
<1>1. \A x \in Messages : x.id \in Requests /\ x.from \in Services
  BY DEF Messages
<1>2. ASSUME NEW r \in Requests, Arrives(r)
      PROVE  /\ \A t \in Services : \A x \in Mail'[t] : x.id # r
             /\ ~(response[r] > 0) /\ \A d \in Requests : response'[d] = response[d]
  <2>1. PICK s \in Services, c \in Requests : \E m \in Mail[s] : GetsResponse(s, c, m) /\ m.id = r
    BY <1>2 DEF Arrives
  <2>2. PICK m \in Mail[s] : GetsResponse(s, c, m) /\ m.id = r
    BY <2>1
  <2>3. costate[r] = "returned"
    BY <2>2 DEF GetsResponse, MailInv
  <2>4. ~(response[r] > 0)
    BY <2>3 DEF TablesMatchCoroutines, nil
  <2>. QED
    BY <2>2, <2>4 DEF GetsResponse
<1>3. ASSUME NEW t \in Services, NEW x \in Mail[t], x \in Mail'[t]
      PROVE  Right(t, x)'
  <2>1. x.id \in Requests /\ x.from \in Services /\ ~Arrives(x.id)
    BY <1>1, <1>2, <1>3, Typed
  <2>2. Right(t, x)
    BY DEF CallInv
  <2>. QED
    BY <2>1, <2>2, AwaitsStep
<1>4. ASSUME NEW s \in Services, NEW c \in Requests, NEW to \in Services, Sends(s, c, to),
             NEW t \in Services, NEW x \in Mail'[t]
      PROVE  Right(t, x)'
  <2> DEFINE m == [type |-> "request", from |-> s, session |-> 0, id |-> requests + 1]
  <2>1. Mail'[t] \subseteq Mail[t] \cup {m}
    BY <1>4, PostedAdds DEF Sends, Requested
  <2>2. ~(m.session > 0) /\ m.type = "request"
    OBVIOUS
  <2> HIDE DEF m
  <2>. QED
    BY <1>3, <1>4, <2>1, <2>2
<1>5. ASSUME NEW s \in Services, NEW c \in Requests, NEW to \in Services, Calls(s, c, to),
             NEW t \in Services, NEW x \in Mail'[t]
      PROVE  Right(t, x)'
  <2> DEFINE n == session_id[s]
             r == requests + 1
             m == [type |-> "request", from |-> s, session |-> n, id |-> r]
  <2>1. Mail'[t] \subseteq Mail[t] \cup {m}
    BY <1>5, PostedAdds DEF Calls, Requested
  <2>2. m.session = n /\ m.type = "request" /\ m.from = s /\ m.id = r
    OBVIOUS
  <2>3. /\ home'[c] = s /\ costate'[c] = "calling" /\ awaiting'[c] = r /\ session_id'[s] = n
    BY <1>5, OneRuns, Domains DEF Calls, Requested
  <2> HIDE DEF m, n, r
  <2>4. x = m => x.type = "request" /\ x.session = n /\ x.from = s /\ x.id = r
    BY <2>2
  <2>5. x = m => Right(t, x)'
    BY <2>3, <2>4 DEF Awaits
  <2>. QED
    BY <1>3, <1>5, <2>1, <2>5
<1>6. ASSUME NEW d \in Requests, response[d] > 0
      PROVE  Awaits(address[d], response[d], d) /\ address[d] \in Services
  BY <1>6, Typed DEF CallInv, TablesMatchCoroutines, nil
<1>7. ASSUME NEW s \in Services, NEW c \in Requests, Returned(s, c),
             NEW t \in Services, NEW x \in Mail'[t]
      PROVE  Right(t, x)'
  <2> DEFINE m == [type |-> "response", from |-> s, session |-> response[c], id |-> c]
             a == address[c]
             n == response[c]
  <2>1. CASE x \in Mail[t]
    BY <1>3, <1>7, <2>1
  <2>2. CASE x \notin Mail[t]
    <3>1. response[c] > 0 /\ a \in Services /\ Posted(a, m)
      BY <1>7, <2>2 DEF Returned
    <3>2. t = a /\ x = m
      BY <1>7, <2>2, <3>1, PostedAdds
    <3>3. x.type = "response" /\ x.session = n /\ x.id = c
      BY <3>2
    <3>4. Awaits(a, n, c)
      BY <1>6, <3>1
    <3>5. ~Arrives(c)
      BY <1>2, <3>1
    <3> HIDE DEF m, n, a
    <3>6. Awaits(t, x.session, x.id)
      BY <3>2, <3>3, <3>4
    <3>7. Awaits(t, x.session, x.id)'
      BY <3>3, <3>5, <3>6, AwaitsStep
    <3>. QED
      BY <3>1, <3>3, <3>7 DEF n
  <2>. QED
    BY <2>1, <2>2
<1>8. ASSUME NEW t \in Services, NEW x \in Mail'[t]
      PROVE  Right(t, x)'
  <2>1. ASSUME x \in Mail[t]
        PROVE  Right(t, x)'
    BY <1>3, <2>1
  <2>2. ASSUME Mail' = Mail
        PROVE  Right(t, x)'
    BY <2>1, <2>2, <1>8
  <2>3. ASSUME NEW i, Mail' = [u \in Services |-> {y \in Mail[u] : y.id # i}]
        PROVE  Right(t, x)'
    BY <2>1, <2>3, <1>8
  <2> HIDE DEF Right
  <2>4. ASSUME Quiet \/ \E s \in Services, c \in Requests : Turns(s, c) \/ Suspended(s, c)
        PROVE  Right(t, x)'
    BY <2>2, <2>4 DEF Quiet, Turns, Turn, Suspended
  <2>5. ASSUME NEW s \in Services, NEW m \in Mail[s],
               GetsRequest(s, m) \/ \E c \in Requests : GetsResponse(s, c, m)
        PROVE  Right(t, x)'
    <3>1. Mail' = [u \in Services |-> {y \in Mail[u] : y.id # m.id}]
      BY <2>5 DEF GetsRequest, GetsResponse
    <3>. QED
      BY <2>3, <3>1
  <2>. QED
    BY <1>4, <1>5, <1>7, <1>8, <2>4, <2>5 DEF SessionStep
<1>9. ASSUME NEW d \in Requests, response'[d] > 0
      PROVE  Awaits(address[d], response[d], d)'
  <2>1. ASSUME response'[d] = response[d], address'[d] = address[d]
        PROVE  Awaits(address[d], response[d], d)'
    <3> DEFINE a == address[d]
               n == response[d]
    <3>1. Awaits(a, n, d) /\ a \in Services /\ ~Arrives(d)
      BY <1>2, <1>6, <1>9, <2>1
    <3>. QED
      BY <2>1, <3>1, AwaitsStep DEF Awaits
  <2>2. ASSUME NEW s \in Services, NEW m \in Mail[s], GetsRequest(s, m), d = m.id
        PROVE  Awaits(address[d], response[d], d)'
    <3>1. address'[d] = m.from /\ response'[d] = m.session
      BY <2>2, Domains DEF GetsRequest
    <3>2. Awaits(m.from, m.session, d) /\ m.from \in Services
      BY <1>1, <1>9, <2>2, <3>1 DEF GetsRequest, CallInv
    <3>3. ~Arrives(d)
      <4>1. costate[d] = "none"
        BY <2>2 DEF GetsRequest, MailInv
      <4>2. \A s2 \in Services : \A x \in Mail[s2] :
              x.type = "response" /\ x \in Messages => costate[x.id] = "returned"
        BY DEF MailInv
      <4>. QED
        BY <4>1, <4>2 DEF Arrives, GetsResponse
    <3>4. Awaits(m.from, m.session, d)'
      BY <3>2, <3>3, AwaitsStep
    <3>. QED
      BY <3>1, <3>4 DEF Awaits
  <2>3. ASSUME NEW s \in Services, NEW m \in Mail[s], GetsRequest(s, m)
        PROVE  Awaits(address[d], response[d], d)'
    BY <2>1, <2>2, <2>3, Domains DEF GetsRequest
  <2>4. ASSUME NEW s \in Services, NEW c \in Requests, Returned(s, c)
        PROVE  Awaits(address[d], response[d], d)'
    <3>1. d # c
      BY <1>9, <2>4, Domains DEF Returned, nil
    <3>. QED
      BY <2>1, <2>4, <3>1, Domains DEF Returned
  <2>5. ASSUME UNCHANGED <<address, response>>
        PROVE  Awaits(address[d], response[d], d)'
    BY <2>1, <2>5
  <2>6. CASE \A s \in Services :
               /\ \A m \in Mail[s] : ~GetsRequest(s, m)
               /\ \A c \in Requests : ~Returned(s, c)
    <3>1. ASSUME Quiet
          PROVE  UNCHANGED <<address, response>>
      BY <3>1 DEF Quiet
    <3>2. ASSUME NEW s \in Services, NEW c \in Requests,
                 Turns(s, c) \/ Suspended(s, c) \/ \E m \in Mail[s] : GetsResponse(s, c, m)
          PROVE  UNCHANGED <<address, response>>
      BY <3>2 DEF Turns, Turn, Suspended, GetsResponse
    <3>3. ASSUME NEW s \in Services, NEW c \in Requests, NEW to \in Services,
                 Sends(s, c, to) \/ Calls(s, c, to)
          PROVE  UNCHANGED <<address, response>>
      BY <3>3 DEF Sends, Calls, Requested
    <3>. QED
      BY <2>5, <2>6, <3>1, <3>2, <3>3 DEF SessionStep
  <2>. QED
    BY <2>3, <2>4, <2>6
<1>. QED
  BY <1>8, <1>9 DEF CallInv

\* Two messages on their way are about different requests.
LEMMA MailOnce ==
  ASSUME NoTwice, NEW s \in Services, NEW t \in Services,
         NEW x \in Mail[s], NEW y \in Mail[t], x.id = y.id
  PROVE  x = y /\ s = t
<1>1. PICK j \in 1..Len(inbox[s]), k \in 1..Len(inbox[t]) : x = inbox[s][j] /\ y = inbox[t][k]
  BY DEF Mail
<1>. QED
  BY <1>1 DEF NoTwice

\* A cause goes on to be one, or gives way to the next: the request in an inbox to
\* its handler, the handler to the response, each of them to its loss.
LEMMA CauseStep ==
  ASSUME SessionInv, TypeOK', SessionStep
  PROVE  CauseInv'
<1> USE DEF SessionInv
<1> SUFFICES ASSUME NEW c \in Requests, costate'[c] \in Waiting
             PROVE  Cause(c)'
  BY DEF CauseInv
<1> DEFINE r == awaiting[c]
           InMail == \E s \in Services : \E m \in Mail[s] :
                       /\ m.id = r /\ m.session > 0
                       /\ m.type = "response" => s = home[c]
           InHands == costate[r] \in Live \cup {"failed"} /\ response[r] > 0
           InLost == \E m \in lost : m.id = r
<1>0. Cause(c) <=> InMail \/ InHands \/ InLost
  BY DEF Cause
<1>1. Cause(c)' <=> InMail' \/ InHands' \/ InLost'
  BY DEF Cause
<1>2. ASSUME costate[c] \in Waiting
      PROVE  r \in Requests /\ (InMail \/ InHands \/ InLost)
  BY <1>0, <1>2, Typed DEF CauseInv, AwaitInv
<1>3. ASSUME costate[c] \in Waiting, awaiting'[c] = r, home'[c] = home[c], lost' = lost,
             \A s \in Services : Mail[s] \subseteq Mail'[s],
             costate[r] \in Live \cup {"failed"} => costate'[r] \in Live \cup {"failed"},
             response'[r] = response[r]
      PROVE  Cause(c)'
  <2>1. InMail => InMail'
    BY <1>3
  <2>2. InHands => InHands'
    BY <1>3
  <2>3. InLost => InLost'
    BY <1>3
  <2>. QED
    BY <1>1, <1>2, <1>3, <2>1, <2>2, <2>3
<1>4. ASSUME Quiet
      PROVE  Cause(c)'
  <2>1. costate[c] \in Waiting /\ UNCHANGED <<Mail, lost, home, costate, awaiting, response>>
    BY <1>4 DEF Quiet
  <2>. QED
    BY <1>3, <2>1
<1>5. ASSUME NEW s \in Services, NEW d \in Requests, Turns(s, d) \/ Suspended(s, d)
      PROVE  Cause(c)'
  <2>1. UNCHANGED <<Mail, lost, home, awaiting, response>>
    BY <1>5 DEF Turns, Turn, Suspended
  <2>2. costate[c] \in Waiting
    BY <1>5, Domains DEF Turns, Turn, Suspended, Waiting
  <2>3. r \in Requests /\
        (costate[r] \in Live \cup {"failed"} => costate'[r] \in Live \cup {"failed"})
    <3>1. \A x \in Requests :
            costate[x] \in Live \cup {"failed"} => costate'[x] \in Live \cup {"failed"}
      BY <1>5, Domains DEF Turns, Turn, Suspended, Live
    <3>. QED
      BY <1>2, <2>2, <3>1
  <2>. QED
    BY <1>3, <2>1, <2>2, <2>3
<1>6. ASSUME NEW s \in Services, NEW m \in Mail[s], GetsRequest(s, m)
      PROVE  Cause(c)'
  <2>1. m.id \in Requests /\ costate[m.id] = "none" /\ m.type = "request"
    BY <1>6 DEF GetsRequest, Messages, MailInv
  <2>2. c # m.id /\ costate[c] \in Waiting /\ awaiting' = awaiting /\ lost' = lost
    BY <1>6, <2>1, Domains DEF GetsRequest, Waiting
  <2>3. home'[c] = home[c] /\ r \in Requests
    BY <1>2, <1>6, <2>1, <2>2, Domains DEF GetsRequest
  <2>4. CASE r # m.id
    <3>1. costate'[r] = costate[r] /\ response'[r] = response[r]
      BY <1>6, <2>1, <2>3, <2>4, Domains DEF GetsRequest
    <3>2. \A t \in Services : \A x \in Mail[t] : x.id = r => x \in Mail'[t]
      BY <1>6, <2>4 DEF GetsRequest
    <3>3. InMail => InMail'
      BY <2>2, <2>3, <3>2
    <3>4. InHands => InHands'
      BY <2>2, <3>1
    <3>5. InLost => InLost'
      BY <2>2
    <3>. QED
      BY <1>1, <1>2, <2>2, <3>3, <3>4, <3>5
  <2>5. CASE r = m.id
    <3>1. ASSUME InMail
          PROVE  InHands'
      <4>1. PICK t \in Services : \E x \in Mail[t] : x.id = r /\ x.session > 0
        BY <3>1
      <4>2. m.session > 0
        BY <2>5, <4>1, MailOnce
      <4>3. costate'[r] = "running" /\ response'[r] = m.session
        BY <1>6, <2>1, <2>5, Domains DEF GetsRequest
      <4>. QED
        BY <2>2, <4>2, <4>3 DEF Live
    <3>2. ~InHands
      BY <2>1, <2>5 DEF Live
    <3>3. InLost => InLost'
      BY <2>2
    <3>. QED
      BY <1>1, <1>2, <2>2, <3>1, <3>2, <3>3
  <2>. QED
    BY <2>4, <2>5
<1>7. ASSUME NEW s \in Services, NEW d \in Requests, NEW m \in Mail[s], GetsResponse(s, d, m)
      PROVE  Cause(c)'
  <2>1. c # d /\ costate[c] \in Waiting /\ awaiting'[c] = r
    BY <1>7, Domains DEF GetsResponse, Waiting
  <2>2. r \in Requests /\ r # m.id
    BY <1>2, <1>7, <2>1 DEF GetsResponse, AwaitInv
  <2>3. \A t \in Services : \A x \in Mail[t] : x.id = r => x \in Mail'[t]
    BY <1>7, <2>2 DEF GetsResponse
  <2>4. /\ UNCHANGED <<home, response, lost>>
        /\ costate[r] \in Live => costate'[r] \in Live
        /\ costate[r] = "failed" => costate'[r] = "failed"
    BY <1>7, <2>2, Domains DEF GetsResponse, Live
  <2>5. InMail => InMail'
    BY <2>1, <2>3, <2>4
  <2>6. InHands => InHands'
    BY <2>1, <2>4
  <2>7. InLost => InLost'
    BY <2>1, <2>4
  <2>. QED
    BY <1>1, <1>2, <2>1, <2>5, <2>6, <2>7
<1>8. ASSUME NEW s \in Services, NEW d \in Requests, NEW to \in Services, NEW n, n \in Nat,
             Requested(s, d, to, n),
             \/ UNCHANGED <<costate, awaiting>>
             \/ /\ n > 0 /\ costate' = [costate EXCEPT ![d] = "calling"]
                /\ awaiting' = [awaiting EXCEPT ![d] = requests + 1]
      PROVE  Cause(c)'
  <2> DEFINE m == [type |-> "request", from |-> s, session |-> n, id |-> requests + 1]
  <2>1. /\ m.type = "request" /\ m.session = n /\ m.id = requests + 1
        /\ Posted(to, m) /\ costate[d] = "running" /\ UNCHANGED <<home, response>>
    BY <1>8 DEF Requested
  <2> HIDE DEF m
  <2>2. /\ \A t \in Services : Mail[t] \subseteq Mail'[t]
        /\ lost \subseteq lost'
        /\ m \in Mail'[to] \/ m \in lost'
    BY <2>1, PostedAdds
  <2>3. \A x \in Requests : costate[x] \in Live \cup {"failed"} => costate'[x] \in Live \cup {"failed"}
    BY <1>8, Domains DEF Live
  <2>4. ASSUME costate[c] \in Waiting, awaiting'[c] = r
        PROVE  Cause(c)'
    <3>1. InMail => InMail'
      BY <2>1, <2>2, <2>4
    <3>2. InHands => InHands'
      BY <1>2, <2>1, <2>3, <2>4
    <3>3. InLost => InLost'
      BY <2>2, <2>4
    <3>. QED
      BY <1>1, <1>2, <2>4, <3>1, <3>2, <3>3
  <2>5. ASSUME n > 0, awaiting'[c] = requests + 1
        PROVE  Cause(c)'
    <3>1. m \in Mail'[to] => InMail'
      BY <2>1, <2>5
    <3>2. m \in lost' => InLost'
      BY <2>1, <2>5
    <3>. QED
      BY <1>1, <2>2, <3>1, <3>2
  <2>6. CASE c = d /\ ~UNCHANGED <<costate, awaiting>>
    BY <1>8, <2>5, <2>6, Domains
  <2>7. CASE c # d \/ UNCHANGED <<costate, awaiting>>
    BY <1>8, <2>4, <2>7, Domains
  <2>. QED
    BY <2>6, <2>7
<1>9. ASSUME NEW s \in Services, NEW d \in Requests, Returned(s, d)
      PROVE  Cause(c)'
  <2> DEFINE m == [type |-> "response", from |-> s, session |-> response[d], id |-> d]
  <2>1. /\ c # d /\ costate[c] \in Waiting /\ costate[d] = "running"
        /\ UNCHANGED <<awaiting, home>>
    BY <1>9, Domains DEF Returned, Waiting
  <2>2. r \in Requests
    BY <1>2, <2>1
  <2>3. /\ \A t \in Services : Mail[t] \subseteq Mail'[t]
        /\ lost \subseteq lost'
        /\ response[d] > 0 => /\ address[d] \in Services
                              /\ m \in Mail'[address[d]] \/ m \in lost'
    BY <1>9, PostedAdds DEF Returned
  <2>4. InMail => InMail'
    BY <2>1, <2>3
  <2>5. InLost => InLost'
    BY <2>1, <2>3
  <2>6. CASE r # d
    <3>1. costate'[r] = costate[r] /\ response'[r] = response[r]
      BY <1>9, <2>2, <2>6, Domains DEF Returned
    <3>2. InHands => InHands'
      BY <2>1, <3>1
    <3>. QED
      BY <1>1, <1>2, <2>1, <2>4, <2>5, <3>2
  <2>7. CASE r = d
    <3>1. ASSUME InHands
          PROVE  InMail' \/ InLost'
      <4>1. response[d] > 0
        BY <2>7, <3>1
      <4>2. home[c] = address[d]
        BY <1>2, <2>1, <2>2, <2>7, <4>1 DEF CallInv, Awaits, AwaitInv
      <4>3. m.id = r /\ m.session > 0
        BY <2>7, <4>1
      <4> HIDE DEF m
      <4>4. m \in Mail'[address[d]] => InMail'
        BY <2>1, <2>3, <4>1, <4>2, <4>3
      <4>5. m \in lost' => InLost'
        BY <2>1, <4>3
      <4>. QED
        BY <2>3, <4>1, <4>4, <4>5
    <3>. QED
      BY <1>1, <1>2, <2>1, <2>4, <2>5, <3>1
  <2>. QED
    BY <2>6, <2>7
<1>10. ASSUME NEW s \in Services, NEW d \in Requests, NEW to \in Services,
              Sends(s, d, to) \/ Calls(s, d, to)
       PROVE  Cause(c)'
  BY <1>8, <1>10, Typed DEF Sends, Calls
<1>. QED
  BY <1>4, <1>5, <1>6, <1>7, <1>9, <1>10 DEF SessionStep

\* At the start one request, that of the entry point, is in the inbox of the root
\* service, and asks for no response.
LEMMA InitHolds ==
  ASSUME Init
  PROVE  SessionInv
<1> DEFINE m == [type |-> "request", from |-> 0, session |-> 0, id |-> 1]
<1>1. 0 \in Sessions /\ 1 \in Requests /\ 0 \in Services
  BY BoundsAssumption, ServicesAssumption DEF Sessions, Requests, ROOT_ID
<1>2. m \in Messages /\ Message("request", 0, 0, 1) = m
  BY <1>1, SessionIsKept DEF Messages, Message
<1>3. inbox = [s \in Services |-> IF s = 0 THEN <<m>> ELSE <<>>]
  BY <1>2 DEF Init, ROOT_ID
<1>4. m.id = 1 /\ m.type = "request" /\ m.session = 0
  OBVIOUS
<1> HIDE DEF m
<1>5. <<m>> \in Seq(Messages) /\ Len(<<m>>) = 1 /\ <<m>>[1] = m
  BY <1>2
<1>6. <<>> \in Seq(Messages) /\ Len(<<>>) = 0
  OBVIOUS
<1>7. InboxTypeOK
  BY <1>3, <1>5, <1>6, BoundsAssumption DEF InboxTypeOK
<1>8. \A s \in Services : 1..Len(inbox[s]) = IF s = 0 THEN {1} ELSE {}
  <2>1. 1..1 = {1} /\ 1..0 = {}
    OBVIOUS
  <2>2. \A s \in Services : Len(inbox[s]) = IF s = 0 THEN 1 ELSE 0
    <3>1. \A s \in Services : inbox[s] = IF s = 0 THEN <<m>> ELSE <<>>
      BY <1>3
    <3> DEFINE q == <<m>>
    <3>2. Len(q) = 1
      BY <1>5
    <3>3. inbox[0] = q
      BY <1>1, <3>1
    <3>4. \A s \in Services : s # 0 => inbox[s] = <<>>
      BY <3>1
    <3> HIDE DEF q
    <3>. QED
      BY <1>6, <3>2, <3>3, <3>4
  <2>. QED
    BY <2>1, <2>2
<1>9. \A s \in Services : Mail[s] = IF s = 0 THEN {m} ELSE {}
  <2>1. \A s \in Services : Mail[s] = {inbox[s][k] : k \in 1..Len(inbox[s])}
    BY DEF Mail
  <2>2. ASSUME NEW s \in Services, s = 0
        PROVE  Mail[s] = {m}
    <3>1. inbox[s] = <<m>> /\ 1..Len(inbox[s]) = {1}
      BY <1>3, <1>8, <2>2
    <3>2. inbox[s][1] = m
      BY <1>5, <3>1
    <3>. QED
      BY <2>1, <3>1, <3>2
  <2>3. ASSUME NEW s \in Services, s # 0
        PROVE  Mail[s] = {}
    BY <1>8, <2>1, <2>3
  <2>. QED
    BY <2>2, <2>3
<1>10. NoTwice
  BY <1>8 DEF NoTwice
<1>11. /\ running = [s \in Services |-> None]
       /\ session_id = [s \in Services |-> 1]
       /\ suspend = [s \in Services |-> [n \in Requests |-> None]]
       /\ address = [c \in Requests |-> nil]
       /\ response = [c \in Requests |-> nil]
       /\ home = [c \in Requests |-> 0]
       /\ costate = [c \in Requests |-> "none"]
       /\ awaiting = [c \in Requests |-> None]
       /\ timer = [c \in Requests |-> FALSE]
       /\ requests = 1 /\ lost = {}
  BY DEF Init, ROOT_ID
<1>12. TypeOK
  <2>1. /\ pending \in [Services -> BOOLEAN]
        /\ closed \in [Services -> BOOLEAN]
        /\ quit \in [Services -> BOOLEAN]
        /\ naps \in [Requests -> 0..MaxNaps]
        /\ phase \in [Services -> {"none", "loading", "failed", "poll", "drain", "timer",
                                   "exited"}]
    BY BoundsAssumption DEF Init
  <2>. QED
    BY <1>1, <1>7, <1>11, <2>1 DEF TypeOK, InboxTypeOK
<1>13. NumbersInv
  BY <1>4, <1>9, <1>11 DEF NumbersInv, None
<1>14. RunInv /\ TablesMatchCoroutines /\ RegisteredWhileCalled
  BY <1>1, <1>11 DEF RunInv, RunningThreadIsRunning, TablesMatchCoroutines, RegisteredWhileCalled
<1>15. MailInv /\ AwaitInv
  BY <1>1, <1>4, <1>9, <1>11 DEF MailInv, AwaitInv, Waiting
<1>16. CallInv /\ CauseInv
  BY <1>4, <1>9, <1>11 DEF CallInv, CauseInv, Waiting, nil
<1>. QED
  BY <1>10, <1>12, <1>13, <1>14, <1>15, <1>16 DEF SessionInv

\* Every step keeps the invariant.
LEMMA InvariantStep ==
  ASSUME NoWrap, SessionInv, [Next]_vars
  PROVE  SessionInv'
<1>1. TypeOK' /\ NoTwice' /\ SessionStep
  BY Steps
<1>. QED
  BY <1>1, NumbersStep, RunStep, TablesStep, RegisteredStep, MailStep, AwaitStep, CallStep,
     CauseStep DEF SessionInv

\* So it holds in every behaviour.
LEMMA SessionInvHolds ==
  ASSUME NoWrap
  PROVE  Spec => []SessionInv
<1>1. Init => SessionInv
  BY InitHolds
<1>2. SessionInv /\ [Next]_vars => SessionInv'
  BY InvariantStep
<1>. QED
  BY <1>1, <1>2, PTL DEF Spec

------------------------------------------------------------------------------
(* The theorems.                                                            *)

\* The variables of every behaviour have the types of the Lua tables.
THEOREM SessionTypes ==
  ASSUME NoWrap
  PROVE  Spec => []TypeOK
<1>1. SessionInv => TypeOK
  BY DEF SessionInv
<1>. QED
  BY <1>1, SessionInvHolds, PTL

\* running_thread names the one coroutine of the service that executes.
THEOREM OneCoroutineRuns ==
  ASSUME NoWrap
  PROVE  Spec => []RunningThreadIsRunning
<1>1. SessionInv => RunningThreadIsRunning
  BY DEF SessionInv, RunInv
<1>. QED
  BY <1>1, SessionInvHolds, PTL

\* A response on its way leads to the coroutine that made the call, and to no
\* other.
THEOREM ResponsesFindTheirCallers ==
  ASSUME NoWrap
  PROVE  Spec => []ResponseFindsItsCaller
<1>1. ASSUME SessionInv
      PROVE  ResponseFindsItsCaller
  <2> SUFFICES ASSUME NEW s \in Services, NEW i \in 1..Len(inbox[s]), inbox[s][i].type = "response"
               PROVE  \E c \in Requests :
                        /\ home[c] = s
                        /\ awaiting[c] = inbox[s][i].id
                        /\ \/ costate[c] = "called" /\ suspend[s][inbox[s][i].session] = c
                           \/ costate[c] = "calling" /\ session_id[s] = inbox[s][i].session
    BY DEF ResponseFindsItsCaller
  <2>1. inbox[s][i] \in Mail[s]
    BY DEF Mail
  <2>2. Awaits(s, inbox[s][i].session, inbox[s][i].id)
    BY <1>1, <2>1 DEF SessionInv, CallInv
  <2>. QED
    BY <2>2 DEF Awaits
<1>. QED
  BY <1>1, SessionInvHolds, PTL

\* A coroutine is registered exactly while it is suspended in service.call.
THEOREM RegistrationsMatchCalls ==
  ASSUME NoWrap
  PROVE  Spec => []RegisteredWhileCalled
<1>1. SessionInv => RegisteredWhileCalled
  BY DEF SessionInv
<1>. QED
  BY <1>1, SessionInvHolds, PTL

\* No coroutine waits in vain without a loss or a failure.
THEOREM WaitsHaveCauses ==
  ASSUME NoWrap
  PROVE  Spec => []WaitHasACause
<1>1. ASSUME SessionInv
      PROVE  WaitHasACause
  <2> SUFFICES ASSUME NEW c \in Requests, costate[c] = "called"
               PROVE  \/ \E s \in Services, i \in 1..Capacity :
                           /\ i <= Len(inbox[s])
                           /\ inbox[s][i].id = awaiting[c]
                           /\ inbox[s][i].type = "response" => s = home[c]
                      \/ costate[awaiting[c]] \in {"running", "calling", "called", "asleep", "failed"}
                      \/ \E m \in lost : m.id = awaiting[c]
    BY DEF WaitHasACause
  <2>1. Cause(c)
    BY <1>1 DEF SessionInv, CauseInv, Waiting
  <2>2. ASSUME NEW s \in Services, NEW m \in Mail[s], m.id = awaiting[c],
               m.type = "response" => s = home[c]
        PROVE  \E i \in 1..Capacity :
                 /\ i <= Len(inbox[s])
                 /\ inbox[s][i].id = awaiting[c]
                 /\ inbox[s][i].type = "response" => s = home[c]
    <3>1. PICK i \in 1..Len(inbox[s]) : inbox[s][i] = m
      BY DEF Mail
    <3>2. Len(inbox[s]) \in Nat /\ Len(inbox[s]) <= Capacity
      BY <1>1, Typed, MailType DEF SessionInv, InboxTypeOK
    <3>3. i \in 1..Capacity
      BY <3>2, BoundsAssumption
    <3>. QED
      BY <2>2, <3>1, <3>2, <3>3
  <2>. QED
    BY <2>1, <2>2 DEF Cause, Live
<1>. QED
  BY <1>1, SessionInvHolds, PTL

\* The session tables hold where the answer goes for every coroutine that has
\* not returned, and for no coroutine that has.
THEOREM TablesFollowCoroutines ==
  ASSUME NoWrap
  PROVE  Spec => []TablesMatchCoroutines
<1>1. SessionInv => TablesMatchCoroutines
  BY DEF SessionInv
<1>. QED
  BY <1>1, SessionInvHolds, PTL

------------------------------------------------------------------------------
(* The session layer implements the promise of service.call.                *)

IsLost(r) == \E m \in lost : m.type = "request" /\ m.id = r

\* At most one case of Handling applies.
LEMMA HandlingIs ==
  ASSUME MailInv, NEW r \in Requests
  PROVE  /\ costate[r] \in {"returned", "failed"} => Handling(r) = costate[r]
         /\ costate[r] \in Live => Handling(r) = "running"
         /\ costate[r] = "none" /\ IsLost(r) => Handling(r) = "lost"
         /\ costate[r] = "none" /\ ~IsLost(r) =>
              Handling(r) = IF r <= requests THEN "sent" ELSE "unsent"
<1>1. IsLost(r) => costate[r] = "none"
  BY DEF IsLost, MailInv
<1>. QED
  BY <1>1 DEF Handling, IsLost, Live

\* After a step too.
LEMMA HandlingBecomes ==
  ASSUME MailInv', NEW r \in Requests
  PROVE  /\ costate'[r] \in {"returned", "failed"} => Handling(r)' = costate'[r]
         /\ costate'[r] \in Live => Handling(r)' = "running"
         /\ costate'[r] = "none" /\ IsLost(r)' => Handling(r)' = "lost"
         /\ costate'[r] = "none" /\ ~IsLost(r)' =>
              Handling(r)' = IF r <= requests' THEN "sent" ELSE "unsent"
<1>1. IsLost(r)' => costate'[r] = "none"
  BY DEF IsLost, MailInv
<1>. QED
  BY <1>1 DEF Handling, IsLost, Live

\* A request whose coroutine goes on, or does not begin, is handled as before.
LEMMA HandlingStays ==
  ASSUME SessionInv, SessionInv', NEW r \in Requests,
         costate'[r] = costate[r] \/ (costate[r] \in Live /\ costate'[r] \in Live),
         IsLost(r)' <=> IsLost(r), r <= requests' <=> r <= requests
  PROVE  Handling(r)' = Handling(r)
<1>1. costate[r] \in Live \cup {"none", "returned", "failed"}
  BY DEF SessionInv, TypeOK, Live
<1>2. MailInv /\ MailInv'
  BY DEF SessionInv
<1>3. CASE costate[r] \in Live
  <2>1. costate'[r] \in Live
    BY <1>3
  <2>. QED
    BY <1>2, <1>3, <2>1, HandlingIs, HandlingBecomes
<1>4. CASE costate[r] \in {"returned", "failed"}
  <2>1. costate'[r] = costate[r]
    BY <1>4 DEF Live
  <2>. QED
    BY <1>2, <1>4, <2>1, HandlingIs, HandlingBecomes
<1>5. CASE costate[r] = "none"
  <2>1. costate'[r] = "none"
    BY <1>5 DEF Live
  <2>. QED
    BY <1>2, <1>5, <2>1, HandlingIs, HandlingBecomes
<1>. QED
  BY <1>1, <1>3, <1>4, <1>5

HandlingOf == [r \in Requests |-> Handling(r)]

\* One request changes.
LEMMA OneChanges ==
  ASSUME NEW r \in Requests, NEW to, Handling(r)' = to,
         \A x \in Requests \ {r} : Handling(x)' = Handling(x)
  PROVE  HandlingOf' = [HandlingOf EXCEPT ![r] = to]
BY DEF HandlingOf

\* Every step is one of the promise or leaves it alone.
LEMMA PromiseStep ==
  ASSUME SessionInv, SessionInv', SessionStep
  PROVE  Promise!Next \/ UNCHANGED <<HandlingOf, awaiting>>
<1> USE DEF SessionInv
<1>1. MailInv /\ MailInv' /\ TypeOK /\ RunInv
  OBVIOUS
<1>2. ASSUME \A r \in Requests : Handling(r)' = Handling(r)
      PROVE  UNCHANGED HandlingOf
  BY <1>2 DEF HandlingOf
<1>3. ASSUME NEW r \in Requests
      PROVE  HandlingOf[r] = Handling(r)
  BY DEF HandlingOf
<1>4. ASSUME Quiet
      PROVE  UNCHANGED <<HandlingOf, awaiting>>
  <2>1. UNCHANGED <<costate, requests, awaiting, lost>>
    BY <1>4 DEF Quiet
  <2>2. \A r \in Requests : Handling(r)' = Handling(r)
    BY <2>1, HandlingStays DEF IsLost
  <2>. QED
    BY <1>2, <2>1, <2>2
<1>5. ASSUME NEW s \in Services, NEW c \in Requests, costate[c] \in Live, costate'[c] \in Live,
             \A r \in Requests \ {c} : costate'[r] = costate[r],
             UNCHANGED <<lost, requests>>
      PROVE  UNCHANGED HandlingOf
  <2>1. \A r \in Requests : Handling(r)' = Handling(r)
    BY <1>5, HandlingStays DEF IsLost
  <2>. QED
    BY <1>2, <2>1
<1>6. ASSUME NEW s \in Services, NEW c \in Requests, running[s] = c, costate[c] = "running"
      PROVE  Promise!Acts(c)
  <2>1. Handling(c) = "running" /\ awaiting[c] = None
    BY <1>1, <1>6, HandlingIs DEF Live, Waiting, AwaitInv
  <2>. QED
    BY <1>3, <2>1 DEF Promise!Acts, HandlingOf
<1>7. ASSUME NEW s \in Services, NEW c \in Requests, running[s] = c, costate[c] = "running",
             costate'[c] \in {"returned", "failed"},
             \A r \in Requests \ {c} : costate'[r] = costate[r],
             \A r \in Requests : IsLost(r)' <=> IsLost(r),
             UNCHANGED <<requests, awaiting>>
      PROVE  Promise!Finish(c)
  <2>1. Handling(c)' = costate'[c] /\ Handling(c) = "running"
    BY <1>1, <1>7, HandlingIs, HandlingBecomes DEF Live
  <2>2. \A r \in Requests \ {c} : Handling(r)' = Handling(r)
    BY <1>7, HandlingStays
  <2>3. HandlingOf' = [HandlingOf EXCEPT ![c] = costate'[c]]
    BY <2>1, <2>2 DEF HandlingOf
  <2>4. HandlingOf' = [HandlingOf EXCEPT ![c] = "returned"]
        \/ HandlingOf' = [HandlingOf EXCEPT ![c] = "failed"]
    BY <1>7, <2>3
  <2>5. Promise!Acts(c) /\ HandlingOf[c] = "running"
    BY <1>3, <1>6, <1>7, <2>1
  <2>. QED
    BY <1>7, <2>4, <2>5 DEF Promise!Finish, Promise!Goes, HandlingOf
<1>8. ASSUME NEW s \in Services, NEW c \in Requests, Turns(s, c)
      PROVE  Promise!Finish(c) \/ UNCHANGED <<HandlingOf, awaiting>>
  <2>1. /\ \A r \in Requests \ {c} : costate'[r] = costate[r]
        /\ UNCHANGED <<lost, requests, awaiting>>
    BY <1>8, Domains DEF Turns, Turn
  <2>2. CASE costate'[c] \in Live
    <3>1. costate[c] \in Live
      BY <1>8 DEF Turns, Turn, Live
    <3>. QED
      BY <1>5, <2>1, <2>2, <3>1
  <2>3. CASE costate'[c] \notin Live
    <3>1. running[s] = c /\ costate[c] = "running" /\ costate'[c] = "failed"
      BY <1>8, <2>3, Domains DEF Turns, Turn, Live
    <3>. QED
      BY <1>7, <2>1, <3>1 DEF IsLost
  <2>. QED
    BY <2>2, <2>3
<1>9. ASSUME NEW s \in Services, NEW c \in Requests, Suspended(s, c)
      PROVE  UNCHANGED <<HandlingOf, awaiting>>
  <2>1. /\ \A r \in Requests \ {c} : costate'[r] = costate[r]
        /\ costate[c] \in Live /\ costate'[c] \in Live
        /\ UNCHANGED <<lost, requests, awaiting>>
    BY <1>9, Domains DEF Suspended, Live
  <2>. QED
    BY <1>5, <2>1
<1>10. ASSUME NEW s \in Services, NEW m \in Mail[s], GetsRequest(s, m)
       PROVE  m.id \in Requests /\ Promise!Handle(m.id)
  <2> DEFINE c == m.id
  <2>1. /\ c \in Requests /\ costate[c] = "none" /\ ~IsLost(c) /\ c <= requests
        /\ costate'[c] = "running"
        /\ \A r \in Requests \ {c} : costate'[r] = costate[r]
        /\ UNCHANGED <<lost, requests, awaiting>>
    BY <1>10, Domains DEF GetsRequest, Messages, MailInv, NumbersInv, IsLost
  <2> HIDE DEF c
  <2>2. Handling(c) = "sent" /\ Handling(c)' = "running"
    BY <1>1, <2>1, HandlingIs, HandlingBecomes DEF Live
  <2>3. \A r \in Requests \ {c} : Handling(r)' = Handling(r)
    BY <2>1, HandlingStays DEF IsLost
  <2>4. HandlingOf' = [HandlingOf EXCEPT ![c] = "running"] /\ HandlingOf[c] = "sent"
    BY <1>3, <2>1, <2>2, <2>3 DEF HandlingOf
  <2>5. Promise!Handle(c)
    BY <2>1, <2>4 DEF Promise!Handle, Promise!Goes, HandlingOf
  <2>. QED
    BY <2>1, <2>5 DEF c
<1>11. ASSUME NEW s \in Services, NEW c \in Requests, NEW m \in Mail[s], GetsResponse(s, c, m)
       PROVE  Promise!Answer(c)
  <2>1. /\ \A r \in Requests \ {c} : costate'[r] = costate[r]
        /\ costate[c] \in Live /\ costate'[c] \in Live
        /\ UNCHANGED <<lost, requests>>
    BY <1>11, Domains DEF GetsResponse, Live
  <2>2. awaiting[c] \in Requests /\ costate[awaiting[c]] = "returned"
    BY <1>11 DEF GetsResponse, Messages, MailInv
  <2>3. HandlingOf[awaiting[c]] = "returned"
    BY <1>1, <1>3, <2>2, HandlingIs
  <2>4. UNCHANGED HandlingOf
    BY <1>5, <2>1
  <2>5. awaiting[c] # None /\ awaiting' = [awaiting EXCEPT ![c] = None]
    BY <1>11, <2>2 DEF GetsResponse, Requests, None
  <2>. QED
    BY <2>3, <2>4, <2>5 DEF Promise!Answer, HandlingOf
<1>12. ASSUME NEW s \in Services, NEW c \in Requests, NEW to \in Services, NEW n,
              Requested(s, c, to, n), costate'[c] \in Live,
              \A r \in Requests \ {c} : costate'[r] = costate[r]
       PROVE  /\ Promise!Acts(c) /\ requests + 1 \in Requests
              /\ \/ Promise!Goes(requests + 1, "unsent", "sent")
                 \/ Promise!Goes(requests + 1, "unsent", "lost")
  <2>0. PICK r \in Requests : r = requests + 1
    BY <1>12 DEF Requested
  <2> DEFINE m == [type |-> "request", from |-> s, session |-> n, id |-> r]
  <2>1. /\ running[s] = c /\ costate[c] = "running" /\ r \in Requests /\ requests' = r
        /\ Posted(to, m)
    BY <1>12, <2>0 DEF Requested
  <2>2. m.id = r /\ m.type = "request"
    OBVIOUS
  <2>3. requests \in Nat /\ \A x \in Requests : x \in Nat
    BY Typed DEF Requests
  <2>4. ~(r <= requests) /\ \A x \in Requests \ {r} : x <= requests' <=> x <= requests
    BY <2>0, <2>1, <2>3
  <2>5. \A x \in lost : x.id <= requests
    BY DEF NumbersInv
  <2>6. \A x \in lost : x.id # r
    BY <2>4, <2>5
  <2>7. costate[r] = "none" /\ ~IsLost(r)
    BY <2>1, <2>4, <2>6 DEF NumbersInv, IsLost
  <2> HIDE DEF m
  <2>8. lost \subseteq lost' /\ lost' \subseteq lost \cup {m}
    BY <2>1, PostedAdds
  <2>9. \A x \in Requests \ {r} : IsLost(x)' <=> IsLost(x)
    BY <2>2, <2>8 DEF IsLost
  <2>10. \A x \in Requests \ {r} : Handling(x)' = Handling(x)
    BY <1>12, <2>1, <2>4, <2>9, HandlingStays DEF Live
  <2>11. Handling(r) = "unsent"
    BY <1>1, <2>1, <2>4, <2>7, HandlingIs
  <2>12. costate'[r] = "none" /\ r <= requests'
    BY <1>12, <2>1, <2>3, <2>7
  <2>13. Handling(r)' \in {"sent", "lost"}
    BY <1>1, <2>1, <2>12, HandlingBecomes
  <2>14. HandlingOf' = [HandlingOf EXCEPT ![r] = Handling(r)'] /\ HandlingOf[r] = "unsent"
    BY <2>1, <2>10, <2>11 DEF HandlingOf
  <2>15. HandlingOf' = [HandlingOf EXCEPT ![r] = "sent"]
         \/ HandlingOf' = [HandlingOf EXCEPT ![r] = "lost"]
    BY <2>13, <2>14
  <2>16. Promise!Goes(r, "unsent", "sent") \/ Promise!Goes(r, "unsent", "lost")
    BY <2>14, <2>15 DEF Promise!Goes, HandlingOf
  <2>. QED
    BY <1>6, <2>0, <2>1, <2>16
<1>13. ASSUME NEW s \in Services, NEW c \in Requests, NEW to \in Services, Sends(s, c, to)
       PROVE  requests + 1 \in Requests /\ Promise!Send(c, requests + 1, None)
  <2>1. costate[c] = "running" /\ UNCHANGED <<costate, awaiting>> /\ Requested(s, c, to, 0)
    BY <1>13 DEF Sends, Requested
  <2>2. awaiting' = [awaiting EXCEPT ![c] = None]
    BY <2>1 DEF AwaitInv, Waiting, TypeOK
  <2>. QED
    BY <1>12, <2>1, <2>2 DEF Promise!Send, Live
<1>14. ASSUME NEW s \in Services, NEW c \in Requests, NEW to \in Services, Calls(s, c, to)
       PROVE  requests + 1 \in Requests /\ Promise!Send(c, requests + 1, requests + 1)
  <2>1. /\ Requested(s, c, to, session_id[s])
        /\ costate' = [costate EXCEPT ![c] = "calling"]
        /\ awaiting' = [awaiting EXCEPT ![c] = requests + 1]
    BY <1>14 DEF Calls
  <2>2. costate'[c] \in Live /\ \A r \in Requests \ {c} : costate'[r] = costate[r]
    BY <2>1, Domains DEF Live
  <2>. QED
    BY <1>12, <2>1, <2>2 DEF Promise!Send
<1>15. ASSUME NEW s \in Services, NEW c \in Requests, Returned(s, c)
       PROVE  Promise!Finish(c)
  <2>1. /\ running[s] = c /\ costate[c] = "running" /\ costate'[c] = "returned"
        /\ \A r \in Requests \ {c} : costate'[r] = costate[r]
        /\ UNCHANGED <<requests, awaiting>>
    BY <1>15, Domains DEF Returned
  <2> DEFINE m == [type |-> "response", from |-> s, session |-> response[c], id |-> c]
  <2>2. lost \subseteq lost' /\ lost' \subseteq lost \cup {m}
    BY <1>15, PostedAdds DEF Returned
  <2>3. m.type = "response"
    OBVIOUS
  <2> HIDE DEF m
  <2>4. \A r \in Requests : IsLost(r)' <=> IsLost(r)
    BY <2>2, <2>3 DEF IsLost
  <2>. QED
    BY <1>7, <2>1, <2>4
<1>16. ASSUME NEW s \in Services, NEW c \in Requests,
              \/ Turns(s, c)
              \/ \E m \in Mail[s] : GetsResponse(s, c, m)
              \/ \E to \in Services : Sends(s, c, to) \/ Calls(s, c, to)
              \/ Suspended(s, c)
              \/ Returned(s, c)
       PROVE  Promise!Next \/ UNCHANGED <<HandlingOf, awaiting>>
  BY <1>8, <1>9, <1>11, <1>13, <1>14, <1>15, <1>16 DEF Promise!Next
<1>17. ASSUME NEW s \in Services, NEW m \in Mail[s], GetsRequest(s, m)
       PROVE  Promise!Next
  BY <1>10, <1>17 DEF Promise!Next
<1>. QED
  BY <1>4, <1>16, <1>17 DEF SessionStep

\* No request is handled twice, no call returns with the answer to another, and
\* none twice or before its handler has returned: inboxes, sessions and coroutines
\* implement the promise of service.call.
THEOREM SessionImplementsRpc ==
  ASSUME NoWrap
  PROVE  Spec => ImplementsRpc
<1>1. Init => Promise!Init
  <2> SUFFICES ASSUME Init
               PROVE  Promise!Init
    OBVIOUS
  <2>1. /\ costate = [c \in Requests |-> "none"] /\ awaiting = [c \in Requests |-> None]
        /\ requests = 1 /\ lost = {}
    BY DEF Init
  <2>2. ASSUME NEW r \in Requests
        PROVE  Handling(r) = IF r = 1 THEN "sent" ELSE "unsent"
    <3>1. MailInv
      BY InitHolds DEF SessionInv
    <3>2. r <= 1 <=> r = 1
      BY DEF Requests
    <3>. QED
      BY <2>1, <3>1, <3>2, HandlingIs DEF IsLost
  <2>. QED
    BY <2>1, <2>2 DEF Promise!Init
<1>2. NoWrap /\ SessionInv /\ [Next]_vars => [Promise!Next]_(Promise!rpc)
  <2>1. ASSUME NoWrap, SessionInv, [Next]_vars
        PROVE  Promise!Next \/ UNCHANGED <<HandlingOf, awaiting>>
    BY <2>1, InvariantStep, Steps, PromiseStep
  <2>. QED
    BY <2>1 DEF Promise!rpc, HandlingOf
<1>. QED
  BY <1>1, <1>2, SessionInvHolds, PTL DEF Spec, ImplementsRpc, Promise!Spec
==============================================================================

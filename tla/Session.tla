------------------------------- MODULE Session -------------------------------
(***************************************************************************)
(* Requests, responses and coroutines: the session layer of                *)
(* src/lua/lservice3.lua, for a set of services that call each other.      *)
(*                                                                         *)
(* Every service is one thread.  It loads its source, then sleeps in uv_run  *)
(* until its async handle is signalled or a timer is due, then runs the    *)
(* drain loop of service.dispatch (or the timer callback), in which at     *)
(* most one coroutine runs at a time.  A request starts a coroutine; service.call   *)
(* and service.sleep suspend it; the end of the handler sends the          *)
(* response.  What a handler does between its request and its end is any   *)
(* finite sequence of service.spawn, call, send, sleep and quit, so the    *)
(* model holds every program the handlers can be.                          *)
(*                                                                         *)
(* A push and the signal that follows it are one step, and an inbox is a   *)
(* bounded sequence: modules Queue and Delivery justify both.              *)
(***************************************************************************)
EXTENDS Integers, Sequences

CONSTANTS
  Services,     \* service ids
  MaxRequests,  \* bound: requests sent in a behaviour, the boot request included
  MaxNaps,      \* bound: service.sleep calls per coroutine
  Capacity,     \* messages an inbox holds
  SessionMod,   \* session_t is an unsigned int: 2^32
  Faults        \* what may happen besides: "load" failures, "error"s, "quit"s

ROOT_ID == 0

ASSUME ServicesAssumption == ROOT_ID \in Services /\ Services \subseteq Nat
ASSUME BoundsAssumption ==
  /\ MaxRequests \in Nat \ {0}
  /\ MaxNaps \in Nat
  /\ Capacity \in Nat \ {0}
  /\ SessionMod \in Nat \ {0}
ASSUME FaultsAssumption == Faults \subseteq {"load", "error", "quit"}

\* Requests are numbered as they are sent, and a coroutine carries the number of
\* the request it was created for.  The numbers are not in the code.
Requests == 1..MaxRequests
None == 0
nil == -1   \* the value of an absent table entry

VARIABLES
  inbox,       \* s -> messages pushed and not received
  pending,     \* s -> the async handle is signalled
  closed,      \* s -> the async handle is closed by service_stop
  quit,        \* s -> the Lua variable quit
  phase,       \* s -> where the thread is: "none", "loading", "failed", "poll"
               \*      (in uv_run), "drain", "timer" (callbacks), "exited"
  running,     \* s -> running_thread
  session_id,  \* s -> session_id
  suspend,     \* s -> session_coroutine_suspend_lookup
  address,     \* c -> session_coroutine_address
  response,    \* c -> session_coroutine_response
  home,        \* c -> the service c runs on
  costate,     \* c -> what c is doing
  awaiting,    \* c -> the request whose response c waits for
  timer,       \* c -> c sleeps and its timer is open
  naps,        \* c -> number of its sleeps
  requests,    \* number of requests sent
  lost         \* messages refused by a full inbox

tables == <<suspend, address, response>>
coros  == <<home, costate, awaiting, timer, naps>>
vars == <<inbox, pending, closed, quit, phase, running, session_id, suspend,
          address, response, home, costate, awaiting, timer, naps, requests,
          lost>>

Message(type, from, session, r) ==
  [type |-> type, from |-> from, session |-> session % SessionMod, id |-> r]

\* service.bootstrap: the main thread, whose get_id() is 0, has started the root
\* service and sent it the entry point, with session 0: no response is wanted.
Init ==
  /\ inbox = [s \in Services |->
                IF s = ROOT_ID THEN <<Message("request", 0, 0, 1)>> ELSE <<>>]
  /\ pending = [s \in Services |-> s = ROOT_ID]
  /\ closed = [s \in Services |-> FALSE]
  /\ quit = [s \in Services |-> FALSE]
  /\ phase = [s \in Services |-> IF s = ROOT_ID THEN "loading" ELSE "none"]
  /\ running = [s \in Services |-> None]
  /\ session_id = [s \in Services |-> 1]
  /\ suspend = [s \in Services |-> [n \in Requests |-> None]]
  /\ address = [c \in Requests |-> nil]
  /\ response = [c \in Requests |-> nil]
  /\ home = [c \in Requests |-> ROOT_ID]
  /\ costate = [c \in Requests |-> "none"]
  /\ awaiting = [c \in Requests |-> None]
  /\ timer = [c \in Requests |-> FALSE]
  /\ naps = [c \in Requests |-> 0]
  /\ requests = 1
  /\ lost = {}

------------------------------------------------------------------------------
(* service_send: queue_push_ptr, whose result is ignored, and               *)
(* uv_async_send, which does nothing on a closed handle.                    *)

HasRoom(to) == Len(inbox[to]) < Capacity
CanBeSignalled(to) == ~closed[to]

Push(to, m) ==
  /\ IF HasRoom(to)
     THEN /\ inbox' = [inbox EXCEPT ![to] = Append(@, m)]
          /\ UNCHANGED lost
     ELSE /\ lost' = lost \cup {m}
          /\ UNCHANGED inbox
  /\ pending' = [pending EXCEPT ![to] = @ \/ CanBeSignalled(to)]

------------------------------------------------------------------------------
(* The loop of service s, outside coroutines.                               *)

\* service_init_lua: the source is loaded, the handler registered and uv_run
\* entered; or loading fails and the thread ends.
Load(s) ==
  /\ phase[s] = "loading"
  /\ \E p \in {"poll"} \cup (IF "load" \in Faults THEN {"failed"} ELSE {}) :
       phase' = [phase EXCEPT ![s] = p]
  /\ UNCHANGED <<inbox, pending, closed, quit, running, session_id, tables,
                 coros, requests, lost>>

\* uv_run: the async handle fires and the drain loop starts.
Wake(s) ==
  /\ phase[s] = "poll"
  /\ pending[s]
  /\ ~closed[s]
  /\ pending' = [pending EXCEPT ![s] = FALSE]
  /\ phase' = [phase EXCEPT ![s] = "drain"]
  /\ UNCHANGED <<inbox, closed, quit, running, session_id, tables, coros,
                 requests, lost>>

\* resume_session: co becomes the running thread.
Resume(s, c) ==
  /\ running' = [running EXCEPT ![s] = c]
  /\ costate' = [costate EXCEPT ![c] = "running"]

Draining(s) == phase[s] = "drain" /\ running[s] = None

\* Mutant: the message stays in the inbox.
Remove_not(s) == UNCHANGED inbox

\* service_recv removes the message.
Remove(s) == inbox' = [inbox EXCEPT ![s] = Tail(@)]

\* The drain loop receives a request: new_session, then resume_session.
ReceiveRequest(s) ==
  /\ Draining(s)
  /\ inbox[s] # <<>>
  /\ LET m == Head(inbox[s])
         c == m.id
     IN /\ m.type = "request"
        /\ address' = [address EXCEPT ![c] = m.from]
        /\ response' = [response EXCEPT ![c] = m.session]
        /\ home' = [home EXCEPT ![c] = s]
        /\ Resume(s, c)
  /\ Remove(s)
  /\ UNCHANGED <<pending, closed, quit, phase, session_id, suspend, awaiting,
                 timer, naps, requests, lost>>

\* Mutant: the coroutine stays registered.
Unregister_not(s, n) == UNCHANGED suspend

\* session_coroutine_suspend_lookup[session] = nil
Unregister(s, n) == suspend' = [suspend EXCEPT ![s][n] = None]

\* The drain loop receives a response: the coroutine registered for its session
\* is resumed with it, once; without one the payload is removed.
ReceiveResponse(s) ==
  /\ Draining(s)
  /\ inbox[s] # <<>>
  /\ LET m == Head(inbox[s])
         known == m.session \in Requests /\ suspend[s][m.session] # None
     IN /\ m.type # "request"
        /\ IF known
           THEN LET c == suspend[s][m.session]
                IN /\ Unregister(s, m.session)
                   /\ awaiting' = [awaiting EXCEPT ![c] = None]
                   /\ Resume(s, c)
           ELSE UNCHANGED <<suspend, awaiting, running, costate>>
  /\ Remove(s)
  /\ UNCHANGED <<pending, closed, quit, phase, session_id, address, response,
                 home, timer, naps, requests, lost>>

\* Mutant: one message per wakeup.
NothingReceived_early(s) == TRUE

\* service_recv returned NULL.
NothingReceived(s) == inbox[s] = <<>>

\* The drain loop finds no message and the callback returns; after a quit it
\* stops the service once more, which closes timers opened meanwhile.
Drained(s) ==
  /\ Draining(s)
  /\ NothingReceived(s)
  /\ phase' = [phase EXCEPT ![s] = "poll"]
  /\ timer' = [c \in Requests |-> timer[c] /\ ~(quit[s] /\ home[c] = s)]
  /\ UNCHANGED <<inbox, pending, closed, quit, running, session_id, tables,
                 home, costate, awaiting, naps, requests, lost>>

\* The timer of a sleeping coroutine is due: it closes and the coroutine resumes.
TimerFires(s, c) ==
  /\ phase[s] = "poll"
  /\ timer[c]
  /\ home[c] = s
  /\ timer' = [timer EXCEPT ![c] = FALSE]
  /\ phase' = [phase EXCEPT ![s] = "timer"]
  /\ Resume(s, c)
  /\ UNCHANGED <<inbox, pending, closed, quit, session_id, tables, home,
                 awaiting, naps, requests, lost>>

\* uv_run returns when no handle is left: the thread ends.
Exit(s) ==
  /\ phase[s] = "poll"
  /\ closed[s]
  /\ \A c \in Requests : home[c] = s => ~timer[c]
  /\ phase' = [phase EXCEPT ![s] = "exited"]
  /\ UNCHANGED <<inbox, pending, closed, quit, running, session_id, tables,
                 coros, requests, lost>>

------------------------------------------------------------------------------
(* What the running coroutine c of service s does.                          *)

Runs(s, c) == running[s] = c /\ costate[c] = "running"

\* Mutant: running_thread is not reset.
Yield_running(s) ==
  /\ phase' = [phase EXCEPT ![s] = IF @ = "timer" THEN "poll" ELSE @]
  /\ UNCHANGED running

\* coroutine.resume returns: running_thread = nil, and back to the drain loop or
\* out of the timer callback.
Yield(s) ==
  /\ running' = [running EXCEPT ![s] = None]
  /\ phase' = [phase EXCEPT ![s] = IF @ = "timer" THEN "poll" ELSE @]

\* service.spawn: service_new and service_start; from now on the id is known.
Spawn(s, c, new) ==
  /\ Runs(s, c)
  /\ phase[new] = "none"
  /\ phase' = [phase EXCEPT ![new] = "loading"]
  /\ UNCHANGED <<inbox, pending, closed, quit, running, session_id, tables,
                 coros, requests, lost>>

\* service.send and service.loopback: a request with session 0.
Send(s, c, to) ==
  /\ Runs(s, c)
  /\ phase[to] # "none"
  /\ requests < MaxRequests
  /\ requests' = requests + 1
  /\ Push(to, Message("request", s, 0, requests + 1))
  /\ UNCHANGED <<closed, quit, phase, running, session_id, tables, coros>>

\* service.call, first the request is sent ...
CallSend(s, c, to) ==
  /\ Runs(s, c)
  /\ phase[to] # "none"
  /\ requests < MaxRequests
  /\ requests' = requests + 1
  /\ Push(to, Message("request", s, session_id[s], requests + 1))
  /\ costate' = [costate EXCEPT ![c] = "calling"]
  /\ awaiting' = [awaiting EXCEPT ![c] = requests + 1]
  /\ UNCHANGED <<closed, quit, phase, running, session_id, tables, home, timer,
                 naps>>

\* Mutant: session_id is incremented before the registration.
Register_late(s, c) == suspend' = [suspend EXCEPT ![s][session_id[s] + 1] = c]

\* session_coroutine_suspend_lookup[session_id] = running_thread
Register(s, c) == suspend' = [suspend EXCEPT ![s][session_id[s]] = c]

\* Mutant: the next call uses the same session.
NextSession_same(s) == UNCHANGED session_id

NextSession(s) == session_id' = [session_id EXCEPT ![s] = @ + 1]

\* ... then the coroutine is registered for the session and yields.
CallSuspend(s, c) ==
  /\ running[s] = c
  /\ costate[c] = "calling"
  /\ Register(s, c)
  /\ NextSession(s)
  /\ costate' = [costate EXCEPT ![c] = "called"]
  /\ Yield(s)
  /\ UNCHANGED <<inbox, pending, closed, quit, address, response, home,
                 awaiting, timer, naps, requests, lost>>

\* Mutant: the timer is not started.
StartTimer_not(c) == UNCHANGED timer

\* service.set_timeout: a timer whose callback resumes c.
StartTimer(c) == timer' = [timer EXCEPT ![c] = TRUE]

\* service.sleep
Sleep(s, c) ==
  /\ Runs(s, c)
  /\ naps[c] < MaxNaps
  /\ naps' = [naps EXCEPT ![c] = @ + 1]
  /\ StartTimer(c)
  /\ costate' = [costate EXCEPT ![c] = "asleep"]
  /\ Yield(s)
  /\ UNCHANGED <<inbox, pending, closed, quit, session_id, tables, home,
                 awaiting, requests, lost>>

\* Mutants: the first session is taken for no session; the session is not ended.
IsWanted_after_first(c) == response[c] > 1
EndSession_not(c) == UNCHANGED <<address, response>>

\* send_response: a response is sent only for a session, and the session ended.
IsWanted(c) == response[c] > 0
EndSession(c) ==
  /\ address' = [address EXCEPT ![c] = nil]
  /\ response' = [response EXCEPT ![c] = nil]

\* The handler returns: send_response, then the coroutine ends.
Return(s, c) ==
  /\ Runs(s, c)
  /\ IF IsWanted(c)
     THEN Push(address[c], Message("response", s, response[c], c))
     ELSE UNCHANGED <<inbox, pending, lost>>
  /\ EndSession(c)
  /\ costate' = [costate EXCEPT ![c] = "returned"]
  /\ Yield(s)
  /\ UNCHANGED <<closed, quit, session_id, suspend, home, awaiting, timer, naps,
                 requests>>

\* The handler raises an error (or there is none for the command): the pcall of
\* new_thread prints it and the coroutine ends.  Nothing else happens: the
\* clean-up in resume_session is for a coroutine.resume that fails.
Fail(s, c) ==
  /\ "error" \in Faults
  /\ Runs(s, c)
  /\ costate' = [costate EXCEPT ![c] = "failed"]
  /\ Yield(s)
  /\ UNCHANGED <<inbox, pending, closed, quit, session_id, tables, home,
                 awaiting, timer, naps, requests, lost>>

\* Mutant: the walk skips the async handle.
CloseAsync_not(s) == UNCHANGED <<closed, pending>>

\* service_stop, walk_cb: the async handle, signalled or not.
CloseAsync(s) ==
  /\ closed' = [closed EXCEPT ![s] = TRUE]
  /\ pending' = [pending EXCEPT ![s] = FALSE]

\* service.quit: service_stop closes every handle of the loop, the async handle
\* and the timers of sleeping coroutines.  Its uv_run returns at once, because
\* uv_stop precedes it, and the coroutine goes on.
Quit(s, c) ==
  /\ "quit" \in Faults
  /\ Runs(s, c)
  /\ quit' = [quit EXCEPT ![s] = TRUE]
  /\ CloseAsync(s)
  /\ timer' = [x \in Requests |-> timer[x] /\ home[x] # s]
  /\ UNCHANGED <<inbox, phase, running, session_id, tables, home, costate,
                 awaiting, naps, requests, lost>>

------------------------------------------------------------------------------

Loop(s) ==
  \/ Load(s)
  \/ Wake(s)
  \/ ReceiveRequest(s)
  \/ ReceiveResponse(s)
  \/ Drained(s)
  \/ \E c \in Requests : TimerFires(s, c)
  \/ Exit(s)

Coroutine(s) ==
  \E c \in Requests :
    \/ \E to \in Services : Spawn(s, c, to) \/ Send(s, c, to) \/ CallSend(s, c, to)
    \/ CallSuspend(s, c)
    \/ Sleep(s, c)
    \/ Return(s, c)
    \/ Fail(s, c)
    \/ Quit(s, c)

Thread(s) == Loop(s) \/ Coroutine(s)

Next == \E s \in Services : Thread(s)

\* Every thread that can go on does.
Fairness == \A s \in Services : WF_vars(Thread(s))

Spec == Init /\ [][Next]_vars
FairSpec == Spec /\ Fairness

------------------------------------------------------------------------------
(* Properties.                                                              *)

Sessions == 0..(SessionMod - 1)
Messages == [type : {"request", "response"}, from : Services,
             session : Sessions, id : Requests]

\* The variables have the types of the Lua tables and of message_t.
TypeOK ==
  /\ inbox \in [Services -> Seq(Messages)]
  /\ \A s \in Services : Len(inbox[s]) <= Capacity
  /\ pending \in [Services -> BOOLEAN]
  /\ closed \in [Services -> BOOLEAN]
  /\ quit \in [Services -> BOOLEAN]
  /\ phase \in [Services -> {"none", "loading", "failed", "poll", "drain",
                             "timer", "exited"}]
  /\ running \in [Services -> Requests \cup {None}]
  /\ session_id \in [Services -> Requests]
  /\ suspend \in [Services -> [Requests -> Requests \cup {None}]]
  /\ address \in [Requests -> Services \cup {nil}]
  /\ response \in [Requests -> Sessions \cup {nil}]
  /\ home \in [Requests -> Services]
  /\ costate \in [Requests -> {"none", "running", "calling", "called", "asleep",
                               "returned", "failed"}]
  /\ awaiting \in [Requests -> Requests \cup {None}]
  /\ timer \in [Requests -> BOOLEAN]
  /\ naps \in [Requests -> 0..MaxNaps]
  /\ requests \in Requests
  /\ lost \subseteq Messages

\* running_thread names the one coroutine of the service that executes, so that
\* send_response and service.call act for it and for no other.
RunningThreadIsRunning ==
  /\ \A c \in Requests :
       costate[c] \in {"running", "calling"} => running[home[c]] = c
  /\ \A s \in Services :
       running[s] # None =>
         /\ home[running[s]] = s
         /\ costate[running[s]] \in {"running", "calling"}
         /\ phase[s] \in {"drain", "timer"}

\* A response on its way belongs to a call its receiver still waits for, and its
\* session leads to the coroutine that made that call and to no other: no
\* response is dropped, resumes a sleeping coroutine or comes a second time.
ResponseFindsItsCaller ==
  \A s \in Services : \A i \in 1..Len(inbox[s]) :
    LET m == inbox[s][i]
    IN m.type = "response" =>
         \E c \in Requests :
           /\ home[c] = s
           /\ awaiting[c] = m.id
           /\ \/ costate[c] = "called" /\ suspend[s][m.session] = c
              \/ costate[c] = "calling" /\ session_id[s] = m.session

\* A coroutine is registered for a session exactly while it is suspended in
\* service.call, under one session, on its own service.
RegisteredWhileCalled ==
  /\ \A s \in Services, n \in Requests :
       LET c == suspend[s][n]
       IN c # None => home[c] = s /\ costate[c] = "called" /\ n < session_id[s]
  /\ \A c \in Requests :
       costate[c] = "called" =>
         \E n \in Requests : \A k \in Requests :
           suspend[home[c]][k] = c <=> k = n

\* A coroutine that waits for a response does not wait in vain without a cause:
\* its request is in an inbox or being handled, or the response is in its inbox;
\* otherwise one of the two was refused by a full inbox, or the handler failed.
WaitHasACause ==
  \A c \in Requests :
    costate[c] = "called" =>
      LET r == awaiting[c]
      IN \/ \E s \in Services, i \in 1..Capacity :
              /\ i <= Len(inbox[s])
              /\ inbox[s][i].id = r
              /\ inbox[s][i].type = "response" => s = home[c]
         \/ costate[r] \in {"running", "calling", "called", "asleep", "failed"}
         \/ \E m \in lost : m.id = r

\* The session tables hold where the answer goes for every coroutine that has
\* not returned, and for no coroutine that has.  The entries of a coroutine
\* whose handler failed stay for ever.
TablesMatchCoroutines ==
  \A c \in Requests :
    /\ (address[c] # nil) <=> (response[c] # nil)
    /\ (address[c] # nil) <=> costate[c] \notin {"none", "returned"}

\* How far the request r has come.
Handling(r) ==
  CASE costate[r] \in {"returned", "failed"} -> costate[r]
    [] costate[r] \in {"running", "calling", "called", "asleep"} -> "running"
    [] \E m \in lost : m.type = "request" /\ m.id = r -> "lost"
    [] OTHER -> IF r <= requests THEN "sent" ELSE "unsent"

Promise == INSTANCE Rpc WITH
  handling <- [r \in Requests |-> Handling(r)], waits <- awaiting

\* Inboxes, sessions and coroutines together keep the promise of service.call:
\* no request is handled twice, no call returns with the answer to another, and
\* none twice or before its handler has returned.
ImplementsRpc == Promise!Spec

\* Without failures every service.call returns, also when services call each
\* other or themselves in a circle: a suspended handler does not block its
\* service.
CallsReturn ==
  \A c \in Requests : costate[c] = "called" ~> costate[c] # "called"

\* A sleeping coroutine is resumed, unless its service quits.
SleepersWake ==
  \A c \in Requests :
    costate[c] = "asleep" ~> (costate[c] # "asleep" \/ quit[home[c]])

\* service.quit ends the thread, whatever sleeps or is in the inbox.
QuitEndsTheThread ==
  \A s \in Services : quit[s] ~> phase[s] = "exited"

\* The comment "type == MESSAGE_ERROR" in service.call: the caller of a handler
\* that raised an error is resumed, with the error.
FailedCallIsAnswered ==
  \A c \in Requests :
    (costate[c] = "called" /\ costate[awaiting[c]] = "failed")
      ~> costate[c] # "called"
==============================================================================

-------------------------------- MODULE Clients --------------------------------
(***************************************************************************)
(* The services that listen for TCP clients: src/service/gateway.lua and   *)
(* src/service/remote.lua, two threads of one process.                     *)
(*                                                                         *)
(* A client's bytes arrive in pieces of any size.  Each piece is added to  *)
(* the buffer of its connection, and every complete line in it is handed   *)
(* to handle_message (gateway), which decodes a request, or to on_line     *)
(* (remote), which sends the service itself a command, executed later by   *)
(* the drain loop.  The bytes of a line are letters, and one letter stands *)
(* for a word, or for the whole of a request.                              *)
(*                                                                         *)
(* External: a connection is a stream of bytes and then an end or an       *)
(* error; an error raised in a callback of luv ends the process.           *)
(***************************************************************************)
EXTENDS Integers, Sequences, FiniteSets, Functions

CONSTANTS
  Clients,
  Starts,    \* the services the clients connect to and what they send
  CR, LF, SP,    \* '\r', '\n' and ' '
  Request,   \* gateway: a request with a method, or JSON that is no object
  Hello, Quit,   \* remote: the words "hello" and "quit"
  Capacity,  \* messages an inbox holds
  Other      \* any other service

ASSUME CapacityAssumption == Capacity \in Nat \ {0}
ASSUME LettersAssumption == Cardinality({CR, LF, SP, Request, Hello, Quit}) = 6
ASSUME OtherAssumption == Other \notin Clients

Servers == {"gateway", "remote"}
Letters == {CR, LF, SP, Request, Hello, Quit}

ASSUME StartsAssumption ==
  Starts \subseteq [server : [Clients -> Servers], sent : [Clients -> Seq(Letters)]]

VARIABLES
  running,      \* the process is
  phase,        \* s -> "poll", "read" (in a read callback), "drain", "exited"
  quit,         \* s -> the Lua variable quit
  active,       \* s -> the client of the read callback, or Other outside one
  inbox,        \* s -> commands sent to it: the client and number of the line
                \*      that is the command, or FromOther
  state,        \* c -> "new", "open", "closed"
  server,       \* c -> the service it connects to
  input,        \* c -> bytes on their way
  buf,          \* c -> buf, buffer
  peers,        \* number of tables getpeername has made
  client_list,  \* gateway: entries of client_list
  sent,         \* c -> all the bytes it sends (not code)
  lines,        \* c -> lines handed over (not code)
  executed,     \* s -> commands executed (not code)
  lost          \* s -> commands refused by a full inbox (not code)

listed == <<peers, client_list>>
conns == <<state, server, sent>>
vars == <<running, phase, quit, active, inbox, conns, input, buf, listed, lines, executed, lost>>

Init ==
  /\ running = TRUE
  /\ phase = [s \in Servers |-> "poll"]
  /\ quit = [s \in Servers |-> FALSE]
  /\ active = [s \in Servers |-> Other]
  /\ inbox = [s \in Servers |-> <<>>]
  /\ state = [c \in Clients |-> "new"]
  /\ \E start \in Starts : server = start.server /\ sent = start.sent
  /\ input = sent
  /\ buf = [c \in Clients |-> <<>>]
  /\ peers = 0
  /\ client_list = {}
  /\ lines = [c \in Clients |-> <<>>]
  /\ executed = [s \in Servers |-> <<>>]
  /\ lost = [s \in Servers |-> <<>>]

In(s, p) == running /\ phase[s] = p
Goto(s, p) == phase' = [phase EXCEPT ![s] = p]

\* An error in a callback of luv.
Raise == running' = FALSE

HasRoom(s) == Len(inbox[s]) < Capacity

\* service.send and the push it ends in.
Send(s, m) ==
  IF HasRoom(s)
  THEN /\ inbox' = [inbox EXCEPT ![s] = Append(@, m)]
       /\ UNCHANGED lost
  ELSE /\ lost' = [lost EXCEPT ![s] = Append(@, m)]
       /\ UNCHANGED inbox

------------------------------------------------------------------------------
(* Connections.                                                             *)

\* The callback of server:listen, and accept_client: every call of getpeername
\* makes a new table, the key of the client in client_list.  A failed connection
\* raises an error, as does, in the gateway, one that has no peer any more.
Accept(c) ==
  /\ In(server[c], "poll") /\ ~quit[server[c]]
  /\ state[c] = "new"
  /\ \/ /\ state' = [state EXCEPT ![c] = "open"]
        /\ IF server[c] = "gateway"
           THEN /\ peers' = peers + 1
                /\ client_list' = client_list \cup {[peer |-> peers + 1, client |-> c]}
           ELSE UNCHANGED listed
        /\ UNCHANGED running
     \/ Raise /\ UNCHANGED <<state, listed>>
  /\ UNCHANGED <<phase, quit, active, inbox, server, sent, input, buf, lines, executed, lost>>

\* The read callback gets an error or the end of the stream.  The gateway's
\* close_client asks for the peer again, which gives another table, or nil for a
\* connection that was reset: then client_list[nil] raises an error.
End(c) ==
  /\ In(server[c], "poll")
  /\ state[c] = "open"
  /\ \/ /\ state' = [state EXCEPT ![c] = "closed"]
        /\ IF server[c] = "gateway"
           THEN /\ peers' = peers + 1
                /\ client_list' = {e \in client_list : e.peer # peers + 1}
           ELSE UNCHANGED listed
        /\ UNCHANGED running
     \/ /\ server[c] = "gateway"
        /\ Raise
        /\ UNCHANGED <<state, listed>>
  /\ UNCHANGED <<phase, quit, active, inbox, server, sent, input, buf, lines, executed, lost>>

\* Mutant: one buffer for all connections of a service.
AddToBuffer_shared(c, bytes) ==
  buf' = [d \in Clients |-> IF server[d] = server[c] THEN buf[c] \o bytes ELSE buf[d]]

\* buf = buf .. data
AddToBuffer(c, bytes) == buf' = [buf EXCEPT ![c] = @ \o bytes]

\* The read callback gets any part of what is on its way.
Read(c) ==
  /\ In(server[c], "poll")
  /\ state[c] = "open"
  /\ \E n \in 1..Len(input[c]) :
       /\ AddToBuffer(c, SubSeq(input[c], 1, n))
       /\ input' = [input EXCEPT ![c] = SubSeq(@, n + 1, Len(@))]
  /\ active' = [active EXCEPT ![server[c]] = c]
  /\ Goto(server[c], "read")
  /\ UNCHANGED <<running, quit, inbox, conns, listed, lines, executed, lost>>

------------------------------------------------------------------------------
(* Lines.                                                                   *)

LFs(bytes) == {k \in DOMAIN bytes : bytes[k] = LF}
FirstLF(bytes) == CHOOSE k \in LFs(bytes) : \A j \in LFs(bytes) : k <= j

\* buf:sub(pos + 1)
After(bytes) == SubSeq(bytes, FirstLF(bytes) + 1, Len(bytes))

\* A carriage return at the end is removed.
Strip(line) ==
  IF line # <<>> /\ line[Len(line)] = CR THEN SubSeq(line, 1, Len(line) - 1) ELSE line

FirstLine(bytes) == Strip(SubSeq(bytes, 1, FirstLF(bytes) - 1))

\* remote's on_line: the line is sent to the service as a command.
on_line(c) ==
  /\ Send("remote", [from |-> c, n |-> Len(lines'[c])])
  /\ UNCHANGED running

\* gateway's handle_message: for a request, service.send is given the client,
\* which no message can carry: packing raises an error.  So does the field type
\* of a number, a boolean or null; text that is no JSON has none.
handle_message(line) ==
  /\ IF line = <<Request>> THEN Raise ELSE UNCHANGED running
  /\ UNCHANGED <<inbox, lost>>

\* The gateway skips empty lines.
IsHandedOver(s, line) == s = "remote" \/ line # <<>>

\* One turn of the loop over complete lines ...
NextLine(s) ==
  /\ In(s, "read")
  /\ LET c == active[s]
     IN  /\ LFs(buf[c]) # {}
         /\ buf' = [buf EXCEPT ![c] = After(@)]
         /\ LET line == FirstLine(buf[c])
            IN  IF ~IsHandedOver(s, line)
                THEN UNCHANGED <<lines, inbox, lost, running>>
                ELSE /\ lines' = [lines EXCEPT ![c] = Append(@, line)]
                     /\ IF s = "remote" THEN on_line(c) ELSE handle_message(line)
  /\ UNCHANGED <<phase, quit, active, conns, input, listed, executed>>

\* Mutant: the loop ends after one line.
IsLast_first(bytes) == TRUE

IsLast(bytes) == LFs(bytes) = {}

\* ... and its end.
LastLine(s) ==
  /\ In(s, "read")
  /\ IsLast(buf[active[s]])
  /\ Goto(s, "poll")
  /\ active' = [active EXCEPT ![s] = Other]
  /\ UNCHANGED <<running, quit, inbox, conns, input, buf, listed, lines, executed, lost>>

------------------------------------------------------------------------------
(* Commands.                                                                *)

FromOther == [from |-> Other, n |-> 0]

\* Another service sends "quit" to a listening one; bound: once.
SendQuit(s) ==
  /\ running
  /\ FromOther \notin Range(executed[s] \o inbox[s] \o lost[s])
  /\ Send(s, FromOther)
  /\ UNCHANGED <<running, phase, quit, active, conns, input, buf, listed, lines, executed>>

Wake(s) ==
  /\ In(s, "poll") /\ ~quit[s]
  /\ inbox[s] # <<>>
  /\ Goto(s, "drain")
  /\ UNCHANGED <<running, quit, active, inbox, conns, input, buf, listed, lines, executed, lost>>

\* string_split: the first word of a line is the command.
FirstWord(line) ==
  LET gaps == {k \in DOMAIN line : line[k] = SP}
  IN  IF gaps = {} THEN line
      ELSE SubSeq(line, 1, (CHOOSE k \in gaps : \A j \in gaps : k <= j) - 1)

IsQuit(m) == m = FromOther \/ FirstWord(lines[m.from][m.n]) = <<Quit>>

\* Mutant: only the server's handle is closed.
CloseAll_listening(s) == UNCHANGED state

\* service.quit: service_stop closes every handle, the clients' among them.
CloseAll(s) ==
  state' = [c \in Clients |-> IF server[c] = s /\ state[c] = "open" THEN "closed" ELSE state[c]]

\* Mutant: the newest command first.
Received_last(s) == inbox[s][Len(inbox[s])]
Received(s) == Head(inbox[s])

\* The drain loop receives a command.  hello prints something, and a command
\* without a handler prints an error.
Execute(s) ==
  /\ In(s, "drain")
  /\ inbox[s] # <<>>
  /\ IF IsQuit(Received(s))
     THEN /\ quit' = [quit EXCEPT ![s] = TRUE]
          /\ CloseAll(s)
     ELSE UNCHANGED <<quit, state>>
  /\ executed' = [executed EXCEPT ![s] = Append(@, Received(s))]
  /\ inbox' = [inbox EXCEPT ![s] = Tail(@)]
  /\ UNCHANGED <<running, phase, active, server, sent, input, buf, listed, lines, lost>>

\* Mutant: one command per wakeup.
IsDrained_early(s) == TRUE
IsDrained(s) == inbox[s] = <<>>

\* The callback returns, and after a quit uv_run does.
Drained(s) ==
  /\ In(s, "drain")
  /\ IsDrained(s)
  /\ Goto(s, IF quit[s] THEN "exited" ELSE "poll")
  /\ UNCHANGED <<running, quit, active, inbox, conns, input, buf, listed, lines, executed, lost>>

------------------------------------------------------------------------------

Thread(s) ==
  \/ \E c \in Clients : server[c] = s /\ Read(c)
  \/ NextLine(s)
  \/ LastLine(s)
  \/ Wake(s)
  \/ Execute(s)
  \/ Drained(s)

Next ==
  \/ \E c \in Clients : Accept(c) \/ End(c)
  \/ \E s \in Servers : Thread(s) \/ SendQuit(s)

\* A thread that has something to do does it.
Fairness == \A s \in Servers : WF_vars(Thread(s))

Spec == Init /\ [][Next]_vars
FairSpec == Spec /\ Fairness

------------------------------------------------------------------------------
(* Properties.                                                              *)

\* The line of a text that the line feed at k ends.
LineAt(text, k) ==
  LET starts == {0} \cup {j \in LFs(text) : j < k}
      start  == CHOOSE p \in starts : \A j \in starts : j <= p
  IN  Strip(SubSeq(text, start + 1, k - 1))

\* Where the lines of a text end that are to be handed over for c.
Ends(c, text) == {k \in LFs(text) : server[c] = "remote" \/ LineAt(text, k) # <<>>}
Nth(ends, i) == CHOOSE p \in {q \in ends : Cardinality({j \in ends : j <= q}) = i} : TRUE

\* The lines to be handed over, by the line feeds of the whole text.
Expected(c, text) ==
  [i \in 1..Cardinality(Ends(c, text)) |-> LineAt(text, Nth(Ends(c, text), i))]

\* However a client's bytes are cut into pieces, and whatever other clients send
\* meanwhile, the lines handed over are those of the bytes it sent, and what is
\* left in its buffer is the unfinished line behind them.
LinesAreFramed ==
  \A c \in Clients :
    LET n    == Len(sent[c]) - Len(input[c]) - Len(buf[c])
        done == SubSeq(sent[c], 1, n)
    IN  /\ n >= 0
        /\ done \o buf[c] \o input[c] = sent[c]
        /\ n > 0 => done[n] = LF
        /\ lines[c] = Expected(c, done)
        /\ LFs(buf[c]) # {} => active[server[c]] = c /\ phase[server[c]] = "read"

\* The lines of c that are among the commands ms, and whether they are in order.
LinesIn(ms, c) == {ms[i].n : i \in {j \in DOMAIN ms : ms[j].from = c}}
InOrder(ms, c) ==
  \A i, j \in DOMAIN ms : i < j /\ ms[i].from = c /\ ms[j].from = c => ms[i].n < ms[j].n

\* The remote service executes the lines of each client in the order they came,
\* none twice, although those of other clients and commands of other threads
\* come between; what is not executed waits in the inbox or was refused by it.
CommandsKeepTheirOrder ==
  \A c \in Clients : server[c] = "remote" =>
    LET taken   == executed["remote"] \o inbox["remote"]
        refused == lost["remote"]
    IN  /\ InOrder(taken, c) /\ InOrder(refused, c)
        /\ LinesIn(taken, c) \cap LinesIn(refused, c) = {}
        /\ LinesIn(taken, c) \cup LinesIn(refused, c) = DOMAIN lines[c]

\* Every complete line of an open connection is handed over, however many come
\* in one piece, unless the connection or the process ends first.
EveryLineIsHandedOver ==
  \A c \in Clients :
    state[c] = "open" ~>
      (state[c] = "closed" \/ ~running \/ lines[c] = Expected(c, sent[c]))

OwnCommandWaits == \E m \in Range(inbox["remote"]) : m # FromOther

\* The commands the inbox took are executed, also those behind a "quit".
AcceptedIsExecuted == OwnCommandWaits ~> (~OwnCommandWaits \/ ~running)

\* After "quit" the service ends, and no client is left with a connection that
\* nobody reads.
QuitClosesConnections ==
  \A s \in Servers :
    quit[s] ~> \/ ~running
               \/ phase[s] = "exited" /\ \A c \in Clients : server[c] = s => state[c] # "open"
==============================================================================

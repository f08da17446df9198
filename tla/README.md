# lservice3 in TLA+

lservice3 runs each *service* as a LuaJIT state on a thread of its own. A service
has an inbox (a ring buffer), a libuv loop with one async handle that wakes it, and a
session layer in Lua that turns messages into coroutines: requests start them,
`service.call` suspends them until the response comes. This directory specifies that
machinery, model-checks it on small instances with TLC and proves nearly all of its safety
properties with TLAPS for instances of any size.

## Inventory

| Component | State | Operations | Interacts with |
| --- | --- | --- | --- |
| inbox ring buffer (`src/src/queue.c`) | `head`, `tail`, `data` | `queue_push_ptr`, `queue_pop_ptr`, `queue_length` | called by `service_send` on the senders' threads, by `service_recv` on the service's |
| delivery (`src/src/service.c`) | async handle, the loop, the thread | `service_start`, `service_init_lua`, `service_send`, `service_async_cb`, `service_recv`, `service_stop`, `service_join` | ring buffer, libuv, the handler built by `service.dispatch` |
| service pool (`service.c`, `service.h`) | `id`, `services[33]`, `lock` | `service_new`, `service_pool_lookup_service`, `service_pool_get_service` | every thread: messages are addressed by id |
| variable registry (`registry.c`) | hash from names to pointers | `service_pool_registry` | under the pool's lock, which it shares with `service_new`; not reachable from Lua |
| session layer (`src/lua/lservice3.lua`) | `session_id`, `session_coroutine_*`, `running_thread`, `quit` | `new`, `start`, `spawn`, `send`, `loopback`, `call`, `sleep`, `set_timeout`, `quit`, `dispatch`, `bootstrap` | sends through the Lua bindings, is called by the async callback and by timers |
| Lua bindings (`lservice.c`) | none | one function per operation above | Lua stack to C |
| messages (`message.c`) | heap copies | `message_new` | created by the sender, received by the reader |
| serialisation (`lua-seri.c`) | write and read blocks, table of references | `luaseri_pack`, `luaseri_unpack`, `luaseri_unpack_remove` | payloads and service configurations |
| source loading (`service.c`, `loadluv.h`) | none | `lua_loadfile_as_buffer`, `service_load_luv` | first thing a service's thread does |
| gateway, remote (`src/service/`) | client list, line buffers | accept, read, split, `handle_message` or `on_line`, `quit` | TCP clients; requests to themselves |
| root, user, echo (`src/service/`, `demo.lua`) | none | `boot`, `ping`, `quit`, ... | the boot scenario |
| logging, `uthash.h`, `socket.h`, `cond.h`, `util.c`, `accounts.lua`, `bots/` | | | copies of public code, helpers nobody includes, data |

What is hard here, and what makes each component correct:

* The ring buffer is lock-free and written for one writer. Correct means: it is a
  bounded FIFO, whatever the interleaving.
* Signals of an async handle coalesce. Correct means: an accepted message is handled,
  once, in order, however pushes, signals and the drain loop interleave.
* The pool lists a service before it is complete and is read without its lock. Correct
  means: ids are unique, a lookup finds the service of that name, and what it finds is complete or
  about to be.
* The session layer matches responses to coroutines over several services, with
  timers, errors, full inboxes and `quit` in between. Correct means: an answer resumes
  exactly the coroutine that waits for it, every wait ends unless there is a cause, and
  `quit` ends the thread.
* A message's bytes go through a chain of blocks, one payload and two threads. Correct means: the
  payload is the stream written, it is read in the same pieces, and nothing is used after it was
  freed.
* The listening services cut streams into lines. Correct means: every line once, whole and in
  order, whatever pieces it came in, and no connection outlives `quit`.
* Serialisation numbers tables, remembers where their tags are and counts depths on both
  sides. Correct means: the receiver's tables are a copy of the sender's graph, with the
  same cycles and shared tables.

`PROJECT.json` lists the hazards line by line and the properties that cover them.

## Modules

| Module | What it is |
| --- | --- |
| `Mailbox` | what an inbox promises: a bounded FIFO in which every operation is one step |
| `Queue` | `queue.c`, one step per access to shared memory, any number of writers |
| `Delivery` | `service_send`, the async handle, `service_recv` and the drain loop, extending `Queue`: the same variables, the ring's steps in the order these functions call them |
| `Session` | the session layer of any number of services, over inboxes that take a message and its signal in one step |
| `Rpc` | what `service.send` and `service.call` promise, which `Session` implements |
| `Pool` | `service_new` and lookups by several threads |
| `Registry` | the variables of the pool, extending `Pool`: the same threads and the same lock |
| `Payload` | the blocks below `lua-seri.c`, and who owns a payload and its `message_t` |
| `Clients` | the gateway and remote services, their TCP clients and their inboxes |
| `Seri` | `lua-seri.c`: a graph of tables written as a stream and read back |
| `QueueProofs`, `DeliveryProofs`, `SessionProofs`, `PayloadProofs`, `ClientsProofs`, `SeriProofs` | the theorems about the module of that name |
| `RegistryProofs` | the theorems about `Pool` and `Registry` together |
| `SeriGraphProofs` | the theorem that the receiver gets the sender's graph, extending `SeriProofs` |
| `MC...` | values for the constants |

**Queue.** `head`, `tail` and `data` are the fields of `struct queue`. `wpc`, `wval`,
`wtail` and `result` are a writer's place in `queue_push_ptr`, its locals and what it
returned; `rpc`, `rhead`, `rval` and `taken` are the reader's in `queue_pop_ptr`, `rtail`
and `len` in `queue_length`. The actions follow the code: `PushLoadTail`, then `PushFull`
or `PushRoom` (the load of `head`), `PushWrite`, `PushAssert`, `PushStore`, `PushReturn`,
and so on for pop and length. `atomic_load` and `atomic_store` are sequentially
consistent, so interleaving is the right model for `head` and `tail`; `data` is plain
memory, and `NoSlotRace` states that it is never accessed by two threads at once.
A failed assert sets `aborted` and nothing happens after it (the Makefile
does not define `NDEBUG`). C does not fix the order of the two loads in `queue_length`;
only the reader stores `head`, so both orders give the same results.

**Delivery.** The variables of `Queue` plus `loop` (where the service's thread is) and
`pending` (the async handle is signalled). libuv's part is modelled from how it is
used: `uv_async_send` sets `pending`, the loop clears it before it calls
`service_async_cb`. `service_recv` is `RecvLength`, `RecvMeasured`, `RecvPop`, then
`Handle` or `Nothing` (which leads to the second pop, since `blocking` is always true, or ends the drain loop). The
handler is one step here; `Session` opens it. `accepted` and `handled` record history.

**Session.** One function per Lua table or variable, indexed by service or by coroutine.
Requests are numbered as they are sent, and a coroutine has the number of its request; the
numbers only serve the properties. What a handler does is any finite sequence of the
operations, so every program the handlers can be is covered. `service.call` is two steps,
`CallSend` and `CallSuspend`, because the callee runs in between. A push and its signal
are one step, which `Delivery` justifies with one sender: with several the ring buffer
itself fails (see the findings), and `Session` is about a ring that does what its header
promises. `service_stop` closes the async handle and the timers; its nested `uv_run`
returns at once, because `uv_stop` comes before it, and the coroutine goes on. After a
quit the drain loop stops the service once more, which closes timers opened since.

`Rpc` knows no inboxes, sessions or coroutines, only how far each request has come (`handling`) and
which answer its handler waits for (`waits`). `Handling` in `Session` reads that off the coroutine, the
inboxes and what was lost.

**Pool.** `sid`, `name` and `built` are fields of the service; `built` stands for `q` and
`async_handler`. `pool->id ++` is a load and a store. Lookups read without the lock, one
index per step. Names are plain values; those of fewer than two characters are dropped,
as in the code; truncation at 31 characters is left out.

**Registry.** `registry_put` is two steps, the search and the addition, so that what the lock
prevents is in the model when the lock fails. A get is one step under the lock. The hash table is the
set `variables` of its entries. `answers` records what calls returned: a get what it found, a put the
caller's own pointer, also when an older one stays.

**Payload.** `chain` is the list of blocks and `ptr`, `len` the fields of `struct write_block`; an address
is the number of a block and an offset. `PushFull`, `PushFits` and `PushSplit` are the branches of
`wb_push`, `PushSplit` with its jump back. What is pushed is left open: any sequence of chunks, with
tags whose addresses are kept and which `change_mark` may change any time later, so that every value
stream of `Seri` is among them. `heap` holds what `malloc` gave and `free` has not taken back. After
`seri` the payload goes to `compose_message`, which may raise an error or find the inbox full, then to
the receiver, which unpacks or removes it, and `rb_read` reads it in the widths of the pushes.

**Clients.** Two services on two threads, with one connection per client; Lua runs a callback to
its end, so a read callback (`Read`, `NextLine`, `LastLine`) and a drain loop (`Wake`, `Execute`, `Drained`) of
one service never overlap, but those of the two services do. A letter stands for a word or a whole
request. `getpeername` returns a new table each time: `client_list` is keyed by a counter of them.
luv and the network are external: a connection is a stream and then an end or an error, and an
error raised in a callback ends the process (`running`), be it at the start of a connection, at its end or
in between. The properties of `Clients` are about a process that runs: none of them says that it does not end so.

**Seri.** The recursion of `pack_one` and `unpack_one` is an explicit stack: `todo` and `path`
for the writer (`path` is `ancestor[]`, its length `s->depth`), `frames` for the reader. `r`, `idOf` and
`addressOf` are the C array of references and the two Lua tables that replace it. The reader keeps
the Lua stack itself (`lstack`), because its `ancestor[]` holds stack indices: what is in a slot may
have changed. An atom is one element of the stream; a table's tag and a reference have a cookie and,
if it is `EXTEND_NUMBER`, an integer after it. The list of blocks the writer fills is one sequence
(`wb_address` makes room for the tag before it takes the address, so that the address is the tag's);
`Payload` opens it.
`RoundTrip` says what the receiver gets, and where that is less than what was sent: `unpack_ref`
refuses the table it should return, so no run gets a shared table back; pairs with keys like 1.5 are
skipped when their integer part is an index of the array part (`LostKeys`); and a table used as a key
is read at the depth of its owner and takes the owner's slot in `ancestor[]`, so that `t[{}] = t`
comes back with the key as its own value (`TableKeys` excludes it).

## Runs

| Run | Checks | Bounds |
| --- | --- | --- |
| `queue_one_writer` | no failed assert, no slot race, safe length, the inductive invariant, implements `Mailbox`, a successful push is queued | one writer, two messages, 4 slots: the ring wraps, fills and empties in every position |
| `queue_two_writers_loss` | finding: two successful pushes, one message | two writers, 4 slots |
| `delivery` | no lost wakeup, order, accounting, `AcceptedIsHandled` | one sender, 4 slots, 7 messages: more than twice what the ring holds |
| `session_calls` | every call returns when nothing fails; implements `Rpc` | three services, four requests: a circle over all three, self-calls, nested calls |
| `session_faults` | the invariants of the session tables, implements `Rpc`, sleepers wake, quit ends the thread | two services, three requests, one sleep per coroutine, inboxes of one message, so that requests and responses are refused; load failures, errors and quits anywhere |
| `session_error_reply` | finding: the caller of a failed handler waits for ever | two services, two requests, errors only |
| `pool` | unique ids, lookups; what is found is complete or being completed; one value per variable | two threads, two names (one too short), `MAX_SERVICES` 1, 3 calls of `service_new`: one is refused, and a lookup runs off the end; one variable and two values, threads and values symmetric |
| `seri` | the writer's bookkeeping, cookies, the round trip, what may be refused | all graphs of three tables with at most two fields each, reached from one or two arguments, and of two tables with holes, keys 0 and 1.5, table keys, `__pairs`, values that cannot be packed; two ancestors, two references in the array, three cookies, so that every limit is passed |
| `seri_shared` | finding: a table that occurs twice is refused | the graphs of three tables; three ancestors, as many as tables, so that no limit plays a part |
| `pool_assert` | finding: a created service fails the assert on its id | as `pool` |
| `payload` | chain, addresses, payload, reading, ownership | blocks of 3 bytes, up to 8 bytes in 5 pushes that are empty, shorter than a block, as long and longer than two; any number of tags |
| `clients` | lines whole and in order, commands executed in order, handed over, quit | two clients, seven pairs of inputs: empty lines, carriage returns, unfinished lines, `quit` in the middle and with arguments; inboxes of two, so that commands are refused; one `quit` from another service |

Deadlock is not checked where the bounds, or the system, let everything come to rest:
all messages sent and handled, all threads ended, the stream read, every client served. The one-writer ring never rests, and
its run checks deadlock.

**Fairness.** Threads are scheduled: a thread inside `service_send`, and a service's thread
that has something to do, eventually takes a step (weak fairness per thread). Nobody is
obliged to send, call, quit, connect or disconnect, and between timers and messages the loop may choose in any
order. Handlers make finitely many steps because `MaxRequests` and `MaxNaps` bound them;
liveness is about handlers that end.

**Findings.** Four runs show the code doing what its own comments, asserts and notes exclude:
two senders break the single-writer ring (a message that was reported as sent is lost; with
`NoAbort` as the invariant of the same configuration TLC finds the process abort instead); an error in
a handler leaves its caller suspended; the 33rd service can be created but not addressed; a message
in which a table occurs twice is refused by the receiver. The last is stated for graphs without cycles and
without tables as keys (`SharedTablesAreRead`), and TLC's example is the smallest there is: one empty table, given
twice to `pack`.

**Observations without a run**, because no document states the opposite or an action shows them directly:

* The first request a gateway client sends ends the process: `handle_message` gives the client,
  a userdata, to `service.send`, and packing it raises an error in the read callback. So do JSON
  texts that are no object, and the end of a connection that was reset (`client_list[nil]`).
  `request_handler` is never reached.
* `client_list` only grows: `close_client` looks up a table that was just made.
* The `message_t` of every message is never freed, nor the payload of a message the inbox refused or
  that had an invalid receiver, nor the blocks of a writer stopped by a function or by a `__pairs` metamethod that fails
  (`HeapIsInUse` names all of it).
* A caller of `service_pool_registry` that puts a key a second time is told its own pointer while the
  first one stays.
* A lookup by one thread finds a service that another has named but not given its inbox yet. A message
  sent to it then would be pushed through `q`, which is still NULL. `FoundIsFinished` says what
  holds all the same: the service is being completed by that thread and will be returned.
* Pairs with a key like 1.5 are not sent when its integer part is an index of the array part (`LostKeys`);
  CODEX-LUA_SERI.md:54 has the remaining pairs encoded behind the array part.
* A lookup that finds nothing gives id 0, which is the root service; once more ids were drawn than
  there are slots it reads behind the array (`LookupBeyond`).
* A service that is always sent to never leaves its drain loop, and its timers wait.
* After 2^32 calls of one service a response no longer finds its coroutine.

## Proofs

`QueueProofs` proves, for every size that is a power of two and every set of messages:

* `TypeCorrect`: the variables keep their types, with any number of writers.
* Under `SingleWriter`: `InvHolds`, `AssertsHold`, `SlotsDoNotRace`, `LengthIsNeverTooLong`.
  `NoAbort` alone is not inductive: that the assert before the store passes depends on the tail
  having stayed what the writer loaded. `Inv` says so for both threads (`WriterInv`,
  `ReaderInv`): the loaded position is still the current one, a writer past its check still has
  a free slot, a reader past its check still has a message, the slot written holds the value.
* `MessagesInside`: every slot from `head` to `tail` holds a message (`HoldsMessages`), so that NULL
  from a pop means that the ring was empty; `SuccessIsTruthful`: a push that returns 0 has added its
  message, which is what two writers break (see the findings).
* `RingImplementsMailbox`: the refinement, with `Contents`, the slots from `head` to `tail`, as
  the mailbox. The store of `tail` is the append (`StoreAppends`), the store of `head` is the take
  (`StoreTakes`), the load of `head` or `tail` that finds the ring full or empty is the refusal,
  and the write of a slot changes no message in the ring (`WriteKeepsContents`).

`DeliveryProofs` proves for every number of messages and every ring size:

* `DeliveryUsesQueue`: every step of `Delivery` is a step of `Queue` or leaves the ring alone, so that
  all of the above holds in it.
* With one writer, `WakeupsAreNotLost` and `FirstPopsSucceed`. `NoLostWakeup` alone is not inductive:
  that a push after the signal was consumed cannot slip past the drain loop depends on where the
  service's thread is inside `service_recv`. `LoopInv` says so: between `queue_length` and the pop there
  is a message, a first pop that is done has one, and outside the loop the thread is in no queue
  operation. With the ring's invariant (`RingInv`), a writer's step only adds messages
  (`WriterStep`), and a pop returns NULL only from an empty ring (`PopStep`).
* With one writer, `MessagesStayInOrder` and `NoMessageIsLost`. `HandledInOrder` speaks only of what was
  handled. `OrderInv` follows a message: what was handled is before what the service's
  thread has in hand, that is before what is in the ring (in increasing order), and that before the
  message the writer is pushing.

`RegistryProofs` proves, for every number of threads, services, names and variables, about `RegistrySpec`, in which
the same threads create services, look them up and use the registry: `ServicesAreListed`, `LookupsAreRight`,
`FoundAreFinished`, `GetsAgree`. The invariant `RegistryInv` has the lock at its centre (`LockInv`: it has
a holder exactly while one thread is in a guarded section). With it the id a thread drew is still its own when it
lists the service (`Drawn`), so that nothing is overwritten and everything that has a name is at its place
(`ListInv`); a lookup has not passed a service that had the name when it began (`Looking`); what has a name
was returned or is in the hands of a thread past the place where `service_new` can refuse it (`ReadyInv`), so that what a lookup
finds, which has a name, is too; and what
`registry_put` did not find is still absent when it adds it (`VariablesInv`).

`SessionProofs` proves, for every number of services and requests, inboxes of any size, and any failures,
the invariants of the session tables (`OneCoroutineRuns`, `ResponsesFindTheirCallers`, `RegistrationsMatchCalls`,
`WaitsHaveCauses`, `TablesFollowCoroutines`) and the refinement `SessionImplementsRpc`. None of the
invariants is inductive without the others: a response resumes the right coroutine because the session in it is
one that the coroutine was, or is about to be, registered for (`CallInv`); that holds of the response because it held of the
request, which may arrive before `CallSuspend` registers the caller (the second case of `Awaits`); and nothing
else in an inbox answers the same request (`NoTwice`, `MailInv`, `AwaitInv`). Inboxes are taken as sets of
messages (`Mail`), since order in them matters to none of this. The refinement maps a request to how far it
has come (`Handling`), and `IsLost` is what makes the steps that refuse a message steps of `Rpc`.

`PayloadProofs` proves, for blocks of any size and any pushes: `BlocksHoldTheStream`, `AddressesStay`,
`PiecesComeBack`, `HeapStaysInUse`. `StreamInv` gives each byte of the stream its block and offset (`At`), and says that
`rest` is the part still to be copied, so that `PushSplit` can stop anywhere; `TagsInv` lets an address be
ahead of the stream for the one tag that is pending. That the widths of the pushes add up to the payload's length is a
sum over a sequence, which the prover cannot unfold: `ReadInv` states that there *is* a function of
partial sums (`Sums`) and a push extends it by one.

`ClientsProofs` proves, for any number of clients of either service and any bytes in any pieces: `LinesComeWhole` and
`CommandsStayInOrder`. `Framed` gives a client's position in the bytes it sent: what is before it are whole lines, which
were handed over, and the buffer and the bytes on their way follow it. The proof's core is `OneMoreLine`: behind
a text of whole lines, the bytes up to the next line feed are one more line of the text, and the earlier ones stay what they
were (`LineKept`, `EndAdded`). `ReadingInv` says that only the connection whose read callback runs has a whole line in its
buffer; without it a piece could be appended to a line nobody looks at. For the commands `Ordered` counts
those that wait with those executed (`Taken`), so that `Execute` changes nothing (`HeadMoves`), and the number
of a new line is above all others (`OrderedWith`).

`SeriProofs` proves, for graphs with any number of tables of any contents and any limits: `AddressesAreUnmarkedTags` (the
assert of `change_mark`), `EveryTableHasOneNumber` and `CookiesAlwaysFit`. The array of references and the two Lua
tables that replace it are one thing to the rest of the proof: `NumbersOf` and `Address` read whichever is used, `Marks` and
`Forgets` are what may happen to them, and the step that moves the array into the tables changes neither
(`TablesGrow`). `SeriInv` adds that numbers and tables are in one-to-one correspondence (`NumbersInv`) and that two
numbers never share an address that is still of use (`AddressInv`): otherwise changing one tag would make another
address wrong.
`OnlyNumbersRefused` is about the reader: when no tables are keys, it refuses no reference to an ancestor and never runs out of the
stream inside a table. The proof gives every place of the stream a meaning that does not depend on
who looks at it: for each table that is open there, the number of values before its next key (`Parse`). Each element changes
the one on top (`Parsed`), and each is acceptable where it stands (`Readable`: no tag and no reference is a key, and an
ancestor is one that is open). The writer keeps it because a table's tag announces the array part that its items begin with,
the rest being pairs (`ItemsMatch`), so that what is left of every list fits its number (`WriterAt`); changing a
tag to a marked one changes no meaning (`ParseMarked`). The reader's frames are those numbers (`Offs`, `ReaderAt`), so
that a nil read as a key is the end of the table and nothing else, and the depth it compares cookies with is the writer's.

`SeriGraphProofs` proves the round trip, `GraphIsReceived`, for the same graphs, limits and arguments: when no tables
are keys and `seri_unpack` returns, the copies are those of the tables written, each with its keys and values, and
references lead to the copies of the tables they led to. `Parse` tells how many values a place has before its next
key, not which. The proof gives every stream a *story* (`Story(L, T, N, s)`): for every place in it the table whose
item comes there, which item it is and how many tables were begun before (`L`), and for every number of a table which
table that is, its items, and the tables it is in (`T`, with `chain`). `ElementOK` says of each element what it may be
at its place: an atom that is the item itself, a reference to the table that the item is, the tag of a table not begun
yet, or the nil behind the last item.

* The writer tells the story (`WriterTells`, in `SeriProofs`): its lists are what is left of the items of the tables
  on `path` (`WriterIn`), the tables of the story are its own by their numbers (`Told`), and a tag is unmarked exactly
  as long as its address is remembered (`AddressesOf`), so that every table that is referred to by number was marked
  in time. One more element makes the story longer (`StoryAppended`); a tag that is marked leaves it as it is
  (`GoesOn`).
* The reader follows it (`ReaderTold`): it is at a place of the story, each of its frames is that of one table of the
  chain, with the number of items that came (`Level`), each copy holds the items so far under their keys (`Holds`),
  the tables no longer open are complete (`Ended`), and `ancestor[]` holds where the copies of the open tables are on
  the Lua stack.
* A table's items are the array part and the pairs `wb_table_hash` does not skip (`Kept`, defined by recursion, whose
  steps `KeptSteps` states). No two of their keys are equal (`Proper`), or a later value would replace an earlier one;
  this is what `Contents` says of Lua tables. A copy that holds all items of its table has its keys and values, but
  for `LostKeys`.
* `StoryInv` puts the phases together: the writer tells, the reader follows, and at the end `Received` holds.

**How the proofs were found.** Each inductive invariant was first an invariant of the component's run. Induction is out of the prover's
reach where a theorem of the library takes an operator; the lemma `Least` derives from well-foundedness that a set of
numbers has a least one (and `Greatest`, that a bounded one has a greatest), and the proofs use it for the
first line feed of a buffer, for the last before a place, and for functions defined by recursion (`Kept`).

**Assumptions.** Those on the constants are in the modules: the ring's size is a power of two, NULL is no
message and no pointer, letters and marks differ, `Starts`, `Heaps` and `Chunks` are well typed, there are
at least two cookies (the code has 32), and no more ancestors are kept than there are cookies below the escape
code (31 of each). Of Lua tables `Contents` says what the language promises: no key is nil, none comes twice, in
the array part and the hash part together, and what the hash part lists has a value. Two hypotheses are not of that
kind and are named in the theorems:

* `SingleWriter`: the ring is written for one writer, says `queue.h`. With two its properties fail, which
  `queue_two_writers_loss` shows.
* `NoWrap` (`MaxRequests < SessionMod`): fewer requests are sent than a session number has values, 2^32. After
  that a session comes twice.

**Only model-checked:**

* Liveness (`AcceptedIsHandled`, `CallsReturn`, `SleepersWake`, `QuitEndsTheThread`, `EveryLineIsHandedOver`,
  `AcceptedIsExecuted`, `QuitClosesConnections`): fairness is beyond the prover.

Every invariant and every action property of a passing run, and both refinements, are theorems.

## Not modelled

* The contents of strings and numbers and their bytes in a message, log output, reading of source
  files, `dlopen` of luv (`loadluv.h`), JSON: I/O and formats without state the properties could be about.
* `uthash.h` is vendored and used as a map; `log.c` is a copy of a public library; `socket.h` and `cond.h`
  are included by nobody.
* The handlers of `root.lua`, `user.lua` and `echo.lua`: they are among the programs `Session` allows, and
  the boot scenario of `demo.lua` is one of its behaviours.
* `service_free`, `message_delete`, `registry_del`, `queue_delete`, the int variants of the ring,
  `seri_packstring` and `seri_unpackstr` have no caller.
* `service.on_idle`, `service.call` outside a coroutine, and raw use of `_send_message`: no service
  of the repository uses them.
* More than 2^32 calls of one service: `Session` reduces sessions modulo `SessionMod`, and the
  runs keep below it.

## Plan

Every safety property the runs check is proved. What would extend the project:

* tables as keys, which `RoundTrip` and `OnlyNumbersAreRefused` exclude: a theorem would say what the receiver
  gets in that case, and `Seri` shows that it is not the sender's graph;
* several senders of one inbox in `Delivery`, where the ring's properties fail (`queue_two_writers_loss`): worth
  modelling once the ring has a lock;
* the rare states listed under the hazards without a property: a lookup that finds nothing, sessions beyond 2^32.

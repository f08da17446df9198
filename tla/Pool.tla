-------------------------------- MODULE Pool ---------------------------------
(***************************************************************************)
(* The pool of services: service_new, service_pool_lookup_service and      *)
(* service_pool_get_service of src/src/service.c, called by several        *)
(* threads at once.                                                        *)
(*                                                                         *)
(* service_new takes the pool's lock to draw an id and to list the new     *)
(* service, releases it, and only then fills the service in: its name, its *)
(* inbox, its async handle.  Lookups walk the list without the lock.  The  *)
(* model keeps every step one thread makes and another can see.            *)
(***************************************************************************)
EXTENDS Integers

CONSTANTS
  Threads,       \* threads that create and look up services
  Names,         \* names a service may be given
  Short,         \* the names of fewer than two characters
  Unnamed,       \* the empty name of a service that was given none
  MAX_SERVICES,  \* the array holds MAX_SERVICES + 1
  MaxNews        \* bound: service_new calls in a behaviour

ASSUME BoundsAssumption ==
  /\ MAX_SERVICES \in Nat
  /\ MaxNews \in Nat
ASSUME NamesAssumption == Short \subseteq Names /\ Unnamed \notin Names

\* A service is known by the number of the service_new call that made it.
Objects == 1..MaxNews
NULL == 0

VARIABLES
  id,        \* pool->id: next id to assign
  services,  \* pool->services
  lock,      \* pool->lock: {}, or the thread that holds it
  news,      \* number of service_new calls begun
  sid,       \* s -> s->id
  name,      \* s -> s->name
  built,     \* s -> "bare", "queued" (s->q is set), "ready" (s->async_handler is)
  returned,  \* services that service_new has returned
  pc,        \* t -> where the thread is
  arg,       \* t -> the name given to service_new
  cur,       \* t -> the service it creates
  wanted,    \* t -> the name it looks up
  i,         \* t -> the index of its lookup
  found,     \* t -> what its last lookup returned
  before     \* t -> the services of that name when the lookup began (not code)

object == <<sid, name, built>>
lookup == <<wanted, i, found, before>>
vars == <<id, services, lock, news, sid, name, built, returned, pc, arg, cur,
          wanted, i, found, before>>

\* pool->services has one slot more than there may be services.
Slots == 0..MAX_SERVICES

Init ==
  /\ id = 0
  /\ services = [n \in Slots |-> NULL]
  /\ lock = {}
  /\ news = 0
  /\ sid = [s \in Objects |-> 0]
  /\ name = [s \in Objects |-> Unnamed]
  /\ built = [s \in Objects |-> "bare"]
  /\ returned = {}
  /\ pc = [t \in Threads |-> "idle"]
  /\ arg = [t \in Threads |-> Unnamed]
  /\ cur = [t \in Threads |-> NULL]
  /\ wanted = [t \in Threads |-> Unnamed]
  /\ i = [t \in Threads |-> 0]
  /\ found = [t \in Threads |-> NULL]
  /\ before = [t \in Threads |-> {}]

Goes(t, from, to) ==
  /\ pc[t] = from
  /\ pc' = [pc EXCEPT ![t] = to]

------------------------------------------------------------------------------
(* service_new(pool, name, ...), called by thread t.                        *)

InNew(t) == pc[t] \notin {"idle", "lookup", "faulted"}

\* A new service, all zero.
NewAlloc(t, n) ==
  /\ Goes(t, "idle", "lock")
  /\ news < MaxNews
  /\ news' = news + 1
  /\ cur' = [cur EXCEPT ![t] = news + 1]
  /\ arg' = [arg EXCEPT ![t] = n]
  /\ UNCHANGED <<id, services, lock, object, returned, lookup>>

\* Mutant: the lock is not taken.
LockIsFree_always == TRUE

LockIsFree == lock = {}

\* pthread_mutex_lock, then the load of pool->id++.
NewDraw(t) ==
  /\ Goes(t, "lock", "advance")
  /\ LockIsFree
  /\ lock' = {t}
  /\ sid' = [sid EXCEPT ![cur[t]] = id]
  /\ UNCHANGED <<id, services, news, name, built, returned, arg, cur, lookup>>

\* The store of pool->id++.
NewAdvance(t) ==
  /\ Goes(t, "advance", "list")
  /\ id' = sid[cur[t]] + 1
  /\ UNCHANGED <<services, lock, news, object, returned, arg, cur, lookup>>

\* The service is listed and the lock released.
NewList(t) ==
  /\ Goes(t, "list", "name")
  /\ sid[cur[t]] <= MAX_SERVICES
  /\ services' = [services EXCEPT ![sid[cur[t]]] = cur[t]]
  /\ lock' = {}
  /\ UNCHANGED <<id, news, object, returned, arg, cur, lookup>>

\* Too many services: the lock is released and service_new returns NULL.
NewRefuse(t) ==
  /\ Goes(t, "list", "idle")
  /\ sid[cur[t]] > MAX_SERVICES
  /\ lock' = {}
  /\ UNCHANGED <<id, services, news, object, returned, arg, cur, lookup>>

\* A name of fewer than two characters is dropped.
Stored(n) == IF n \in Short THEN Unnamed ELSE n

NewName(t) ==
  /\ Goes(t, "name", "queue")
  /\ name' = [name EXCEPT ![cur[t]] = Stored(arg[t])]
  /\ UNCHANGED <<id, services, lock, news, sid, built, returned, arg, cur, lookup>>

\* Mutant: without memory for the inbox the service is freed, but stays listed.
NewQueue_freed(t) ==
  /\ \/ Goes(t, "queue", "async") /\ built' = [built EXCEPT ![cur[t]] = "queued"]
     \/ Goes(t, "queue", "idle") /\ UNCHANGED built
  /\ UNCHANGED <<id, services, lock, news, sid, name, returned, arg, cur, lookup>>

\* The inbox.
NewQueue(t) ==
  /\ Goes(t, "queue", "async")
  /\ built' = [built EXCEPT ![cur[t]] = "queued"]
  /\ UNCHANGED <<id, services, lock, news, sid, name, returned, arg, cur, lookup>>

\* The loop and the async handle; service_new returns the service.
NewReturn(t) ==
  /\ Goes(t, "async", "idle")
  /\ built' = [built EXCEPT ![cur[t]] = "ready"]
  /\ returned' = returned \cup {cur[t]}
  /\ UNCHANGED <<id, services, lock, news, sid, name, arg, cur, lookup>>

New(t) ==
  \/ \E n \in Names \cup {Unnamed} : NewAlloc(t, n)
  \/ NewDraw(t)
  \/ NewAdvance(t)
  \/ NewList(t)
  \/ NewRefuse(t)
  \/ NewName(t)
  \/ NewQueue(t)
  \/ NewReturn(t)

------------------------------------------------------------------------------
(* service_pool_lookup_service(pool, name), called by thread t.             *)

\* Mutant: the root service's index is skipped.
FirstIndex_one == 1

FirstIndex == 0

LookupStart(t, n) ==
  /\ Goes(t, "idle", "lookup")
  /\ wanted' = [wanted EXCEPT ![t] = n]
  /\ i' = [i EXCEPT ![t] = FirstIndex]
  /\ found' = [found EXCEPT ![t] = NULL]
  /\ before' = [before EXCEPT ![t] = {s \in Objects : name[s] = n}]
  /\ UNCHANGED <<id, services, lock, news, object, returned, arg, cur>>

\* Service number i, if it is listed, has the name.
Matches(t) ==
  LET s == services[i[t]] IN s # NULL /\ name[s] = wanted[t]

\* pool->id is read afresh for every index.
LookupHit(t) ==
  /\ Goes(t, "lookup", "idle")
  /\ i[t] < id
  /\ i[t] \in Slots
  /\ Matches(t)
  /\ found' = [found EXCEPT ![t] = services[i[t]]]
  /\ UNCHANGED <<id, services, lock, news, object, returned, arg, cur, wanted, i,
                 before>>

LookupSkip(t) ==
  /\ Goes(t, "lookup", "lookup")
  /\ i[t] < id
  /\ i[t] \in Slots
  /\ ~Matches(t)
  /\ i' = [i EXCEPT ![t] = @ + 1]
  /\ UNCHANGED <<id, services, lock, news, object, returned, arg, cur, wanted,
                 found, before>>

LookupMiss(t) ==
  /\ Goes(t, "lookup", "idle")
  /\ i[t] >= id
  /\ UNCHANGED <<id, services, lock, news, object, returned, arg, cur, lookup>>

\* More ids were drawn than the array holds: what follows it is read as a
\* pointer to a service, which faults.
LookupBeyond(t) ==
  /\ Goes(t, "lookup", "faulted")
  /\ i[t] < id
  /\ i[t] \notin Slots
  /\ UNCHANGED <<id, services, lock, news, object, returned, arg, cur, lookup>>

Lookup(t) ==
  \/ \E n \in Names : LookupStart(t, n)
  \/ LookupHit(t)
  \/ LookupSkip(t)
  \/ LookupMiss(t)
  \/ LookupBeyond(t)

------------------------------------------------------------------------------

Next == \E t \in Threads : New(t) \/ Lookup(t)

Spec == Init /\ [][Next]_vars

------------------------------------------------------------------------------
(* Properties.                                                              *)

\* The variables have the types of the C declarations.
TypeOK ==
  /\ id \in Nat
  /\ services \in [Slots -> Objects \cup {NULL}]
  /\ lock \in {{}} \cup {{t} : t \in Threads}
  /\ news \in 0..MaxNews
  /\ sid \in [Objects -> Nat]
  /\ name \in [Objects -> Names \cup {Unnamed}]
  /\ built \in [Objects -> {"bare", "queued", "ready"}]
  /\ returned \subseteq Objects
  /\ pc \in [Threads -> {"idle", "lock", "advance", "list", "name", "queue",
                         "async", "lookup", "faulted"}]
  /\ arg \in [Threads -> Names \cup {Unnamed}]
  /\ cur \in [Threads -> Objects \cup {NULL}]
  /\ wanted \in [Threads -> Names \cup {Unnamed}]
  /\ i \in [Threads -> Nat]
  /\ found \in [Threads -> Objects \cup {NULL}]
  /\ before \in [Threads -> SUBSET Objects]

\* However service_new calls overlap, every service they return is listed under
\* its id, so that no two share one and a message goes to the service meant.
ListedUnderItsId ==
  \A s \in returned : sid[s] \in Slots /\ services[sid[s]] = s

\* A lookup that has ended has found a service of that name if there was one
\* when it began, and one with an id no higher than theirs.  What it found has
\* the name it was asked for.
LookupIsRight ==
  \A t \in Threads : pc[t] = "idle" =>
    /\ found[t] # NULL => name[found[t]] = wanted[t]
    /\ \A s \in before[t] : found[t] # NULL /\ sid[found[t]] <= sid[s]

\* A lookup may find a service that is half built, since it is listed and named
\* before it has its inbox and its async handle.  But then another thread is about
\* to give it these and to return it: what was found is never a service that was
\* refused and freed, or one that nobody finishes.
FoundIsFinished ==
  \A t \in Threads : found[t] # NULL =>
    \/ found[t] \in returned /\ built[found[t]] = "ready"
    \/ \E u \in Threads \ {t} : cur[u] = found[t] /\ pc[u] \in {"queue", "async"}

\* service_pool_get_service asserts id < MAX_SERVICES: the id of a service that
\* service_new returned passes.
IdPassesTheAssert == \A s \in returned : sid[s] < MAX_SERVICES
==============================================================================

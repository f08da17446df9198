---------------------------- MODULE RegistryProofs -----------------------------
(***************************************************************************)
(* Proofs about the pool and its variables, for any number of threads,     *)
(* services, names and variables.  They are about RegistrySpec: threads    *)
(* that create services, look them up and use the registry at once.        *)
(***************************************************************************)
EXTENDS Registry, TLAPS

------------------------------------------------------------------------------
(* The inductive invariant.                                                 *)

\* What the registry's variables hold, and what a thread in it or in service_new
\* was given.
VariablesTypeOK ==
  /\ variables \subseteq [key : Keys, ptr : Pointers]
  /\ at \in [Threads -> {"none", "put", "add", "get"}]
  /\ key \in [Threads -> Keys \cup {AKey}]
  /\ ptr \in [Threads -> Pointers \cup {NULL}]
  /\ p \in [Threads -> Pointers \cup {NULL}]
  /\ \A t \in Threads : at[t] \in {"put", "add"} => ptr[t] # NULL
  /\ \A t \in Threads : at[t] # "none" => key[t] \in Keys

CurTypeOK == \A t \in Threads : InNew(t) => cur[t] \in Objects

RegistryTypeOK == TypeOK /\ VariablesTypeOK /\ CurTypeOK

\* A thread in the registry is not in service_new or a lookup, and the lock has
\* its holder in one of the sections it guards.
LockInv ==
  /\ \A t \in Threads : at[t] # "none" => pc[t] = "idle"
  /\ \A t \in Threads :
       (pc[t] \in {"advance", "list"} \/ at[t] = "add") <=> lock = {t}

\* The service is in the list, at the place its id says.
IsListed(s) ==
  /\ sid[s] \in Slots
  /\ services[sid[s]] = s
  /\ sid[s] < id

Unlisted(s) == \A n \in Slots : services[n] # s

\* Before it is listed a service has no name and no other thread knows it.
BeforeList(t) == pc[t] \in {"lock", "advance", "list"}

\* What a thread in service_new knows of the service it makes ...
Making(t) == InNew(t) =>
  /\ cur[t] \in 1..news
  /\ cur[t] \notin returned
  /\ BeforeList(t) => Unlisted(cur[t])
  /\ BeforeList(t) \/ pc[t] = "name" => name[cur[t]] = Unnamed
  /\ ~BeforeList(t) => IsListed(cur[t])

\* ... and of the id that it drew, while it has the lock.
Drawn(t) ==
  /\ pc[t] = "advance" => sid[cur[t]] = id
  /\ pc[t] = "list" => sid[cur[t]] + 1 = id
  /\ pc[t] = "list" /\ sid[cur[t]] \in Slots => services[sid[cur[t]]] = NULL

NewInv ==
  /\ \A t \in Threads : Making(t) /\ Drawn(t)
  /\ \A t, u \in Threads : InNew(t) /\ InNew(u) /\ cur[t] = cur[u] => t = u

\* What is listed is at its place, and what has a name or was returned is listed.
ListInv ==
  /\ \A n \in Slots : n >= id => services[n] = NULL
  /\ \A n \in Slots :
       services[n] # NULL => sid[services[n]] = n /\ services[n] <= news
  /\ \A s \in Objects : name[s] # Unnamed \/ s \in returned => IsListed(s)
  /\ \A s \in Objects : s > news => Unlisted(s)

\* A lookup under way has passed no service that had the name when it began; one
\* that has ended has found the right one.
Looking(t) ==
  /\ \A s \in before[t] : wanted[t] \in Names /\ name[s] = wanted[t]
  /\ found[t] # NULL => wanted[t] \in Names /\ name[found[t]] = wanted[t]
  /\ pc[t] \in {"lookup", "faulted"} =>
       /\ wanted[t] \in Names
       /\ found[t] = NULL
       /\ \A s \in before[t] : i[t] <= sid[s]
  /\ pc[t] \notin {"lookup", "faulted"} =>
       \A s \in before[t] : found[t] # NULL /\ sid[found[t]] <= sid[s]

LookupInv == \A t \in Threads : Looking(t)

\* A service that t has named and has yet to fill in.
Finishing(t, s) == pc[t] \in {"queue", "async"} /\ cur[t] = s

\* What was returned is complete, what has a name is or is being finished, and no
\* thread has found the service it is making.
ReadyInv ==
  /\ \A s \in returned : built[s] = "ready"
  /\ \A s \in Objects :
       name[s] # Unnamed => s \in returned \/ \E t \in Threads : Finishing(t, s)
  /\ \A t \in Threads : InNew(t) => found[t] # cur[t]

\* The variable that registry_put searched for stays as it was found.
VariablesInv ==
  /\ AnswersAgree
  /\ \A t \in Threads : at[t] = "add" =>
       /\ p[t] = NULL => \A e \in variables : e.key # key[t]
       /\ p[t] # NULL => \E e \in variables : e.key = key[t]

RegistryInv ==
  /\ RegistryTypeOK
  /\ LockInv
  /\ NewInv
  /\ ListInv
  /\ LookupInv
  /\ ReadyInv
  /\ VariablesInv

------------------------------------------------------------------------------
(* The steps, as the lemmas below take them apart.                          *)

\* A thread in service_new or in a lookup, with the registry left alone.
PoolStep(t) ==
  /\ at[t] = "none"
  /\ New(t) \/ Lookup(t)
  /\ UNCHANGED registry

RegistryStep(t) ==
  \/ \E k \in Keys, x \in Pointers \cup {NULL} : Call(t, k, x)
  \/ PutFind(t)
  \/ PutAdd(t)
  \/ Get(t)

\* The steps are those of the pool and those of the registry.
LEMMA Steps ==
  ASSUME [RegistryNext]_allvars
  PROVE  \/ \E t \in Threads : PoolStep(t) \/ RegistryStep(t)
         \/ UNCHANGED allvars
BY DEF RegistryNext, PoolStep, RegistryStep

\* What a search of the map returns.
LEMMA SearchFinds ==
  ASSUME VariablesTypeOK, NEW k, NEW x \in registry_get(k)
  PROVE  /\ x \in Pointers \cup {NULL}
         /\ x # NULL => [key |-> k, ptr |-> x] \in variables
         /\ x = NULL => \A e \in variables : e.key # k
<1>1. Found(k) \subseteq Pointers
  BY DEF VariablesTypeOK, Found
<1>2. \A y \in Found(k) : [key |-> k, ptr |-> y] \in variables
  BY DEF VariablesTypeOK, Found
<1>3. \A e \in variables : e.key = k => Found(k) # {}
  BY DEF Found
<1>. QED
  BY <1>1, <1>2, <1>3, PointersAssumption DEF registry_get

\* The steps of service_new keep the types.
LEMMA NewTypes ==
  ASSUME TypeOK, CurTypeOK, NEW t \in Threads, New(t)
  PROVE  TypeOK' /\ CurTypeOK'
<1> USE DEF TypeOK, CurTypeOK, InNew, Goes, Objects, object, lookup
<1>1. ASSUME NEW n \in Names \cup {Unnamed}, NewAlloc(t, n)
      PROVE  TypeOK' /\ CurTypeOK'
  <2>1. news + 1 \in Objects
    BY <1>1, BoundsAssumption DEF NewAlloc
  <2>2. TypeOK'
    BY <1>1, <2>1 DEF NewAlloc
  <2>. QED
    BY <1>1, <2>1, <2>2 DEF NewAlloc
<1>2. CASE NewDraw(t)
  <2>1. cur[t] \in Objects
    BY <1>2 DEF NewDraw
  <2>. QED
    BY <1>2, <2>1 DEF NewDraw
<1>3. CASE NewAdvance(t)
  <2>1. cur[t] \in Objects
    BY <1>3 DEF NewAdvance
  <2>2. sid[cur[t]] + 1 \in Nat
    BY <2>1
  <2>. QED
    BY <1>3, <2>2 DEF NewAdvance
<1>4. CASE NewList(t)
  <2>1. cur[t] \in Objects
    BY <1>4 DEF NewList
  <2>. QED
    BY <1>4, <2>1 DEF NewList
<1>5. CASE NewRefuse(t)
  BY <1>5 DEF NewRefuse
<1>6. CASE NewName(t)
  <2>1. cur[t] \in Objects /\ Stored(arg[t]) \in Names \cup {Unnamed}
    BY <1>6 DEF NewName, Stored
  <2>. QED
    BY <1>6, <2>1 DEF NewName
<1>7. CASE NewQueue(t)
  BY <1>7 DEF NewQueue
<1>8. CASE NewReturn(t)
  <2>1. cur[t] \in Objects
    BY <1>8 DEF NewReturn
  <2>. QED
    BY <1>8, <2>1 DEF NewReturn
<1> HIDE DEF TypeOK, CurTypeOK
<1>. QED
  BY <1>1, <1>2, <1>3, <1>4, <1>5, <1>6, <1>7, <1>8 DEF New

\* So do the steps of a lookup.
LEMMA LookupTypes ==
  ASSUME TypeOK, CurTypeOK, NEW t \in Threads, Lookup(t)
  PROVE  TypeOK' /\ CurTypeOK'
<1> USE DEF TypeOK, CurTypeOK, InNew, Goes, Objects, object, lookup
<1>1. ASSUME NEW n \in Names, LookupStart(t, n)
      PROVE  TypeOK' /\ CurTypeOK'
  BY <1>1 DEF LookupStart, FirstIndex
<1>2. CASE LookupHit(t)
  BY <1>2 DEF LookupHit
<1>3. CASE LookupSkip(t)
  BY <1>3 DEF LookupSkip
<1>4. CASE LookupMiss(t)
  BY <1>4 DEF LookupMiss
<1>5. CASE LookupBeyond(t)
  BY <1>5 DEF LookupBeyond
<1> HIDE DEF TypeOK, CurTypeOK
<1>. QED
  BY <1>1, <1>2, <1>3, <1>4, <1>5 DEF Lookup

\* And those of the registry.
LEMMA RegistryTypes ==
  ASSUME RegistryTypeOK, NEW t \in Threads, RegistryStep(t)
  PROVE  RegistryTypeOK'
<1> USE DEF VariablesTypeOK, Return
<1>1. TypeOK' /\ CurTypeOK'
  <2>1. \/ UNCHANGED vars
        \/ UNCHANGED pool /\ lock' \in {{}, {t}}
    BY DEF RegistryStep, Call, PutFind, PutAdd, Get
  <2>. QED
    BY <2>1 DEF RegistryTypeOK, TypeOK, CurTypeOK, InNew, vars, pool, object, lookup
<1>2. ASSUME NEW k \in Keys, NEW x \in Pointers \cup {NULL}, Call(t, k, x)
      PROVE  VariablesTypeOK'
  BY <1>2 DEF RegistryTypeOK, Call
<1>3. ASSUME PutFind(t)
      PROVE  VariablesTypeOK'
  <2>1. PICK x \in Pointers \cup {NULL} : p' = [p EXCEPT ![t] = x]
    BY <1>3, SearchFinds DEF RegistryTypeOK, PutFind
  <2>. QED
    BY <1>3, <2>1 DEF RegistryTypeOK, PutFind
<1>4. ASSUME PutAdd(t) \/ Get(t)
      PROVE  VariablesTypeOK'
  <2>1. variables' \subseteq [key : Keys, ptr : Pointers]
    BY <1>4 DEF RegistryTypeOK, PutAdd, Put, Get
  <2>2. \E call, x : Return(t, call, x)
    BY <1>4 DEF PutAdd, Get
  <2>. QED
    BY <2>1, <2>2 DEF RegistryTypeOK
<1> HIDE DEF VariablesTypeOK
<1>. QED
  BY <1>1, <1>2, <1>3, <1>4 DEF RegistryTypeOK, RegistryStep

\* Every step keeps the types.
LEMMA TypesStep ==
  ASSUME RegistryTypeOK, [RegistryNext]_allvars
  PROVE  RegistryTypeOK'
<1>1. ASSUME NEW t \in Threads, PoolStep(t)
      PROVE  RegistryTypeOK'
  <2>1. TypeOK' /\ CurTypeOK'
    BY <1>1, NewTypes, LookupTypes DEF PoolStep, RegistryTypeOK
  <2>. QED
    BY <1>1, <2>1 DEF RegistryTypeOK, PoolStep, VariablesTypeOK, registry, locals
<1>2. CASE UNCHANGED allvars
  BY <1>2 DEF RegistryTypeOK, TypeOK, VariablesTypeOK, CurTypeOK, InNew, allvars, vars,
              registry, locals
<1>. QED
  BY <1>1, <1>2, Steps, RegistryTypes

------------------------------------------------------------------------------
(* The lock.                                                                *)

\* What a step changes outside the registry: only where t is, and the lock.
LEMMA LockStep ==
  ASSUME RegistryTypeOK, LockInv, [RegistryNext]_allvars
  PROVE  LockInv'
<1> USE DEF LockInv, RegistryTypeOK
<1>1. ASSUME NEW t \in Threads, PoolStep(t)
      PROVE  LockInv'
  <2> USE DEF PoolStep, registry, locals, Goes, TypeOK
  <2>1. UNCHANGED at /\ at[t] = "none"
    BY <1>1
  <2>2. \A u \in Threads \ {t} : pc'[u] = pc[u]
    BY <1>1 DEF New, NewAlloc, NewDraw, NewAdvance, NewList, NewRefuse, NewName, NewQueue,
                NewReturn, Lookup, LookupStart, LookupHit, LookupSkip, LookupMiss,
                LookupBeyond
  <2>3. \/ /\ UNCHANGED lock
           /\ pc[t] \in {"advance", "list"} <=> pc'[t] \in {"advance", "list"}
        \/ lock = {} /\ lock' = {t} /\ pc'[t] = "advance"
        \/ pc[t] = "list" /\ lock' = {} /\ pc'[t] \notin {"advance", "list"}
    BY <1>1 DEF New, NewAlloc, NewDraw, NewAdvance, NewList, NewRefuse, NewName, NewQueue,
                NewReturn, Lookup, LookupStart, LookupHit, LookupSkip, LookupMiss,
                LookupBeyond, object, lookup, LockIsFree
  <2>4. ASSUME NEW u \in Threads
        PROVE  (pc'[u] \in {"advance", "list"} \/ at'[u] = "add") <=> lock' = {u}
    <3>1. CASE u = t
      BY <2>1, <2>3, <3>1
    <3>2. CASE u # t
      BY SMTT(30), <2>1, <2>2, <2>3, <3>2
    <3>. QED
      BY <3>1, <3>2
  <2>. QED
    BY <2>1, <2>2, <2>4
<1>2. ASSUME NEW t \in Threads, RegistryStep(t)
      PROVE  LockInv'
  <2>1. UNCHANGED pc
    BY <1>2 DEF RegistryStep, Call, PutFind, PutAdd, Get, vars, pool
  <2>2. \A u \in Threads \ {t} : at'[u] = at[u]
    BY <1>2 DEF RegistryStep, Call, PutFind, PutAdd, Get, Return, VariablesTypeOK
  <2>3. pc[t] = "idle"
    BY <1>2 DEF RegistryStep, Call, PutFind, PutAdd, Get
  <2>4. \/ UNCHANGED lock /\ at[t] # "add" /\ at'[t] # "add"
        \/ lock = {} /\ lock' = {t} /\ at'[t] = "add"
        \/ at[t] = "add" /\ lock' = {} /\ at'[t] = "none"
    BY <1>2 DEF RegistryStep, Call, PutFind, PutAdd, Get, Return, VariablesTypeOK, vars,
                LockIsFree
  <2>. QED
    BY <2>1, <2>2, <2>3, <2>4
<1>3. CASE UNCHANGED allvars
  BY <1>3 DEF allvars, vars, registry, locals
<1>. QED
  BY <1>1, <1>2, <1>3, Steps

------------------------------------------------------------------------------
(* The list.                                                                *)

\* Only one thread is between drawing an id and listing the service.
LEMMA AloneInTheLock ==
  ASSUME LockInv, NEW t \in Threads, NEW u \in Threads,
         pc[t] \in {"advance", "list"}, pc[u] \in {"advance", "list"}
  PROVE  t = u
BY DEF LockInv

\* Every step of service_new keeps the list in order.
LEMMA NewKeepsList ==
  ASSUME TypeOK, CurTypeOK, NewInv, ListInv, NEW t \in Threads, New(t)
  PROVE  ListInv'
<1> USE DEF TypeOK, CurTypeOK, ListInv, IsListed, Unlisted, Goes, object, lookup, NULL,
            Objects, Slots, InNew
<1>1. ASSUME NEW x, NewAlloc(t, x)
      PROVE  ListInv'
  <2>1. UNCHANGED <<id, services, sid, name, returned>> /\ news' = news + 1
    BY <1>1 DEF NewAlloc
  <2>2. \A s : (IsListed(s)' <=> IsListed(s)) /\ (Unlisted(s)' <=> Unlisted(s))
    BY <2>1
  <2>3. news \in Nat /\ \A n \in Slots : services[n] \in Nat
    <3>1. news \in 0..MaxNews /\ services \in [Slots -> (1..MaxNews) \cup {0}]
      OBVIOUS
    <3> HIDE DEF TypeOK, ListInv, Slots
    <3>. QED
      BY <3>1
  <2> HIDE DEF IsListed, Unlisted
  <2>4. \A m \in Nat : m <= news => m <= news'
    BY <2>1, <2>3
  <2>5. \A n \in Slots :
          services'[n] # NULL => sid'[services'[n]] = n /\ services'[n] <= news'
    <3> HIDE DEF Slots
    <3>. QED
      BY <2>1, <2>3, <2>4
  <2>6. \A s \in Objects : s > news' => Unlisted(s)
    BY <2>1, <2>3
  <2>. QED
    BY <2>1, <2>2, <2>5, <2>6
<1>2. ASSUME NewDraw(t)
      PROVE  ListInv'
  <2>1. cur[t] \in Objects /\ Unlisted(cur[t]) /\ cur[t] \notin returned /\ name[cur[t]] = Unnamed
    BY <1>2 DEF NewDraw, NewInv, Making, BeforeList
  <2>2. /\ UNCHANGED <<id, services, news, name, returned>>
        /\ \A s \in Objects \ {cur[t]} : sid'[s] = sid[s]
    BY <1>2, <2>1 DEF NewDraw
  <2>3. \A s \in Objects : IsListed(s) => s # cur[t] /\ IsListed(s)'
    BY <2>1, <2>2
  <2>4. \A n \in Slots : services[n] # NULL => sid'[services[n]] = n
    BY <2>1, <2>2
  <2>5. \A s : Unlisted(s)' <=> Unlisted(s)
    BY <2>2
  <2> HIDE DEF IsListed, Unlisted
  <2>. QED
    BY <2>2, <2>3, <2>4, <2>5
<1>3. ASSUME NewAdvance(t)
      PROVE  ListInv'
  <2>1. id' = id + 1
    BY <1>3 DEF NewAdvance, NewInv, Drawn
  <2>. QED
    BY <1>3, <2>1 DEF NewAdvance
<1>4. ASSUME NewList(t)
      PROVE  ListInv'
  <2>1. /\ cur[t] \in 1..news
        /\ sid[cur[t]] \in Slots
        /\ sid[cur[t]] + 1 = id
        /\ services[sid[cur[t]]] = NULL
    <3>1. pc[t] = "list" /\ sid[cur[t]] <= MAX_SERVICES
      BY <1>4 DEF NewList
    <3>2. cur[t] \in 1..news /\ sid[cur[t]] + 1 = id
      BY <3>1 DEF NewInv, Making, Drawn
    <3>3. sid[cur[t]] \in Slots
      BY <3>1, <3>2, BoundsAssumption
    <3>. QED
      BY <3>1, <3>2, <3>3 DEF NewInv, Drawn
  <2>2. services' = [services EXCEPT ![sid[cur[t]]] = cur[t]]
    BY <1>4 DEF NewList
  <2>3. UNCHANGED <<id, news, sid, name, returned, cur>>
    BY <1>4 DEF NewList
  <2>4. \A s \in Objects : IsListed(s) => IsListed(s)'
    BY <2>1, <2>2, <2>3
  <2>5. IsListed(cur[t])'
    BY <2>1, <2>2, <2>3
  <2>. QED
    BY <2>1, <2>2, <2>3, <2>4, <2>5
<1>5. ASSUME NewRefuse(t) \/ NewQueue(t)
      PROVE  ListInv'
  <2>1. UNCHANGED <<id, services, news, sid, name, returned>>
    BY <1>5 DEF NewRefuse, NewQueue
  <2>. QED
    BY <2>1
<1>6. ASSUME NewName(t) \/ NewReturn(t)
      PROVE  ListInv'
  <2>1. IsListed(cur[t])
    BY <1>6 DEF NewName, NewReturn, NewInv, Making, BeforeList
  <2>2. UNCHANGED <<id, services, news, sid>>
    BY <1>6 DEF NewName, NewReturn
  <2>3. \A s \in Objects \ {cur[t]} : name'[s] = name[s] /\ (s \in returned' => s \in returned)
    <3>1. CASE NewName(t)
      BY <3>1 DEF NewName
    <3>2. CASE NewReturn(t)
      BY <3>2 DEF NewReturn
    <3>. QED
      BY <1>6, <3>1, <3>2
  <2>. QED
    BY <2>1, <2>2, <2>3
<1>. QED
  BY <1>1, <1>2, <1>3, <1>4, <1>5, <1>6 DEF New

\* What the steps of one thread in service_new leave to another: it makes a
\* service of its own, and the lock keeps it from drawing an id now.
LEMMA NewKeepsOthers ==
  ASSUME TypeOK, CurTypeOK, LockInv, NewInv, ListInv,
         NEW t \in Threads, New(t), NEW u \in Threads \ {t}
  PROVE  /\ pc'[u] = pc[u] /\ cur'[u] = cur[u]
         /\ Making(u)' /\ Drawn(u)'
<1> USE DEF TypeOK, CurTypeOK, Goes, object, lookup, NULL, Objects, Slots, InNew, BeforeList
<1>1. pc'[u] = pc[u]
  BY DEF New, NewAlloc, NewDraw, NewAdvance, NewList, NewRefuse, NewName, NewQueue, NewReturn
<1>2. cur'[u] = cur[u]
  BY DEF New, NewAlloc, NewDraw, NewAdvance, NewList, NewRefuse, NewName, NewQueue, NewReturn
<1>3. ASSUME InNew(u)
      PROVE  Making(u)' /\ Drawn(u)'
  <2>1. Making(u) /\ Drawn(u) /\ cur[u] \in Objects
    BY <1>3 DEF NewInv
  <2>2. InNew(t) => cur[t] # cur[u]
    BY <1>3 DEF NewInv
  <2>3. pc[t] \in {"advance", "list"} => pc[u] \notin {"advance", "list"}
    BY DEF LockInv
  <2>4. ASSUME NEW n, NewAlloc(t, n)
        PROVE  Making(u)' /\ Drawn(u)'
    BY <1>1, <1>2, <2>1, <2>4 DEF NewAlloc, Making, Drawn, Unlisted, IsListed
  <2>5. ASSUME NewDraw(t)
        PROVE  Making(u)' /\ Drawn(u)'
    <3>1. pc[u] \notin {"advance", "list"}
      BY <2>5 DEF NewDraw, LockIsFree, LockInv
    <3>2. sid'[cur[u]] = sid[cur[u]]
      BY <2>1, <2>2, <2>5 DEF NewDraw
    <3>. QED
      BY <1>1, <1>2, <2>1, <2>5, <3>1, <3>2 DEF NewDraw, Making, Drawn, Unlisted, IsListed
  <2>6. ASSUME NewAdvance(t)
        PROVE  Making(u)' /\ Drawn(u)'
    <3>1. id' = id + 1
      BY <2>6 DEF NewAdvance, NewInv, Drawn
    <3>. QED
      BY <1>1, <1>2, <2>1, <2>3, <2>6, <3>1 DEF NewAdvance, Making, Drawn, Unlisted, IsListed
  <2>7. ASSUME NewList(t)
        PROVE  Making(u)' /\ Drawn(u)'
    <3>1. pc[t] = "list" /\ sid[cur[t]] \in Nat /\ sid[cur[t]] <= MAX_SERVICES
      BY <2>7 DEF NewList
    <3>2. services[sid[cur[t]]] = NULL
      BY <3>1, BoundsAssumption DEF NewInv, Drawn
    <3>3. \A s \in Objects : IsListed(s) => sid[s] # sid[cur[t]]
      BY <3>2 DEF IsListed
    <3>4. \A n \in Slots : services'[n] \in {services[n], cur[t]}
      BY <2>7 DEF NewList
    <3>5. \A n \in Slots \ {sid[cur[t]]} : services'[n] = services[n]
      BY <2>7 DEF NewList
    <3>6. UNCHANGED <<id, news, sid, name, returned>>
      BY <2>7 DEF NewList
    <3>. QED
      BY <1>1, <1>2, <2>1, <2>2, <2>3, <3>1, <3>3, <3>4, <3>5, <3>6
         DEF Making, Drawn, Unlisted, IsListed
  <2>8. ASSUME NewRefuse(t) \/ NewQueue(t)
        PROVE  Making(u)' /\ Drawn(u)'
    <3>1. UNCHANGED <<id, services, news, sid, name, returned>>
      BY <2>8 DEF NewRefuse, NewQueue
    <3>. QED
      BY <1>1, <1>2, <2>1, <3>1 DEF Making, Drawn, Unlisted, IsListed
  <2>9. ASSUME NewName(t) \/ NewReturn(t)
        PROVE  Making(u)' /\ Drawn(u)'
    <3>1. UNCHANGED <<id, services, news, sid>>
      BY <2>9 DEF NewName, NewReturn
    <3>2. name'[cur[u]] = name[cur[u]]
      BY <2>1, <2>2, <2>9 DEF NewName, NewReturn
    <3>3. cur[u] \notin returned'
      BY <1>3, <2>1, <2>2, <2>9 DEF NewName, NewReturn, Making
    <3>. QED
      BY <1>1, <1>2, <2>1, <3>1, <3>2, <3>3 DEF Making, Drawn, Unlisted, IsListed
  <2>. QED
    BY <2>4, <2>5, <2>6, <2>7, <2>8, <2>9 DEF New
<1>4. ASSUME ~InNew(u)
      PROVE  Making(u)' /\ Drawn(u)'
  BY <1>1, <1>4 DEF Making, Drawn
<1>. QED
  BY <1>1, <1>2, <1>3, <1>4

\* Every step of service_new leaves its own thread what it needs for the next.
LEMMA NewKeepsNew ==
  ASSUME TypeOK, TypeOK', CurTypeOK, LockInv, NewInv, ListInv, NEW t \in Threads, New(t)
  PROVE  NewInv'
<1> USE DEF TypeOK, CurTypeOK, Goes, object, lookup, NULL, Objects, Slots, InNew, BeforeList
<1>1. ASSUME NEW n, NewAlloc(t, n)
      PROVE  Making(t)' /\ Drawn(t)' /\ cur'[t] = news + 1
  <2>1. /\ pc'[t] = "lock" /\ cur'[t] = news + 1 /\ news' = news + 1
        /\ UNCHANGED <<services, returned, name>>
        /\ news + 1 \in Objects
    BY <1>1, BoundsAssumption DEF NewAlloc
  <2>2. Unlisted(news + 1)
    BY <2>1 DEF ListInv
  <2>3. ~IsListed(news + 1)
    BY <2>2 DEF IsListed, Unlisted
  <2>4. name[news + 1] = Unnamed /\ news + 1 \notin returned
    BY <2>1, <2>3 DEF ListInv
  <2>. QED
    BY <2>1, <2>2, <2>4 DEF Making, Drawn, Unlisted
<1>2. ASSUME NEW n, NewAlloc(t, n), NEW u \in Threads \ {t}, InNew(u)
      PROVE  cur[u] # cur'[t]
  BY <1>1, <1>2 DEF NewInv, Making
<1>3. ASSUME ~\E n : NewAlloc(t, n)
      PROVE  /\ InNew(t) /\ cur'[t] = cur[t]
             /\ Making(t)' /\ Drawn(t)'
  <2>1. New(t) <=> \/ NewDraw(t) \/ NewAdvance(t) \/ NewList(t) \/ NewRefuse(t)
                   \/ NewName(t) \/ NewQueue(t) \/ NewReturn(t)
    BY <1>3 DEF New
  <2>2. InNew(t)
    BY <2>1 DEF NewDraw, NewAdvance, NewList, NewRefuse, NewName, NewQueue, NewReturn
  <2>3. cur'[t] = cur[t] /\ cur[t] \in Objects
    BY <2>1, <2>2 DEF NewDraw, NewAdvance, NewList, NewRefuse, NewName, NewQueue, NewReturn
  <2>4. Making(t) /\ Drawn(t)
    BY DEF NewInv
  <2>5. CASE NewDraw(t)
    <3>1. pc[t] = "lock" /\ pc'[t] = "advance" /\ sid'[cur[t]] = id
      BY <2>3, <2>5 DEF NewDraw
    <3>. QED
      BY <2>2, <2>3, <2>4, <2>5, <3>1 DEF NewDraw, Making, Drawn, Unlisted
  <2>6. CASE NewAdvance(t)
    <3>1. pc[t] = "advance" /\ pc'[t] = "list" /\ id' = sid[cur[t]] + 1 /\ sid[cur[t]] = id
      BY <2>4, <2>6 DEF NewAdvance, Drawn
    <3>2. UNCHANGED <<services, news, sid, name, returned>>
      BY <2>6 DEF NewAdvance
    <3>3. sid[cur[t]] \in Slots => services[sid[cur[t]]] = NULL
      BY <3>1 DEF ListInv
    <3>. QED
      BY <2>2, <2>3, <2>4, <3>1, <3>2, <3>3 DEF Making, Drawn, Unlisted
  <2>7. CASE NewList(t)
    <3>1. pc[t] = "list" /\ pc'[t] = "name" /\ sid[cur[t]] \in Slots /\ sid[cur[t]] + 1 = id
      BY <2>3, <2>4, <2>7, BoundsAssumption DEF NewList, Drawn
    <3>2. UNCHANGED <<id, news, sid, name, returned>>
      BY <2>7 DEF NewList
    <3>3. services'[sid[cur[t]]] = cur[t]
      BY <2>7, <3>1 DEF NewList
    <3>. QED
      BY <2>2, <2>3, <2>4, <3>1, <3>2, <3>3 DEF Making, Drawn, IsListed
  <2>8. CASE NewRefuse(t) \/ NewReturn(t)
    <3>1. pc'[t] = "idle"
      BY <2>8 DEF NewRefuse, NewReturn
    <3>. QED
      BY <2>2, <2>3, <3>1 DEF Making, Drawn
  <2>9. CASE NewName(t) \/ NewQueue(t)
    <3>1. pc[t] \in {"name", "queue"} /\ pc'[t] \in {"queue", "async"}
      BY <2>9 DEF NewName, NewQueue
    <3>2. UNCHANGED <<id, services, news, sid, returned>>
      BY <2>9 DEF NewName, NewQueue
    <3>. QED
      BY <2>2, <2>3, <2>4, <3>1, <3>2 DEF Making, Drawn, IsListed
  <2>. QED
    BY <2>1, <2>2, <2>3, <2>5, <2>6, <2>7, <2>8, <2>9
<1>4. \A u \in Threads : Making(u)' /\ Drawn(u)'
  BY <1>1, <1>3, NewKeepsOthers
<1>5. \A u \in Threads \ {t} : (InNew(u)' <=> InNew(u)) /\ cur'[u] = cur[u]
  BY NewKeepsOthers
<1>6. \A u \in Threads \ {t} : InNew(u) => cur[u] # cur'[t]
  BY <1>2, <1>3 DEF NewInv
<1> HIDE DEF InNew
<1>7. \A u, v \in Threads : InNew(u)' /\ InNew(v)' /\ cur'[u] = cur'[v] => u = v
  BY <1>5, <1>6 DEF NewInv
<1>. QED
  BY <1>4, <1>7 DEF NewInv

\* A lookup and the registry change none of this.
LEMMA OthersKeepList ==
  ASSUME TypeOK, NewInv, ListInv, NEW t \in Threads,
         Lookup(t) \/ UNCHANGED vars \/ UNCHANGED pool
  PROVE  NewInv' /\ ListInv'
<1>1. UNCHANGED <<id, services, news, sid, name, returned, cur>>
  BY DEF Lookup, LookupStart, LookupHit, LookupSkip, LookupMiss, LookupBeyond, vars, pool,
         object, lookup
<1>2. ASSUME NEW u \in Threads, InNew(u) \/ InNew(u)'
      PROVE  pc'[u] = pc[u]
  BY <1>2 DEF Lookup, LookupStart, LookupHit, LookupSkip, LookupMiss, LookupBeyond, vars,
              pool, Goes, InNew, TypeOK
<1>3. NewInv'
  <2>1. ASSUME NEW u \in Threads
        PROVE  Making(u)' /\ Drawn(u)'
    <3>1. CASE InNew(u)'
      BY <1>1, <1>2, <3>1
         DEF NewInv, Making, Drawn, BeforeList, InNew, Unlisted, IsListed
    <3>2. CASE ~InNew(u)'
      BY <3>2 DEF Making, Drawn, InNew
    <3>. QED
      BY <3>1, <3>2
  <2>. QED
    BY <1>1, <1>2, <2>1 DEF NewInv, InNew
<1>4. ListInv'
  BY <1>1 DEF ListInv, IsListed, Unlisted
<1>. QED
  BY <1>3, <1>4

------------------------------------------------------------------------------
(* Lookups.                                                                 *)

\* service_new fills in only the service it makes, which has no name yet.
LEMMA NewKeepsNamed ==
  ASSUME TypeOK, CurTypeOK, NewInv, NEW t \in Threads, New(t),
         NEW s \in Objects, name[s] # Unnamed
  PROVE  name'[s] = name[s] /\ sid'[s] = sid[s]
<1> USE DEF TypeOK, CurTypeOK, Goes, object, lookup, Objects, InNew, BeforeList
<1>1. CASE NewDraw(t)
  <2>1. cur[t] \in Objects /\ name[cur[t]] = Unnamed
    BY <1>1 DEF NewDraw, NewInv, Making
  <2>. QED
    BY <1>1, <2>1 DEF NewDraw
<1>2. CASE NewName(t)
  <2>1. cur[t] \in Objects /\ name[cur[t]] = Unnamed
    BY <1>2 DEF NewName, NewInv, Making
  <2>. QED
    BY <1>2, <2>1 DEF NewName
<1>3. CASE ~NewDraw(t) /\ ~NewName(t)
  BY <1>3 DEF New, NewAlloc, NewAdvance, NewList, NewRefuse, NewQueue, NewReturn
<1>. QED
  BY <1>1, <1>2, <1>3

\* So it leaves every lookup what it found, and what it has passed.
LEMMA NewKeepsLookup ==
  ASSUME TypeOK, CurTypeOK, NewInv, LookupInv, NEW t \in Threads, New(t)
  PROVE  LookupInv'
<1>1. UNCHANGED <<wanted, i, found, before>>
  BY DEF New, NewAlloc, NewDraw, NewAdvance, NewList, NewRefuse, NewName, NewQueue, NewReturn,
         lookup
<1>2. \A u \in Threads : pc'[u] \in {"lookup", "faulted"} <=> pc[u] \in {"lookup", "faulted"}
  BY DEF New, NewAlloc, NewDraw, NewAdvance, NewList, NewRefuse, NewName, NewQueue, NewReturn,
         Goes, TypeOK
<1>3. ASSUME NEW u \in Threads
      PROVE  Looking(u)'
  <2>1. Looking(u)
    BY DEF LookupInv
  <2>2. \A s \in Objects : name[s] \in Names => name'[s] = name[s] /\ sid'[s] = sid[s]
    BY NewKeepsNamed, NamesAssumption
  <2>3. before[u] \subseteq Objects /\ found[u] \in Objects \cup {NULL}
    BY DEF TypeOK
  <2>. QED
    BY <1>1, <1>2, <2>1, <2>2, <2>3 DEF Looking
<1>. QED
  BY <1>3 DEF LookupInv

\* A lookup passes no service of the name, since each is at the place its id says.
LEMMA LookupKeepsLookup ==
  ASSUME TypeOK, ListInv, LookupInv, NEW t \in Threads, Lookup(t)
  PROVE  LookupInv'
<1> USE DEF TypeOK, Goes
<1>1. UNCHANGED <<id, services, name, sid>>
  BY DEF Lookup, LookupStart, LookupHit, LookupSkip, LookupMiss, LookupBeyond, object
<1>2. ASSUME NEW u \in Threads \ {t}
      PROVE  Looking(u)'
  <2>1. /\ pc'[u] = pc[u] /\ wanted'[u] = wanted[u] /\ i'[u] = i[u]
        /\ found'[u] = found[u] /\ before'[u] = before[u]
    BY DEF Lookup, LookupStart, LookupHit, LookupSkip, LookupMiss, LookupBeyond, lookup
  <2>. QED
    BY <1>1, <2>1 DEF LookupInv, Looking
<1>3. ASSUME NEW n \in Names, LookupStart(t, n)
      PROVE  Looking(t)'
  <2>1. /\ pc'[t] = "lookup" /\ wanted'[t] = n /\ i'[t] = 0 /\ found'[t] = NULL
        /\ before'[t] = {s \in Objects : name[s] = n}
    BY <1>3 DEF LookupStart, FirstIndex
  <2>. QED
    BY <1>1, <2>1 DEF Looking
<1>4. ASSUME pc[t] = "lookup"
      PROVE  /\ Looking(t) /\ wanted[t] \in Names /\ before[t] \subseteq Objects
             /\ \A s \in before[t] : IsListed(s) /\ i[t] <= sid[s]
  <2>1. Looking(t) /\ wanted[t] \in Names /\ before[t] \subseteq Objects
    BY <1>4 DEF LookupInv, Looking
  <2>2. \A s \in before[t] : name[s] # Unnamed /\ i[t] <= sid[s]
    BY <1>4, <2>1, NamesAssumption DEF Looking
  <2>. QED
    BY <2>1, <2>2 DEF ListInv
<1>5. ASSUME LookupHit(t)
      PROVE  Looking(t)'
  <2>1. /\ pc[t] = "lookup" /\ pc'[t] = "idle" /\ i[t] \in Slots
        /\ services[i[t]] # NULL /\ name[services[i[t]]] = wanted[t]
        /\ found'[t] = services[i[t]]
        /\ UNCHANGED <<wanted, i, before>>
    BY <1>5 DEF LookupHit, Matches
  <2>2. sid[services[i[t]]] = i[t]
    BY <2>1 DEF ListInv
  <2>. QED
    BY <1>1, <1>4, <2>1, <2>2 DEF Looking
<1>6. ASSUME LookupSkip(t)
      PROVE  Looking(t)'
  <2>1. /\ pc[t] = "lookup" /\ pc'[t] = "lookup" /\ i'[t] = i[t] + 1
        /\ ~Matches(t)
        /\ UNCHANGED <<wanted, found, before>>
    BY <1>6 DEF LookupSkip
  <2>2. ASSUME NEW s \in before[t]
        PROVE  i[t] # sid[s]
    <3>1. services[sid[s]] = s /\ s # NULL /\ name[s] = wanted[t]
      BY <1>4, <2>1 DEF IsListed, Looking, Objects, NULL
    <3>. QED
      BY <2>1, <3>1 DEF Matches
  <2>. QED
    BY <1>1, <1>4, <2>1, <2>2 DEF Looking
<1>7. ASSUME LookupMiss(t)
      PROVE  Looking(t)'
  <2>1. /\ pc[t] = "lookup" /\ pc'[t] = "idle" /\ i[t] >= id
        /\ UNCHANGED <<wanted, i, found, before>>
    BY <1>7 DEF LookupMiss, lookup
  <2>2. before[t] = {}
    BY <1>4, <2>1 DEF IsListed
  <2>. QED
    BY <1>1, <1>4, <2>1, <2>2 DEF Looking
<1>8. ASSUME LookupBeyond(t)
      PROVE  Looking(t)'
  <2>1. /\ pc[t] = "lookup" /\ pc'[t] = "faulted"
        /\ UNCHANGED <<wanted, i, found, before>>
    BY <1>8 DEF LookupBeyond, lookup
  <2>. QED
    BY <1>1, <1>4, <2>1 DEF Looking
<1>9. Looking(t)'
  BY <1>3, <1>5, <1>6, <1>7, <1>8 DEF Lookup
<1>. QED
  BY <1>2, <1>9 DEF LookupInv

------------------------------------------------------------------------------
(* What a lookup finds.                                                     *)

\* A service gets its name from a thread that then fills it in and returns it.
LEMMA NewKeepsReady ==
  ASSUME TypeOK, CurTypeOK, NewInv, ListInv, LookupInv, ReadyInv,
         NEW t \in Threads, New(t)
  PROVE  ReadyInv'
<1> USE DEF TypeOK, CurTypeOK, Goes, object, lookup, Objects, InNew, Finishing
<1>1. /\ UNCHANGED found
      /\ \A u \in Threads \ {t} : pc'[u] = pc[u] /\ cur'[u] = cur[u]
  BY DEF New, NewAlloc, NewDraw, NewAdvance, NewList, NewRefuse, NewName, NewQueue, NewReturn
<1>2. ASSUME NEW n, NewAlloc(t, n)
      PROVE  ReadyInv'
  <2>1. /\ pc[t] = "idle" /\ pc'[t] = "lock" /\ cur'[t] = news + 1
        /\ UNCHANGED <<name, built, returned>>
    BY <1>2 DEF NewAlloc
  <2>2. found[t] # news + 1
    <3>1. CASE found[t] = NULL
      BY <3>1 DEF NULL
    <3>2. CASE found[t] # NULL
      <4>1. found[t] \in Objects /\ name[found[t]] # Unnamed
        BY <3>2, NamesAssumption DEF LookupInv, Looking
      <4>2. IsListed(found[t])
        BY <4>1 DEF ListInv
      <4>3. services[sid[found[t]]] = found[t] /\ sid[found[t]] \in Slots
        BY <4>2 DEF IsListed
      <4>4. found[t] <= news
        BY <3>2, <4>3 DEF ListInv
      <4>. QED
        BY <4>1, <4>4
    <3>. QED
      BY <3>1, <3>2
  <2>3. \A s : \A u \in Threads : Finishing(u, s) => Finishing(u, s)'
    BY <1>1, <2>1
  <2>4. \A u \in Threads : InNew(u)' => found'[u] # cur'[u]
    <3>1. ASSUME NEW u \in Threads \ {t}, InNew(u)'
          PROVE  found'[u] # cur'[u]
      BY <1>1, <3>1 DEF ReadyInv
    <3>. QED
      BY <1>1, <2>1, <2>2, <3>1
  <2> HIDE DEF Finishing
  <2>. QED
    BY <2>1, <2>3, <2>4 DEF ReadyInv
<1>3. ASSUME InNew(t), cur'[t] = cur[t]
      PROVE  /\ cur[t] \in Objects /\ Making(t)
             /\ \A u \in Threads : InNew(u)' => found'[u] # cur'[u]
  <2>1. cur[t] \in Objects /\ Making(t)
    BY <1>3 DEF NewInv
  <2>2. ASSUME NEW u \in Threads, InNew(u)'
        PROVE  found'[u] # cur'[u]
    <3>1. CASE u = t
      BY <1>1, <1>3, <3>1 DEF ReadyInv
    <3>2. CASE u # t
      BY <1>1, <2>2, <3>2 DEF ReadyInv
    <3>. QED
      BY <3>1, <3>2
  <2>. QED
    BY <2>1, <2>2
<1>4. CASE NewDraw(t) \/ NewAdvance(t) \/ NewList(t) \/ NewRefuse(t)
  <2>1. /\ UNCHANGED <<name, built, returned>> /\ cur'[t] = cur[t] /\ InNew(t)
        /\ pc[t] \notin {"queue", "async"}
    BY <1>4 DEF NewDraw, NewAdvance, NewList, NewRefuse
  <2>2. \A s : \A u \in Threads : Finishing(u, s) => Finishing(u, s)'
    BY <1>1, <2>1
  <2> HIDE DEF Finishing
  <2>. QED
    BY <1>3, <2>1, <2>2 DEF ReadyInv
<1>5. CASE NewName(t)
  <2>1. /\ pc[t] = "name" /\ pc'[t] = "queue" /\ cur'[t] = cur[t] /\ InNew(t)
        /\ UNCHANGED <<built, returned>>
        /\ \A s \in Objects \ {cur[t]} : name'[s] = name[s]
    BY <1>5 DEF NewName
  <2>2. \A s : \A u \in Threads : Finishing(u, s) => Finishing(u, s)'
    BY <1>1, <2>1
  <2>3. Finishing(t, cur[t])'
    BY <2>1
  <2> HIDE DEF Finishing
  <2>. QED
    BY <1>3, <2>1, <2>2, <2>3 DEF ReadyInv
<1>6. CASE NewQueue(t)
  <2>1. /\ pc[t] = "queue" /\ pc'[t] = "async" /\ cur'[t] = cur[t] /\ InNew(t)
        /\ UNCHANGED <<name, returned>>
        /\ \A s \in Objects \ {cur[t]} : built'[s] = built[s]
    BY <1>6 DEF NewQueue
  <2>2. \A s : \A u \in Threads : Finishing(u, s) => Finishing(u, s)'
    BY <1>1, <2>1
  <2>3. cur[t] \notin returned /\ returned \subseteq Objects
    BY <1>3, <2>1 DEF Making
  <2> HIDE DEF Finishing
  <2>. QED
    BY <1>3, <2>1, <2>2, <2>3 DEF ReadyInv
<1>7. CASE NewReturn(t)
  <2>1. /\ pc[t] = "async" /\ pc'[t] = "idle" /\ cur'[t] = cur[t] /\ InNew(t)
        /\ UNCHANGED name
        /\ returned' = returned \cup {cur[t]}
        /\ built' = [built EXCEPT ![cur[t]] = "ready"]
    BY <1>7 DEF NewReturn
  <2>2. \A s : \A u \in Threads : Finishing(u, s) => Finishing(u, s)' \/ s = cur[t]
    BY <1>1, <2>1
  <2>3. \A s \in returned' : built'[s] = "ready"
    BY <1>3, <2>1 DEF ReadyInv
  <2> HIDE DEF Finishing
  <2>. QED
    BY <1>3, <2>1, <2>2, <2>3 DEF ReadyInv
<1> HIDE DEF TypeOK, CurTypeOK
<1>. QED
  BY <1>2, <1>4, <1>5, <1>6, <1>7 DEF New

\* A lookup leaves the services alone, and its thread makes none meanwhile.
LEMMA LookupKeepsReady ==
  ASSUME TypeOK, ReadyInv, NEW t \in Threads, Lookup(t)
  PROVE  ReadyInv'
<1> USE DEF TypeOK, Goes, object, lookup
<1>1. UNCHANGED <<name, built, returned, cur>>
  BY DEF Lookup, LookupStart, LookupHit, LookupSkip, LookupMiss, LookupBeyond
<1>2. ~InNew(t) /\ ~InNew(t)'
  BY DEF Lookup, LookupStart, LookupHit, LookupSkip, LookupMiss, LookupBeyond, InNew
<1>3. \A u \in Threads \ {t} : pc'[u] = pc[u] /\ found'[u] = found[u]
  BY DEF Lookup, LookupStart, LookupHit, LookupSkip, LookupMiss, LookupBeyond
<1>4. \A s : \A u \in Threads : Finishing(u, s) => Finishing(u, s)'
  BY <1>1, <1>2, <1>3 DEF Finishing, InNew
<1>5. \A u \in Threads : InNew(u)' => found'[u] # cur'[u]
  BY <1>1, <1>2, <1>3 DEF ReadyInv, InNew
<1>. QED
  BY <1>1, <1>4, <1>5 DEF ReadyInv

------------------------------------------------------------------------------
(* The variables.                                                           *)

\* A put adds a key only if it is not there, since the lock was not released
\* after the search.
LEMMA RegistryKeepsVariables ==
  ASSUME RegistryTypeOK, LockInv, VariablesInv, NEW t \in Threads, RegistryStep(t)
  PROVE  VariablesInv'
<1> USE DEF RegistryTypeOK, VariablesTypeOK, VariablesInv, AnswersAgree, LockIsFree, Return
<1>1. ASSUME NEW k \in Keys, NEW x \in Pointers \cup {NULL}, Call(t, k, x)
      PROVE  VariablesInv'
  BY <1>1 DEF Call
<1>2. ASSUME PutFind(t)
      PROVE  VariablesInv'
  <2>1. PICK x \in registry_get(key[t]) : p' = [p EXCEPT ![t] = x]
    BY <1>2 DEF PutFind
  <2>2. /\ x = NULL => \A e \in variables : e.key # key[t]
        /\ x # NULL => \E e \in variables : e.key = key[t]
    BY SearchFinds
  <2>3. \A u \in Threads : at[u] # "add"
    BY <1>2 DEF PutFind, LockInv
  <2>4. UNCHANGED <<variables, key, answers>> /\ \A u \in Threads \ {t} : at'[u] = at[u]
    BY <1>2 DEF PutFind
  <2>. QED
    BY <2>1, <2>2, <2>3, <2>4
<1>3. ASSUME PutAdd(t)
      PROVE  VariablesInv'
  <2>1. \A u \in Threads : at'[u] # "add"
    BY <1>3 DEF PutAdd, LockInv
  <2>2. /\ answers' = answers \cup {[call |-> "put", key |-> key[t], ptr |-> ptr[t]]}
        /\ \/ UNCHANGED variables /\ \E e \in variables : e.key = key[t]
           \/ /\ \A e \in variables : e.key # key[t]
              /\ variables' = variables \cup {[key |-> key[t], ptr |-> ptr[t]]}
    BY <1>3 DEF PutAdd, Put
  <2>3. variables \subseteq variables' /\ \E e \in variables' : e.key = key[t]
    <3>1. CASE \A e \in variables : e.key # key[t]
      <4>1. [key |-> key[t], ptr |-> ptr[t]] \in variables'
        BY <2>2, <3>1
      <4>2. [key |-> key[t], ptr |-> ptr[t]].key = key[t]
        OBVIOUS
      <4>3. variables \subseteq variables'
        BY <2>2
      <4>. QED
        BY <4>1, <4>2, <4>3
    <3>2. CASE \E e \in variables : e.key = key[t]
      BY <2>2, <3>2
    <3>. QED
      BY <3>1, <3>2
  <2>4. \A d, e \in variables' : d.key = e.key => d = e
    BY <2>2
  <2>. QED
    BY <2>1, <2>2, <2>3, <2>4
<1>4. ASSUME Get(t)
      PROVE  VariablesInv'
  <2>1. PICK x \in registry_get(key[t]) :
          answers' = answers \cup {[call |-> "get", key |-> key[t], ptr |-> x]}
    BY <1>4 DEF Get
  <2>2. x # NULL => [key |-> key[t], ptr |-> x] \in variables
    BY SearchFinds
  <2>3. /\ UNCHANGED variables
        /\ \A u \in Threads : at'[u] = "add" => at[u] = "add" /\ key'[u] = key[u] /\ p'[u] = p[u]
    BY <1>4 DEF Get
  <2>. QED
    BY <2>1, <2>2, <2>3
<1> HIDE DEF VariablesInv
<1>. QED
  BY <1>1, <1>2, <1>3, <1>4 DEF RegistryStep

------------------------------------------------------------------------------
(* The theorems.                                                            *)

\* The invariant always holds.
LEMMA RegistryInvHolds == RegistrySpec => []RegistryInv
<1>1. RegistryInit => RegistryInv
  <2> SUFFICES ASSUME RegistryInit
               PROVE  RegistryInv
    OBVIOUS
  <2> USE DEF RegistryInit, Init, InNew
  <2>1. RegistryTypeOK
    BY BoundsAssumption
       DEF RegistryTypeOK, TypeOK, VariablesTypeOK, CurTypeOK, NULL, Objects, Slots
  <2>2. LockInv /\ NewInv
    BY DEF LockInv, NewInv, Making, Drawn
  <2>3. ListInv
    BY DEF ListInv, Unlisted, Objects, NULL
  <2>4. LookupInv /\ ReadyInv
    BY DEF LookupInv, Looking, ReadyInv, Objects
  <2>5. VariablesInv
    BY DEF VariablesInv, AnswersAgree
  <2>. QED
    BY <2>1, <2>2, <2>3, <2>4, <2>5 DEF RegistryInv
<1>2. RegistryInv /\ [RegistryNext]_allvars => RegistryInv'
  <2> SUFFICES ASSUME RegistryInv, [RegistryNext]_allvars
               PROVE  RegistryInv'
    OBVIOUS
  <2> USE DEF RegistryInv
  <2>1. RegistryTypeOK' /\ LockInv'
    BY TypesStep, LockStep
  <2>2. ASSUME NEW t \in Threads, PoolStep(t)
        PROVE  NewInv' /\ ListInv' /\ LookupInv' /\ ReadyInv' /\ VariablesInv'
    <3>1. VariablesInv'
      BY <2>2 DEF PoolStep, VariablesInv, AnswersAgree, registry, locals
    <3>2. CASE New(t)
      BY <2>1, <2>2, <3>1, <3>2, NewKeepsNew, NewKeepsList, NewKeepsLookup, NewKeepsReady
         DEF PoolStep, RegistryTypeOK
    <3>3. CASE Lookup(t)
      BY <2>2, <3>1, <3>3, OthersKeepList, LookupKeepsLookup, LookupKeepsReady
         DEF PoolStep, RegistryTypeOK
    <3>. QED
      BY <2>2, <3>2, <3>3 DEF PoolStep
  <2>3. ASSUME UNCHANGED pool
        PROVE  NewInv' /\ ListInv' /\ LookupInv' /\ ReadyInv'
    <3>1. LookupInv' /\ ReadyInv'
      BY <2>3 DEF LookupInv, Looking, ReadyInv, Finishing, InNew, pool, object, lookup
    <3>2. NewInv' /\ ListInv'
      BY <2>3 DEF NewInv, ListInv, Making, Drawn, InNew, BeforeList, IsListed, Unlisted,
                  pool, object, lookup
    <3>. QED
      BY <3>1, <3>2
  <2>4. ASSUME NEW t \in Threads, RegistryStep(t)
        PROVE  UNCHANGED pool
    BY <2>4 DEF RegistryStep, Call, PutFind, PutAdd, Get, vars, pool, object, lookup
  <2>5. CASE UNCHANGED allvars
    <3>1. UNCHANGED pool /\ VariablesInv'
      BY <2>5 DEF allvars, vars, pool, object, lookup, VariablesInv, AnswersAgree, registry,
                  locals
    <3>. QED
      BY <2>1, <2>3, <3>1
  <2>. QED
    BY <2>1, <2>2, <2>3, <2>4, <2>5, Steps, RegistryKeepsVariables
<1>. QED
  BY <1>1, <1>2, PTL DEF RegistrySpec

\* However service_new calls overlap, with each other, with lookups and with the
\* registry, every service they return is listed under its id.
THEOREM ServicesAreListed == RegistrySpec => []ListedUnderItsId
<1>1. RegistryInv => ListedUnderItsId
  BY DEF RegistryInv, RegistryTypeOK, TypeOK, ListInv, IsListed, ListedUnderItsId
<1>. QED
  BY <1>1, RegistryInvHolds, PTL

\* A lookup finds the service of the name with the lowest id, if there was one
\* when it began, whatever other threads list or name meanwhile.
THEOREM LookupsAreRight == RegistrySpec => []LookupIsRight
<1>1. RegistryInv => LookupIsRight
  BY DEF RegistryInv, LookupInv, Looking, LookupIsRight
<1>. QED
  BY <1>1, RegistryInvHolds, PTL

\* Whatever lookups and service_new calls overlap, a service that was found is
\* complete, or another thread is about to complete and return it.
THEOREM FoundAreFinished == RegistrySpec => []FoundIsFinished
<1>1. RegistryInv => FoundIsFinished
  <2> SUFFICES ASSUME RegistryInv, NEW t \in Threads, found[t] # NULL
               PROVE  \/ found[t] \in returned /\ built[found[t]] = "ready"
                      \/ \E u \in Threads \ {t} :
                           cur[u] = found[t] /\ pc[u] \in {"queue", "async"}
    BY DEF FoundIsFinished
  <2>1. found[t] \in Objects /\ name[found[t]] # Unnamed
    BY NamesAssumption DEF RegistryInv, RegistryTypeOK, TypeOK, LookupInv, Looking
  <2>2. found[t] \in returned \/ \E u \in Threads : Finishing(u, found[t])
    BY <2>1 DEF RegistryInv, ReadyInv
  <2>3. ~Finishing(t, found[t])
    BY DEF RegistryInv, ReadyInv, Finishing, InNew
  <2>. QED
    BY <2>2, <2>3 DEF RegistryInv, ReadyInv, Finishing
<1>. QED
  BY <1>1, RegistryInvHolds, PTL

\* However puts of a key overlap, it has one pointer from the first on, and every
\* get that found one found that.
THEOREM GetsAgree == RegistrySpec => []AnswersAgree
<1>1. RegistryInv => AnswersAgree
  BY DEF RegistryInv, VariablesInv
<1>. QED
  BY <1>1, RegistryInvHolds, PTL
==============================================================================

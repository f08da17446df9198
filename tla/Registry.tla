------------------------------- MODULE Registry --------------------------------
(***************************************************************************)
(* The variables of the pool: service_pool_registry of src/src/service.c   *)
(* and the hash map of src/src/registry.c, used by the threads that also   *)
(* create and look up services, under the same lock.                       *)
(***************************************************************************)
EXTENDS Pool

CONSTANTS
  Keys,      \* names of variables
  Pointers   \* what they may be given; NULL asks for the value

ASSUME PointersAssumption == NULL \notin Pointers

VARIABLES
  variables,  \* pool->variables: the entries
  at,         \* t -> where it is in the registry: "none", "put", "add", "get"
  key, ptr,   \* t -> what it was called with
  p,          \* t -> what registry_get found
  answers     \* the keys calls were given and what they returned (not code)

locals == <<at, key, ptr, p>>
registry == <<variables, locals, answers>>
allvars == <<vars, registry>>

AKey == CHOOSE k \in Keys : TRUE

RegistryInit ==
  /\ Init
  /\ variables = {}
  /\ at = [t \in Threads |-> "none"]
  /\ key = [t \in Threads |-> AKey]
  /\ ptr = [t \in Threads |-> NULL]
  /\ p = [t \in Threads |-> NULL]
  /\ answers = {}

\* Pointers a search for k can end at.
Found(k) == {e.ptr : e \in {v \in variables : v.key = k}}

\* registry_get: NULL without an entry.
registry_get(k) == IF Found(k) = {} THEN {NULL} ELSE Found(k)

\* service_pool_registry(pool, k, x): a put for a pointer, a get for NULL.
Call(t, k, x) ==
  /\ pc[t] = "idle" /\ at[t] = "none"
  /\ at' = [at EXCEPT ![t] = IF x = NULL THEN "get" ELSE "put"]
  /\ key' = [key EXCEPT ![t] = k]
  /\ ptr' = [ptr EXCEPT ![t] = x]
  /\ UNCHANGED <<vars, variables, p, answers>>

\* The call returns x, and its locals are gone.
Return(t, call, x) ==
  /\ answers' = answers \cup {[call |-> call, key |-> key[t], ptr |-> x]}
  /\ at' = [at EXCEPT ![t] = "none"]
  /\ key' = [key EXCEPT ![t] = AKey]
  /\ ptr' = [ptr EXCEPT ![t] = NULL]
  /\ p' = [p EXCEPT ![t] = NULL]

\* What the registry leaves alone but for the lock.
pool == <<id, services, news, object, returned, pc, arg, cur, lookup>>

\* registry_put: the lock is taken and the key searched for ...
PutFind(t) ==
  /\ at[t] = "put"
  /\ LockIsFree
  /\ lock' = {t}
  /\ \E x \in registry_get(key[t]) : p' = [p EXCEPT ![t] = x]
  /\ at' = [at EXCEPT ![t] = "add"]
  /\ UNCHANGED <<pool, variables, key, ptr, answers>>

\* Mutant: the last pointer takes the place of the first.
Put_last(t) ==
  variables' = {e \in variables : e.key # key[t]} \cup {[key |-> key[t], ptr |-> ptr[t]]}

\* ... and its pointer added, unless the key was there.
Put(t) ==
  IF p[t] = NULL
  THEN variables' = variables \cup {[key |-> key[t], ptr |-> ptr[t]]}
  ELSE UNCHANGED variables

\* The caller is told its own pointer, whichever the map has kept.
PutAdd(t) ==
  /\ at[t] = "add"
  /\ Put(t)
  /\ lock' = {}
  /\ Return(t, "put", ptr[t])
  /\ UNCHANGED pool

\* A get, all of it under the lock.
Get(t) ==
  /\ at[t] = "get"
  /\ LockIsFree
  /\ \E x \in registry_get(key[t]) : Return(t, "get", x)
  /\ UNCHANGED <<vars, variables>>

RegistryNext ==
  \/ \E t \in Threads :
       /\ at[t] = "none"
       /\ New(t) \/ Lookup(t)
       /\ UNCHANGED registry
  \/ \E t \in Threads, k \in Keys, x \in Pointers \cup {NULL} : Call(t, k, x)
  \/ \E t \in Threads : PutFind(t) \/ PutAdd(t) \/ Get(t)

RegistrySpec == RegistryInit /\ [][RegistryNext]_allvars

------------------------------------------------------------------------------
(* Properties.                                                              *)

\* However puts of a key overlap, with each other and with service_new, it has
\* one pointer from the first put on, and every get that has found one has found
\* that.  What a put returned need not be that pointer.
AnswersAgree ==
  /\ \A d, e \in variables : d.key = e.key => d = e
  /\ \A a \in answers :
       /\ a.call = "put" => \E e \in variables : e.key = a.key
       /\ a.call = "get" /\ a.ptr # NULL => [key |-> a.key, ptr |-> a.ptr] \in variables
==============================================================================

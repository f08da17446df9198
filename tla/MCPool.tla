------------------------------- MODULE MCPool --------------------------------
(* Instances of the pool: two threads that create and look up services and    *)
(* put and get a variable.                                                    *)
EXTENDS Registry, TLC
CONSTANTS t1, t2, user, x, conf, p1, p2
TwoThreads  == {t1, t2}
TwoNames    == {user, x}
ShortNames  == {x}
OneKey      == {conf}
TwoPointers == {p1, p2}
Symmetry == Permutations(TwoThreads) \cup Permutations(TwoPointers)
==============================================================================

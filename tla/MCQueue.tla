------------------------------ MODULE MCQueue --------------------------------
(* Small instances of the ring buffer: one writer, as queue.h asks for, and  *)
(* two writers, as service_send uses it.                                     *)
EXTENDS Queue
CONSTANTS w1, w2, m1, m2
OneWriter   == {w1}
TwoWriters  == {w1, w2}
TwoMessages == {m1, m2}
==============================================================================

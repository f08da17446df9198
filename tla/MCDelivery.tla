----------------------------- MODULE MCDelivery ------------------------------
(* One sender and a ring that wraps and fills while the messages are sent.   *)
EXTENDS Delivery
CONSTANT w1
OneWriter    == {w1}
UpToMaxSends == 1..MaxSends
==============================================================================

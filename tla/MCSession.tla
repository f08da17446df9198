------------------------------ MODULE MCSession -------------------------------
(* Instances of the session layer: the root service and one or two others.   *)
EXTENDS Session
TwoServices   == {0, 1}
ThreeServices == {0, 1, 2}
NoFaults      == {}
AllFaults     == {"load", "error", "quit"}
Errors        == {"error"}
==============================================================================

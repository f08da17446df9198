------------------------------- MODULE Mailbox -------------------------------
(***************************************************************************)
(* What a service's inbox promises to the threads that use it: a bounded   *)
(* first-in first-out mailbox.  A push either appends one message or, when *)
(* the box is full, is refused and changes nothing; a pop takes the oldest *)
(* message or, when the box is empty, reports that there is none.  This is *)
(* the contract src/src/queue.h states (push returns 0 on success), with   *)
(* the linearisation point of every operation a single step.               *)
(***************************************************************************)
EXTENDS Naturals, Sequences

CONSTANTS
  Writers,   \* the threads that push
  Values,    \* the messages (void pointers of the C code)
  Capacity,  \* messages the box holds
  Null       \* the NULL pointer: what a pop of an empty box returns

VARIABLES
  inbox,     \* messages accepted and not yet taken, oldest first
  result,    \* result[w]: outcome of w's last push
  taken      \* value the last pop returned

mvars == <<inbox, result, taken>>

Init ==
  /\ inbox = <<>>
  /\ result = [w \in Writers |-> "none"]
  /\ taken = Null

Accept(w, v) ==
  /\ Len(inbox) < Capacity
  /\ inbox' = Append(inbox, v)
  /\ result' = [result EXCEPT ![w] = "ok"]
  /\ UNCHANGED taken

Refuse(w) ==
  /\ Len(inbox) = Capacity
  /\ result' = [result EXCEPT ![w] = "full"]
  /\ UNCHANGED <<inbox, taken>>

Take ==
  /\ inbox # <<>>
  /\ taken' = Head(inbox)
  /\ inbox' = Tail(inbox)
  /\ UNCHANGED result

TakeNothing ==
  /\ inbox = <<>>
  /\ taken' = Null
  /\ UNCHANGED <<inbox, result>>

Next ==
  \/ \E w \in Writers, v \in Values : Accept(w, v)
  \/ \E w \in Writers : Refuse(w)
  \/ Take
  \/ TakeNothing

Spec == Init /\ [][Next]_mvars
==============================================================================

----------------------------- MODULE Mailboxes -----------------------------
(***************************************************************************)
(* What sending to an actor promises, without turns, drains or a stack:    *)
(* every actor takes its messages one at a time, in the order they were    *)
(* sent to it, and each of them once.                                      *)
(***************************************************************************)
EXTENDS Sequences

CONSTANTS
  Actor,
  Message,
  Nothing   \* what an actor that handles no message is at

VARIABLES
  inbox,  \* the messages each actor has not begun, the oldest first
  at      \* the message it is handling

vars == <<inbox, at>>

Init ==
  /\ inbox = [a \in Actor |-> <<>>]
  /\ at = [a \in Actor |-> Nothing]

Post(a, m) ==
  /\ inbox' = [inbox EXCEPT ![a] = Append(@, m)]
  /\ UNCHANGED at

Begin(a) ==
  /\ at[a] = Nothing
  /\ inbox[a] # <<>>
  /\ at' = [at EXCEPT ![a] = Head(inbox[a])]
  /\ inbox' = [inbox EXCEPT ![a] = Tail(@)]

Finish(a) ==
  /\ at[a] # Nothing
  /\ at' = [at EXCEPT ![a] = Nothing]
  /\ UNCHANGED inbox

Next ==
  \E a \in Actor :
    \/ Begin(a)
    \/ Finish(a)
    \/ \E m \in Message : Post(a, m)

Spec == Init /\ [][Next]_vars
=============================================================================

----------------------------- MODULE Deliveries -----------------------------
(***************************************************************************)
(* What background work promises the actor it works for: what a task sends *)
(* reaches the actor on its own thread, one after the other in the order   *)
(* it was sent and none of it twice, for as long as the actor is there;    *)
(* and not a word of it once the actor is gone.                            *)
(***************************************************************************)
EXTENDS Naturals, Sequences

CONSTANTS Actor, Task, Owner

VARIABLES
  there,  \* the actors that are
  sent,   \* how many messages each task has sent
  handed  \* the messages of each task that its actor was handed, in order

vars == <<there, sent, handed>>

Init ==
  /\ there = Actor
  /\ sent = [t \in Task |-> 0]
  /\ handed = [t \in Task |-> <<>>]

Send(t) ==
  /\ sent' = [sent EXCEPT ![t] = @ + 1]
  /\ UNCHANGED <<there, handed>>

Hand(t) ==
  /\ Owner[t] \in there
  /\ Len(handed[t]) < sent[t]
  /\ handed' = [handed EXCEPT ![t] = Append(@, Len(@) + 1)]
  /\ UNCHANGED <<there, sent>>

Go(a) ==
  /\ a \in there
  /\ there' = there \ {a}
  /\ UNCHANGED <<sent, handed>>

Next == \/ \E t \in Task : Send(t) \/ Hand(t)
        \/ \E a \in Actor : Go(a)

Spec == Init /\ [][Next]_vars /\ \A t \in Task : WF_vars(Hand(t))
=============================================================================

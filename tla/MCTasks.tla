------------------------------ MODULE MCTasks ------------------------------
(***************************************************************************)
(* Tasks on a small instance - an actor with a source and a task that     *)
(* listens - and as an implementation of Deliveries.                       *)
(***************************************************************************)
EXTENDS Tasks

CONSTANTS a1, listening, pouring

MCOwner == [t \in {listening, pouring} |-> a1]
MCKind == [t \in {listening, pouring} |-> IF t = pouring THEN "source" ELSE "bg"]

Delivered == INSTANCE Deliveries WITH there <- registry

\* Two queues, a flag and a token shared by threads deliver what one mailbox
\* per task would.
ImplementsDeliveries == Delivered!Spec
=============================================================================

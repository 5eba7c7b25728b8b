---------------------------- MODULE MCRequests ----------------------------
(***************************************************************************)
(* Requests on a small instance: a listener that subscribed before the     *)
(* answerer of the same request, a second request type the two may lead    *)
(* to, and a callback that may come to answer the first once its answerer  *)
(* is gone.                                                                *)
(***************************************************************************)
EXTENDS Requests

CONSTANTS k1, k2, listener, page, agent, callback

MCHears == [h \in Hearer |-> IF h = agent THEN k2 ELSE k1]
MCPlace == [h \in Hearer |-> CASE h = listener -> 1 [] h = page -> 2
                               [] h = agent -> 3 [] h = callback -> 0]
MCStyle == [h \in Hearer |-> CASE h \in {listener, callback} -> {"now"}
                               [] h = page -> {"task", "bg"}
                               [] h = agent -> {"now", "task"}]
=============================================================================

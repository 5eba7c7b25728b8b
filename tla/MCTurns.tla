------------------------------ MODULE MCTurns ------------------------------
(***************************************************************************)
(* Turns on a small instance - two actors, a cell that is observed in one  *)
(* scope and a cell with two listeners in another.                         *)
(***************************************************************************)
EXTENDS Turns

CONSTANTS o1, l1, l2, c1, c2, s1, s2

MCHome == [c \in {c1, c2} |-> IF c = c1 THEN s1 ELSE s2]
MCWatches == [w \in {o1, l1, l2} |-> IF w = o1 THEN c1 ELSE c2]

\* Handlers, observers and listeners are code of the program alike.
MCDoes == [kind \in Code |-> Effects]
MCMaxEffects == [handler |-> 2, observer |-> 1, listener |-> 1]
=============================================================================

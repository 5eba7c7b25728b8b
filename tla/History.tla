------------------------------ MODULE History -------------------------------
(***************************************************************************)
(* What a navigation handle promises of back and forward, as a browser     *)
(* keeps it: where the user was, where they are, and what they stepped     *)
(* back from. It moves only when a navigation arrives.                     *)
(***************************************************************************)
EXTENDS SequencesExt

CONSTANTS Spot, Nowhere

VARIABLES past, here, future

vars == <<past, here, future>>

Init == past = <<>> /\ here = Nowhere /\ future = <<>>

Begin(p) ==
  /\ here = Nowhere
  /\ here' = p
  /\ UNCHANGED <<past, future>>

Visit(p) ==
  /\ here # Nowhere
  /\ past' = Append(past, here)
  /\ here' = p
  /\ future' = <<>>

StepBack ==
  /\ here # Nowhere /\ past # <<>>
  /\ past' = Front(past)
  /\ here' = Last(past)
  /\ future' = Append(future, here)

StepForward ==
  /\ here # Nowhere /\ future # <<>>
  /\ past' = Append(past, here)
  /\ here' = Last(future)
  /\ future' = Front(future)

\* What was here could not be kept.
Lose ==
  /\ here' = Nowhere
  /\ UNCHANGED <<past, future>>

Next == (\E p \in Spot : Begin(p) \/ Visit(p)) \/ StepBack \/ StepForward \/ Lose

Spec == Init /\ [][Next]_vars
=============================================================================

------------------------------ MODULE Promises ------------------------------
(***************************************************************************)
(* What asking promises a caller, without buses, tasks or threads: every   *)
(* call is settled at most once - answered, denied as nobody answers it,   *)
(* or given up by its caller - and an answer that was given is not given   *)
(* up any more.                                                            *)
(***************************************************************************)
CONSTANT Call

VARIABLE promise  \* how each call stands

Init == promise = [c \in Call |-> "unmade"]

Become(c, from, to) ==
  /\ promise[c] = from
  /\ promise' = [promise EXCEPT ![c] = to]

Make(c) == Become(c, "unmade", "open")
Keep(c) == Become(c, "open", "kept")
Deny(c) == Become(c, "open", "denied")

\* A task that is dropped gives up what it waited for.
GiveUp(c) == Become(c, "open", "given up")

Next == \E c \in Call : Make(c) \/ Keep(c) \/ Deny(c) \/ GiveUp(c)

Spec == Init /\ [][Next]_promise
=============================================================================

---------------------------- MODULE ScopeForest ----------------------------
(***************************************************************************)
(* What guinea-core promises of scopes, without an arena, slots or names   *)
(* that could be mistaken for one another: a forest of scopes each made    *)
(* once, and removals that take a scope and everything under it out at one *)
(* stroke and then let go of what they held - children before their        *)
(* parent, the newest child first, each one's resources the last first.    *)
(***************************************************************************)
EXTENDS Naturals, SequencesExt

CONSTANTS Scope, Resource

VARIABLES
  above,     \* the scope each living scope sits under, 0 for a root
  ever,      \* every scope made
  holds,     \* what each living scope was given, the last given last
  leaving,   \* what each removal under way has left to let go of, in order
  letGo      \* what has been let go of, in order

vars == <<above, ever, holds, leaving, letGo>>

Alive == DOMAIN above

\* s and every living scope under it, the least set that holds s and whatever
\* sits under what it holds.
Under(s) ==
  {t \in Alive :
     \A S \in SUBSET Alive :
       s \in S /\ (\A c \in Alive : above[c] \in S => c \in S) => t \in S}

\* What is under a scope goes before it, and what is under a newer child before
\* what is under an older one.  A scope is numbered as it is made, so that of
\* two children the greater is the newer.
GoesBefore(a, b) ==
  \/ a \in Under(b)
  \/ \E older, newer \in Alive :
       /\ older < newer /\ above[older] = above[newer]
       /\ a \in Under(newer) /\ b \in Under(older)

\* How a scope and all that is under it may leave.
LeavingOrder(s) ==
  {order \in Bijection(1..Cardinality(Under(s)), Under(s)) :
     \A m, n \in DOMAIN order : m < n => GoesBefore(order[m], order[n])}

Init ==
  /\ above = <<>>
  /\ ever = {}
  /\ holds = <<>>
  /\ leaving = <<>>
  /\ letGo = <<>>

Make(s, p) ==
  /\ \A e \in ever : s > e
  /\ p \in Alive \cup {0}
  /\ above' = [t \in Alive \cup {s} |-> IF t = s THEN p ELSE above[t]]
  /\ holds' = [t \in Alive \cup {s} |-> IF t = s THEN <<>> ELSE holds[t]]
  /\ ever' = ever \cup {s}
  /\ UNCHANGED <<leaving, letGo>>

Give(s, r) ==
  /\ IF s \in Alive
     THEN holds' = [holds EXCEPT ![s] = Append(@, r)] /\ UNCHANGED letGo
     ELSE letGo' = Append(letGo, r) /\ UNCHANGED holds
  /\ UNCHANGED <<above, ever, leaving>>

Take(s) ==
  /\ s \in Alive
  /\ above' = Restrict(above, Alive \ Under(s))
  /\ holds' = Restrict(holds, Alive \ Under(s))
  /\ \E order \in LeavingOrder(s) :
       leaving' = Append(leaving, FlattenSeq([k \in DOMAIN order |-> Reverse(holds[order[k]])]))
  /\ UNCHANGED <<ever, letGo>>

LetGo ==
  /\ leaving # <<>>
  /\ Last(leaving) # <<>>
  /\ letGo' = Append(letGo, Head(Last(leaving)))
  /\ leaving' = [leaving EXCEPT ![Len(leaving)] = Tail(@)]
  /\ UNCHANGED <<above, ever, holds>>

\* A removal under way ends before the one it was nested in goes on.
Done ==
  /\ leaving # <<>>
  /\ Last(leaving) = <<>>
  /\ leaving' = Front(leaving)
  /\ UNCHANGED <<above, ever, holds, letGo>>

Next ==
  \/ LetGo
  \/ Done
  \/ \E s \in Scope :
       \/ \E p \in Alive \cup {0} : Make(s, p)
       \/ Take(s)
       \/ \E r \in Resource : Give(s, r)

Spec == Init /\ [][Next]_vars
=============================================================================

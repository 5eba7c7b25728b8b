-------------------------------- MODULE Pages --------------------------------
(***************************************************************************)
(* What the user of a guinea application sees of its pages: the segments   *)
(* of the route that stands, each with what was done to it since it was    *)
(* mounted.  A segment both routes have stays as it is; a page that caches *)
(* its state comes back as it was left, in the same place and under the    *)
(* same parameters, as long as there is room for it; everything else is    *)
(* new each time it is entered.                                            *)
(***************************************************************************)
EXTENDS Naturals, Sequences, FiniteSets

CONSTANTS
  Cached,     \* pages that cache their state
  MaxKept     \* how many pages that were left are remembered

VARIABLES
  shown,      \* the segments on screen: [seg, param, edited]
  remembered  \* pages that were left, by place: [param, edited]

vars == <<shown, remembered>>

New(segment) == segment.edited = FALSE
PlaceOf(segments) == [j \in DOMAIN segments |-> segments[j].seg]
IsPage(segments, stay) == Len(segments) > stay /\ segments[Len(segments)].seg \in Cached

Init ==
  /\ \A i \in DOMAIN shown : New(shown[i])
  /\ remembered = <<>>

Edit(i) ==
  /\ \E e \in BOOLEAN : shown' = [shown EXCEPT ![i].edited = e]
  /\ UNCHANGED remembered

\* The page the route ends in is remembered when it goes.
Leave(stay) ==
  LET page == shown[Len(shown)]
      place == PlaceOf(shown)
  IN IF IsPage(shown, stay)
     THEN [p \in DOMAIN remembered \cup {place} |->
            IF p = place THEN [param |-> page.param, edited |-> page.edited] ELSE remembered[p]]
     ELSE remembered

Forgetting(memory, forgotten) == [p \in DOMAIN memory \ forgotten |-> memory[p]]

\* All but the first `stay` segments go, and those of another route come. The
\* page that goes takes its room before the one that comes leaves its own.
Go(stay) ==
  \E forgotten \in SUBSET (DOMAIN remembered \cup {PlaceOf(shown)}) :
    LET left == Leave(stay)
        memory == Forgetting(left, forgotten)
        last == Len(shown')
        place == PlaceOf(shown')
        returns == IsPage(shown', stay) /\ place \in DOMAIN memory
                     /\ memory[place].param = shown'[last].param
    IN /\ Cardinality(forgotten) <= IF Cardinality(DOMAIN left) > MaxKept THEN 1 ELSE 0
       /\ stay <= last
       /\ \A i \in 1..stay : shown'[i] = shown[i]
       /\ \A i \in (stay + 1)..last :
            IF i = last /\ returns THEN shown'[i].edited = memory[place].edited ELSE New(shown'[i])
       /\ remembered' = IF IsPage(shown', stay) THEN Forgetting(memory, {place}) ELSE memory

Next == (\E i \in DOMAIN shown : Edit(i)) \/ (\E stay \in 0..Len(shown) : Go(stay))

Spec == Init /\ [][Next]_vars
=============================================================================

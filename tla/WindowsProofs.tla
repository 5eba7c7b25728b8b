--------------------------- MODULE WindowsProofs ----------------------------
(***************************************************************************)
(* What holds of the windows of an application for any pages, any number   *)
(* of windows and any number of scopes, whatever moves fail.               *)
(***************************************************************************)
EXTENDS Windows, TLAPS

\* A page in one of the first n scopes.
Scoped(n) == [scope : 1..n, route : Route]

TypeOK ==
  /\ phase \in {"running", "exiting", "over"}
  /\ opening \in Nat /\ next \in Nat \ {0} /\ made \in Nat
  /\ standing \subseteq Window /\ main \in standing \cup {0}
  /\ at \in [Window -> Scoped(made) \cup {Gone}]
  /\ asleep \in [Window -> SUBSET Scoped(made)]
  /\ parked \in [Window -> Route \cup {Nowhere}]
  /\ staged \in [Page -> Nat]
  /\ shown \in [Window -> [scope : 0..made, ty : Page \cup {"nothing"}, node : Nat, edited : BOOLEAN]]
  /\ stale \in [Window -> BOOLEAN]
  /\ updating \in Window \cup {0}

\* Windows stand in the order they were made, the next one has its number
\* free, and nothing is shown by one that is not there, nor is it in an `update`.
WindowInv ==
  /\ \A w \in standing : w < next
  /\ opening > 0 => next + opening <= MaxWindows + 1
  /\ \A w \in Window : w \notin standing \/ at[w] = Gone =>
       at[w] = Gone /\ shown[w] = Blank /\ stale[w] = FALSE /\ parked[w] = Nowhere
  /\ updating # 0 => updating \in standing /\ at[updating] # Gone

\* What sleeps may sleep.
SleepInv == \A w \in Window : \A page \in asleep[w] : page.route.ty \in Keep

Unsettled(w) == at[w].scope # shown[w].scope

\* One window at a time is between its page and its component, and while it
\* is, the node of its page is the one that waits under the type.
StagingInv ==
  /\ \A w, v \in Window : Unsettled(w) /\ Unsettled(v) => w = v
  /\ \A w \in Window : Unsettled(w) /\ at[w].route.ty \notin Keep => staged[at[w].route.ty] = at[w].scope
  /\ \A w \in Window : at[w] # Gone /\ ~Unsettled(w) /\ at[w].route.ty \notin Keep => shown[w].node = at[w].scope

BaseInv == TypeOK /\ WindowInv /\ SleepInv

\* Until the first window is there nothing else is, and from then on the main
\* window stands, up to the exit.
EndInv ==
  /\ next = 1 => opening = 1 /\ standing = {} /\ main = 0 /\ phase # "exiting"
  /\ next # 1 /\ phase = "running" => main # 0
  /\ phase = "exiting" => opening = 0 /\ standing \subseteq {w \in {1} : at[w] = Gone}

-----------------------------------------------------------------------------
(* How a router moves. *)

\* What a navigation that is not held up may do to the pages.
LEMMA Moves ==
  ASSUME BaseInv, NEW w \in Window, at[w] # Gone, NEW r \in Route, NEW heard \in BOOLEAN, Commit(w, r, heard)
  PROVE  /\ \/ UNCHANGED <<made, at, staged>>
            \/ /\ at[w].route # r /\ UNCHANGED <<made, staged>>
               /\ \E page \in asleep[w] : at' = [at EXCEPT ![w] = page]
            \/ at[w].route # r /\ \E route \in Route : Install(w, route)
         /\ stale' \in [Window -> BOOLEAN]
         /\ asleep' \in [Window -> SUBSET Scoped(made)]
         /\ \A v \in Window : v # w => stale'[v] = stale[v]
         /\ \A v \in Window : \A page \in asleep'[v] : page.route.ty \in Keep
<1>0. /\ at \in [Window -> Scoped(made) \cup {Gone}] /\ asleep \in [Window -> SUBSET Scoped(made)]
      /\ stale \in [Window -> BOOLEAN]
      /\ \A v \in Window : \A page \in asleep[v] : page.route.ty \in Keep
  BY DEF BaseInv, TypeOK, SleepInv
<1>1. at[w] \in Scoped(made) /\ at[w].route \in Route
  BY <1>0 DEF Scoped
<1>2. PutDown(w) \in SUBSET Scoped(made) /\ \A page \in PutDown(w) : page.route.ty \in Keep
  BY <1>0, <1>1 DEF PutDown
<1>3. CASE Stay(w, r)
  BY <1>0, <1>3 DEF Stay
<1>4. CASE Wake(w, r)
  <2>1. PICK page \in Bed(w, r.ty) : /\ at' = [at EXCEPT ![w] = page]
                                     /\ asleep' = [asleep EXCEPT ![w] = PutDown(w) \ {page}]
    BY <1>4 DEF Wake
  <2>2. page \in asleep[w] /\ at[w].route # r /\ UNCHANGED <<made, staged>> /\ stale' = [stale EXCEPT ![w] = TRUE]
    BY <1>4 DEF Wake, Bed
  <2>. QED
    BY <1>0, <1>2, <2>1, <2>2
<1>5. CASE Arrive(w, r)
  <2>1. /\ at[w].route # r /\ Install(w, r) /\ stale' = [stale EXCEPT ![w] = TRUE]
        /\ asleep' = [asleep EXCEPT ![w] = {page \in PutDown(w) : page.route.ty # r.ty}]
    BY <1>5 DEF Arrive, Sleepless
  <2>. QED
    BY <1>0, <1>2, <2>1
<1>6. CASE FallBack(w, r, heard)
  <2>1. /\ at[w].route # r
        /\ UNCHANGED <<made, at, staged>> \/ Install(w, at[w].route)
        /\ stale' = [stale EXCEPT ![w] = stale[w] \/ heard]
        /\ asleep' = [asleep EXCEPT ![w] = asleep[w] \ Bed(w, r.ty)]
    BY <1>6 DEF FallBack, Sleepless
  <2>2. stale' \in [Window -> BOOLEAN]
    BY <1>0, <2>1
  <2>3. \A v \in Window : v # w => stale'[v] = stale[v]
    BY <1>0, <2>1
  <2>4. \A v \in Window : asleep'[v] \subseteq asleep[v]
    BY <1>0, <2>1
  <2>5. asleep' \in [Window -> SUBSET Scoped(made)]
    BY <1>0, <2>1
  <2>6. \A v \in Window : \A page \in asleep'[v] : page.route.ty \in Keep
    BY <1>0, <2>4
  <2>. QED
    BY <1>1, <2>1, <2>2, <2>3, <2>5, <2>6
<1>. QED
  BY <1>3, <1>4, <1>5, <1>6 DEF Commit

\* A window whose router moves, is asked, or answers.
Moved(w) ==
  /\ w \in standing /\ at[w] # Gone /\ phase # "over" /\ Settled(w)
  /\ \/ UNCHANGED <<made, at, staged>>
     \/ UNCHANGED <<made, staged>> /\ \E page \in asleep[w] : at' = [at EXCEPT ![w] = page]
     \/ \E route \in Route : Install(w, route)
  /\ stale' \in [Window -> BOOLEAN]
  /\ parked' \in [Window -> Route \cup {Nowhere}]
  /\ asleep' \in [Window -> SUBSET Scoped(made)]
  /\ \A v \in Window : v # w => stale'[v] = stale[v] /\ parked'[v] = parked[v]
  /\ \A v \in Window : \A page \in asleep'[v] : page.route.ty \in Keep
  /\ UNCHANGED <<life, shown, updating>>

LEMMA NavigateMoves ==
  ASSUME BaseInv, NEW w \in Window, NEW r \in Route, Navigate(w, r)
  PROVE  Moved(w)
<1>0. /\ stale \in [Window -> BOOLEAN] /\ parked \in [Window -> Route \cup {Nowhere}]
      /\ asleep \in [Window -> SUBSET Scoped(made)]
      /\ \A v \in Window : \A page \in asleep[v] : page.route.ty \in Keep
  BY DEF BaseInv, TypeOK, SleepInv
<1>1. at[w] # Gone /\ phase # "over" /\ Settled(w) /\ UNCHANGED <<life, shown, updating>>
  BY DEF Navigate
<1>2. w \in standing
  BY <1>1 DEF BaseInv, WindowInv
<1>3. parked' \in [Window -> Route \cup {Nowhere}] /\ \A v \in Window : v # w => parked'[v] = parked[v]
  BY <1>0 DEF Navigate
<1>4. \/ stale' = [stale EXCEPT ![w] = TRUE] /\ UNCHANGED <<made, at, asleep, staged>>
      \/ \E heard \in BOOLEAN : Commit(w, r, heard)
  BY DEF Navigate
<1>. QED
  BY <1>0, <1>1, <1>2, <1>3, <1>4, Moves DEF Moved

LEMMA AnswerMoves ==
  ASSUME BaseInv, NEW w \in Window, NEW yes \in BOOLEAN, Answer(w, yes)
  PROVE  Moved(w)
<1>0. /\ stale \in [Window -> BOOLEAN] /\ parked \in [Window -> Route \cup {Nowhere}]
      /\ asleep \in [Window -> SUBSET Scoped(made)]
      /\ \A v \in Window : \A page \in asleep[v] : page.route.ty \in Keep
  BY DEF BaseInv, TypeOK, SleepInv
<1>1. parked[w] # Nowhere /\ phase # "over" /\ Settled(w) /\ UNCHANGED <<life, shown, updating>>
  BY DEF Answer
<1>2. w \in standing /\ at[w] # Gone /\ parked[w] \in Route
  BY <1>0, <1>1 DEF BaseInv, WindowInv
<1>3. parked' \in [Window -> Route \cup {Nowhere}] /\ \A v \in Window : v # w => parked'[v] = parked[v]
  BY <1>0 DEF Answer
<1>4. \/ stale' = [stale EXCEPT ![w] = TRUE] /\ UNCHANGED <<made, at, asleep, staged>>
      \/ Commit(w, parked[w], TRUE)
  BY DEF Answer
<1>. QED
  BY <1>0, <1>1, <1>2, <1>3, <1>4, Moves DEF Moved

-----------------------------------------------------------------------------
(* Types, and what is where. *)

LEMMA InitBase == Init => BaseInv
BY WindowsAssumption DEF Init, BaseInv, TypeOK, WindowInv, SleepInv, Gone, Blank, Window

\* Where pages go, and in which scopes.
LEMMA MoreScopes ==
  ASSUME BaseInv, made' \in {made, made + 1}
  PROVE  /\ made' \in Nat /\ made' \in 0..made' /\ 0..made \subseteq 0..made' /\ Scoped(made) \subseteq Scoped(made')
         /\ made' # made => made' \in 1..made' /\ made' \notin 0..made
<1>1. made \in Nat
  BY DEF BaseInv, TypeOK
<1>2. made' \in Nat /\ made' \in 0..made' /\ 0..made \subseteq 0..made' /\ 1..made \subseteq 1..made'
  BY <1>1
<1>3. made' # made => made' \in 1..made' /\ made' \notin 0..made
  BY <1>1
<1>. QED
  BY <1>2, <1>3 DEF Scoped

LEMMA WhereMoved ==
  ASSUME BaseInv, NEW w \in Window, Moved(w)
  PROVE  /\ made' \in {made, made + 1}
         /\ at' \in [Window -> Scoped(made') \cup {Gone}] /\ staged' \in [Page -> Nat]
         /\ at'[w] \in Scoped(made') /\ \A v \in Window : v # w => at'[v] = at[v]
<1>0. /\ made \in Nat /\ at \in [Window -> Scoped(made) \cup {Gone}] /\ staged \in [Page -> Nat]
      /\ asleep \in [Window -> SUBSET Scoped(made)] /\ at[w] # Gone
  BY DEF BaseInv, TypeOK, Moved
<1>1. ASSUME NEW page \in Scoped(made'), Scoped(made) \subseteq Scoped(made'), at' = [at EXCEPT ![w] = page]
      PROVE  /\ at' \in [Window -> Scoped(made') \cup {Gone}]
             /\ at'[w] \in Scoped(made') /\ \A v \in Window : v # w => at'[v] = at[v]
  BY <1>0, <1>1
<1>2. CASE UNCHANGED <<made, at, staged>>
  BY <1>0, <1>2 DEF Scoped
<1>3. ASSUME NEW page \in asleep[w], at' = [at EXCEPT ![w] = page], UNCHANGED <<made, staged>>
      PROVE  /\ at' \in [Window -> Scoped(made') \cup {Gone}]
             /\ at'[w] \in Scoped(made') /\ \A v \in Window : v # w => at'[v] = at[v]
  <2>1. page \in Scoped(made') /\ Scoped(made') = Scoped(made)
    BY <1>0, <1>3
  <2>. QED
    BY <1>1, <1>3, <2>1
<1>4. ASSUME NEW route \in Route, Install(w, route)
      PROVE  /\ made' = made + 1 /\ staged' \in [Page -> Nat]
             /\ at' \in [Window -> Scoped(made') \cup {Gone}]
             /\ at'[w] \in Scoped(made') /\ \A v \in Window : v # w => at'[v] = at[v]
  <2>1. made' = made + 1 /\ at' = [at EXCEPT ![w] = [scope |-> made', route |-> route]]
    BY <1>4 DEF Install
  <2>2. made' \in Nat /\ made' \in 1..made' /\ Scoped(made) \subseteq Scoped(made')
    BY <1>0, <2>1, MoreScopes
  <2>3. [scope |-> made', route |-> route] \in Scoped(made')
    BY <2>2 DEF Scoped
  <2>4. staged' \in [Page -> Nat]
    BY <1>0, <1>4, <2>2 DEF Install
  <2>. QED
    BY <1>1, <2>1, <2>2, <2>3, <2>4
<1>. QED
  BY <1>0, <1>2, <1>3, <1>4 DEF Moved

LEMMA MoveKeepsBase ==
  ASSUME BaseInv, NEW w \in Window, Moved(w)
  PROVE  BaseInv'
<1>1. /\ made' \in {made, made + 1}
      /\ at' \in [Window -> Scoped(made') \cup {Gone}] /\ staged' \in [Page -> Nat]
      /\ at'[w] \in Scoped(made') /\ \A v \in Window : v # w => at'[v] = at[v]
  BY WhereMoved
<1>2. /\ made' \in Nat /\ 0..made \subseteq 0..made' /\ Scoped(made) \subseteq Scoped(made')
  BY <1>1, MoreScopes
<1>3. at'[w] # Gone
  BY <1>1 DEF Scoped, Gone
<1>4. asleep' \in [Window -> SUBSET Scoped(made')]
  BY <1>2 DEF Moved
<1>5. shown' \in [Window -> [scope : 0..made', ty : Page \cup {"nothing"}, node : Nat, edited : BOOLEAN]]
  <2>1. shown' = shown
    BY DEF Moved
  <2>2. shown \in [Window -> [scope : 0..made, ty : Page \cup {"nothing"}, node : Nat, edited : BOOLEAN]]
    BY DEF BaseInv, TypeOK
  <2>. QED
    BY <1>2, <2>1, <2>2
<1>6. TypeOK'
  BY <1>1, <1>2, <1>4, <1>5 DEF BaseInv, TypeOK, Moved, life
<1>7. WindowInv'
  <2>1. UNCHANGED <<opening, next, standing, shown, updating>> /\ w \in standing
    BY DEF Moved, life
  <2>2. \A v \in Window : v # w => at'[v] = at[v] /\ stale'[v] = stale[v] /\ parked'[v] = parked[v]
    BY <1>1 DEF Moved
  <2>3. updating' # 0 => updating' \in standing' /\ at'[updating'] # Gone
    <3>1. SUFFICES ASSUME updating # 0 PROVE updating \in standing /\ at'[updating] # Gone
      BY <2>1
    <3>2. updating \in standing /\ updating \in Window /\ at[updating] # Gone
      BY <3>1 DEF BaseInv, TypeOK, WindowInv
    <3>. QED
      BY <1>3, <2>2, <3>2
  <2>4. \A v \in Window : v \notin standing' \/ at'[v] = Gone =>
          at'[v] = Gone /\ shown'[v] = Blank /\ stale'[v] = FALSE /\ parked'[v] = Nowhere
    BY <1>3, <2>1, <2>2 DEF BaseInv, WindowInv
  <2>. QED
    BY <2>1, <2>3, <2>4 DEF BaseInv, WindowInv
<1>8. SleepInv'
  BY DEF SleepInv, Moved
<1>. QED
  BY <1>6, <1>7, <1>8 DEF BaseInv

\* The page a window opens with.
LEMMA MountKeepsBase ==
  ASSUME BaseInv, NEW r \in Route, NEW installs \in BOOLEAN, Mount(r, installs)
  PROVE  BaseInv' /\ next \in Window /\ next \notin standing /\ at[next] = Gone /\ shown[next] = Blank
<1>0. /\ MaxWindows \in Nat /\ opening \in Nat \ {0} /\ next \in Nat \ {0} /\ made \in Nat
      /\ standing \subseteq Window
      /\ at \in [Window -> Scoped(made) \cup {Gone}]
      /\ shown \in [Window -> [scope : 0..made, ty : Page \cup {"nothing"}, node : Nat, edited : BOOLEAN]]
      /\ staged \in [Page -> Nat] /\ asleep \in [Window -> SUBSET Scoped(made)]
  BY WindowsAssumption DEF BaseInv, TypeOK, Mount
<1>1. next \in Window /\ next \notin standing
  <2>1. next + opening <= MaxWindows + 1
    BY <1>0 DEF BaseInv, WindowInv
  <2>2. next \in Window
    BY <1>0, <2>1 DEF Window
  <2>3. \A w \in standing : w < next /\ w \in Nat
    BY <1>0 DEF BaseInv, WindowInv, Window
  <2>. QED
    BY <1>0, <2>2, <2>3
<1>2. at[next] = Gone /\ shown[next] = Blank
  BY <1>1 DEF BaseInv, WindowInv
<1>3. /\ opening' = opening - 1 /\ next' = next + 1 /\ standing' = standing \cup {next}
      /\ main' \in {main, next} /\ phase' \in {phase, "exiting"} /\ UNCHANGED <<asleep, parked, stale>>
      /\ made' \in {made, made + 1} /\ updating = 0 /\ updating' = 0
  BY DEF Mount, Names, Turn
<1>4. opening' \in Nat /\ next' \in Nat \ {0}
  BY <1>0, <1>3
<1>5. /\ made' \in Nat /\ made' \in 0..made' /\ 0..made \subseteq 0..made' /\ Scoped(made) \subseteq Scoped(made')
      /\ made' # made => made' \in 1..made'
  BY <1>3, MoreScopes
<1>6. /\ at' \in [Window -> Scoped(made') \cup {Gone}] /\ staged' \in [Page -> Nat]
      /\ shown' \in [Window -> [scope : 0..made', ty : Page \cup {"nothing"}, node : Nat, edited : BOOLEAN]]
      /\ \A v \in Window : v # next => at'[v] = at[v] /\ shown'[v] = shown[v]
      /\ at'[next] = Gone => shown'[next] = Blank
  <2>1. CASE installs
    <3>1. /\ made' = made + 1
          /\ at' = [at EXCEPT ![next] = [scope |-> made', route |-> r]]
          /\ staged' = [staged EXCEPT ![r.ty] = 0]
          /\ shown' = [shown EXCEPT ![next] = [scope |-> made', ty |-> r.ty, node |-> made', edited |-> FALSE]]
      BY <2>1 DEF Mount
    <3>2. made' \in 1..made' /\ [scope |-> made', route |-> r] \in Scoped(made')
      BY <1>0, <1>5, <3>1 DEF Scoped
    <3>3. at' \in [Window -> Scoped(made') \cup {Gone}] /\ staged' \in [Page -> Nat]
      BY <1>0, <1>5, <3>1, <3>2
    <3>4. [scope |-> made', ty |-> r.ty, node |-> made', edited |-> FALSE]
             \in [scope : 0..made', ty : Page \cup {"nothing"}, node : Nat, edited : BOOLEAN]
      BY <1>5 DEF Route
    <3>5. shown' \in [Window -> [scope : 0..made', ty : Page \cup {"nothing"}, node : Nat, edited : BOOLEAN]]
      BY <1>0, <1>5, <3>1, <3>4
    <3>6. at'[next] # Gone
      BY <1>0, <1>1, <3>1, <3>2 DEF Gone
    <3>. QED
      BY <1>0, <3>1, <3>3, <3>5, <3>6
  <2>2. CASE ~installs
    <3>1. UNCHANGED <<made, at, staged, shown>>
      BY <2>2 DEF Mount
    <3>. QED
      BY <1>0, <1>2, <1>3, <3>1
  <2>. QED
    BY <2>1, <2>2
<1>7. TypeOK'
  <2>1. asleep' \in [Window -> SUBSET Scoped(made')]
    BY <1>0, <1>3, <1>5
  <2>. QED
    BY <1>0, <1>1, <1>3, <1>4, <1>5, <1>6, <2>1 DEF BaseInv, TypeOK
<1>8. WindowInv'
  <2>1. \A w \in standing' : w < next'
    <3>1. \A w \in standing : w < next /\ w \in Nat
      BY <1>0 DEF BaseInv, WindowInv, Window
    <3>. QED
      BY <1>0, <1>3, <3>1
  <2>2. opening' > 0 => next' + opening' <= MaxWindows + 1
    <3>1. next + opening <= MaxWindows + 1
      BY <1>0 DEF BaseInv, WindowInv
    <3>. QED
      BY <1>0, <1>3, <3>1
  <2>3. ASSUME NEW w \in Window, w \notin standing' \/ at'[w] = Gone
        PROVE  at'[w] = Gone /\ shown'[w] = Blank /\ stale'[w] = FALSE /\ parked'[w] = Nowhere
    <3>1. stale[next] = FALSE /\ parked[next] = Nowhere
      BY <1>1 DEF BaseInv, WindowInv
    <3>2. CASE w = next
      BY <1>3, <1>6, <2>3, <3>1, <3>2
    <3>3. CASE w # next
      BY <1>3, <1>6, <2>3, <3>3 DEF BaseInv, WindowInv
    <3>. QED
      BY <3>2, <3>3
  <2>. QED
    BY <1>3, <2>1, <2>2, <2>3 DEF WindowInv
<1>9. SleepInv'
  BY <1>3 DEF BaseInv, SleepInv
<1>. QED
  BY <1>1, <1>2, <1>7, <1>8, <1>9 DEF BaseInv

LEMMA CloseKeepsBase ==
  ASSUME BaseInv, NEW w \in Window, Close(w)
  PROVE  BaseInv'
<1>0. /\ made \in Nat /\ at \in [Window -> Scoped(made) \cup {Gone}]
      /\ shown \in [Window -> [scope : 0..made, ty : Page \cup {"nothing"}, node : Nat, edited : BOOLEAN]]
      /\ asleep \in [Window -> SUBSET Scoped(made)]
  BY DEF BaseInv, TypeOK
<1>1. Blank \in [scope : 0..made, ty : Page \cup {"nothing"}, node : Nat, edited : BOOLEAN]
  BY <1>0 DEF Blank
<1>2. TypeOK'
  BY <1>0, <1>1 DEF BaseInv, TypeOK, Close, Turn
<1>3. WindowInv'
  BY <1>0 DEF BaseInv, TypeOK, WindowInv, Close, Turn
<1>4. SleepInv'
  BY <1>0 DEF BaseInv, SleepInv, Close
<1>. QED
  BY <1>2, <1>3, <1>4 DEF BaseInv

LEMMA EndKeepsBase == BaseInv /\ End => BaseInv'
<1> SUFFICES ASSUME BaseInv, End PROVE BaseInv'
  OBVIOUS
<1>0. made \in Nat
  BY DEF BaseInv, TypeOK
<1>1. Blank \in [scope : 0..made, ty : Page \cup {"nothing"}, node : Nat, edited : BOOLEAN]
  BY <1>0 DEF Blank
<1>2. TypeOK'
  BY <1>0, <1>1 DEF BaseInv, TypeOK, End, Turn
<1>3. WindowInv' /\ SleepInv'
  BY DEF BaseInv, WindowInv, SleepInv, End, Turn
<1>. QED
  BY <1>2, <1>3 DEF BaseInv

\* The component and its node after a composition.
LEMMA Composing ==
  ASSUME BaseInv, NEW w \in Window, Compose(w)
  PROVE  /\ at[w] # Gone
         /\ shown'[w].scope = at[w].scope
         /\ Unsettled(w) => shown'[w].node = staged[at[w].route.ty] /\ staged' = [staged EXCEPT ![at[w].route.ty] = 0]
         /\ ~Unsettled(w) => shown'[w].node = shown[w].node /\ staged' = staged
         /\ \A v \in Window : v # w => shown'[v] = shown[v]
         /\ BaseInv'
<1>0. /\ made \in Nat /\ at \in [Window -> Scoped(made) \cup {Gone}] /\ staged \in [Page -> Nat]
      /\ shown \in [Window -> [scope : 0..made, ty : Page \cup {"nothing"}, node : Nat, edited : BOOLEAN]]
  BY DEF BaseInv, TypeOK
<1>1. at[w] # Gone /\ w \in standing
  BY DEF Compose, BaseInv, WindowInv
<1>2. at[w] \in Scoped(made) /\ at[w].route.ty \in Page /\ at[w].scope \in 0..made /\ staged[at[w].route.ty] \in Nat
  BY <1>0, <1>1 DEF Scoped, Route
<1>3. Same(shown[w], at[w]) <=> ~Unsettled(w)
  BY DEF Same, Unsettled
<1> DEFINE new == [scope |-> at[w].scope, ty |-> at[w].route.ty,
                   node |-> IF Same(shown[w], at[w]) THEN shown[w].node ELSE staged[at[w].route.ty],
                   edited |-> Same(shown[w], at[w]) /\ shown[w].edited]
<1>4. shown' = [shown EXCEPT ![w] = new] /\ UNCHANGED <<life, made, at, asleep, parked, updating>>
  BY DEF Compose, Turn
<1>5. new \in [scope : 0..made, ty : Page \cup {"nothing"}, node : Nat, edited : BOOLEAN]
  <2>1. shown[w].node \in Nat /\ shown[w].edited \in BOOLEAN
    BY <1>0
  <2>2. Same(shown[w], at[w]) \in BOOLEAN
    BY DEF Same
  <2>3. (Same(shown[w], at[w]) /\ shown[w].edited) \in BOOLEAN
    BY <2>1, <2>2
  <2>. QED
    BY <1>2, <2>1, <2>3
<1>6. new.scope = at[w].scope /\ new.node = IF Same(shown[w], at[w]) THEN shown[w].node ELSE staged[at[w].route.ty]
  OBVIOUS
<1> HIDE DEF new
<1>7. /\ shown' \in [Window -> [scope : 0..made, ty : Page \cup {"nothing"}, node : Nat, edited : BOOLEAN]]
      /\ shown'[w] = new /\ \A v \in Window : v # w => shown'[v] = shown[v]
  BY <1>0, <1>4, <1>5
<1>8. staged' = IF Same(shown[w], at[w]) THEN staged ELSE [staged EXCEPT ![at[w].route.ty] = 0]
  BY DEF Compose
<1>9. staged' \in [Page -> Nat]
  BY <1>0, <1>8
<1>10. stale' \in [Window -> BOOLEAN] /\ \A v \in Window : stale[v] = FALSE => stale'[v] = FALSE
  BY DEF Compose, BaseInv, TypeOK
<1>11. TypeOK'
  BY <1>4, <1>7, <1>9, <1>10 DEF BaseInv, TypeOK, life
<1>12. WindowInv'
  BY <1>1, <1>4, <1>7, <1>10 DEF BaseInv, WindowInv, life
<1>13. SleepInv'
  BY <1>4 DEF BaseInv, SleepInv
<1>. QED
  BY <1>1, <1>3, <1>6, <1>7, <1>8, <1>11, <1>12, <1>13 DEF BaseInv

LEMMA Editing ==
  ASSUME BaseInv, NEW w \in Window, Edit(w)
  PROVE  /\ BaseInv' /\ UNCHANGED <<life, made, at, asleep, parked, staged, stale, updating>>
         /\ \A v \in Window : shown'[v].scope = shown[v].scope /\ shown'[v].node = shown[v].node
<1>0. shown \in [Window -> [scope : 0..made, ty : Page \cup {"nothing"}, node : Nat, edited : BOOLEAN]]
  BY DEF BaseInv, TypeOK
<1>1. /\ shown' = [shown EXCEPT ![w].edited = ~shown[w].edited]
      /\ UNCHANGED <<life, made, at, asleep, parked, staged, stale, updating>>
  BY DEF Edit
<1>2. \A v \in Window : v # w => shown'[v] = shown[v]
  BY <1>0, <1>1
<1>3. /\ shown' \in [Window -> [scope : 0..made, ty : Page \cup {"nothing"}, node : Nat, edited : BOOLEAN]]
      /\ shown'[w].scope = shown[w].scope /\ shown'[w].node = shown[w].node
  BY <1>0, <1>1
<1>4. TypeOK'
  BY <1>1, <1>3 DEF BaseInv, TypeOK, life
<1>5. w \in standing /\ at[w] # Gone
  <2>1. updating = w /\ w # 0
    BY DEF Edit, Window
  <2>. QED
    BY <2>1 DEF BaseInv, WindowInv
<1>6. WindowInv'
  BY <1>1, <1>2, <1>5 DEF BaseInv, WindowInv, life
<1>7. SleepInv'
  BY <1>1 DEF BaseInv, SleepInv
<1>. QED
  BY <1>1, <1>2, <1>3, <1>4, <1>6, <1>7 DEF BaseInv

\* A page's `update` begins, or returns.
LEMMA Updating ==
  ASSUME BaseInv, Updated \/ \E w \in Window : Update(w)
  PROVE  BaseInv' /\ UNCHANGED <<life, made, at, asleep, parked, staged, shown, stale>>
<1>1. UNCHANGED <<life, made, at, asleep, parked, staged, shown, stale>>
  BY DEF Updated, Update
<1>2. updating' \in Window \cup {0} /\ (updating' # 0 => updating' \in standing /\ at[updating'] # Gone)
  <2>1. CASE Updated
    BY <2>1 DEF Updated
  <2>2. ASSUME NEW w \in Window, Update(w)
        PROVE  updating' = w /\ w \in standing /\ at[w] # Gone
    BY <2>2 DEF Update, BaseInv, WindowInv
  <2>. QED
    BY <2>1, <2>2
<1>. QED
  BY <1>1, <1>2 DEF BaseInv, TypeOK, WindowInv, SleepInv, life

LEMMA Opening ==
  ASSUME BaseInv, NEW w \in Window, OpenWindow(w)
  PROVE  BaseInv'
<1>1. /\ MaxWindows \in Nat /\ opening \in Nat /\ next \in Nat /\ next + opening <= MaxWindows
      /\ opening' = opening + 1
      /\ UNCHANGED <<phase, next, standing, main, made, at, asleep, parked, staged, shown, stale, updating>>
  BY WindowsAssumption DEF BaseInv, TypeOK, OpenWindow, Turn
<1>2. opening' \in Nat /\ next' + opening' <= MaxWindows + 1
  BY <1>1
<1>. QED
  BY <1>1, <1>2 DEF BaseInv, TypeOK, WindowInv, SleepInv

-----------------------------------------------------------------------------
(* What a window shows. *)

\* What a step is, to the pages and to what is shown of them.
LEMMA NextSteps ==
  ASSUME BaseInv, Next
  PROVE  \/ \E r \in Route, installs \in BOOLEAN : Mount(r, installs)
         \/ \E w \in Window : OpenWindow(w) \/ Close(w) \/ Compose(w) \/ Edit(w) \/ Moved(w)
         \/ Updated \/ \E w \in Window : Update(w)
         \/ End
BY NavigateMoves, AnswerMoves DEF Next

LEMMA NextKeepsBase == BaseInv /\ [Next]_vars => BaseInv'
<1> SUFFICES ASSUME BaseInv, [Next]_vars PROVE BaseInv'
  OBVIOUS
<1>1. CASE Next
  BY <1>1, NextSteps, MountKeepsBase, MoveKeepsBase, CloseKeepsBase, EndKeepsBase, Composing, Editing, Updating, Opening
<1>2. CASE UNCHANGED vars
  BY <1>2 DEF vars, BaseInv, TypeOK, WindowInv, SleepInv
<1>. QED
  BY <1>1, <1>2

LEMMA BaseHolds == Spec => []BaseInv
BY InitBase, NextKeepsBase, PTL DEF Spec

LEMMA InitStaging == Init => StagingInv
BY DEF Init, StagingInv, Unsettled, Gone, Blank

LEMMA KeepsStaging ==
  ASSUME ~Together, BaseInv, StagingInv, Next
  PROVE  StagingInv'
<1>0. /\ made \in Nat /\ at \in [Window -> Scoped(made) \cup {Gone}] /\ staged \in [Page -> Nat]
      /\ asleep \in [Window -> SUBSET Scoped(made)]
      /\ shown \in [Window -> [scope : 0..made, ty : Page \cup {"nothing"}, node : Nat, edited : BOOLEAN]]
  BY DEF BaseInv, TypeOK
<1>1. \A w \in Window : w \notin standing \/ at[w] = Gone => ~Unsettled(w)
  BY DEF BaseInv, WindowInv, Unsettled, Gone, Blank
\* One window changes what it shows or where it is, while no other is between
\* the two.
<1>2. ASSUME NEW w \in Window, \A v \in Window : v # w => ~Unsettled(v) /\ at'[v] = at[v] /\ shown'[v] = shown[v],
             Unsettled(w)' /\ at'[w].route.ty \notin Keep => staged'[at'[w].route.ty] = at'[w].scope,
             at'[w] # Gone /\ ~Unsettled(w)' /\ at'[w].route.ty \notin Keep => shown'[w].node = at'[w].scope
      PROVE  StagingInv'
  <2>1. \A v \in Window : v # w => ~Unsettled(v)'
    BY <1>2 DEF Unsettled
  <2>2. \A v \in Window : v # w /\ at'[v] # Gone /\ at'[v].route.ty \notin Keep => shown'[v].node = at'[v].scope
    BY <1>2 DEF StagingInv
  <2>. QED
    BY <1>2, <2>1, <2>2 DEF StagingInv
<1>3. ASSUME NEW r \in Route, NEW installs \in BOOLEAN, Mount(r, installs) PROVE StagingInv'
  <2>1. next \in Window /\ at[next] = Gone /\ \A v \in Window : v # next => ~Unsettled(v)
    BY <1>3, MountKeepsBase DEF Mount, Settled, Unsettled
  <2>2. CASE installs
    <3>1. /\ at' = [at EXCEPT ![next] = [scope |-> made', route |-> r]]
          /\ shown' = [shown EXCEPT ![next] = [scope |-> made', ty |-> r.ty, node |-> made', edited |-> FALSE]]
      BY <1>3, <2>2 DEF Mount
    <3>2. /\ at'[next].scope = made' /\ shown'[next].scope = made' /\ shown'[next].node = made'
          /\ \A v \in Window : v # next => at'[v] = at[v] /\ shown'[v] = shown[v]
      BY <1>0, <2>1, <3>1
    <3>. QED
      BY <1>2, <2>1, <3>2 DEF Unsettled
  <2>3. CASE ~installs
    <3>1. UNCHANGED <<at, staged, shown>>
      BY <1>3, <2>3 DEF Mount
    <3>. QED
      BY <3>1 DEF StagingInv, Unsettled
  <2>. QED
    BY <2>2, <2>3
<1>4. ASSUME NEW w \in Window, Moved(w) PROVE StagingInv'
  <2>1. \A v \in Window : v # w => ~Unsettled(v)
    BY <1>4 DEF Moved, Settled, Unsettled
  <2>2. shown' = shown /\ at[w] # Gone /\ \A v \in Window : v # w => at'[v] = at[v]
    BY <1>4, WhereMoved DEF Moved
  <2>3. CASE UNCHANGED <<made, at, staged>>
    BY <2>2, <2>3 DEF StagingInv, Unsettled
  <2>4. ASSUME NEW page \in asleep[w], at' = [at EXCEPT ![w] = page] PROVE StagingInv'
    <3>1. at'[w] = page /\ page.route.ty \in Keep
      BY <1>0, <2>4 DEF BaseInv, SleepInv
    <3>. QED
      BY <1>2, <2>1, <2>2, <3>1
  <2>5. ASSUME NEW route \in Route, Install(w, route) PROVE StagingInv'
    <3>1. at'[w] = [scope |-> made', route |-> route] /\ staged'[route.ty] = made' /\ made' = made + 1
      BY <1>0, <2>5 DEF Install, Route
    <3>2. shown[w].scope \in 0..made
      BY <1>0
    <3>3. at'[w].scope # shown'[w].scope
      BY <1>0, <2>2, <3>1, <3>2
    <3>. QED
      BY <1>2, <2>1, <2>2, <3>1, <3>3 DEF Unsettled
  <2>. QED
    BY <1>4, <2>3, <2>4, <2>5 DEF Moved
<1>5. ASSUME NEW w \in Window, Close(w) PROVE StagingInv'
  <2>1. /\ at'[w] = Gone /\ shown'[w] = Blank /\ UNCHANGED staged
        /\ \A v \in Window : v # w => at'[v] = at[v] /\ shown'[v] = shown[v]
    BY <1>0, <1>5 DEF Close
  <2>2. ~Unsettled(w)' /\ \A v \in Window : v # w => (Unsettled(v)' <=> Unsettled(v))
    BY <2>1 DEF Unsettled, Gone, Blank
  <2>. QED
    BY <2>1, <2>2 DEF StagingInv
<1>6. CASE End
  <2>1. \A w \in Window : at'[w] = Gone /\ shown'[w] = Blank
    BY <1>6 DEF End
  <2>. QED
    BY <2>1 DEF StagingInv, Unsettled, Gone, Blank
<1>7. ASSUME NEW w \in Window, Compose(w) PROVE StagingInv'
  <2>1. /\ at[w] # Gone /\ at' = at /\ shown'[w].scope = at[w].scope
        /\ Unsettled(w) => shown'[w].node = staged[at[w].route.ty]
        /\ ~Unsettled(w) => shown'[w].node = shown[w].node /\ staged' = staged
        /\ \A v \in Window : v # w => shown'[v] = shown[v]
    BY <1>7, Composing DEF Compose
  <2>2. ~Unsettled(w)'
    BY <2>1 DEF Unsettled
  <2>3. CASE Unsettled(w)
    BY <1>2, <2>1, <2>2, <2>3 DEF StagingInv
  <2>4. CASE ~Unsettled(w)
    BY <2>1, <2>2, <2>4 DEF StagingInv, Unsettled
  <2>. QED
    BY <2>3, <2>4
<1>8. ASSUME NEW w \in Window, Edit(w) PROVE StagingInv'
  <2>1. /\ UNCHANGED <<at, staged>>
        /\ \A v \in Window : shown'[v].scope = shown[v].scope /\ shown'[v].node = shown[v].node
    BY <1>8, Editing
  <2>. QED
    BY <2>1 DEF StagingInv, Unsettled
<1>9. ASSUME NEW w \in Window, OpenWindow(w) PROVE StagingInv'
  BY <1>9 DEF OpenWindow, StagingInv, Unsettled
<1>10. ASSUME Updated \/ \E w \in Window : Update(w) PROVE StagingInv'
  BY <1>10, Updating DEF StagingInv, Unsettled
<1>. QED
  BY <1>3, <1>4, <1>5, <1>6, <1>7, <1>8, <1>9, <1>10, NextSteps

LEMMA StagingHolds == ~Together => (Spec => [](BaseInv /\ StagingInv))
<1> SUFFICES ASSUME ~Together PROVE Spec => [](BaseInv /\ StagingInv)
  OBVIOUS
<1>1. Init => BaseInv /\ StagingInv
  BY InitBase, InitStaging
<1>2. BaseInv /\ StagingInv /\ [Next]_vars => (BaseInv /\ StagingInv)'
  <2> SUFFICES ASSUME BaseInv, StagingInv, [Next]_vars PROVE BaseInv' /\ StagingInv'
    OBVIOUS
  <2>1. BaseInv'
    BY NextKeepsBase
  <2>2. CASE Next
    BY <2>1, <2>2, KeepsStaging
  <2>3. CASE UNCHANGED vars
    BY <2>1, <2>3 DEF vars, StagingInv, Unsettled
  <2>. QED
    BY <2>2, <2>3
<1>. QED
  BY <1>1, <1>2, PTL DEF Spec

LEMMA ShownNodes == BaseInv /\ StagingInv => EveryPageShowsItsNode
BY DEF BaseInv, TypeOK, WindowInv, StagingInv, EveryPageShowsItsNode, Unsettled

\* A window shows its page from the node made for it, where the windows move
\* one after the other.
THEOREM PagesShowTheirNodes == ~Together => (Spec => []EveryPageShowsItsNode)
<1> SUFFICES ASSUME ~Together PROVE Spec => []EveryPageShowsItsNode
  OBVIOUS
<1>1. BaseInv /\ StagingInv => EveryPageShowsItsNode
  BY ShownNodes
<1>. QED
  BY <1>1, StagingHolds, PTL

\* The step that NothingEditedGoesUnasked allows.
AskedFirst ==
  \A w \in standing \cap standing' :
    /\ shown[w].edited /\ shown[w].scope = at[w].scope /\ at[w].route.ty \notin Keep
    /\ at'[w].scope # at[w].scope /\ updating # w
    /\ phase' # "over"
    => parked[w] \notin {Nowhere, at[w].route}

LEMMA LeavesAreAsked ==
  ASSUME BaseInv, StagingInv, Next
  PROVE  AskedFirst
<1>1. SUFFICES ASSUME NEW w \in standing \cap standing', shown[w].edited, shown[w].scope = at[w].scope,
                      at[w].route.ty \notin Keep, at'[w].scope # at[w].scope, updating # w, phase' # "over"
               PROVE  parked[w] \notin {Nowhere, at[w].route}
  BY DEF AskedFirst
<1>0. /\ w \in Window /\ at \in [Window -> Scoped(made) \cup {Gone}]
      /\ \A v \in Window : v \notin standing \/ at[v] = Gone => shown[v] = Blank
  BY DEF BaseInv, TypeOK, WindowInv
<1>2. shown[w] # Blank /\ at[w] # Gone
  BY <1>0, <1>1 DEF Blank
<1>3. Asks(w)
  <2>1. shown[w].node = at[w].scope
    BY <1>0, <1>1, <1>2, ShownNodes DEF EveryPageShowsItsNode
  <2>. QED
    BY <1>0, <1>1, <2>1 DEF Asks
\* A router that moves goes to another page than it stands at.
<1>4. ASSUME NEW r, NEW heard, Commit(w, r, heard), at[w].route = r PROVE FALSE
  <2>1. Stay(w, r)
    BY <1>4 DEF Commit, Wake, Arrive, FallBack, Sleepless
  <2>. QED
    BY <1>1, <2>1 DEF Stay
<1>5. ASSUME NEW v \in Window, NEW r \in Route, Navigate(v, r) PROVE FALSE
  <2>1. CASE v # w
    <3>1. at'[w] = at[w]
      BY <1>0, <1>5, <2>1, NavigateMoves, WhereMoved
    <3>. QED
      BY <1>1, <3>1
  <2>2. CASE v = w
    <3>1. \/ UNCHANGED at
          \/ ~(at[w].route # r /\ Asks(w)) /\ Commit(w, r, parked[w] # Nowhere)
      BY <1>5, <2>2 DEF Navigate
    <3>. QED
      BY <1>1, <1>3, <1>4, <3>1
  <2>. QED
    BY <2>1, <2>2
<1>6. ASSUME NEW v \in Window, NEW yes \in BOOLEAN, Answer(v, yes) PROVE parked[w] \notin {Nowhere, at[w].route}
  <2>1. CASE v # w
    <3>1. at'[w] = at[w]
      BY <1>0, <1>6, <2>1, AnswerMoves, WhereMoved
    <3>. QED
      BY <1>1, <3>1
  <2>2. CASE v = w
    <3>1. parked[w] # Nowhere /\ (UNCHANGED at \/ Commit(w, parked[w], TRUE))
      BY <1>6, <2>2 DEF Answer
    <3>. QED
      BY <1>1, <1>4, <3>1
  <2>. QED
    BY <2>1, <2>2
<1>7. ASSUME NEW r \in Route, NEW installs \in BOOLEAN, Mount(r, installs) PROVE FALSE
  <2>1. next # w
    BY <1>7, MountKeepsBase
  <2>2. at'[w] = at[w]
    BY <1>0, <1>7, <2>1 DEF Mount
  <2>. QED
    BY <1>1, <2>2
<1>8. ASSUME NEW v \in Window, Close(v) PROVE FALSE
  <2>1. v # w
    BY <1>1, <1>8 DEF Close
  <2>. QED
    BY <1>0, <1>1, <1>8, <2>1 DEF Close
<1>9. ASSUME NEW v \in Window, OpenWindow(v) \/ Compose(v) \/ Edit(v) PROVE FALSE
  BY <1>1, <1>9 DEF OpenWindow, Compose, Edit
<1>11. ASSUME Updated \/ \E v \in Window : Update(v) PROVE FALSE
  BY <1>1, <1>11 DEF Updated, Update
<1>10. ASSUME End PROVE FALSE
  BY <1>1, <1>10 DEF End
<1>. QED
  BY <1>5, <1>6, <1>7, <1>8, <1>9, <1>10, <1>11 DEF Next

\* Nor is an edited page then left unless its question was answered, or its own
\* `update` is under way.
THEOREM EditedPagesAreAsked == ~Together => (Spec => NothingEditedGoesUnasked)
<1> SUFFICES ASSUME ~Together PROVE Spec => NothingEditedGoesUnasked
  OBVIOUS
<1>1. BaseInv /\ StagingInv /\ [Next]_vars => [AskedFirst]_vars
  BY LeavesAreAsked
<1>2. Spec => [][AskedFirst]_vars
  BY <1>1, StagingHolds, PTL DEF Spec
<1>. QED
  BY <1>2 DEF AskedFirst, NothingEditedGoesUnasked

-----------------------------------------------------------------------------
(* The end. *)

LEMMA KeepsEnd ==
  ASSUME ~MainCloses, ~Late, BaseInv, EndInv, Next
  PROVE  EndInv'
<1>0. /\ opening \in Nat /\ next \in Nat \ {0} /\ standing \subseteq Window /\ main \in standing \cup {0}
      /\ phase \in {"running", "exiting", "over"} /\ \A w \in Window : w # 0
  BY DEF BaseInv, TypeOK, Window
<1>1. ASSUME NEW r \in Route, NEW installs \in BOOLEAN, Mount(r, installs) PROVE EndInv'
  <2>1. /\ opening > 0 /\ phase = "running" /\ opening' = opening - 1 /\ next' = next + 1
        /\ standing' = standing \cup {next} /\ main' = Names(next)
    BY <1>0, <1>1 DEF Mount, EndInv
  <2>2. next \in Window /\ next \notin standing /\ at[next] = Gone /\ next' # 1
    BY <1>0, <1>1, <2>1, MountKeepsBase
  <2>3. main' # 0
    BY <1>0, <2>1, <2>2 DEF Names
  <2>4. phase' = "exiting" => ~installs /\ main' = next
    BY <1>1, <2>1 DEF Mount
  <2>5. main' = next => next = 1
    BY <1>0, <2>1, <2>2 DEF Names, EndInv
  <2>6. ASSUME phase' = "exiting" PROVE opening' = 0 /\ standing' \subseteq {w \in {1} : at'[w] = Gone}
    <3>1. next = 1 /\ at' = at
      BY <1>1, <2>4, <2>5, <2>6 DEF Mount
    <3>2. opening = 1 /\ standing = {} /\ at'[1] = Gone
      BY <2>2, <3>1 DEF EndInv
    <3>. QED
      BY <2>1, <3>1, <3>2
  <2>. QED
    BY <2>2, <2>3, <2>6 DEF EndInv
<1>2. ASSUME NEW w \in Window, Close(w) PROVE EndInv'
  <2>1. /\ phase # "over" /\ w \in standing /\ standing' = standing \ {w} /\ UNCHANGED <<opening, next>>
        /\ standing = {w} => opening = 0
        /\ main = w => standing = {w}
        /\ main' = IF main = w THEN 0 ELSE main
        /\ phase' = IF standing' = {} THEN "exiting" ELSE phase
        /\ at' = [at EXCEPT ![w] = Gone]
    BY <1>2 DEF Close, Exits
  <2>2. next # 1
    BY <2>1 DEF EndInv
  <2>3. phase' = "running" => main' # 0
    BY <1>0, <2>1, <2>2 DEF EndInv
  <2>4. CASE standing' = {}
    BY <2>1, <2>2, <2>3, <2>4 DEF EndInv
  <2>5. CASE standing' # {}
    <3>1. phase' = phase /\ (phase = "exiting" => standing = {})
      BY <2>1, <2>5 DEF EndInv
    <3>. QED
      BY <2>1, <2>2, <2>3, <3>1 DEF EndInv
  <2>. QED
    BY <2>4, <2>5
<1>3. ASSUME NEW w \in Window, Moved(w) PROVE EndInv'
  <2>1. UNCHANGED <<phase, opening, next, standing, main>> /\ w \in standing /\ at[w] # Gone
    BY <1>3 DEF Moved, life
  <2>2. phase # "exiting"
    BY <2>1 DEF EndInv
  <2>. QED
    BY <2>1, <2>2 DEF EndInv
<1>4. ASSUME NEW w \in Window, OpenWindow(w) PROVE EndInv'
  <2>1. shown[w] # Blank /\ UNCHANGED <<phase, next, standing, main>> /\ phase # "over"
    BY <1>4 DEF OpenWindow
  <2>2. w \in standing /\ at[w] # Gone
    BY <2>1 DEF BaseInv, WindowInv
  <2>3. phase # "exiting" /\ next # 1
    BY <2>2 DEF EndInv
  <2>. QED
    BY <2>1, <2>3 DEF EndInv
<1>5. ASSUME NEW w \in Window, Compose(w) \/ Edit(w) PROVE EndInv'
  BY <1>5 DEF Compose, Edit, life, EndInv
<1>6. CASE End
  BY <1>6 DEF End, EndInv
<1>7. ASSUME Updated \/ \E w \in Window : Update(w) PROVE EndInv'
  BY <1>7 DEF Updated, Update, life, EndInv
<1>. QED
  BY <1>1, <1>2, <1>3, <1>4, <1>5, <1>6, <1>7, NextSteps

\* The step that EndsWithItsWindows allows.
Ended == phase # "over" /\ phase' = "over" => opening = 0 /\ standing \subseteq {w \in {1} : at[w] = Gone}

\* The application ends with its windows where the main one closes last and
\* no window is still being opened when the last one goes.
THEOREM ApplicationEndsWithItsWindows == ~MainCloses /\ ~Late => (Spec => EndsWithItsWindows)
<1> SUFFICES ASSUME ~MainCloses, ~Late PROVE Spec => EndsWithItsWindows
  OBVIOUS
<1>1. Init => EndInv
  BY DEF Init, EndInv
<1>2. BaseInv /\ EndInv /\ [Next]_vars => EndInv'
  <2>1. CASE UNCHANGED vars
    BY <2>1 DEF vars, EndInv
  <2>. QED
    BY <2>1, KeepsEnd
<1>3. BaseInv /\ EndInv /\ [Next]_vars => [Ended]_vars
  <2>1. BaseInv /\ EndInv /\ Next => Ended
    <3>1. SUFFICES ASSUME BaseInv, EndInv, Next, phase # "over", phase' = "over" PROVE phase = "exiting"
      BY DEF EndInv, Ended
    <3>2. \A r \in Route, installs \in BOOLEAN : Mount(r, installs) => phase' # "over"
      BY <3>1 DEF Mount
    <3>3. \A w \in Window : OpenWindow(w) \/ Close(w) \/ Compose(w) \/ Edit(w) \/ Moved(w) => phase' # "over"
      BY <3>1 DEF OpenWindow, Close, Compose, Edit, Moved, life
    <3>4. Updated \/ (\E w \in Window : Update(w)) => phase' # "over"
      BY <3>1 DEF Updated, Update, life
    <3>5. End
      BY <3>1, <3>2, <3>3, <3>4, NextSteps
    <3>. QED
      BY <3>5 DEF End
  <2>. QED
    BY <2>1
<1>4. Spec => [][Ended]_vars
  BY <1>1, <1>2, <1>3, BaseHolds, PTL DEF Spec
<1>. QED
  BY <1>4, PTL DEF Ended, EndsWithItsWindows
=============================================================================

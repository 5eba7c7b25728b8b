---------------------------- MODULE TimersProofs ----------------------------
(***************************************************************************)
(* What holds of any number of timers, however often they are changed.     *)
(***************************************************************************)
EXTENDS Timers, TLAPS

-----------------------------------------------------------------------------
(* The inductive invariant.  A new chain begins at a generation no wake-up  *)
(* has been armed for, since none is ahead of the timer's own; and that     *)
(* generation exists, since each change begins two chains at most.          *)

Changing(t) == IF becoming[t] = "none" THEN 0 ELSE 1

Bounded(t) == gen[t] + told[t] + Changing(t) <= 2 * changes
Holding(t) == watches[t] <= 1 + Changing(t)

NotYet(t) ==
  stage[t] \in {"unmade", "read", "watched"} =>
    /\ gen[t] = 0
    /\ tick[t] = Nothing
    /\ becoming[t] = "none"
    /\ \A g \in Generation : armed[t][g] = 0

NoneAhead(t) ==
  /\ tick[t] <= gen[t]
  /\ \A g \in Generation : g > gen[t] => armed[t][g] = 0

OneLive(t) == Live(t) <= 1

TimerInv(t) ==
  /\ Bounded(t)
  /\ Holding(t)
  /\ NotYet(t)
  /\ NoneAhead(t)
  /\ OneLive(t)

IInv == TypeOK /\ \A t \in Timer : TimerInv(t)

\* Why the chain goes on: what `start` read still stands or is to be told
\* again, and a timer that follows a value watches it.
GoesOn(t) ==
  /\ stage[t] = "read" => first[t] = HasNext(t, mode[t])
  /\ stage[t] = "watched" /\ told[t] = 0 /\ HasNext(t, mode[t]) => first[t]
  /\ stage[t] \in {"watched", "running"} => watches[t] >= Watches(mode[t])
  /\ stage[t] = "running" /\ told[t] = 0 /\ HasNext(t, mode[t]) => Live(t) >= 1

GoesOnInv == \A t \in Timer : GoesOn(t)

-----------------------------------------------------------------------------
(* One timer at a time, and one wake-up at a time. *)

Armings == [Timer -> [Generation -> Nat]]

\* What the invariant says of one timer, and the numbers it says it of.
Ground(t) ==
  /\ TimerInv(t)
  /\ 0 \in Generation /\ Generation \subseteq Nat
  /\ armed \in Armings /\ \A g \in Generation : armed[t][g] \in Nat
  /\ gen[t] \in Generation /\ gen[t] \in Nat
  /\ tick[t] \in Generation \cup {-1} /\ tick[t] \in Int
  /\ told[t] \in Nat /\ watches[t] \in Nat
  /\ Changing(t) \in Nat /\ Changing(t) <= 1
  /\ changes \in Nat
  /\ told[t] + Changing(t) > 0 => gen[t] + 1 \in Generation

LEMMA Grounds ==
  ASSUME IInv, NEW t \in Timer
  PROVE  Ground(t)
<1>1. changes \in Nat /\ MaxChanges \in Nat /\ changes <= MaxChanges
  BY TimersAssumption DEF IInv, TypeOK
<1>2. /\ gen[t] \in Generation /\ gen[t] \in Nat /\ told[t] \in Nat
      /\ Changing(t) \in Nat /\ Changing(t) <= 1
  BY <1>1 DEF IInv, TypeOK, Changing, Generation
<1>3. TimerInv(t) /\ gen[t] + told[t] + Changing(t) <= 2 * changes
  BY DEF IInv, TimerInv, Bounded
<1>4. 0 \in Generation /\ Generation \subseteq Nat
  BY <1>1 DEF Generation
<1>5. armed \in Armings /\ \A g \in Generation : armed[t][g] \in Nat
  BY DEF Armings, IInv, TypeOK
<1>6. ASSUME told[t] + Changing(t) > 0 PROVE gen[t] + 1 \in Generation
  <2>1. gen[t] + 1 <= 2 * changes
    BY <1>1, <1>2, <1>3, <1>6
  <2>2. 2 * changes <= 2 * MaxChanges
    BY <1>1
  <2>. QED
    BY <1>1, <1>2, <2>1, <2>2 DEF Generation
<1>7. tick[t] \in Generation \cup {-1} /\ watches[t] \in Nat
  BY DEF IInv, TypeOK, Nothing
<1>8. tick[t] \in Int
  <2>1. CASE tick[t] \in Generation
    BY <1>1, <2>1 DEF Generation
  <2>2. CASE tick[t] = -1
    BY <2>2
  <2>. QED
    BY <1>7, <2>1, <2>2
<1>. QED
  BY <1>1, <1>2, <1>3, <1>4, <1>5, <1>6, <1>7, <1>8 DEF Ground

\* The types that no count or generation enters.
OtherTypes ==
  /\ stage \in [Timer -> {"unmade", "read", "watched", "running", "stopped"}]
  /\ mode \in [Timer -> Mode]
  /\ readable \in [Timer -> BOOLEAN]
  /\ first \in [Timer -> BOOLEAN]
  /\ tick \in [Timer -> Generation \cup {Nothing}]
  /\ becoming \in [Timer -> Mode \cup {"none"}]
  /\ active \in [Timer -> BOOLEAN]

Same(u) ==
  /\ stage'[u] = stage[u]
  /\ mode'[u] = mode[u]
  /\ readable'[u] = readable[u]
  /\ first'[u] = first[u]
  /\ watches'[u] = watches[u]
  /\ gen'[u] = gen[u]
  /\ armed'[u] = armed[u]
  /\ told'[u] = told[u]
  /\ tick'[u] = tick[u]
  /\ becoming'[u] = becoming[u]

\* A timer that a step leaves alone keeps its invariant.
LEMMA SameKeeps ==
  ASSUME IInv, NEW u \in Timer, Same(u), changes' \in Nat, changes' >= changes
  PROVE  /\ TimerInv(u)'
         /\ GoesOn(u) => GoesOn(u)'
<1>1. Bounded(u)'
  <2>1. changes \in Nat /\ gen[u] \in Nat /\ told[u] \in Nat
    BY TimersAssumption DEF IInv, TypeOK, Generation
  <2>2. Changing(u)' = Changing(u) /\ Changing(u) \in {0, 1}
    BY DEF Changing, Same
  <2>. QED
    BY <2>1, <2>2 DEF Bounded, IInv, TimerInv, Same
<1>2. Holding(u)' /\ NotYet(u)'
  BY DEF Holding, NotYet, Changing, IInv, TimerInv, Same
<1>3. NoneAhead(u)' /\ OneLive(u)'
  BY DEF NoneAhead, OneLive, Live, IInv, TimerInv, Same
<1>4. GoesOn(u) => GoesOn(u)'
  BY DEF GoesOn, HasNext, Live, Same
<1>. QED
  BY <1>1, <1>2, <1>3, <1>4 DEF TimerInv

\* A step of one timer that keeps its types and its invariant keeps them all.
LEMMA OneTimer ==
  ASSUME IInv, NEW t \in Timer, TypeOK', TimerInv(t)',
         ~Meddles /\ GoesOn(t) => GoesOn(t)',
         \A u \in Timer : u # t => Same(u), changes' >= changes
  PROVE  /\ IInv'
         /\ ~Meddles /\ GoesOnInv => GoesOnInv'
<1>1. changes' \in Nat
  BY TimersAssumption DEF TypeOK
<1>2. \A u \in Timer : u # t => TimerInv(u)' /\ (GoesOn(u) => GoesOn(u)')
  BY <1>1, SameKeeps
<1>. QED
  BY <1>2 DEF IInv, GoesOnInv

Armed(t, g) == [armed EXCEPT ![t][g] = @ + 1]

\* What arming one wake-up does to those under way.
LEMMA ArmOne ==
  ASSUME armed \in Armings, NEW t \in Timer, NEW g \in Generation
  PROVE  /\ Armed(t, g) \in Armings
         /\ \A u \in Timer : u # t => Armed(t, g)[u] = armed[u]
         /\ \A h \in Generation : h # g => Armed(t, g)[t][h] = armed[t][h]
         /\ Armed(t, g)[t][g] = armed[t][g] + 1
BY DEF Armings, Armed

\* What the end of one does.
LEMMA WakeOne ==
  ASSUME armed \in Armings, NEW t \in Timer, NEW g \in Generation,
         armed[t][g] > 0
  PROVE  /\ Woken(t, g) \in Armings
         /\ \A u \in Timer : u # t => Woken(t, g)[u] = armed[u]
         /\ \A h \in Generation : h # g => Woken(t, g)[t][h] = armed[t][h]
         /\ Woken(t, g)[t][g] = armed[t][g] - 1
BY DEF Armings, Woken

\* wake_after, which arms nothing when there is nothing to wait by.
LEMMA WakeAfterArms ==
  ASSUME armed \in Armings, NEW t \in Timer, NEW g \in Generation,
         NEW some \in BOOLEAN, WakeAfter(t, g, some)
  PROVE  /\ armed' \in Armings
         /\ \A u \in Timer : u # t => armed'[u] = armed[u]
         /\ \A h \in Generation : h # g => armed'[t][h] = armed[t][h]
         /\ some => armed'[t][g] = armed[t][g] + 1
         /\ ~some => armed'[t][g] = armed[t][g]
<1>1. CASE some
  <2>1. armed' = Armed(t, g)
    BY <1>1 DEF WakeAfter, Armed
  <2>. QED
    BY <1>1, <2>1, ArmOne
<1>2. CASE ~some
  BY <1>2 DEF WakeAfter, Armings
<1>. QED
  BY <1>1, <1>2

-----------------------------------------------------------------------------
(* Each action keeps the types and the invariant: first what the step does   *)
(* to its timer, then each part of the invariant from that.                  *)

\* Reading the first period.
LEMMA StartReadsKeeps ==
  ASSUME IInv, NEW t \in Timer, StartReads(t)
  PROVE  /\ IInv'
         /\ ~Meddles /\ GoesOnInv => GoesOnInv'
<1>1. Ground(t)
  BY Grounds
<1>3. /\ stage'[t] = "read" /\ mode'[t] = mode[t]
      /\ readable'[t] = readable[t] /\ first'[t] = HasNext(t, mode[t])
      /\ watches'[t] = watches[t] /\ gen'[t] = gen[t] /\ told'[t] = told[t]
      /\ tick'[t] = tick[t] /\ becoming'[t] = becoming[t]
      /\ changes' = changes /\ stage[t] = "unmade" /\ armed'[t] = armed[t]
  BY DEF IInv, TypeOK, StartReads, entry, HasNext
<1>4. TypeOK'
  <2>1. armed' \in Armings
    BY <1>1 DEF Ground, StartReads
  <2>2. gen' \in [Timer -> Generation] /\ changes' \in 0..MaxChanges
    BY <1>1, <1>3, TimersAssumption DEF IInv, TypeOK, Ground, Changing,
       StartReads, entry
  <2>3. watches' \in [Timer -> 0..2] /\ told' \in [Timer -> Nat]
    BY <1>1, <1>3 DEF IInv, TypeOK, Ground, TimerInv, Holding, Changing,
       StartReads, entry, HasNext, Mode
  <2>4. OtherTypes'
    BY DEF IInv, TypeOK, OtherTypes, StartReads, entry, HasNext, Mode
  <2>. QED
    BY <2>1, <2>2, <2>3, <2>4 DEF TypeOK, OtherTypes, Armings
<1>5. TimerInv(t)'
  <2>1. Bounded(t)'
    <3>1. Changing(t)' = Changing(t)
      BY <1>3 DEF Changing
    <3>2. gen[t] + told[t] + Changing(t) <= 2 * changes
      BY <1>1 DEF Ground, TimerInv, Bounded
    <3>. QED
      BY <1>1, <1>3, <3>1, <3>2 DEF Ground, TimerInv, Holding, Bounded
  <2>2. Holding(t)'
    BY <1>1, <1>3 DEF Ground, TimerInv, Holding, Changing
  <2>3. NotYet(t)'
    BY <1>1, <1>3 DEF Ground, TimerInv, NotYet, Nothing
  <2>4. NoneAhead(t)'
    BY <1>1, <1>3 DEF Ground, TimerInv, NotYet, NoneAhead, Nothing
  <2>5. OneLive(t)'
    BY <1>1, <1>3 DEF Ground, TimerInv, NotYet, NoneAhead, OneLive, Live, Nothing
  <2>. QED
    BY <2>1, <2>2, <2>3, <2>4, <2>5 DEF TimerInv
<1>6. ASSUME ~Meddles, GoesOn(t) PROVE GoesOn(t)'
  BY <1>1, <1>3, <1>6 DEF Ground, TimerInv, NotYet, NoneAhead, OneLive, GoesOn,
     Live, HasNext, Nothing
<1>7. \A u \in Timer : u # t => Same(u)
  BY <1>1, <1>3 DEF IInv, TypeOK, Same, StartReads, entry
<1>. QED
  BY <1>1, <1>3, <1>4, <1>5, <1>6, <1>7, OneTimer DEF Ground

\* Watching what it follows.
LEMMA StartWatchesKeeps ==
  ASSUME IInv, NEW t \in Timer, StartWatches(t)
  PROVE  /\ IInv'
         /\ ~Meddles /\ GoesOnInv => GoesOnInv'
<1>1. Ground(t)
  BY Grounds
<1>3. /\ stage'[t] = "watched" /\ mode'[t] = mode[t]
      /\ readable'[t] = readable[t] /\ first'[t] = first[t]
      /\ watches'[t] = Watches(mode[t]) /\ gen'[t] = gen[t]
      /\ told'[t] = told[t] /\ tick'[t] = tick[t]
      /\ becoming'[t] = becoming[t] /\ changes' = changes
      /\ stage[t] = "read" /\ armed'[t] = armed[t]
  BY DEF IInv, TypeOK, StartWatches, entry
<1>4. TypeOK'
  <2>1. armed' \in Armings
    BY <1>1 DEF Ground, StartWatches
  <2>2. gen' \in [Timer -> Generation] /\ changes' \in 0..MaxChanges
    BY <1>1, <1>3, TimersAssumption DEF IInv, TypeOK, Ground, Changing,
       StartWatches, entry
  <2>3. watches' \in [Timer -> 0..2] /\ told' \in [Timer -> Nat]
    BY <1>1, <1>3 DEF IInv, TypeOK, Ground, TimerInv, Holding, Changing,
       StartWatches, entry, Watches, Mode
  <2>4. OtherTypes'
    BY DEF IInv, TypeOK, OtherTypes, StartWatches, entry, Watches, Mode
  <2>. QED
    BY <2>1, <2>2, <2>3, <2>4 DEF TypeOK, OtherTypes, Armings
<1>5. TimerInv(t)'
  <2>1. Bounded(t)'
    <3>1. Changing(t)' = Changing(t)
      BY <1>3 DEF Changing
    <3>2. gen[t] + told[t] + Changing(t) <= 2 * changes
      BY <1>1 DEF Ground, TimerInv, Bounded
    <3>. QED
      BY <1>1, <1>3, <3>1, <3>2 DEF Ground, TimerInv, Holding, Bounded
  <2>2. Holding(t)'
    BY <1>1, <1>3 DEF Ground, TimerInv, Holding, Changing, Watches
  <2>3. NotYet(t)'
    BY <1>1, <1>3 DEF Ground, TimerInv, NotYet, Nothing
  <2>4. NoneAhead(t)'
    BY <1>1, <1>3 DEF Ground, TimerInv, NotYet, NoneAhead, Nothing
  <2>5. OneLive(t)'
    BY <1>1, <1>3 DEF Ground, TimerInv, NotYet, NoneAhead, OneLive, Live, Nothing
  <2>. QED
    BY <2>1, <2>2, <2>3, <2>4, <2>5 DEF TimerInv
<1>6. ASSUME ~Meddles, GoesOn(t) PROVE GoesOn(t)'
  <2>1. stage'[t] = "read" => first'[t] = HasNext(t, mode[t])'
    BY <1>3, <1>6 DEF GoesOn, HasNext
  <2>2. stage'[t] = "watched" /\ told'[t] = 0 /\ HasNext(t, mode[t])' => first'[t]
    BY <1>3, <1>6 DEF GoesOn, HasNext
  <2>3. stage'[t] \in {"watched", "running"} => watches'[t] >= Watches(mode[t])'
    BY <1>1, <1>3, <1>6 DEF Ground, GoesOn, Watches
  <2>4. stage'[t] = "running" /\ told'[t] = 0 /\ HasNext(t, mode[t])' => Live(t)' >= 1
    BY <1>3 DEF GoesOn
  <2>. QED
    BY <2>1, <2>2, <2>3, <2>4 DEF GoesOn
<1>7. \A u \in Timer : u # t => Same(u)
  BY <1>1, <1>3 DEF IInv, TypeOK, Same, StartWatches, entry
<1>. QED
  BY <1>1, <1>3, <1>4, <1>5, <1>6, <1>7, OneTimer DEF Ground

\* The first wake-up is the only one.
LEMMA StartArmsKeeps ==
  ASSUME IInv, NEW t \in Timer, StartArms(t)
  PROVE  /\ IInv'
         /\ ~Meddles /\ GoesOnInv => GoesOnInv'
<1>1. Ground(t)
  BY Grounds
<1>2. /\ armed' \in Armings
      /\ \A u \in Timer : u # t => armed'[u] = armed[u]
      /\ 0 \in Generation
      /\ \A h \in Generation : h # 0 => armed'[t][h] = armed[t][h]
      /\ first[t] => armed'[t][0] = armed[t][0] + 1
      /\ ~first[t] => armed'[t][0] = armed[t][0]
  <2>1. 0 \in Generation
    BY <1>1 DEF Ground, StartArms, Changing, Nothing
  <2>2. first[t] \in BOOLEAN
    BY DEF IInv, TypeOK, HasNext, Mode
  <2>3. WakeAfter(t, 0, first[t])
    BY DEF StartArms
  <2>. QED
    BY <1>1, <2>1, <2>2, <2>3, WakeAfterArms DEF Ground
<1>3. /\ stage'[t] = "running" /\ mode'[t] = mode[t]
      /\ readable'[t] = readable[t] /\ first'[t] = first[t]
      /\ watches'[t] = watches[t] /\ gen'[t] = gen[t] /\ told'[t] = told[t]
      /\ tick'[t] = tick[t] /\ becoming'[t] = becoming[t]
      /\ changes' = changes /\ stage[t] = "watched"
  BY DEF IInv, TypeOK, StartArms, entry
<1>4. TypeOK'
  <2>1. armed' \in Armings
    BY <1>1, <1>2 DEF Ground, Armings
  <2>2. gen' \in [Timer -> Generation] /\ changes' \in 0..MaxChanges
    BY <1>1, <1>3, TimersAssumption DEF IInv, TypeOK, Ground, Changing, StartArms,
       entry
  <2>3. watches' \in [Timer -> 0..2] /\ told' \in [Timer -> Nat]
    BY <1>1, <1>3 DEF IInv, TypeOK, Ground, TimerInv, Holding, Changing,
       StartArms, entry
  <2>4. OtherTypes'
    BY DEF IInv, TypeOK, OtherTypes, StartArms, entry
  <2>. QED
    BY <2>1, <2>2, <2>3, <2>4 DEF TypeOK, OtherTypes, Armings
<1>5. TimerInv(t)'
  <2>1. Bounded(t)'
    <3>1. Changing(t)' = Changing(t)
      BY <1>3 DEF Changing
    <3>2. gen[t] + told[t] + Changing(t) <= 2 * changes
      BY <1>1 DEF Ground, TimerInv, Bounded
    <3>. QED
      BY <1>1, <1>3, <3>1, <3>2 DEF Ground, TimerInv, Holding, Bounded
  <2>2. Holding(t)'
    BY <1>1, <1>3 DEF Ground, TimerInv, Holding, Changing
  <2>3. NotYet(t)'
    BY <1>1, <1>2, <1>3 DEF Ground, TimerInv, NotYet, Nothing
  <2>4. NoneAhead(t)'
    BY <1>1, <1>2, <1>3 DEF Ground, TimerInv, NotYet, NoneAhead, Nothing
  <2>5. OneLive(t)'
    BY <1>1, <1>2, <1>3 DEF Ground, TimerInv, NotYet, NoneAhead, OneLive, Live,
       Nothing
  <2>. QED
    BY <2>1, <2>2, <2>3, <2>4, <2>5 DEF TimerInv
<1>6. ASSUME ~Meddles, GoesOn(t) PROVE GoesOn(t)'
  BY <1>1, <1>2, <1>3, <1>6 DEF Ground, TimerInv, NotYet, NoneAhead, OneLive,
     GoesOn, Live, HasNext, Nothing
<1>7. \A u \in Timer : u # t => Same(u)
  BY <1>1, <1>2, <1>3 DEF IInv, TypeOK, Same, StartArms, entry
<1>. QED
  BY <1>1, <1>3, <1>4, <1>5, <1>6, <1>7, OneTimer DEF Ground

\* A change tells as often as the value is watched.
LEMMA SetValueKeeps ==
  ASSUME IInv, NEW t \in Timer, NEW some \in BOOLEAN, SetValue(t, some)
  PROVE  /\ IInv'
         /\ ~Meddles /\ GoesOnInv => GoesOnInv'
<1>1. Ground(t)
  BY Grounds
<1>3. /\ stage'[t] = stage[t] /\ mode'[t] = mode[t] /\ readable'[t] = some
      /\ first'[t] = first[t] /\ watches'[t] = watches[t]
      /\ gen'[t] = gen[t] /\ told'[t] = told[t] + watches[t]
      /\ tick'[t] = tick[t] /\ becoming'[t] = becoming[t]
      /\ changes' = changes + 1 /\ (Meddles \/ stage[t] # "read")
      /\ armed'[t] = armed[t]
  BY DEF IInv, TypeOK, SetValue, Move, entry
<1>4. TypeOK'
  <2>1. armed' \in Armings
    BY <1>1 DEF Ground, SetValue
  <2>2. gen' \in [Timer -> Generation] /\ changes' \in 0..MaxChanges
    BY <1>1, <1>3, TimersAssumption DEF IInv, TypeOK, Ground, Changing, SetValue,
       Move, entry
  <2>3. watches' \in [Timer -> 0..2] /\ told' \in [Timer -> Nat]
    BY <1>1, <1>3 DEF IInv, TypeOK, Ground, TimerInv, Holding, Changing, SetValue,
       Move, entry
  <2>4. OtherTypes'
    BY DEF IInv, TypeOK, OtherTypes, SetValue, Move, entry
  <2>. QED
    BY <2>1, <2>2, <2>3, <2>4 DEF TypeOK, OtherTypes, Armings
<1>5. TimerInv(t)'
  <2>1. Bounded(t)'
    <3>1. Changing(t)' = Changing(t)
      BY <1>3 DEF Changing
    <3>2. gen[t] + told[t] + Changing(t) <= 2 * changes
      BY <1>1 DEF Ground, TimerInv, Bounded
    <3>. QED
      BY <1>1, <1>3, <3>1, <3>2 DEF Ground, TimerInv, Holding, Bounded
  <2>2. Holding(t)'
    BY <1>1, <1>3 DEF Ground, TimerInv, Holding, Changing
  <2>3. NotYet(t)'
    BY <1>1, <1>3 DEF Ground, TimerInv, NotYet, Nothing
  <2>4. NoneAhead(t)'
    BY <1>1, <1>3 DEF Ground, TimerInv, NotYet, NoneAhead, Nothing
  <2>5. OneLive(t)'
    BY <1>1, <1>3 DEF Ground, TimerInv, NotYet, NoneAhead, OneLive, Live, Nothing
  <2>. QED
    BY <2>1, <2>2, <2>3, <2>4, <2>5 DEF TimerInv
<1>6. ASSUME ~Meddles, GoesOn(t) PROVE GoesOn(t)'
  <2>1. stage'[t] = "read" => first'[t] = HasNext(t, mode[t])'
    BY <1>3, <1>6 DEF GoesOn, HasNext
  <2>2. stage'[t] = "watched" /\ told'[t] = 0 /\ HasNext(t, mode[t])' => first'[t]
    <3>. SUFFICES ASSUME stage[t] = "watched", told'[t] = 0, HasNext(t, mode[t])'
                 PROVE  first'[t]
      BY <1>3
    <3>1. told[t] = 0 /\ watches[t] = 0
      BY <1>1, <1>3 DEF Ground
    <3>2. mode[t] # "following"
      BY <1>6, <3>1 DEF GoesOn, Watches
    <3>3. HasNext(t, mode[t])
      BY <1>3, <3>2 DEF HasNext, IInv, TypeOK, Mode
    <3>. QED
      BY <1>3, <1>6, <3>1, <3>3 DEF GoesOn, Live
  <2>3. stage'[t] \in {"watched", "running"} => watches'[t] >= Watches(mode[t])'
    BY <1>1, <1>3, <1>6 DEF Ground, GoesOn, Watches
  <2>4. stage'[t] = "running" /\ told'[t] = 0 /\ HasNext(t, mode[t])' => Live(t)' >= 1
    <3>. SUFFICES ASSUME stage[t] = "running", told'[t] = 0, HasNext(t, mode[t])'
                 PROVE  Live(t)' >= 1
      BY <1>3
    <3>1. told[t] = 0 /\ watches[t] = 0
      BY <1>1, <1>3 DEF Ground
    <3>2. mode[t] # "following"
      BY <1>6, <3>1 DEF GoesOn, Watches
    <3>3. HasNext(t, mode[t])
      BY <1>3, <3>2 DEF HasNext, IInv, TypeOK, Mode
    <3>. QED
      BY <1>3, <1>6, <3>1, <3>3 DEF GoesOn, Live
  <2>. QED
    BY <2>1, <2>2, <2>3, <2>4 DEF GoesOn
<1>7. \A u \in Timer : u # t => Same(u)
  BY <1>1, <1>3 DEF IInv, TypeOK, Same, SetValue, Move, entry
<1>. QED
  BY <1>1, <1>3, <1>4, <1>5, <1>6, <1>7, OneTimer DEF Ground

\* A change of the period holds a second watch for a while.
LEMMA PeriodWatchesKeeps ==
  ASSUME IInv, NEW t \in Timer, NEW m \in Mode, PeriodWatches(t, m)
  PROVE  /\ IInv'
         /\ ~Meddles /\ GoesOnInv => GoesOnInv'
<1>1. Ground(t)
  BY Grounds
<1>3. /\ stage'[t] = stage[t] /\ mode'[t] = mode[t]
      /\ readable'[t] = readable[t] /\ first'[t] = first[t]
      /\ watches'[t] = watches[t] + Watches(m) /\ gen'[t] = gen[t]
      /\ told'[t] = told[t] /\ tick'[t] = tick[t] /\ becoming'[t] = m
      /\ changes' = changes + 1 /\ becoming[t] = "none" /\ m # "none"
      /\ Upgrades(t) /\ armed'[t] = armed[t]
  BY DEF IInv, TypeOK, PeriodWatches, Move, entry, Mode
<1>4. TypeOK'
  <2>1. armed' \in Armings
    BY <1>1 DEF Ground, PeriodWatches
  <2>2. gen' \in [Timer -> Generation] /\ changes' \in 0..MaxChanges
    BY <1>1, <1>3, TimersAssumption DEF IInv, TypeOK, Ground, Changing,
       PeriodWatches, Move, entry
  <2>3. watches' \in [Timer -> 0..2] /\ told' \in [Timer -> Nat]
    BY <1>1, <1>3 DEF IInv, TypeOK, Ground, TimerInv, Holding, Changing,
       PeriodWatches, Move, entry, Watches, Mode
  <2>4. OtherTypes'
    BY DEF IInv, TypeOK, OtherTypes, PeriodWatches, Move, entry, Watches, Mode
  <2>. QED
    BY <2>1, <2>2, <2>3, <2>4 DEF TypeOK, OtherTypes, Armings
<1>5. TimerInv(t)'
  <2>1. Bounded(t)'
    <3>1. Changing(t)' = 1 /\ Changing(t) = 0
      BY <1>3 DEF Changing
    <3>2. gen[t] + told[t] + Changing(t) <= 2 * changes
      BY <1>1 DEF Ground, TimerInv, Bounded
    <3>. QED
      BY <1>1, <1>3, <3>1, <3>2 DEF Ground, TimerInv, Holding, Bounded
  <2>2. Holding(t)'
    BY <1>1, <1>3 DEF Ground, TimerInv, Holding, Changing, Watches
  <2>3. NotYet(t)'
    BY <1>1, <1>3 DEF Ground, TimerInv, NotYet, Nothing, Upgrades
  <2>4. NoneAhead(t)'
    BY <1>1, <1>3 DEF Ground, TimerInv, NotYet, NoneAhead, Nothing
  <2>5. OneLive(t)'
    BY <1>1, <1>3 DEF Ground, TimerInv, NotYet, NoneAhead, OneLive, Live, Nothing
  <2>. QED
    BY <2>1, <2>2, <2>3, <2>4, <2>5 DEF TimerInv
<1>6. ASSUME ~Meddles, GoesOn(t) PROVE GoesOn(t)'
  BY <1>1, <1>3, <1>6 DEF Ground, TimerInv, NotYet, NoneAhead, OneLive, GoesOn,
     Live, HasNext, Nothing, Watches
<1>7. \A u \in Timer : u # t => Same(u)
  BY <1>1, <1>3 DEF IInv, TypeOK, Same, PeriodWatches, Move, entry
<1>. QED
  BY <1>1, <1>3, <1>4, <1>5, <1>6, <1>7, OneTimer DEF Ground

\* It begins a chain nothing was armed for.
LEMMA PeriodArmsKeeps ==
  ASSUME IInv, NEW t \in Timer, PeriodArms(t)
  PROVE  /\ IInv'
         /\ ~Meddles /\ GoesOnInv => GoesOnInv'
<1>1. Ground(t)
  BY Grounds
<1>2. /\ armed' \in Armings
      /\ \A u \in Timer : u # t => armed'[u] = armed[u]
      /\ gen[t] + 1 \in Generation
      /\ \A h \in Generation : h # gen[t] + 1 => armed'[t][h] = armed[t][h]
      /\ HasNext(t, becoming[t]) => armed'[t][gen[t] + 1] = armed[t][gen[t] + 1] + 1
      /\ ~HasNext(t, becoming[t]) => armed'[t][gen[t] + 1] = armed[t][gen[t] + 1]
  <2>1. gen[t] + 1 \in Generation
    BY <1>1 DEF Ground, PeriodArms, Changing, Nothing
  <2>2. HasNext(t, becoming[t]) \in BOOLEAN
    BY DEF IInv, TypeOK, HasNext, Mode
  <2>3. WakeAfter(t, gen[t] + 1, HasNext(t, becoming[t]))
    BY DEF PeriodArms
  <2>. QED
    BY <1>1, <2>1, <2>2, <2>3, WakeAfterArms DEF Ground
<1>3. /\ stage'[t] = stage[t] /\ mode'[t] = becoming[t]
      /\ readable'[t] = readable[t] /\ first'[t] = first[t]
      /\ watches'[t] = Watches(becoming[t]) /\ gen'[t] = gen[t] + 1
      /\ told'[t] = told[t] /\ tick'[t] = tick[t] /\ becoming'[t] = "none"
      /\ changes' = changes /\ becoming[t] # "none"
  BY DEF IInv, TypeOK, PeriodArms, entry
<1>4. TypeOK'
  <2>1. armed' \in Armings
    BY <1>1, <1>2 DEF Ground, Armings
  <2>2. gen' \in [Timer -> Generation] /\ changes' \in 0..MaxChanges
    BY <1>1, <1>3, TimersAssumption DEF IInv, TypeOK, Ground, Changing,
       PeriodArms, entry
  <2>3. watches' \in [Timer -> 0..2] /\ told' \in [Timer -> Nat]
    BY <1>1, <1>3 DEF IInv, TypeOK, Ground, TimerInv, Holding, Changing,
       PeriodArms, entry, Watches, Mode
  <2>4. OtherTypes'
    BY DEF IInv, TypeOK, OtherTypes, PeriodArms, entry, Watches, Mode
  <2>. QED
    BY <2>1, <2>2, <2>3, <2>4 DEF TypeOK, OtherTypes, Armings
<1>5. TimerInv(t)'
  <2>1. Bounded(t)'
    <3>1. Changing(t)' = 0 /\ Changing(t) = 1
      BY <1>3 DEF Changing
    <3>2. gen[t] + told[t] + Changing(t) <= 2 * changes
      BY <1>1 DEF Ground, TimerInv, Bounded
    <3>. QED
      BY <1>1, <1>3, <3>1, <3>2 DEF Ground, TimerInv, Holding, Bounded
  <2>2. Holding(t)'
    BY <1>1, <1>3 DEF Ground, TimerInv, Holding, Changing, Watches
  <2>3. NotYet(t)'
    BY <1>1, <1>2, <1>3 DEF Ground, TimerInv, NotYet, Nothing
  <2>4. NoneAhead(t)'
    <3>1. tick'[t] <= gen'[t] /\ gen'[t] >= gen[t]
      BY <1>1, <1>3 DEF Ground, TimerInv, NoneAhead
    <3>2. ASSUME NEW g \in Generation, g > gen'[t] PROVE armed'[t][g] = 0
      <4>1. g \in Nat /\ g > gen[t]
        BY <1>1, <1>3, <3>1, <3>2 DEF Ground
      <4>2. armed[t][g] = 0
        BY <1>1, <4>1 DEF Ground, TimerInv, NoneAhead
      <4>. QED
        BY <1>1, <1>2, <1>3, <3>2, <4>1, <4>2 DEF Ground
    <3>. QED
      BY <3>1, <3>2 DEF NoneAhead
  <2>5. OneLive(t)'
    BY <1>1, <1>2, <1>3 DEF Ground, TimerInv, NotYet, NoneAhead, OneLive, Live,
       Nothing
  <2>. QED
    BY <2>1, <2>2, <2>3, <2>4, <2>5 DEF TimerInv
<1>6. ASSUME ~Meddles, GoesOn(t) PROVE GoesOn(t)'
  BY <1>1, <1>2, <1>3, <1>6 DEF Ground, TimerInv, NotYet, NoneAhead, OneLive,
     GoesOn, Live, HasNext, Nothing, Watches
<1>7. \A u \in Timer : u # t => Same(u)
  BY <1>1, <1>2, <1>3 DEF IInv, TypeOK, Same, PeriodArms, entry
<1>. QED
  BY <1>1, <1>3, <1>4, <1>5, <1>6, <1>7, OneTimer DEF Ground

\* Stopping leaves what is under way.
LEMMA StopKeeps ==
  ASSUME IInv, NEW t \in Timer, Stop(t)
  PROVE  /\ IInv'
         /\ ~Meddles /\ GoesOnInv => GoesOnInv'
<1>1. Ground(t)
  BY Grounds
<1>3. /\ stage'[t] = "stopped" /\ mode'[t] = mode[t]
      /\ readable'[t] = readable[t] /\ first'[t] = first[t]
      /\ watches'[t] = (IF tick[t] = Nothing THEN 0 ELSE watches[t])
      /\ gen'[t] = gen[t] /\ told'[t] = told[t] /\ tick'[t] = tick[t]
      /\ becoming'[t] = becoming[t] /\ changes' = changes + 1
      /\ becoming[t] = "none" /\ armed'[t] = armed[t]
  BY DEF IInv, TypeOK, Stop, Move, entry
<1>4. TypeOK'
  <2>1. armed' \in Armings
    BY <1>1 DEF Ground, Stop
  <2>2. gen' \in [Timer -> Generation] /\ changes' \in 0..MaxChanges
    BY <1>1, <1>3, TimersAssumption DEF IInv, TypeOK, Ground, Changing, Stop,
       Move, entry
  <2>3. watches' \in [Timer -> 0..2] /\ told' \in [Timer -> Nat]
    BY <1>1, <1>3 DEF IInv, TypeOK, Ground, TimerInv, Holding, Changing, Stop,
       Move, entry
  <2>4. OtherTypes'
    BY DEF IInv, TypeOK, OtherTypes, Stop, Move, entry
  <2>. QED
    BY <2>1, <2>2, <2>3, <2>4 DEF TypeOK, OtherTypes, Armings
<1>5. TimerInv(t)'
  <2>1. Bounded(t)'
    <3>1. Changing(t)' = Changing(t)
      BY <1>3 DEF Changing
    <3>2. gen[t] + told[t] + Changing(t) <= 2 * changes
      BY <1>1 DEF Ground, TimerInv, Bounded
    <3>. QED
      BY <1>1, <1>3, <3>1, <3>2 DEF Ground, TimerInv, Holding, Bounded
  <2>2. Holding(t)'
    BY <1>1, <1>3 DEF Ground, TimerInv, Holding, Changing
  <2>3. NotYet(t)'
    BY <1>1, <1>3 DEF Ground, TimerInv, NotYet, Nothing
  <2>4. NoneAhead(t)'
    BY <1>1, <1>3 DEF Ground, TimerInv, NotYet, NoneAhead, Nothing
  <2>5. OneLive(t)'
    BY <1>1, <1>3 DEF Ground, TimerInv, NotYet, NoneAhead, OneLive, Live, Nothing
  <2>. QED
    BY <2>1, <2>2, <2>3, <2>4, <2>5 DEF TimerInv
<1>6. ASSUME ~Meddles, GoesOn(t) PROVE GoesOn(t)'
  BY <1>1, <1>3, <1>6 DEF Ground, TimerInv, NotYet, NoneAhead, OneLive, GoesOn,
     Live, HasNext, Nothing
<1>7. \A u \in Timer : u # t => Same(u)
  BY <1>1, <1>3 DEF IInv, TypeOK, Same, Stop, Move, entry
<1>. QED
  BY <1>1, <1>3, <1>4, <1>5, <1>6, <1>7, OneTimer DEF Ground

\* Whether it is to run is no matter of chains.
LEMMA ActivateKeeps ==
  ASSUME IInv, NEW t \in Timer, NEW yes \in BOOLEAN, Activate(t, yes)
  PROVE  /\ IInv'
         /\ ~Meddles /\ GoesOnInv => GoesOnInv'
<1>1. Ground(t)
  BY Grounds
<1>3. /\ stage'[t] = stage[t] /\ mode'[t] = mode[t]
      /\ readable'[t] = readable[t] /\ first'[t] = first[t]
      /\ watches'[t] = watches[t] /\ gen'[t] = gen[t] /\ told'[t] = told[t]
      /\ tick'[t] = tick[t] /\ becoming'[t] = becoming[t]
      /\ changes' = changes + 1 /\ armed'[t] = armed[t]
  BY DEF IInv, TypeOK, Activate, Move, entry
<1>4. TypeOK'
  <2>1. armed' \in Armings
    BY <1>1 DEF Ground, Activate
  <2>2. gen' \in [Timer -> Generation] /\ changes' \in 0..MaxChanges
    BY <1>1, <1>3, TimersAssumption DEF IInv, TypeOK, Ground, Changing, Activate,
       Move, entry
  <2>3. watches' \in [Timer -> 0..2] /\ told' \in [Timer -> Nat]
    BY <1>1, <1>3 DEF IInv, TypeOK, Ground, TimerInv, Holding, Changing, Activate,
       Move, entry
  <2>4. OtherTypes'
    BY DEF IInv, TypeOK, OtherTypes, Activate, Move, entry
  <2>. QED
    BY <2>1, <2>2, <2>3, <2>4 DEF TypeOK, OtherTypes, Armings
<1>5. TimerInv(t)'
  <2>1. Bounded(t)'
    <3>1. Changing(t)' = Changing(t)
      BY <1>3 DEF Changing
    <3>2. gen[t] + told[t] + Changing(t) <= 2 * changes
      BY <1>1 DEF Ground, TimerInv, Bounded
    <3>. QED
      BY <1>1, <1>3, <3>1, <3>2 DEF Ground, TimerInv, Holding, Bounded
  <2>2. Holding(t)'
    BY <1>1, <1>3 DEF Ground, TimerInv, Holding, Changing
  <2>3. NotYet(t)'
    BY <1>1, <1>3 DEF Ground, TimerInv, NotYet, Nothing
  <2>4. NoneAhead(t)'
    BY <1>1, <1>3 DEF Ground, TimerInv, NotYet, NoneAhead, Nothing
  <2>5. OneLive(t)'
    BY <1>1, <1>3 DEF Ground, TimerInv, NotYet, NoneAhead, OneLive, Live, Nothing
  <2>. QED
    BY <2>1, <2>2, <2>3, <2>4, <2>5 DEF TimerInv
<1>6. ASSUME ~Meddles, GoesOn(t) PROVE GoesOn(t)'
  BY <1>1, <1>3, <1>6 DEF Ground, TimerInv, NotYet, NoneAhead, OneLive, GoesOn,
     Live, HasNext, Nothing, Watches
<1>7. \A u \in Timer : u # t => Same(u)
  BY <1>1, <1>3 DEF IInv, TypeOK, Same, Activate, Move, entry
<1>. QED
  BY <1>1, <1>3, <1>4, <1>5, <1>6, <1>7, OneTimer DEF Ground

\* A tick out of date only ends.
LEMMA TickStaleKeeps ==
  ASSUME IInv, NEW t \in Timer, NEW g \in Generation, TickStale(t, g)
  PROVE  /\ IInv'
         /\ ~Meddles /\ GoesOnInv => GoesOnInv'
<1>1. Ground(t)
  BY Grounds
<1>2. /\ armed' \in Armings
      /\ \A u \in Timer : u # t => armed'[u] = armed[u]
      /\ \A h \in Generation : h # g => armed'[t][h] = armed[t][h]
      /\ armed'[t][g] = armed[t][g] - 1 /\ armed[t][g] > 0
  BY <1>1, WakeOne DEF Ground, TickStale, Due
<1>3. /\ stage'[t] = stage[t] /\ mode'[t] = mode[t]
      /\ readable'[t] = readable[t] /\ first'[t] = first[t]
      /\ watches'[t] = watches[t] /\ gen'[t] = gen[t] /\ told'[t] = told[t]
      /\ tick'[t] = tick[t] /\ becoming'[t] = becoming[t]
      /\ changes' = changes /\ Stale(t, g) /\ tick[t] = Nothing
  BY DEF IInv, TypeOK, TickStale, entry, Due, Free
<1>4. TypeOK'
  <2>1. armed' \in Armings
    BY <1>1, <1>2 DEF Ground, Armings
  <2>2. gen' \in [Timer -> Generation] /\ changes' \in 0..MaxChanges
    BY <1>1, <1>3, TimersAssumption DEF IInv, TypeOK, Ground, Changing, TickStale,
       entry
  <2>3. watches' \in [Timer -> 0..2] /\ told' \in [Timer -> Nat]
    BY <1>1, <1>3 DEF IInv, TypeOK, Ground, TimerInv, Holding, Changing,
       TickStale, entry
  <2>4. OtherTypes'
    BY DEF IInv, TypeOK, OtherTypes, TickStale, entry
  <2>. QED
    BY <2>1, <2>2, <2>3, <2>4 DEF TypeOK, OtherTypes, Armings
<1>5. TimerInv(t)'
  <2>1. Bounded(t)'
    <3>1. Changing(t)' = Changing(t)
      BY <1>3 DEF Changing
    <3>2. gen[t] + told[t] + Changing(t) <= 2 * changes
      BY <1>1 DEF Ground, TimerInv, Bounded
    <3>. QED
      BY <1>1, <1>3, <3>1, <3>2 DEF Ground, TimerInv, Holding, Bounded
  <2>2. Holding(t)'
    BY <1>1, <1>3 DEF Ground, TimerInv, Holding, Changing
  <2>3. NotYet(t)'
    BY <1>1, <1>2, <1>3 DEF Ground, TimerInv, NotYet, Nothing
  <2>4. NoneAhead(t)'
    BY <1>1, <1>2, <1>3 DEF Ground, TimerInv, NotYet, NoneAhead, Nothing
  <2>5. OneLive(t)'
    BY <1>1, <1>2, <1>3 DEF Ground, TimerInv, NotYet, NoneAhead, OneLive, Live,
       Nothing
  <2>. QED
    BY <2>1, <2>2, <2>3, <2>4, <2>5 DEF TimerInv
<1>6. ASSUME ~Meddles, GoesOn(t) PROVE GoesOn(t)'
  BY <1>1, <1>2, <1>3, <1>6 DEF Ground, TimerInv, NotYet, NoneAhead, OneLive,
     GoesOn, Live, HasNext, Nothing, Stale, Watches
<1>7. \A u \in Timer : u # t => Same(u)
  BY <1>1, <1>2, <1>3 DEF IInv, TypeOK, Same, TickStale, entry
<1>. QED
  BY <1>1, <1>3, <1>4, <1>5, <1>6, <1>7, OneTimer DEF Ground

\* A tick that is skipped arms the next, or ends.
LEMMA TickIdleKeeps ==
  ASSUME IInv, NEW t \in Timer, NEW g \in Generation, TickIdle(t, g)
  PROVE  /\ IInv'
         /\ ~Meddles /\ GoesOnInv => GoesOnInv'
<1>1. Ground(t)
  BY Grounds
<1>2. /\ armed' \in Armings
      /\ \A u \in Timer : u # t => armed'[u] = armed[u]
      /\ \A h \in Generation : h # g => armed'[t][h] = armed[t][h]
      /\ HasNext(t, mode[t]) => armed'[t][g] = armed[t][g]
      /\ ~HasNext(t, mode[t]) => armed'[t][g] = armed[t][g] - 1
      /\ armed[t][g] > 0
  BY <1>1, WakeOne DEF Ground, TickIdle, Due, HasNext
<1>3. /\ stage'[t] = stage[t] /\ mode'[t] = mode[t]
      /\ readable'[t] = readable[t] /\ first'[t] = first[t]
      /\ watches'[t] = watches[t] /\ gen'[t] = gen[t] /\ told'[t] = told[t]
      /\ tick'[t] = tick[t] /\ becoming'[t] = becoming[t]
      /\ changes' = changes /\ gen[t] = g /\ stage[t] = "running"
      /\ tick[t] = Nothing
  BY DEF IInv, TypeOK, TickIdle, entry, Due, Free, Stale
<1>4. TypeOK'
  <2>1. armed' \in Armings
    BY <1>1, <1>2 DEF Ground, Armings
  <2>2. gen' \in [Timer -> Generation] /\ changes' \in 0..MaxChanges
    BY <1>1, <1>3, TimersAssumption DEF IInv, TypeOK, Ground, Changing, TickIdle,
       entry
  <2>3. watches' \in [Timer -> 0..2] /\ told' \in [Timer -> Nat]
    BY <1>1, <1>3 DEF IInv, TypeOK, Ground, TimerInv, Holding, Changing, TickIdle,
       entry
  <2>4. OtherTypes'
    BY DEF IInv, TypeOK, OtherTypes, TickIdle, entry
  <2>. QED
    BY <2>1, <2>2, <2>3, <2>4 DEF TypeOK, OtherTypes, Armings
<1>5. TimerInv(t)'
  <2>1. Bounded(t)'
    <3>1. Changing(t)' = Changing(t)
      BY <1>3 DEF Changing
    <3>2. gen[t] + told[t] + Changing(t) <= 2 * changes
      BY <1>1 DEF Ground, TimerInv, Bounded
    <3>. QED
      BY <1>1, <1>3, <3>1, <3>2 DEF Ground, TimerInv, Holding, Bounded
  <2>2. Holding(t)'
    BY <1>1, <1>3 DEF Ground, TimerInv, Holding, Changing
  <2>3. NotYet(t)'
    BY <1>1, <1>2, <1>3 DEF Ground, TimerInv, NotYet, Nothing
  <2>4. NoneAhead(t)'
    BY <1>1, <1>2, <1>3 DEF Ground, TimerInv, NotYet, NoneAhead, Nothing
  <2>5. OneLive(t)'
    BY <1>1, <1>2, <1>3 DEF Ground, TimerInv, NotYet, NoneAhead, OneLive, Live,
       Nothing
  <2>. QED
    BY <2>1, <2>2, <2>3, <2>4, <2>5 DEF TimerInv
<1>6. ASSUME ~Meddles, GoesOn(t) PROVE GoesOn(t)'
  BY <1>1, <1>2, <1>3, <1>6 DEF Ground, TimerInv, NotYet, NoneAhead, OneLive,
     GoesOn, Live, HasNext, Nothing, Watches
<1>7. \A u \in Timer : u # t => Same(u)
  BY <1>1, <1>2, <1>3 DEF IInv, TypeOK, Same, TickIdle, entry
<1>. QED
  BY <1>1, <1>3, <1>4, <1>5, <1>6, <1>7, OneTimer DEF Ground

\* The run takes the place of its wake-up.
LEMMA TickRunsKeeps ==
  ASSUME IInv, NEW t \in Timer, NEW g \in Generation, TickRuns(t, g)
  PROVE  /\ IInv'
         /\ ~Meddles /\ GoesOnInv => GoesOnInv'
<1>1. Ground(t)
  BY Grounds
<1>2. /\ armed' \in Armings
      /\ \A u \in Timer : u # t => armed'[u] = armed[u]
      /\ \A h \in Generation : h # g => armed'[t][h] = armed[t][h]
      /\ armed'[t][g] = armed[t][g] - 1 /\ armed[t][g] > 0
  BY <1>1, WakeOne DEF Ground, TickRuns, Due
<1>3. /\ stage'[t] = stage[t] /\ mode'[t] = mode[t]
      /\ readable'[t] = readable[t] /\ first'[t] = first[t]
      /\ watches'[t] = watches[t] /\ gen'[t] = gen[t] /\ told'[t] = told[t]
      /\ tick'[t] = g /\ becoming'[t] = becoming[t] /\ changes' = changes
      /\ gen[t] = g /\ stage[t] = "running" /\ tick[t] = Nothing
  BY DEF IInv, TypeOK, TickRuns, entry, Due, Free, Stale
<1>4. TypeOK'
  <2>1. armed' \in Armings
    BY <1>1, <1>2 DEF Ground, Armings
  <2>2. gen' \in [Timer -> Generation] /\ changes' \in 0..MaxChanges
    BY <1>1, <1>3, TimersAssumption DEF IInv, TypeOK, Ground, Changing, TickRuns,
       entry
  <2>3. watches' \in [Timer -> 0..2] /\ told' \in [Timer -> Nat]
    BY <1>1, <1>3 DEF IInv, TypeOK, Ground, TimerInv, Holding, Changing, TickRuns,
       entry
  <2>4. OtherTypes'
    BY DEF IInv, TypeOK, OtherTypes, TickRuns, entry
  <2>. QED
    BY <2>1, <2>2, <2>3, <2>4 DEF TypeOK, OtherTypes, Armings
<1>5. TimerInv(t)'
  <2>1. Bounded(t)'
    <3>1. Changing(t)' = Changing(t)
      BY <1>3 DEF Changing
    <3>2. gen[t] + told[t] + Changing(t) <= 2 * changes
      BY <1>1 DEF Ground, TimerInv, Bounded
    <3>. QED
      BY <1>1, <1>3, <3>1, <3>2 DEF Ground, TimerInv, Holding, Bounded
  <2>2. Holding(t)'
    BY <1>1, <1>3 DEF Ground, TimerInv, Holding, Changing
  <2>3. NotYet(t)'
    BY <1>1, <1>2, <1>3 DEF Ground, TimerInv, NotYet, Nothing
  <2>4. NoneAhead(t)'
    BY <1>1, <1>2, <1>3 DEF Ground, TimerInv, NotYet, NoneAhead, Nothing
  <2>5. OneLive(t)'
    BY <1>1, <1>2, <1>3 DEF Ground, TimerInv, NotYet, NoneAhead, OneLive, Live,
       Nothing
  <2>. QED
    BY <2>1, <2>2, <2>3, <2>4, <2>5 DEF TimerInv
<1>6. ASSUME ~Meddles, GoesOn(t) PROVE GoesOn(t)'
  BY <1>1, <1>2, <1>3, <1>6 DEF Ground, TimerInv, NotYet, NoneAhead, OneLive,
     GoesOn, Live, HasNext, Nothing, Watches
<1>7. \A u \in Timer : u # t => Same(u)
  BY <1>1, <1>2, <1>3 DEF IInv, TypeOK, Same, TickRuns, entry
<1>. QED
  BY <1>1, <1>3, <1>4, <1>5, <1>6, <1>7, OneTimer DEF Ground

\* The next wake-up takes the place of the run.
LEMMA RunReturnsKeeps ==
  ASSUME IInv, NEW t \in Timer, RunReturns(t)
  PROVE  /\ IInv'
         /\ ~Meddles /\ GoesOnInv => GoesOnInv'
<1>1. Ground(t)
  BY Grounds
<1>2. /\ armed' \in Armings
      /\ \A u \in Timer : u # t => armed'[u] = armed[u]
      /\ tick[t] \in Generation
      /\ \A h \in Generation : h # tick[t] => armed'[t][h] = armed[t][h]
      /\ HasNext(t, mode[t]) => armed'[t][tick[t]] = armed[t][tick[t]] + 1
      /\ ~HasNext(t, mode[t]) => armed'[t][tick[t]] = armed[t][tick[t]]
  <2>1. tick[t] \in Generation
    BY <1>1 DEF Ground, RunReturns, Changing, Nothing
  <2>2. HasNext(t, mode[t]) \in BOOLEAN
    BY DEF IInv, TypeOK, HasNext, Mode
  <2>3. WakeAfter(t, tick[t], HasNext(t, mode[t]))
    BY DEF RunReturns
  <2>. QED
    BY <1>1, <2>1, <2>2, <2>3, WakeAfterArms DEF Ground
<1>3. /\ stage'[t] = stage[t] /\ mode'[t] = mode[t]
      /\ readable'[t] = readable[t] /\ first'[t] = first[t]
      /\ watches'[t] = (IF stage[t] = "stopped" THEN 0 ELSE watches[t])
      /\ gen'[t] = gen[t] /\ told'[t] = told[t] /\ tick'[t] = Nothing
      /\ becoming'[t] = becoming[t] /\ changes' = changes
      /\ tick[t] # Nothing
  BY DEF IInv, TypeOK, RunReturns, entry
<1>4. TypeOK'
  <2>1. armed' \in Armings
    BY <1>1, <1>2 DEF Ground, Armings
  <2>2. gen' \in [Timer -> Generation] /\ changes' \in 0..MaxChanges
    BY <1>1, <1>3, TimersAssumption DEF IInv, TypeOK, Ground, Changing,
       RunReturns, entry
  <2>3. watches' \in [Timer -> 0..2] /\ told' \in [Timer -> Nat]
    BY <1>1, <1>3 DEF IInv, TypeOK, Ground, TimerInv, Holding, Changing,
       RunReturns, entry
  <2>4. OtherTypes'
    BY DEF IInv, TypeOK, OtherTypes, RunReturns, entry
  <2>. QED
    BY <2>1, <2>2, <2>3, <2>4 DEF TypeOK, OtherTypes, Armings
<1>5. TimerInv(t)'
  <2>1. Bounded(t)'
    <3>1. Changing(t)' = Changing(t)
      BY <1>3 DEF Changing
    <3>2. gen[t] + told[t] + Changing(t) <= 2 * changes
      BY <1>1 DEF Ground, TimerInv, Bounded
    <3>. QED
      BY <1>1, <1>3, <3>1, <3>2 DEF Ground, TimerInv, Holding, Bounded
  <2>2. Holding(t)'
    BY <1>1, <1>3 DEF Ground, TimerInv, Holding, Changing
  <2>3. NotYet(t)'
    BY <1>1, <1>2, <1>3 DEF Ground, TimerInv, NotYet, Nothing
  <2>4. NoneAhead(t)'
    BY <1>1, <1>2, <1>3 DEF Ground, TimerInv, NotYet, NoneAhead, Nothing
  <2>5. OneLive(t)'
    BY <1>1, <1>2, <1>3 DEF Ground, TimerInv, NotYet, NoneAhead, OneLive, Live,
       Nothing
  <2>. QED
    BY <2>1, <2>2, <2>3, <2>4, <2>5 DEF TimerInv
<1>6. ASSUME ~Meddles, GoesOn(t) PROVE GoesOn(t)'
  BY <1>1, <1>2, <1>3, <1>6 DEF Ground, TimerInv, NotYet, NoneAhead, OneLive,
     GoesOn, Live, HasNext, Nothing, Watches
<1>7. \A u \in Timer : u # t => Same(u)
  BY <1>1, <1>2, <1>3 DEF IInv, TypeOK, Same, RunReturns, entry
<1>. QED
  BY <1>1, <1>3, <1>4, <1>5, <1>6, <1>7, OneTimer DEF Ground

\* So does a change of the followed value.
LEMMA FollowKeeps ==
  ASSUME IInv, NEW t \in Timer, Follow(t)
  PROVE  /\ IInv'
         /\ ~Meddles /\ GoesOnInv => GoesOnInv'
<1>1. Ground(t)
  BY Grounds
<1>2. /\ armed' \in Armings
      /\ \A u \in Timer : u # t => armed'[u] = armed[u]
      /\ stage[t] = "running" =>
           /\ gen[t] + 1 \in Generation
           /\ \A h \in Generation : h # gen[t] + 1 => armed'[t][h] = armed[t][h]
           /\ HasNext(t, mode[t]) => armed'[t][gen[t] + 1] = armed[t][gen[t] + 1] + 1
           /\ ~HasNext(t, mode[t]) => armed'[t][gen[t] + 1] = armed[t][gen[t] + 1]
      /\ stage[t] # "running" => armed'[t] = armed[t]
  <2>1. CASE stage[t] = "running"
    <3>1. gen[t] + 1 \in Generation
      BY <1>1 DEF Ground, Follow, Changing
    <3>2. HasNext(t, mode[t]) \in BOOLEAN
      BY DEF IInv, TypeOK, HasNext, Mode
    <3>3. WakeAfter(t, gen[t] + 1, HasNext(t, mode[t]))
      BY <2>1 DEF Follow
    <3>. QED
      BY <1>1, <2>1, <3>1, <3>2, <3>3, WakeAfterArms DEF Ground
  <2>2. CASE stage[t] # "running"
    BY <1>1, <2>2 DEF Follow, Ground
  <2>. QED
    BY <2>1, <2>2
<1>3. /\ stage'[t] = stage[t] /\ mode'[t] = mode[t]
      /\ readable'[t] = readable[t] /\ first'[t] = first[t]
      /\ watches'[t] = watches[t]
      /\ gen'[t] = (IF stage[t] = "running" THEN gen[t] + 1 ELSE gen[t])
      /\ told'[t] = told[t] - 1 /\ tick'[t] = tick[t]
      /\ becoming'[t] = becoming[t] /\ changes' = changes /\ told[t] > 0
      /\ stage[t] \in {"running", "stopped"} /\ tick[t] = Nothing
  BY DEF IInv, TypeOK, Follow, entry, Free
<1>4. TypeOK'
  <2>1. armed' \in Armings
    BY <1>1, <1>2 DEF Ground, Armings
  <2>2. gen' \in [Timer -> Generation] /\ changes' \in 0..MaxChanges
    BY <1>1, <1>3, TimersAssumption DEF IInv, TypeOK, Ground, Changing, Follow,
       entry
  <2>3. watches' \in [Timer -> 0..2] /\ told' \in [Timer -> Nat]
    BY <1>1, <1>3 DEF IInv, TypeOK, Ground, TimerInv, Holding, Changing, Follow,
       entry
  <2>4. OtherTypes'
    BY DEF IInv, TypeOK, OtherTypes, Follow, entry
  <2>. QED
    BY <2>1, <2>2, <2>3, <2>4 DEF TypeOK, OtherTypes, Armings
<1>5. TimerInv(t)'
  <2>1. Bounded(t)'
    <3>1. Changing(t)' = Changing(t)
      BY <1>3 DEF Changing
    <3>2. gen[t] + told[t] + Changing(t) <= 2 * changes
      BY <1>1 DEF Ground, TimerInv, Bounded
    <3>. QED
      BY <1>1, <1>3, <3>1, <3>2 DEF Ground, TimerInv, Holding, Bounded
  <2>2. Holding(t)'
    BY <1>1, <1>3 DEF Ground, TimerInv, Holding, Changing
  <2>3. NotYet(t)'
    BY <1>1, <1>2, <1>3 DEF Ground, TimerInv, NotYet, Nothing
  <2>4. NoneAhead(t)'
    <3>1. tick'[t] <= gen'[t] /\ gen'[t] >= gen[t]
      BY <1>1, <1>3 DEF Ground, TimerInv, NoneAhead
    <3>2. ASSUME NEW g \in Generation, g > gen'[t] PROVE armed'[t][g] = 0
      <4>1. g \in Nat /\ g > gen[t]
        BY <1>1, <1>3, <3>1, <3>2 DEF Ground
      <4>2. armed[t][g] = 0
        BY <1>1, <4>1 DEF Ground, TimerInv, NoneAhead
      <4>. QED
        BY <1>1, <1>2, <1>3, <3>2, <4>1, <4>2 DEF Ground
    <3>. QED
      BY <3>1, <3>2 DEF NoneAhead
  <2>5. OneLive(t)'
    BY <1>1, <1>2, <1>3 DEF Ground, TimerInv, NotYet, NoneAhead, OneLive, Live,
       Nothing
  <2>. QED
    BY <2>1, <2>2, <2>3, <2>4, <2>5 DEF TimerInv
<1>6. ASSUME ~Meddles, GoesOn(t) PROVE GoesOn(t)'
  BY <1>1, <1>2, <1>3, <1>6 DEF Ground, TimerInv, NotYet, NoneAhead, OneLive,
     GoesOn, Live, HasNext, Nothing, Watches
<1>7. \A u \in Timer : u # t => Same(u)
  BY <1>1, <1>2, <1>3 DEF IInv, TypeOK, Same, Follow, entry
<1>. QED
  BY <1>1, <1>3, <1>4, <1>5, <1>6, <1>7, OneTimer DEF Ground

-----------------------------------------------------------------------------
(* The theorems. *)

\* Nothing is armed before the first step.
LEMMA InitInv ==
  ASSUME Init
  PROVE  IInv /\ GoesOnInv
<1>1. 0 \in Generation /\ changes = 0 /\ MaxChanges \in Nat
  BY TimersAssumption DEF Init, Generation
<1>2. TypeOK
  BY <1>1 DEF Init, TypeOK
<1>3. ASSUME NEW t \in Timer PROVE TimerInv(t) /\ GoesOn(t)
  <2>1. /\ stage[t] = "unmade" /\ gen[t] = 0 /\ told[t] = 0 /\ watches[t] = 0
        /\ tick[t] = -1 /\ becoming[t] = "none"
        /\ \A g \in Generation : armed[t][g] = 0
    BY DEF Init, Nothing
  <2>2. Bounded(t) /\ Holding(t) /\ NotYet(t)
    BY <1>1, <2>1 DEF Bounded, Holding, NotYet, Changing, Nothing
  <2>3. NoneAhead(t) /\ OneLive(t)
    BY <1>1, <2>1 DEF NoneAhead, OneLive, Live
  <2>4. GoesOn(t)
    BY <2>1 DEF GoesOn
  <2>. QED
    BY <2>2, <2>3, <2>4 DEF TimerInv
<1>. QED
  BY <1>2, <1>3 DEF IInv, GoesOnInv

\* Every step keeps both invariants.
LEMMA StepInv ==
  ASSUME IInv, [Next]_vars
  PROVE  /\ IInv'
         /\ ~Meddles /\ GoesOnInv => GoesOnInv'
<1>1. CASE UNCHANGED vars
  <2>1. TypeOK'
    BY <1>1 DEF IInv, TypeOK, vars, entry
  <2>2. \A u \in Timer : Same(u)
    BY <1>1 DEF Same, vars, entry
  <2>3. changes' \in Nat /\ changes' >= changes
    BY <1>1, TimersAssumption DEF IInv, TypeOK, vars
  <2>4. \A u \in Timer : TimerInv(u)' /\ (GoesOn(u) => GoesOn(u)')
    BY <2>2, <2>3, SameKeeps
  <2>. QED
    BY <2>1, <2>4 DEF IInv, GoesOnInv
<1>2. ASSUME NEW t \in Timer,
             StartReads(t) \/ Onward(t) \/ Follow(t) \/ Stop(t)
      PROVE  IInv' /\ (~Meddles /\ GoesOnInv => GoesOnInv')
  BY <1>2, StartReadsKeeps, StartWatchesKeeps, StartArmsKeeps, PeriodArmsKeeps,
     RunReturnsKeeps, FollowKeeps, StopKeeps DEF Onward
<1>3. ASSUME NEW t \in Timer, NEW some \in BOOLEAN,
             SetValue(t, some) \/ Activate(t, some)
      PROVE  IInv' /\ (~Meddles /\ GoesOnInv => GoesOnInv')
  BY <1>3, SetValueKeeps, ActivateKeeps
<1>4. ASSUME NEW t \in Timer, NEW m \in Mode, PeriodWatches(t, m)
      PROVE  IInv' /\ (~Meddles /\ GoesOnInv => GoesOnInv')
  BY <1>4, PeriodWatchesKeeps
<1>5. ASSUME NEW t \in Timer, NEW g \in Generation, Tick(t, g)
      PROVE  IInv' /\ (~Meddles /\ GoesOnInv => GoesOnInv')
  BY <1>5, TickStaleKeeps, TickIdleKeeps, TickRunsKeeps DEF Tick
<1>. QED
  BY <1>1, <1>2, <1>3, <1>4, <1>5 DEF Next

\* Of every reachable state.
LEMMA Inductive == Spec => []IInv
<1>1. Init => IInv
  BY InitInv
<1>2. IInv /\ [Next]_vars => IInv'
  BY StepInv
<1>. QED
  BY <1>1, <1>2, PTL DEF Spec

\* The state of every timer has the types the model gives it.
THEOREM TimersTypeCorrect == Spec => []TypeOK
<1>1. IInv => TypeOK
  BY DEF IInv
<1>. QED
  BY <1>1, Inductive, PTL

\* No timer ever has two live chains of wake-ups, whatever changes its period
\* and whenever: the rate of a timer does not double (tick, follow, period).
THEOREM OneChainEver == Spec => []OneChain
<1>1. IInv => OneChain
  BY DEF IInv, TimerInv, OneLive, OneChain
<1>. QED
  BY <1>1, Inductive, PTL

\* Where no value changes between the two lines of `start` that read it and
\* watch it, the chain of a running timer goes on as long as it has a period
\* and was told all it is to be told.  (`start` does not see to that itself.)
THEOREM ChainGoesOnUnmeddled == ~Meddles => (Spec => []ChainGoesOn)
<1>. SUFFICES ASSUME ~Meddles
              PROVE  Spec => []ChainGoesOn
  OBVIOUS
<1>1. Init => IInv /\ GoesOnInv
  BY InitInv
<1>2. IInv /\ GoesOnInv /\ [Next]_vars => (IInv /\ GoesOnInv)'
  BY StepInv
<1>3. GoesOnInv => ChainGoesOn
  BY DEF GoesOnInv, GoesOn, ChainGoesOn
<1>. QED
  BY <1>1, <1>2, <1>3, PTL DEF Spec
=============================================================================

------------------------------- MODULE Timers -------------------------------
(***************************************************************************)
(* The timers of a guinea application (guinea-app/src/timers.rs).          *)
(*                                                                         *)
(* A timer ticks by a chain: a task sleeps a period and posts a tick to    *)
(* the UI thread, and the tick, once its program ran, arms the next.       *)
(* Changing the period starts a new chain; what the old one has under way  *)
(* cannot be called back, and tells itself by its generation.  A period    *)
(* may follow a value that other threads change.                           *)
(*                                                                         *)
(* A sleep may end at any moment, and a posted tick waits its turn, so a   *)
(* sleeping task and a tick that was posted are one: a wake-up under way.  *)
(***************************************************************************)
EXTENDS Integers, FiniteSets

CONSTANTS
  Timer,
  MaxChanges,  \* how often anything but time moves
  Meddles      \* whether a value may change while a timer that follows it starts

ASSUME TimersAssumption == MaxChanges \in Nat /\ Meddles \in BOOLEAN

\* fixed: Period::Fixed and Period::Varying, which always have a period.
Mode == {"fixed", "following"}
Nothing == -1

\* A change posts a re-arming to each of the two watches a timer may hold.
Generation == 0..2 * MaxChanges

VARIABLES
  stage,     \* how far `start` is, and whether the timer runs after it
  mode,      \* Entry::period
  readable,  \* whether the value it follows has something to read
  first,     \* the local `first` of `start`
  watches,   \* how many watches on that value the timer holds
  gen,       \* Entry::generation
  armed,     \* wake-ups under way, by generation
  told,      \* jobs of `follow` posted to the UI thread
  tick,      \* the generation of the tick whose `run` is being run
  becoming,  \* what a call of Timer::period is changing the period to
  active,    \* whether its scope is awake and its `when` says so
  changes

entry == <<mode, watches, gen>>
vars == <<stage, readable, first, entry, armed, told, tick, becoming, active, changes>>

TypeOK ==
  /\ stage \in [Timer -> {"unmade", "read", "watched", "running", "stopped"}]
  /\ mode \in [Timer -> Mode]
  /\ readable \in [Timer -> BOOLEAN]
  /\ first \in [Timer -> BOOLEAN]
  /\ watches \in [Timer -> 0..2]
  /\ gen \in [Timer -> Generation]
  /\ armed \in [Timer -> [Generation -> Nat]]
  /\ told \in [Timer -> Nat]
  /\ tick \in [Timer -> Generation \cup {Nothing}]
  /\ becoming \in [Timer -> Mode \cup {"none"}]
  /\ active \in [Timer -> BOOLEAN]
  /\ changes \in 0..MaxChanges

Init ==
  /\ stage = [t \in Timer |-> "unmade"]
  /\ mode \in [Timer -> Mode]
  /\ readable \in [Timer -> BOOLEAN]
  /\ first = [t \in Timer |-> FALSE]
  /\ watches = [t \in Timer |-> 0]
  /\ gen = [t \in Timer |-> 0]
  /\ armed = [t \in Timer |-> [g \in Generation |-> 0]]
  /\ told = [t \in Timer |-> 0]
  /\ tick = [t \in Timer |-> Nothing]
  /\ becoming = [t \in Timer |-> "none"]
  /\ active \in [Timer -> BOOLEAN]
  /\ changes = 0

-----------------------------------------------------------------------------
(* Starting. *)

\* Period::next: whether a period in that mode has a wait to give.
HasNext(t, m) == m = "fixed" \/ readable[t]

Watches(m) == IF m = "following" THEN 1 ELSE 0

\* wake_after, with nothing to wait by when `some` is FALSE.
WakeAfter(t, g, some) ==
  armed' = IF some THEN [armed EXCEPT ![t][g] = @ + 1] ELSE armed

StartReads(t) ==
  /\ stage[t] = "unmade"
  /\ stage' = [stage EXCEPT ![t] = "read"]
  /\ first' = [first EXCEPT ![t] = HasNext(t, mode[t])]
  /\ UNCHANGED <<readable, entry, armed, told, tick, becoming, active, changes>>

StartWatches(t) ==
  /\ stage[t] = "read"
  /\ stage' = [stage EXCEPT ![t] = "watched"]
  /\ watches' = [watches EXCEPT ![t] = Watches(mode[t])]
  /\ UNCHANGED <<readable, first, mode, gen, armed, told, tick, becoming, active, changes>>

StartArms(t) ==
  /\ stage[t] = "watched"
  /\ stage' = [stage EXCEPT ![t] = "running"]
  /\ WakeAfter(t, 0, first[t])
  /\ UNCHANGED <<readable, first, entry, told, tick, becoming, active, changes>>

-----------------------------------------------------------------------------
(* What moves while it runs. *)

Move ==
  /\ changes < MaxChanges
  /\ changes' = changes + 1

\* Another thread changes the value, which tells whoever watches it.
SetValue(t, some) ==
  /\ Move
  /\ Meddles \/ stage[t] # "read"
  /\ readable' = [readable EXCEPT ![t] = some]
  /\ told' = [told EXCEPT ![t] = @ + watches[t]]
  /\ UNCHANGED <<stage, first, entry, armed, tick, becoming, active>>

\* A timer that was stopped by its own run is still there until that returns.
Upgrades(t) == stage[t] = "running" \/ tick[t] # Nothing

\* Timer::period watches the new value before it lets go of the old.
PeriodWatches(t, m) ==
  /\ Move
  /\ Upgrades(t)
  /\ becoming[t] = "none"
  /\ becoming' = [becoming EXCEPT ![t] = m]
  /\ watches' = [watches EXCEPT ![t] = @ + Watches(m)]
  /\ UNCHANGED <<stage, readable, first, mode, gen, armed, told, tick, active>>

PeriodArms(t) ==
  /\ becoming[t] # "none"
  /\ becoming' = [becoming EXCEPT ![t] = "none"]
  /\ mode' = [mode EXCEPT ![t] = becoming[t]]
  /\ watches' = [watches EXCEPT ![t] = Watches(becoming[t])]
  /\ gen' = [gen EXCEPT ![t] = @ + 1]
  /\ WakeAfter(t, gen[t] + 1, HasNext(t, becoming[t]))
  /\ UNCHANGED <<stage, readable, first, told, tick, active, changes>>

\* Ticking is dropped.  The entry goes with it, and its watch, unless the run
\* that drops it still holds it.
Stop(t) ==
  /\ Move
  /\ stage[t] = "running"
  /\ becoming[t] = "none"
  /\ stage' = [stage EXCEPT ![t] = "stopped"]
  /\ watches' = IF tick[t] = Nothing THEN [watches EXCEPT ![t] = 0] ELSE watches
  /\ UNCHANGED <<readable, first, mode, gen, armed, told, tick, becoming, active>>

Activate(t, yes) ==
  /\ Move
  /\ active' = [active EXCEPT ![t] = yes]
  /\ UNCHANGED <<stage, readable, first, entry, armed, told, tick, becoming>>

-----------------------------------------------------------------------------
(* The UI thread. *)

\* Neither a tick nor a job of `follow` of a timer comes in the middle of
\* another, or of a call of its `period`.
Free(t) == tick[t] = Nothing /\ becoming[t] = "none"

Due(t, g) == armed[t][g] > 0 /\ Free(t)

Woken(t, g) == [armed EXCEPT ![t][g] = @ - 1]

\* The timer is gone, or the chain was ended.
Stale(t, g) == stage[t] # "running" \/ gen[t] # g

TickStale(t, g) ==
  /\ Due(t, g)
  /\ Stale(t, g)
  /\ armed' = Woken(t, g)
  /\ UNCHANGED <<stage, readable, first, entry, told, tick, becoming, active, changes>>

\* Mutant of TickIdle: a tick that is skipped is the last.
TickIdleLast(t, g) ==
  /\ Due(t, g)
  /\ ~Stale(t, g)
  /\ ~active[t]
  /\ armed' = Woken(t, g)
  /\ UNCHANGED <<stage, readable, first, entry, told, tick, becoming, active, changes>>

\* Its period runs on while it is not to run.
TickIdle(t, g) ==
  /\ Due(t, g)
  /\ ~Stale(t, g)
  /\ ~active[t]
  /\ armed' = IF HasNext(t, mode[t]) THEN armed ELSE Woken(t, g)
  /\ UNCHANGED <<stage, readable, first, entry, told, tick, becoming, active, changes>>

TickRuns(t, g) ==
  /\ Due(t, g)
  /\ ~Stale(t, g)
  /\ active[t]
  /\ armed' = Woken(t, g)
  /\ tick' = [tick EXCEPT ![t] = g]
  /\ UNCHANGED <<stage, readable, first, entry, told, becoming, active, changes>>

\* Mutant of RunReturns: it arms the next of the chain that is live by then.
RunReturnsLive(t) ==
  /\ tick[t] # Nothing
  /\ becoming[t] = "none"
  /\ tick' = [tick EXCEPT ![t] = Nothing]
  /\ WakeAfter(t, gen[t], HasNext(t, mode[t]))
  /\ watches' = IF stage[t] = "stopped" THEN [watches EXCEPT ![t] = 0] ELSE watches
  /\ UNCHANGED <<stage, readable, first, mode, gen, told, becoming, active, changes>>

\* Mutant of RunReturns: it arms nothing.
RunReturnsLast(t) ==
  /\ tick[t] # Nothing
  /\ becoming[t] = "none"
  /\ tick' = [tick EXCEPT ![t] = Nothing]
  /\ watches' = IF stage[t] = "stopped" THEN [watches EXCEPT ![t] = 0] ELSE watches
  /\ UNCHANGED <<stage, readable, first, mode, gen, armed, told, becoming, active, changes>>

\* It arms the next of its own chain, whatever `run` did to the timer.
RunReturns(t) ==
  /\ tick[t] # Nothing
  /\ becoming[t] = "none"
  /\ tick' = [tick EXCEPT ![t] = Nothing]
  /\ WakeAfter(t, tick[t], HasNext(t, mode[t]))
  /\ watches' = IF stage[t] = "stopped" THEN [watches EXCEPT ![t] = 0] ELSE watches
  /\ UNCHANGED <<stage, readable, first, mode, gen, told, becoming, active, changes>>

Follow(t) ==
  /\ told[t] > 0
  /\ Free(t)
  /\ stage[t] \in {"running", "stopped"}
  /\ told' = [told EXCEPT ![t] = @ - 1]
  /\ IF stage[t] = "running"
     THEN /\ gen' = [gen EXCEPT ![t] = @ + 1]
          /\ WakeAfter(t, gen[t] + 1, HasNext(t, mode[t]))
     ELSE UNCHANGED <<gen, armed>>
  /\ UNCHANGED <<stage, readable, first, mode, watches, tick, becoming, active, changes>>

Tick(t, g) == TickStale(t, g) \/ TickIdle(t, g) \/ TickRuns(t, g)

\* What the UI thread has begun it goes on with.
Onward(t) == StartWatches(t) \/ StartArms(t) \/ PeriodArms(t) \/ RunReturns(t)

Next ==
  \E t \in Timer :
    \/ StartReads(t) \/ Onward(t) \/ Follow(t) \/ Stop(t)
    \/ \E some \in BOOLEAN : SetValue(t, some) \/ Activate(t, some)
    \/ \E m \in Mode : PeriodWatches(t, m)
    \/ \E g \in Generation : Tick(t, g)

Spec == Init /\ [][Next]_vars

\* Sleeps end, and the UI thread goes on.  It takes its jobs in the order they
\* were posted: none is passed over for ever, however often it is busy with
\* another when its turn could come, which is what strong fairness says.
Fairness ==
  \A t \in Timer :
    /\ WF_vars(Onward(t))
    /\ SF_vars(Follow(t))
    /\ \A g \in Generation : SF_vars(Tick(t, g))

FairSpec == Spec /\ Fairness

-----------------------------------------------------------------------------
(* Properties. *)

\* The wake-ups of the live chain: under way, or being run.
Live(t) == armed[t][gen[t]] + IF tick[t] = gen[t] THEN 1 ELSE 0

\* There is never a second live chain: whatever changes the period, and
\* however that falls between a wake-up and its tick, or inside a tick, the
\* timer does not tick twice a period from then on (tick, period, follow).
OneChain == \A t \in Timer : Live(t) <= 1

\* A timer that runs, by a period that is there, has a wake-up coming, once
\* it was told of every change of the value it follows.
ChainGoesOn ==
  \A t \in Timer :
    stage[t] = "running" /\ told[t] = 0 /\ HasNext(t, mode[t])
      => Live(t) >= 1

\* A timer that is left alone, with a period, and is to run, keeps running.
TimersTick ==
  \A t \in Timer :
    <>[](stage[t] = "running" /\ active[t] /\ HasNext(t, mode[t]))
      => []<>(tick[t] # Nothing)
=============================================================================

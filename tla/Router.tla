------------------------------- MODULE Router -------------------------------
(***************************************************************************)
(* The router of guinea-router and the navigation handle over it: how a    *)
(* navigation is decided by guards, parked on a question, held back by a   *)
(* frame, committed one segment at a time, undone when a segment fails to  *)
(* install, and settled into the history.                                  *)
(*                                                                         *)
(* Everything runs on the UI thread, but guards, wake hooks and route      *)
(* hooks are program code that may navigate in turn, so what is under way  *)
(* is a stack of calls whose last is the one running.                      *)
(***************************************************************************)
EXTENDS Naturals, FiniteSets, SequencesExt

CONSTANTS
  Route,           \* what routes! declares
  Chain,           \* a route's segments from the outermost, each its type and capture
  Keep,            \* the segment types declared keep
  CacheState,      \* those whose states survive them in the cache
  EnterGuarded,    \* the routes with a guard in front
  LeaveGuarded,    \* the segment types whose install registers a leave guard
  Habit,           \* what this program's code does, of the Habits below
  MaxNavigations, MaxScopes, MaxCached

Habits == {
  "enterAsk", "leaveAsk",   \* the guards of either kind put questions
  "frames",         \* the backend draws in frames, from the chain
  "askWhileHeld",   \* a guard puts a question while a frame holds a navigation
  "answerInFrame",  \* a question may be answered by what a frame draws
  "stepAgain",      \* back and forward come before the last navigation settled
  "guard", "wake", "hook",  \* these callbacks navigate
  "fail", "failBack",       \* an install fails, and so does putting it back
  "activate", "deactivate" }

Nowhere == "nowhere"

ASSUME RouterAssumption ==
  /\ Chain \in [Route -> Seq([seg : STRING, param : Nat])]
  /\ \A r \in Route : Chain[r] # <<>>
  /\ EnterGuarded \subseteq Route
  /\ Habit \subseteq Habits
  /\ {MaxNavigations, MaxScopes, MaxCached} \subseteq Nat \ {0}
  /\ Nowhere \notin Route

VARIABLES
  active,      \* the chain that stands, its scopes, and whether a route made it
  prevRoute,   \* the route the router is at
  scope,       \* what each living scope is: the scopes above it, the segment
               \* it was installed for, the segment its restored states came
               \* from, and whether it is awake
  sleeping,    \* by place, the keep segments navigations left
  cache,       \* by place, the states segments left, oldest first
  calls,       \* the navigations not settled yet
  generation,
  pending,     \* the navigation whose question is up
  held,        \* the navigation a frame holds back
  drawing,
  asking,      \* the decisions nobody has made yet
  hist,        \* where the handle can step back and forward to
  told,        \* the route hooks and the sink were last told of
  stack        \* the calls under way, the last one running

vars == <<active, prevRoute, scope, sleeping, cache, calls, generation, pending,
          held, drawing, asking, hist, told, stack>>
chainVars == <<active, scope, sleeping, cache>>
askVars   == <<generation, pending, held, drawing, asking>>

NoCall     == 0
Activation == MaxNavigations + 1
NoChain    == [chain |-> <<>>, scopes |-> <<>>, again |-> FALSE]
Host       == 0     \* the scope chains are built under
ScopeId    == 1..MaxScopes
Call       == 1..Activation

Init ==
  /\ active = NoChain /\ prevRoute = Nowhere
  /\ scope = <<>> /\ sleeping = <<>> /\ cache = <<>>
  /\ calls = <<>> /\ generation = 0
  /\ pending = NoCall /\ held = NoCall /\ drawing = FALSE /\ asking = {}
  /\ hist = [back |-> <<>>, forward |-> <<>>] /\ told = Nowhere
  /\ stack = <<>>

(***************************************************************************)
(* Chains and places                                                       *)
(***************************************************************************)
Without(f, S) == Restrict(f, DOMAIN f \ S)
Over(f, g)    == [z \in DOMAIN f \cup DOMAIN g |-> IF z \in DOMAIN f THEN f[z] ELSE g[z]]
With(f, x, y) == [z \in DOMAIN f \cup {x} |-> IF z = x THEN y ELSE f[z]]

\* Where a segment sits: every type from the root down to it.
Place(c, i) == [j \in 1..i |-> c[j].seg]
Segment(c, i) == [place |-> Place(c, i), param |-> c[i].param]

\* How many segments the next chain keeps: same type, same capture.
SharedLen(c) ==
  Cardinality({i \in DOMAIN c : \A j \in 1..i : j \in DOMAIN active.chain /\ active.chain[j] = c[j]})

\* How far below those the chain left goes to sleep instead of going.
KeptUntil(c, shared) ==
  shared + Cardinality({i \in DOMAIN c : i > shared /\ \A j \in (shared + 1)..i : c[j].seg \in Keep})

\* A scope goes with everything that sits under it.
Under(S) == {s \in DOMAIN scope : s \in S \/ ToSet(scope[s].line) \cap S # {}}
Line(p)   == IF p = Host THEN <<>> ELSE Append(scope[p].line, p)
Parent(s) == IF scope[s].line = <<>> THEN Host ELSE Last(scope[s].line)
Stands(standing) == IF standing = <<>> THEN Host ELSE Last(standing)

\* Mutant of Slept: what went is still kept.
SleptOn(S, D) == S
\* The kept segments S without those whose scopes D went.
Slept(S, D) == RestrictDomain(S, LAMBDA k : S[k].scope \notin D)

\* A name for a new scope: names of the living, and dead ones still held
\* somewhere, are not given again.
Named ==
  UNION ({DOMAIN scope, ToSet(active.scopes)}
         \cup {ToSet(stack[f].scopes) : f \in DOMAIN stack}
         \cup {calls[n].asked : n \in DOMAIN calls}
         \cup {{sleeping[k].scope} : k \in DOMAIN sleeping})
FreshScope == CHOOSE s \in ScopeId : s \notin Named

\* The states of a segment by its place. A place that is in keeps its turn to
\* be dropped.
CacheAt(place) == {i \in DOMAIN cache : cache[i].place = place}

CacheInsert(entry) ==
  IF CacheAt(entry.place) # {}
  THEN [i \in DOMAIN cache |-> IF cache[i].place = entry.place THEN entry ELSE cache[i]]
  ELSE IF Len(cache) < MaxCached THEN Append(cache, entry) ELSE Tail(Append(cache, entry))
CacheTake(place) ==
  IF CacheAt(place) = {} THEN cache ELSE RemoveAt(cache, CHOOSE i \in CacheAt(place) : TRUE)

(***************************************************************************)
(* Calls, and what becomes of the history                                  *)
(***************************************************************************)
Idle     == stack = <<>>
Running  == Last(stack)
Callers  == Front(stack)
Goes(f)  == stack' = Append(Callers, f)
Returns  == stack' = Callers

Frame(n, at) == [nav |-> n, at |-> at, ok |-> TRUE, scopes |-> <<>>, floor |-> 0,
                 old |-> NoChain, next |-> 0]

Pop(s) == IF s = <<>> THEN s ELSE Front(s)

\* Mutant of Refused: the step is put back, and stays where it was put too.
RefusedTwice(h, n) ==
  CASE calls[n].step = "back"    -> [h EXCEPT !.back = Append(@, calls[n].route)]
    [] calls[n].step = "forward" -> [h EXCEPT !.forward = Append(@, calls[n].route)]
    [] OTHER -> h

\* What settling a navigation as refused does to the history: a step taken
\* out of it goes back.
Refused(h, n) ==
  CASE calls[n].step = "back"    -> [back |-> Append(h.back, calls[n].route), forward |-> Pop(h.forward)]
    [] calls[n].step = "forward" -> [back |-> Pop(h.back), forward |-> Append(h.forward, calls[n].route)]
    [] OTHER -> h

\* Mutant of SettleRefused: the callback is dropped, not run.
SettleQuietly(n) ==
  /\ hist' = Refused(hist, n)
  /\ UNCHANGED calls

SettleRefused(n) ==
  /\ hist' = Refused(hist, n)
  /\ calls' = Without(calls, {n})

\* Mutant of LeavingScopes: one segment too few.
LeavingBelow(n) ==
  {active.scopes[i] : i \in {j \in DOMAIN active.scopes : j > KeptUntil(active.chain, calls[n].shared) + 1}}

\* The scopes a leave guard may speak for: those that neither stay nor sleep.
LeavingScopes(n) ==
  {active.scopes[i] : i \in {j \in DOMAIN active.scopes : j > KeptUntil(active.chain, calls[n].shared)}}

\* Who may refuse the running navigation at this point: what stands in front
\* of the destination, then the scopes that have a leave guard.
Refusers(f) ==
  CASE f.at = "enter" -> IF calls[f.nav].route \in EnterGuarded THEN {Host} ELSE {}
    [] f.at = "leave" -> {s \in calls[f.nav].asked \cap DOMAIN scope :
                            Last(scope[s].made.place) \in LeaveGuarded}
    [] OTHER -> {}

\* Program code the router runs, that may navigate in turn.
CalledBack ==
  /\ ~Idle
  /\ \/ "guard" \in Habit /\ Refusers(Running) # {}
     \/ "wake" \in Habit /\ Running.at = "woken"
     \/ "hook" \in Habit /\ Running.at = "telling"

(***************************************************************************)
(* Deciding                                                                *)
(***************************************************************************)
\* navigate_then, up to its guards: a question still up belongs to a
\* navigation nobody wants any more. h is the history the step left.
NavigateThen(step, r, h) ==
  /\ generation < MaxNavigations
  /\ generation' = generation + 1
  /\ hist' = IF pending = NoCall THEN h ELSE Refused(h, pending)
  /\ calls' = With(Without(calls, {pending}), generation + 1,
                   [route |-> r, step |-> step, leaving |-> prevRoute,
                    shared |-> SharedLen(Chain[r]), asked |-> {}])
  /\ pending' = NoCall
  /\ stack' = Append(stack, Frame(generation + 1, "enter"))
  /\ UNCHANGED <<chainVars, prevRoute, held, drawing, asking, told>>

\* The backend goes to the first route by itself, with no handle and no history.
Start(r) == Idle /\ generation = 0 /\ NavigateThen("start", r, hist)

To(r) ==
  /\ Idle \/ CalledBack
  /\ generation > 0
  /\ NavigateThen("to", r, hist)

\* Something is not settled yet: the handle is not used to step again then,
\* unless the program has the habit.
MayStep ==
  /\ Idle
  /\ "stepAgain" \in Habit \/ {pending, held} = {NoCall}

Leaving == IF prevRoute = Nowhere THEN <<>> ELSE <<prevRoute>>

Back ==
  /\ MayStep
  /\ hist.back # <<>>
  /\ NavigateThen("back", Last(hist.back),
       [back |-> Front(hist.back), forward |-> hist.forward \o Leaving])

Forward ==
  /\ MayStep
  /\ hist.forward # <<>>
  /\ NavigateThen("forward", Last(hist.forward),
       [back |-> hist.back \o Leaving, forward |-> Front(hist.forward)])

\* The guards in front of the destination let it by: now those of the scopes
\* that would go are asked, as they are at this moment.
EnterAllowed ==
  /\ ~Idle /\ Running.at = "enter"
  /\ calls' = [calls EXCEPT ![Running.nav].asked = LeavingScopes(Running.nav)]
  /\ Goes([Running EXCEPT !.at = "leave"])
  /\ UNCHANGED <<chainVars, askVars, prevRoute, hist, told>>

\* Mutant of HoldsBack: a navigation from a frame happens underneath it.
NeverHoldsBack == FALSE
HoldsBack == drawing

\* Nobody refuses. A frame in progress holds the navigation back, and one
\* held already is superseded; otherwise it is committed.
LeaveAllowed ==
  /\ ~Idle /\ Running.at = "leave"
  /\ IF HoldsBack
     THEN /\ held' = Running.nav
          /\ IF held = NoCall THEN UNCHANGED <<hist, calls>> ELSE SettleRefused(held)
          /\ Returns
     ELSE Goes([Running EXCEPT !.at = "commit"]) /\ UNCHANGED <<held, hist, calls>>
  /\ UNCHANGED <<chainVars, generation, pending, drawing, asking, prevRoute, told>>

Block ==
  /\ ~Idle /\ Refusers(Running) # {}
  /\ SettleRefused(Running.nav)
  /\ Returns
  /\ UNCHANGED <<chainVars, askVars, prevRoute, told>>

\* Mutant of Park: the answer is waited for before the question is in place,
\* and comes by then.
ParkUnheard(n) ==
  /\ pending' = n
  /\ UNCHANGED asking
Park(n) ==
  /\ pending' = n
  /\ asking' = asking \cup {n}

\* A guard has a question: the navigation is parked, over whatever was, and
\* the guards that come after this one - further out - are not asked.
Ask ==
  /\ ~Idle
  /\ (IF Running.at = "enter" THEN "enterAsk" ELSE "leaveAsk") \in Habit
  /\ held # NoCall => "askWhileHeld" \in Habit
  /\ \E s \in Refusers(Running) :
       calls' = [calls EXCEPT ![Running.nav].asked =
                   IF Running.at = "enter" THEN {} ELSE @ \cap Under({s})]
  /\ Park(Running.nav)
  /\ Returns
  /\ UNCHANGED <<chainVars, prevRoute, generation, held, drawing, hist, told>>

\* Somebody makes a decision, through the router or with the token a guard
\* handed out - of a question that may be gone. on_answer looks for itself.
Answer(n, allowed) ==
  /\ Idle \/ CalledBack
  /\ drawing => "answerInFrame" \in Habit
  /\ n \in asking
  /\ asking' = asking \ {n}
  /\ IF generation = n /\ pending # NoCall
     THEN /\ pending' = NoCall
          /\ IF allowed
             THEN stack' = Append(stack, Frame(pending, "commit")) /\ UNCHANGED <<hist, calls>>
             ELSE SettleRefused(pending) /\ UNCHANGED stack
     ELSE UNCHANGED <<pending, hist, calls, stack>>
  /\ UNCHANGED <<chainVars, prevRoute, generation, held, drawing, told>>

(***************************************************************************)
(* Frames                                                                  *)
(***************************************************************************)
BeginFrame ==
  /\ "frames" \in Habit
  /\ Idle /\ ~drawing /\ active # NoChain
  /\ drawing' = TRUE
  /\ UNCHANGED <<chainVars, prevRoute, calls, generation, pending, held, asking, hist, told, stack>>

\* The backend lets go of the chain and settles what waited for it.
EndFrame ==
  /\ Idle /\ drawing
  /\ drawing' = FALSE
  /\ held' = NoCall
  /\ stack' = IF held = NoCall THEN stack ELSE <<Frame(held, "commit")>>
  /\ UNCHANGED <<chainVars, prevRoute, calls, generation, pending, asking, hist, told>>

(***************************************************************************)
(* Committing                                                              *)
(***************************************************************************)
Shared(n) == IF n = Activation THEN 0 ELSE calls[n].shared
Least(a, b) == IF a < b THEN a ELSE b

\* The chain is taken before anything of it goes.
Take ==
  /\ ~Idle /\ Running.at = "commit"
  /\ active' = NoChain
  /\ LET floor == Least(Shared(Running.nav), Len(active.scopes))
     IN  Goes([Running EXCEPT !.at = "leaving", !.old = active, !.scopes = active.scopes,
                 !.floor = floor,
                 !.next = KeptUntil(active.chain, Shared(Running.nav)) + 1])
  /\ UNCHANGED <<scope, sleeping, cache, askVars, prevRoute, calls, hist, told>>

\* One segment that goes leaves its states in the cache.
Snapshot ==
  /\ ~Idle /\ Running.at = "leaving"
  /\ LET c == Running.old.chain
         i == Running.next
     IN  /\ i \in DOMAIN Running.scopes
         /\ cache' = IF c[i].seg \in CacheState /\ Running.scopes[i] \in DOMAIN scope
                     THEN CacheInsert([place |-> Place(c, i), param |-> c[i].param,
                                       from |-> scope[Running.scopes[i]].made])
                     ELSE cache
         /\ Goes([Running EXCEPT !.next = i + 1])
  /\ UNCHANGED <<active, scope, sleeping, askVars, prevRoute, calls, hist, told>>

\* The run of keep segments under what stays goes to sleep, each in its place,
\* and the rest goes.
LeaveChain ==
  /\ ~Idle /\ Running.at = "leaving"
  /\ Running.next \notin DOMAIN Running.scopes
  /\ LET c       == Running.old.chain
         keeping == KeptUntil(c, Shared(Running.nav))
         below   == {i \in DOMAIN Running.scopes : i > Running.floor}
         kept    == {i \in below : i <= keeping}
         put     == [k \in {Place(c, i) : i \in kept} |->
                       [scope |-> Running.scopes[Len(k)], param |-> c[Len(k)].param]]
         gone    == Under({Running.scopes[i] : i \in below \ kept}
                          \cup {sleeping[k].scope : k \in DOMAIN put \cap DOMAIN sleeping})
     IN  /\ scope' = [s \in DOMAIN scope \ gone |->
                        [scope[s] EXCEPT !.awake = @ /\ s \notin {Running.scopes[i] : i \in kept}]]
         /\ sleeping' = Slept(Over(put, sleeping), gone)
         /\ Goes([Running EXCEPT !.at = "building", !.scopes = SubSeq(@, 1, Running.floor)])
  /\ UNCHANGED <<active, cache, askVars, prevRoute, calls, hist, told>>

\* Mutant of Target: a failed chain is built once more.
TargetStill(f) == Chain[calls[f.nav].route]
\* What is built: the navigation's chain, or after a failure the one it
\* replaced.
Target(f) == IF f.ok THEN Chain[calls[f.nav].route] ELSE f.old.chain

\* The segment to build next, its place, and what sleeps there.
NextIndex == Len(Running.scopes) + 1
NextPlace == Place(Target(Running), NextIndex)
Building  == ~Idle /\ Running.at = "building" /\ NextIndex \in DOMAIN Target(Running)
Sleeper   == {sleeping[k].scope : k \in {NextPlace} \cap DOMAIN sleeping}

\* Woken only under the very scope it was installed under, for the same
\* capture.
Wakeable ==
  LET here == Target(Running)[NextIndex]
  IN  /\ Sleeper # {} /\ Sleeper \subseteq DOMAIN scope
      /\ here.seg \in Keep
      /\ \A s \in Sleeper : Parent(s) = Stands(Running.scopes)
      /\ sleeping[NextPlace].param = here.param

TakeSleeper ==
  /\ Building /\ Wakeable
  /\ sleeping' = Without(sleeping, {NextPlace})
  /\ Goes([Running EXCEPT !.scopes = Append(@, sleeping[NextPlace].scope)])
  /\ UNCHANGED <<active, scope, cache, askVars, prevRoute, calls, hist, told>>

\* The states in the cache for the next segment, only if it captured the same.
Restored ==
  LET here == Target(Running)[NextIndex]
  IN  IF here.seg \notin CacheState THEN {}
      ELSE {cache[i].from : i \in {j \in CacheAt(NextPlace) : cache[j].param = here.param}}

TakeStates ==
  cache' = IF Target(Running)[NextIndex].seg \in CacheState THEN CacheTake(NextPlace) ELSE cache

\* A segment that sleeps here and cannot wake is torn down, and a new one is
\* installed. child_in panics under a scope that is gone. MaxScopes bounds the
\* names.
Install ==
  /\ Building /\ ~Wakeable
  /\ Stands(Running.scopes) \in DOMAIN scope \cup {Host}
  /\ ScopeId \ Named # {}
  /\ LET gone == Under(Sleeper)
         p    == Stands(Running.scopes)
     IN  /\ scope' = With(Without(scope, gone), FreshScope,
                       [line |-> Line(p), made |-> Segment(Target(Running), NextIndex),
                        states |-> Restored, awake |-> TRUE])
         /\ sleeping' = Slept(sleeping, gone)
  /\ TakeStates
  /\ Goes([Running EXCEPT !.scopes = Append(@, FreshScope)])
  /\ UNCHANGED <<active, askVars, prevRoute, calls, hist, told>>

\* A segment fails to install: what this built, itself included, is gone
\* again, with whatever slept below.
Unbuilt(floor) ==
  LET gone == Under(Sleeper \cup {Running.scopes[i] : i \in {j \in DOMAIN Running.scopes : j > floor}})
  IN  /\ scope' = Without(scope, gone)
      /\ sleeping' = Slept(sleeping, gone)

\* The chain that stood before can be made again, from what is left of it.
Rollback ==
  /\ "fail" \in Habit
  /\ Building /\ ~Wakeable /\ Running.ok /\ Running.old.again
  /\ Unbuilt(Running.floor)
  /\ TakeStates
  /\ Goes([Running EXCEPT !.ok = FALSE, !.scopes = SubSeq(@, 1, Running.floor)])
  /\ UNCHANGED <<active, askVars, prevRoute, calls, hist, told>>

\* There is none to go back to, or it would not go back either: everything
\* that stood goes too, and the router is nowhere.
GiveUp ==
  /\ Building /\ ~Wakeable
  /\ IF Running.ok THEN "fail" \in Habit /\ ~Running.old.again ELSE "failBack" \in Habit
  /\ Unbuilt(0)
  /\ TakeStates
  /\ prevRoute' = Nowhere
  /\ SettleRefused(Running.nav)
  /\ Returns
  /\ UNCHANGED <<active, askVars, told>>

Stand ==
  /\ ~Idle /\ Running.at = "building" /\ NextIndex \notin DOMAIN Target(Running)
  /\ active' = [chain |-> Target(Running), scopes |-> Running.scopes,
                again |-> Running.nav # Activation]
  /\ Goes([Running EXCEPT !.at = "waking", !.next = 1])
  /\ UNCHANGED <<scope, sleeping, cache, askVars, prevRoute, calls, hist, told>>

\* The scopes that are not awake, from where the loop is, outermost first.
ToWake ==
  {i \in DOMAIN Running.scopes : i >= Running.next
      /\ ~(Running.scopes[i] \in DOMAIN scope /\ scope[Running.scopes[i]].awake)}
Waking == ~Idle /\ Running.at \in {"waking", "woken"}

Wake ==
  /\ Waking
  /\ \E i \in ToWake :
       /\ \A j \in ToWake : i <= j
       /\ LET s == Running.scopes[i]
          IN  IF s \in DOMAIN scope
              THEN /\ scope' = [scope EXCEPT ![s].awake = TRUE]
                   /\ Goes([Running EXCEPT !.at = "woken", !.next = i + 1])
              ELSE Goes([Running EXCEPT !.at = "waking", !.next = i + 1]) /\ UNCHANGED scope
  /\ UNCHANGED <<active, sleeping, cache, askVars, prevRoute, calls, hist, told>>

\* The router says it is at a route only once its chain stands. A navigation
\* asked for by the handle is then told of.
Arrive ==
  /\ Waking /\ ToWake = {} /\ Running.ok
  /\ prevRoute' = IF Running.nav = Activation THEN prevRoute ELSE calls[Running.nav].route
  /\ IF calls[Running.nav].step \in {"to", "back", "forward"}
     THEN Goes([Running EXCEPT !.at = "telling"]) /\ UNCHANGED calls
     ELSE Returns /\ calls' = Without(calls, {Running.nav})
  /\ UNCHANGED <<chainVars, askVars, hist, told>>

\* The chain that failed to go was put back: the router stayed where it was.
FallBack ==
  /\ Waking /\ ToWake = {} /\ ~Running.ok
  /\ SettleRefused(Running.nav)
  /\ Returns
  /\ UNCHANGED <<chainVars, askVars, prevRoute, told>>

Announced(n) == calls[n].route

\* Route hooks have run: the sink is told, and the handle remembers where it
\* came from.
Remembered(h, n) ==
  IF calls[n].step = "to" /\ calls[n].leaving # Nowhere
  THEN [back |-> Append(h.back, calls[n].leaving), forward |-> <<>>]
  ELSE h

Tell ==
  /\ ~Idle /\ Running.at = "telling"
  /\ told' = Announced(Running.nav)
  /\ hist' = Remembered(hist, Running.nav)
  /\ calls' = Without(calls, {Running.nav})
  /\ Returns
  /\ UNCHANGED <<chainVars, askVars, prevRoute>>

\* A chain put up with no route tree.
Activate(r) ==
  /\ "activate" \in Habit
  /\ Idle /\ ~drawing
  /\ prevRoute' = Nowhere
  /\ calls' = With(calls, Activation, [route |-> r, step |-> "activate", leaving |-> Nowhere,
                                       shared |-> 0, asked |-> {}])
  /\ stack' = <<Frame(Activation, "commit")>>
  /\ UNCHANGED <<chainVars, askVars, hist, told>>

Deactivate ==
  /\ "deactivate" \in Habit
  /\ Idle /\ ~drawing
  /\ scope' = Without(scope, Under({sleeping[k].scope : k \in DOMAIN sleeping} \cup ToSet(active.scopes)))
  /\ sleeping' = <<>>
  /\ active' = NoChain
  /\ prevRoute' = Nowhere
  /\ UNCHANGED <<cache, askVars, calls, hist, told, stack>>

(***************************************************************************)
(* The specification                                                       *)
(***************************************************************************)
\* What is under way runs on.
Run ==
  \/ EnterAllowed \/ LeaveAllowed \/ Block \/ Ask
  \/ Take \/ Snapshot \/ LeaveChain
  \/ TakeSleeper \/ Install \/ Rollback \/ GiveUp \/ Stand
  \/ Wake \/ Arrive \/ FallBack \/ Tell

Next ==
  \/ Run
  \/ \E r \in Route : Start(r) \/ To(r) \/ Activate(r)
  \/ Back \/ Forward
  \/ \E n \in asking, allowed \in BOOLEAN : Answer(n, allowed)
  \/ BeginFrame \/ EndFrame
  \/ Deactivate

Spec == Init /\ [][Next]_vars

\* The UI thread runs what is under way to its end, and a frame ends.
FairSpec == Spec /\ WF_vars(Run) /\ WF_vars(EndFrame)

(***************************************************************************)
(* Properties                                                              *)
(***************************************************************************)
Segments == UNION {{Segment(Chain[r], i) : i \in DOMAIN Chain[r]} : r \in Route}
Places   == {sg.place : sg \in Segments}

\* The router's state is well formed: what refers to a navigation refers to
\* one made, histories hold routes, the cache is no longer than it may be.
TypeOK ==
  /\ active.again \in BOOLEAN /\ Len(active.chain) <= Len(active.scopes)
  /\ prevRoute \in Route \cup {Nowhere} /\ told \in Route \cup {Nowhere}
  /\ DOMAIN scope \subseteq ScopeId
  /\ \A s \in DOMAIN scope :
       /\ ToSet(scope[s].line) \subseteq ScopeId
       /\ scope[s].made \in Segments /\ scope[s].states \subseteq Segments
       /\ scope[s].awake \in BOOLEAN
  /\ DOMAIN sleeping \subseteq Places
  /\ Len(cache) <= MaxCached
  /\ DOMAIN calls \subseteq Call
  /\ \A n \in DOMAIN calls : calls[n].route \in Route /\ calls[n].asked \subseteq ScopeId
  /\ generation \in 0..MaxNavigations
  /\ {pending, held} \cup asking \subseteq 0..MaxNavigations
  /\ drawing \in BOOLEAN
  /\ ToSet(hist.back) \cup ToSet(hist.forward) \subseteq Route
  /\ \A f \in DOMAIN stack : stack[f].nav \in DOMAIN calls

\* Every segment of the standing chain is in a scope installed for that very
\* segment, under the scope of the one before: what shared_len lets a
\* navigation keep.
SegmentsInTheirScopes ==
  active # NoChain =>
    /\ Len(active.scopes) = Len(active.chain)
    /\ \A i \in DOMAIN active.chain :
         /\ active.scopes[i] \in DOMAIN scope
         /\ scope[active.scopes[i]].made = Segment(active.chain, i)
         /\ scope[active.scopes[i]].line = SubSeq(active.scopes, 1, i - 1)

\* No scope outlives what kept it: each stands, sleeps, or is in the hands of
\* a navigation under way.
NoScopeLeaks ==
  DOMAIN scope \subseteq
    ToSet(active.scopes) \cup {sleeping[k].scope : k \in DOMAIN sleeping}
    \cup UNION {ToSet(stack[f].scopes) : f \in DOMAIN stack}

\* A segment asleep can still be woken where it slept: it is kept under its
\* own place, it is deaf, and the scope it was installed under is there.
SleepersCanWake ==
  \A k \in DOMAIN sleeping :
    LET s == sleeping[k].scope
    IN  /\ s \in DOMAIN scope
        /\ scope[s].made = [place |-> k, param |-> sleeping[k].param]
        /\ ~scope[s].awake
        /\ ToSet(scope[s].line) \subseteq DOMAIN scope

\* A scope with a leave guard goes only in a navigation that asked it, and
\* nothing else goes than what was asked about.
EveryGuardIsAsked ==
  ~Idle /\ Running.at = "leaving" /\ Running.nav # Activation =>
    \A i \in DOMAIN Running.old.scopes :
      LET s == Running.old.scopes[i]
      IN  /\ i > KeptUntil(Running.old.chain, Running.floor)
          /\ s \in DOMAIN scope
          /\ Last(scope[s].made.place) \in LeaveGuarded
          => s \in calls[Running.nav].asked

\* States come back only to the segment they came from: same place, same
\* capture.
StatesComeHome ==
  \A s \in DOMAIN scope : scope[s].states \subseteq {scope[s].made}

\* Every scope is where the router says it is: those that stand, those that
\* sleep and those in the hands of a navigation, with states of their own,
\* whatever failed on the way (router.rs:1286-1389, 1399-1435, 1524-1574).
ScopesAccountedFor ==
  NoScopeLeaks /\ SegmentsInTheirScopes /\ SleepersCanWake /\ StatesComeHome

\* The question on screen can be answered, and its answer is heeded.
QuestionCanBeAnswered ==
  pending # NoCall => pending \in asking /\ generation = pending

\* A navigation that is not settled is parked, held or under way: nobody waits
\* for an outcome that cannot come.
NoNavigationForgotten ==
  DOMAIN calls = ({pending, held} \ {NoCall}) \cup {stack[f].nav : f \in DOMAIN stack}

\* Whoever navigates is told how it ended, or waits for a question that can
\* be answered (router.rs:1033-1046, 1125-1176).
NavigationsAccountedFor == QuestionCanBeAnswered /\ NoNavigationForgotten

\* With nothing under way, the chain that stands is that of the route the
\* router says it is at, and the sink and the hooks were last told of it.
AtTheRouteThatStands ==
  Idle /\ prevRoute # Nowhere =>
    /\ active.chain = Chain[prevRoute]
    /\ told \in {prevRoute, Nowhere}

\* Nothing comes apart underneath a frame.
FrameUndisturbed ==
  [][drawing => UNCHANGED active /\ \A s \in ToSet(active.scopes) : s \in DOMAIN scope']_vars

\* The chain a failed navigation is replaced by comes back with the states
\* its cached segments had.
RollbackKeepsStates ==
  [][Stand /\ ~Running.ok =>
       \A i \in DOMAIN Running.scopes :
         i > Running.floor /\ Running.old.chain[i].seg \in CacheState
           => scope[Running.scopes[i]].states # {}]_vars

\* Steps taken out of the history by navigations that have not arrived, and
\* the arrival that is being told of.
Unarrived == {n \in DOMAIN calls : calls[n].step \in {"back", "forward"}
                /\ ~\E f \in DOMAIN stack : stack[f].nav = n /\ stack[f].at = "telling"}
Arrived == {stack[f].nav : f \in {g \in DOMAIN stack : stack[g].at = "telling"}}
Settled ==
  IF Unarrived # {} THEN Refused(hist, CHOOSE n \in Unarrived : TRUE)
  ELSE IF Arrived # {} THEN Remembered(hist, CHOOSE n \in Arrived : TRUE)
  ELSE hist

Browser == INSTANCE History WITH
  Spot <- Route, past <- Settled.back, here <- prevRoute, future <- Settled.forward

\* The router and its handle keep the history a browser keeps: it moves as a
\* navigation arrives, and a navigation refused, failed or superseded leaves
\* it as it was.
ImplementsHistory == Browser!Spec

\* Two names for one condition: a navigation was deferred, and its question
\* is up.
DeferredIsAQuestion ==
  Idle => DOMAIN calls \subseteq {pending}

\* Every navigation is settled, or is waiting for somebody to make up their
\* mind.
NavigationsSettle ==
  \A n \in 1..MaxNavigations :
    n \in DOMAIN calls ~> (n \notin DOMAIN calls \/ pending = n)
=============================================================================

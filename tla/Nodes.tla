-------------------------------- MODULE Nodes --------------------------------
(***************************************************************************)
(* Where the iced backend keeps what its pages show                        *)
(* (adapters/guinea-iced/src/nodes.rs, envelope.rs, lib.rs): iced borrows  *)
(* the state it draws, so a segment's node cannot live in its scope.  What *)
(* an install builds is staged; the shell takes it once its update is over *)
(* (`sync`), and drops or keeps the nodes of segments that left.  A leave  *)
(* guard, asked by the router, reads a slot beside the node.               *)
(*                                                                         *)
(* The router is here as the nodes see it: a navigation tears down, puts   *)
(* to sleep, wakes and installs segments in one step, or waits for the     *)
(* answer to a guard's question (Router has its steps).                    *)
(***************************************************************************)
EXTENDS Integers, SequencesExt

CONSTANTS
  Route,
  Chain,         \* the segments of a route, [seg, param] from the root down
  First,         \* the route the application starts with
  Cached,        \* pages with CACHE_STATE_IN_MEMORY
  Keep,          \* pages that sleep instead of going
  Minds,         \* segments that ask to be left while edited
  Speaks,        \* segments whose widgets have messages
  Observes,      \* segments with an observer
  Slots,         \* verdict slots: enough for all that is alive
  MaxKept,       \* MAX_KEPT
  SettleRounds,  \* SETTLE_ROUNDS
  MaxInbox,      \* messages iced hands over between two frames
  MaxNavigations \* navigations in one update

Segments == UNION {ToSet(Chain[r]) : r \in Route}
Names == {s.seg : s \in Segments}
Params == {s.param : s \in Segments}
Leaves == {Chain[r][Len(Chain[r])].seg : r \in Route}

\* A route ends in a page, and no page encloses another.
ASSUME NodesAssumption ==
  /\ First \in Route
  /\ Segments \subseteq [seg : Names, param : Params]
  /\ \A r \in Route : /\ Chain[r] \in Seq(Segments) \ {<<>>}
                      /\ \A i \in 1..(Len(Chain[r]) - 1) : Chain[r][i].seg \notin Leaves
  /\ Cached \cup Keep \subseteq Leaves
  /\ DOMAIN Chain[First] \subseteq Slots
  /\ MaxKept \in Nat \ {0} /\ {SettleRounds, MaxNavigations} \subseteq Nat

VARIABLES
  route,    \* the route that stands
  scopes,   \* the slot each of its segments was installed with
  asleep,   \* scopes that sleep
  verdict,  \* what is in each slot: whether its node asks to be left
  staged,   \* STAGED
  live,     \* Nodes::live
  kept,     \* Nodes::kept, by place
  order,    \* Nodes::order: the places kept, in the order they came in
  synced,   \* Nodes::chain: the route last synced to
  pending,  \* the route a question is about, or <<>>
  inbox,    \* messages on their way to `update`
  parked,   \* PARKED
  update    \* how far the update is that runs

store == <<live, kept, order, synced>>
router == <<route, scopes, asleep, pending>>
nodesVars == <<router, verdict, staged, store, inbox, parked, update>>

Nobody == [cursor |-> 0, seg |-> ""]
AtRest == [phase |-> "rest", round |-> 0, batch |-> 0, left |-> MaxNavigations, of |-> Nobody]

\* A node with what it was mounted with.  Only whether its user changed it is
\* told apart.
Mounted(segment, slot) == [seg |-> segment.seg, param |-> segment.param, edited |-> FALSE, slot |-> slot]
Stage(c, i, slot) == [cursor |-> i, seg |-> c[i].seg, held |-> Mounted(c[i], slot)]

Types(c) == [i \in DOMAIN c |-> c[i].seg]
PlaceIn(c, i) == SubSeq(Types(c), 1, i)

\* The segment a place in the store is for.
At(cursor, seg) == [cursor |-> cursor, seg |-> seg]
Fits(placement, c) == placement.cursor \in DOMAIN c /\ c[placement.cursor].seg = placement.seg

-----------------------------------------------------------------------------
(* Installing: `stage_node`.                                               *)

InUse ==
  ToSet(scopes) \cup {s.slot : s \in asleep} \cup {live[p].slot : p \in DOMAIN live}
    \cup {kept[x].slot : x \in DOMAIN kept} \cup {f.held.slot : f \in ToSet(staged)}

\* n new slots, as long as there are some.
FreshSlots(n) == {f \in [1..n -> Slots \ InUse] : IsInjective(f)}

Shared(c, d) ==
  LET both == {i \in DOMAIN c \cap DOMAIN d : \A j \in 1..i : c[j] = d[j]}
  IN IF both = {} THEN 0 ELSE CHOOSE i \in both : \A j \in both : j <= i

Standing == Chain[route]

\* Where a kept page sleeps, and the scopes above it.
Bed(r, line) == [route |-> r, line |-> Front(line), slot |-> Last(line)]
Beds(shared) ==
  LET sleeps == /\ Len(Standing) = shared + 1
                /\ Last(Standing).seg \in Keep
      gone == IF sleeps THEN {} ELSE {scopes[i] : i \in (shared + 1)..Len(scopes)}
  IN {b \in asleep \cup (IF sleeps THEN {Bed(route, scopes)} ELSE {}) : ToSet(b.line) \cap gone = {}}

\* The navigation to r as the router commits it: what r shares with the
\* standing route stays; a page that sleeps under just that is woken, under
\* another capture it goes; the rest is installed.
Commit(r) ==
  LET c == Chain[r]
      shared == Shared(Standing, c)
      stay == SubSeq(scopes, 1, shared)
      beds == Beds(shared)
      here == {b \in beds : b.line = stay /\ Len(c) = shared + 1 /\ Types(Chain[b.route]) = Types(c)}
      woken == {b \in here : Chain[b.route] = c}
      fresh == FreshSlots(Len(c) - shared)
      new == CHOOSE f \in fresh : TRUE
  IN /\ route' = r
     /\ asleep' = beds \ here
     /\ \/ /\ woken # {}
           /\ scopes' = stay \o <<(CHOOSE b \in woken : TRUE).slot>>
           /\ UNCHANGED <<staged, verdict>>
        \/ /\ woken = {} /\ fresh # {}
           /\ scopes' = stay \o new
           /\ staged' = staged \o [i \in DOMAIN new |-> Stage(c, shared + i, new[i])]
           /\ verdict' = [s \in Slots |-> s \notin ToSet(new) /\ verdict[s]]

\* The leave guards of what would go read their slots.
AsksToStay(r) ==
  LET shared == Shared(Standing, Chain[r])
      goes == IF Len(Standing) = shared + 1 /\ Last(Standing).seg \in Keep THEN {} ELSE (shared + 1)..Len(Standing)
  IN \E i \in goes : Standing[i].seg \in Minds /\ verdict[scopes[i]]

\* A navigation supersedes a question that is still up.
Navigate(r) ==
  IF AsksToStay(r)
  THEN pending' = <<r>> /\ UNCHANGED <<route, scopes, asleep, staged, verdict>>
  ELSE pending' = <<>> /\ Commit(r)

-----------------------------------------------------------------------------
(* Keeping the store in line: `Nodes::sync`.                               *)

\* `keep`: a place that is in keeps its turn, and the oldest goes.
KeepIn(place, held) ==
  LET in == IF place \in DOMAIN kept THEN order ELSE Append(order, place)
      goes == IF Len(in) > MaxKept THEN {Head(in)} ELSE {}
  IN [kept |-> [x \in (DOMAIN kept \cup {place}) \ goes |-> IF x = place THEN held ELSE kept[x]],
      order |-> IF goes = {} THEN in ELSE Tail(in)]

\* Places in the turn they had: the order they are in without others.
InTurn(places, turns) ==
  {s \in SetToSeqs(places) :
     \A i, j \in DOMAIN s : i < j => \E m, n \in DOMAIN turns : m < n /\ turns[m] = s[i] /\ turns[n] = s[j]}

PlaceOf(f) == At(f.cursor, f.seg)
PlacesRestored == {PlaceIn(Standing, f.cursor) : f \in {f \in ToSet(staged) : f.seg \in Cached}}

\* Mutant of TakeOut: a copy stays behind.
TakeOutNothing(k) == k

TakeOut(k) == [x \in DOMAIN k \ PlacesRestored |-> k[x]]

\* `same_params`: of two pages that capture nothing, the same.
SameParams(h, g) == h.param = g.param

\* What the staged nodes before the n-th took out is not there any more.
IsThere(k, n) ==
  LET f == staged[n]
  IN /\ PlaceIn(Standing, f.cursor) \in DOMAIN k
     /\ \A m \in 1..(n - 1) : staged[m].seg \in Cached => staged[m].cursor # f.cursor

\* Mutant of Restored: whatever was kept for the place.
RestoredAnyway(k, n) ==
  IF staged[n].seg \in Cached /\ IsThere(k, n) THEN k[PlaceIn(Standing, staged[n].cursor)] ELSE staged[n].held

\* `restored`: what was kept for the place, with the slot it was kept with.
Restored(k, n) ==
  LET f == staged[n]
      old == k[PlaceIn(Standing, f.cursor)]
  IN IF f.seg \in Cached /\ IsThere(k, n) /\ SameParams(old, f.held) THEN old ELSE f.held

StagedAt(p) == {n \in DOMAIN staged : PlaceOf(staged[n]) = p}
Latest(at) == CHOOSE n \in at : \A m \in at : m <= n

Survives(p) == Fits(p, Standing) /\ StagedAt(p) = {}

\* One staged node after the other: later ones of the same place win.
Taken(k) ==
  [p \in {p \in DOMAIN live : Survives(p)} \cup {PlaceOf(f) : f \in ToSet(staged)} |->
    IF StagedAt(p) = {} THEN live[p] ELSE Restored(k, Latest(StagedAt(p)))]

\* What left is keyed by where it sat in the chain that was; the store is a
\* hash map, so which of two that sat at one place is kept is up to the hash.
Departing ==
  {p \in DOMAIN live : /\ ~Survives(p)
                       /\ p.cursor \in DOMAIN Chain[synced]
                       /\ Chain[synced][p.cursor].seg \in Cached}

\* `restored` looks up the place of a staged page in the chain that stands.
Panics == \E f \in ToSet(staged) : f.seg \in Cached /\ f.cursor \notin DOMAIN Standing

Sync ==
  LET leave == IF Departing = {} THEN {[kept |-> kept, order |-> order]}
               ELSE {KeepIn(PlaceIn(Chain[synced], p.cursor), live[p]) : p \in Departing}
  IN /\ synced' = route
     /\ staged' = <<>>
     /\ IF staged = <<>> /\ Types(Chain[synced]) = Types(Standing)
        THEN UNCHANGED <<live, kept, order>>
        ELSE \E left \in leave :
               /\ live' = Taken(left.kept)
               /\ kept' = TakeOut(left.kept)
               /\ order' \in InTurn(DOMAIN kept', left.order)

-----------------------------------------------------------------------------
(* One update: `settle`.                                                   *)

NodeMessage(i) == [kind |-> "node", at |-> At(i, Standing[i].seg)]
Settled == [kind |-> "settled", at |-> At(0, "")]
Answer(yes) == [kind |-> IF yes THEN "yes" ELSE "no", at |-> At(0, "")]

\* iced hands on what came in between two frames, in its order.  Bounded to
\* MaxInbox messages, one of a kind; of wake-ups there is never more than one
\* on its way (PENDING_WAKE).
Fill(message) ==
  /\ update.phase = "rest"
  /\ Len(inbox) < MaxInbox
  /\ \A m \in ToSet(inbox) : m.kind # message.kind
  /\ inbox' = Append(inbox, message)
  /\ UNCHANGED <<router, verdict, staged, store, parked, update>>

\* A widget of a node that is drawn; while a question is up, it is the only
\* one that takes input.
Widget(i) == pending = <<>> /\ Standing[i].seg \in Speaks /\ At(i, Standing[i].seg) \in DOMAIN live /\ Fill(NodeMessage(i))
Dialog(yes) == pending # <<>> /\ Fill(Answer(yes))
Worker == Fill(Settled)

\* `deliver`: by type and position, to the node in the store.
Reaches(m) == Fits(m.at, Standing) /\ m.at \in DOMAIN live

\* Mutant of Answers: the slot keeps what it said when the node was built.
AnswersNever == UNCHANGED verdict

\* Once the update of a node is over, its slot is written.
Answers ==
  verdict' = IF update.of = Nobody THEN verdict
             ELSE [verdict EXCEPT ![live[update.of].slot] = live[update.of].edited]

\* What a message does before any code of the program goes on from there.
Apply(m) ==
  CASE m.kind = "node" /\ Reaches(m) ->
         /\ \E edited \in BOOLEAN : live' = [live EXCEPT ![m.at].edited = edited]
         /\ UNCHANGED <<router, verdict, staged, kept, order, synced>>
    [] m.kind = "yes" /\ pending # <<>> ->
         /\ pending' = <<>>
         /\ Commit(pending[1])
         /\ UNCHANGED store
    [] m.kind = "no" -> pending' = <<>> /\ UNCHANGED <<route, scopes, asleep, verdict, staged, store>>
    [] OTHER -> UNCHANGED <<router, verdict, staged, store>>

\* Whether code of the program runs on it: an update, a job of an actor.
Runs(m) == m.kind = "settled" \/ (m.kind = "node" /\ Reaches(m))

Onward(m) ==
  [update EXCEPT !.phase = IF Runs(m) THEN "code" ELSE "round",
                 !.of = IF m.kind = "node" /\ Reaches(m) THEN m.at ELSE Nobody]

\* One envelope is applied,
Begin ==
  /\ update.phase = "rest"
  /\ inbox # <<>>
  /\ inbox' = Tail(inbox)
  /\ Apply(Head(inbox))
  /\ update' = Onward(Head(inbox))
  /\ UNCHANGED parked

\* then what observers parked, and what they park of that, in rounds.
Round ==
  /\ update.phase = "round"
  /\ update.batch = 0
  /\ parked # <<>>
  /\ IF update.round = SettleRounds
     THEN parked' = <<>> /\ UNCHANGED update
     ELSE /\ update' = [update EXCEPT !.round = @ + 1, !.batch = Len(parked)]
          /\ UNCHANGED parked
  /\ UNCHANGED <<router, verdict, staged, store, inbox>>

Deliver ==
  /\ update.phase = "round"
  /\ update.batch > 0
  /\ parked' = Tail(parked)
  /\ Apply(Head(parked))
  /\ update' = [Onward(Head(parked)) EXCEPT !.batch = @ - 1]
  /\ UNCHANGED inbox

\* Code of the program navigates,
Navigates(r) ==
  /\ update.phase = "code"
  /\ update.left > 0
  /\ update' = [update EXCEPT !.left = @ - 1]
  /\ Navigate(r)
  /\ UNCHANGED <<store, inbox, parked>>

\* or changes what a segment observes, whose observer parks a message,
Pushes(i) ==
  /\ update.phase = "code"
  /\ i \in DOMAIN Standing
  /\ Standing[i].seg \in Observes
  /\ parked' = Append(parked, NodeMessage(i))
  /\ update' = [update EXCEPT !.phase = "round", !.of = Nobody]
  /\ Answers
  /\ UNCHANGED <<router, staged, store, inbox>>

\* or leaves it at that.
Returns ==
  /\ update.phase = "code"
  /\ update' = [update EXCEPT !.phase = "round", !.of = Nobody]
  /\ Answers
  /\ UNCHANGED <<router, staged, store, inbox, parked>>

\* The store is brought in line, and iced draws.
Ends ==
  /\ update.phase = "round"
  /\ update.batch = 0
  /\ parked = <<>>
  /\ IF Panics
     THEN update' = [update EXCEPT !.phase = "panicked"] /\ UNCHANGED <<store, staged>>
     ELSE update' = AtRest /\ Sync
  /\ UNCHANGED <<router, verdict, inbox, parked>>

-----------------------------------------------------------------------------
Goes == Begin \/ Round \/ Deliver \/ Returns \/ Ends

NodesNext ==
  \/ Goes
  \/ \E i \in DOMAIN Standing : Widget(i) \/ Pushes(i)
  \/ \E yes \in BOOLEAN : Dialog(yes)
  \/ Worker
  \/ \E r \in Route : Navigates(r)

\* The first route is installed before iced exists, and taken out of staging
\* at once (run.rs).
NodesInit ==
  /\ route = First /\ synced = First
  /\ scopes = [i \in DOMAIN Chain[First] |-> i]
  /\ asleep = {} /\ pending = <<>>
  /\ verdict = [s \in Slots |-> FALSE]
  /\ staged = <<>> /\ kept = <<>> /\ order = <<>>
  /\ live = [p \in {At(i, Standing[i].seg) : i \in DOMAIN Standing} |->
               Mounted(Standing[p.cursor], scopes[p.cursor])]
  /\ inbox = <<>> /\ parked = <<>>
  /\ update = AtRest

NodesSpec == NodesInit /\ [][NodesNext]_nodesVars

-----------------------------------------------------------------------------
(* Properties. *)

Resting == update.phase = "rest"

\* What each segment of the standing route shows.
Drawn(i) == live[At(i, Standing[i].seg)]

\* Between updates every segment has its node in the store, mounted with what
\* the segment captured: none draws nothing, or another's state (sync).
EverySegmentIsDrawn ==
  Resting => \A i \in DOMAIN Standing :
    /\ At(i, Standing[i].seg) \in DOMAIN live
    /\ Drawn(i).seg = Standing[i].seg
    /\ Drawn(i).param = Standing[i].param

\* The slot a leave guard reads says of the node on screen whether it minds
\* being left: an edit is not lost without the question it asked for
\* (stage_node, deliver, restored).
GuardsReadTheirNodes ==
  Resting => \A i \in DOMAIN Standing :
    Standing[i].seg \in Minds => verdict[scopes[i]] = Drawn(i).edited

-----------------------------------------------------------------------------
(* What the user sees (Pages). *)

Shows(p) == [seg |-> live[p].seg, param |-> live[p].param, edited |-> live[p].edited]

\* The store once it is in line with a route: what the nodes of its segments
\* show.  Navigations that are not synced yet have not happened on screen.
OnScreen ==
  [i \in DOMAIN Chain[synced] |->
    IF At(i, Chain[synced][i].seg) \in DOMAIN live THEN Shows(At(i, Chain[synced][i].seg))
    ELSE [seg |-> Chain[synced][i].seg, param |-> "nothing", edited |-> FALSE]]

Memory == [x \in DOMAIN kept |-> [param |-> kept[x].param, edited |-> kept[x].edited]]

Screen == INSTANCE Pages WITH shown <- OnScreen, remembered <- Memory

\* However navigations fall into updates, the store shows pages as a store
\* that lived in the scopes would.
ImplementsPages == Screen!Spec
=============================================================================

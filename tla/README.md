# guinea, in TLA+

guinea is a Rust framework for desktop applications: features that live in *scopes*, actors and
reducer cells on one UI thread, requests from background tasks, timers, and a router that installs
and tears down chains of segments. This directory models the parts of it that decide *when* things
happen and *what survives* - model-checked with TLC on small instances, and proved about with TLAPS.

Paths below are under `src/crates/`. `PROJECT.json` ties every definition to its lines.

Contents: [the system](#the-system) · [modules](#the-modules) · [runs](#the-runs) ·
[what the code's documents say and it does not do](#disagreements) · [fairness](#fairness) ·
[proofs](#proofs) · [what is not modelled](#what-is-not-modelled) · [plan](#plan)

## The system

| part | where | state it keeps | operations |
|---|---|---|---|
| scope tree | `guinea-core/src/scope/{tree,mod}.rs` | trees of nodes in a thread-local arena: children, what each owns, a free list, a serial per node | new tree, `child`, `own`, `remove_scope`, dropping a tree |
| scope lifetime | `scope/lifetime.rs` | awake or asleep | `sleep`, `wake`, awake hooks |
| actors, turns | `actor/addr.rs` | a queue and a `processing` flag per actor, the depth of turns | `send`, `process_queue` |
| reducer cells, notification | `notify.rs`, `scope/state.rs` | marked cells, the running drain, observers and listeners by cell | `push`, `observe`, `subscribe`, `drain` |
| event bus, requests | `actor/event_bus/{mod,rpc,subscribe}.rs` | subscribers, one answerer by type, `PENDING_REQUESTS`, the chain of requests | `subscribe`, `subscribe_answering`, `publish`, `request`, `reply`, `spawn_reply` |
| background work | `actor/ctx.rs`, `actor/cancel.rs` | tasks, the token of each actor and who waits on it | `spawn_bg`, `bg_detached`, `spawn_source`, `AsyncContext::{send, apply}`, `Addr::dispose` |
| dispatcher, executor | `adapters/guinea-iced/src/dispatcher.rs`, `executor.rs` | the UI thread's queue of jobs, one flag for a wake-up on its way | dispatch, drain, spawn, sleep |
| timers | `guinea-app/src/timers.rs` | schedule, generation, the followed value's observation | `start`, `tick`, `Timer::period`, following, stop |
| router | `guinea-router/src/router.rs` | standing chain, sleeping segments, state cache, parked question, held navigation, generation | `navigate`, `activate`, `deactivate`, answer, begin and end of a frame, commit |
| navigation handle | same file | back and forward stacks, last navigation told | `to`, `back`, `forward` |
| guards | `guinea-core/src/guard.rs`, `guinea-router/src/enter.rs` | a decision not made yet | allow, block, ask |
| frames | `adapters/*` (`guinea-eframe/src/run.rs`) | whether a frame draws | begin, end |
| iced nodes | `adapters/guinea-iced/src/{nodes,envelope,lib,run}.rs` | nodes of the standing chain, nodes staged by installs, pages kept, a verdict beside each node | stage, sync, update, leave guard |
| winui windows | `adapters/guinea-winui/src/{run,winui}.rs`, `guinea-app/src/app/roots.rs` | windows that stand, a router and a shown component each, nodes staged by page type | open, close, navigate, answer, update, compose |
| plugins, features, host | `guinea-app/src/{app,feature}/`, `guinea-core/src/scope/features.rs` | what is installed, who claimed and answers what, cleanups | register, install, export, run, shut down |
| route declarations | `guinea-route-dsl`, `guinea-macros/src/routes_dsl.rs`, `guinea-router/src/{link,manifest,restore}.rs` | none at run time: a declaration, from build to build | flatten, check, parse, link, save, restore, render the manifest |
| reach, services, bindings, remote, window placement | `guinea-app/src/`, `guinea-core/src/` | - | - |
| macros, codegen, metadata, trace, devtools, adapters, vendored crates | the rest | - | - |

### How the parts meet

All of the first five run on one thread, and none of them is left alone: every one calls code of the
program, and that code may call any of them again before it returns. This is where the difficulty is.
So, in every module about the UI thread, what is under way is a `stack` of calls, each kept at the
line it has reached, and every call-back is a point at which anything the program may do there can
happen. Threads come in beside it only where they do in the code: callers of requests, reply tasks,
timers' wake-ups, and whoever sets a value a timer follows.

- The router *builds* a chain out of scopes: a segment is a scope under the scope of the segment
  before it. Leaving removes scopes or puts them to sleep.
- Removing a scope lets go of what it owns, in order; an owned value's destructor may remove other
  scopes, drop a tree, or make a new one.
- A turn of an actor pushes to cells; the outermost turn ends in a *drain*, which hands updates to
  observers until nothing is marked, then tells listeners.
- A request is a job on the UI queue that publishes an event; a reply task asks further requests; a
  removed scope takes its reply tasks along.
- A sleeping scope is deaf: it hears nothing from the bus, and its timers skip.
- A task works for an actor: what it has for it goes through the dispatcher's queue, and disposing of the
  actor ends the task, on another thread and at any moment.
- A backend draws what the router stands at, later: iced keeps nodes beside the router and brings them in
  line after each update, WinUI composes each window when it gets to it. Guards, asked by the router in
  between, read what the backend keeps.
- The macros decide at build time which guards a page has and what a path opens; text that one build
  wrote - a saved route, the committed manifest - is read by the next.

### What makes it hard, and what makes it correct

| part | hard because | correct when |
|---|---|---|
| scope tree | names are `Copy` and outlive their scopes; nodes and places are reused; removals nest | a dead name never names anything; every scope and every owned value goes once, children before parents, and no more than was asked |
| turns | sends from handlers, drains inside turns, cells whose scope went in mid-drain | a mailbox is a FIFO with one message at a time; nobody is called on a handler's stack; every update is handed over once and in order; listeners hear of settled cells |
| requests | reply, denial, timeout, drop and removal race over four places a call can be | a call settles once; only the answerer answers; no caller waits for itself; a caller is told when nobody will answer |
| timers | three ways a period changes, two threads, wake-ups that cannot be taken back | one chain of wake-ups, which goes on; a stale one does nothing; a timer that should tick does |
| background work | posting, draining, cancelling and waiting are four threads' steps over flags and lists | nothing posted lies unseen; guarded work ends with its actor; an `apply` is answered; messages of a task reach its actor once, in order, while it is there |
| iced nodes | navigations, questions and edits inside one update, seen by the store only at its end | every segment is drawn from its own node; a guard reads the node on screen; pages come back as they were left |
| winui windows | composition lags behind navigation, in several windows over one staging area | each window shows its own nodes; nothing edited goes unasked, but from its own update; the application ends with its last window |
| plugins, features | units install one another, and any of them may fail half way | a plugin is built once; readers reach who answers; exports are claimed; every cleanup runs, last first |
| route declarations | inheritance, opt-outs, layouts in several places, backtracking | no page slips out from under a guard; a path opens what is meant; text read back is a whole route or none; the manifest tells what changed |
| router | guards, hooks and install failures in the middle of a commit; a question open for minutes; frames | the standing chain is the current route's, each segment in its own scope; nothing leaks; nothing goes unasked; each navigation settles; history is a browser's |

The hazards behind this, each at its line and with the properties that would see it, are listed in
`PROJECT.json`.

## The modules

Each concrete module is a translation of the code; each abstract one says what it promises, with no
stack, arena or queue in it. The `MC` module holds the instance; the refinement mapping is in the
concrete module (`Router`, `Turns`, `Requests`), where the proofs use it too, or in the `MC` module. Operators
commented *Mutant of X* are faulty versions of X used only to see that a property notices.

| component | concrete | abstract | instance | proofs |
|---|---|---|---|---|
| scope tree | `ScopeTree` | `ScopeForest` | `MCScopeTree` | `StateProofs` |
| router and handle | `Router` | `History` | `MCRouter` | `RouterProofs` |
| turns and cells | `Turns` | `Mailboxes` | `MCTurns` | `TurnsProofs` |
| requests | `Requests` | `Promises` | `MCRequests` | `RequestsProofs` |
| timers | `Timers` | - | `MCTimers` | `TimersProofs` |
| background work, dispatcher | `Tasks` | `Deliveries` | `MCTasks` | `TasksProofs` |
| iced nodes | `Nodes` | `Pages` | `MCNodes` | `StateProofs` |
| route declarations | `Routes` | the definitions of its properties | `MCRoutes` | `ApplicationProofs` |
| winui windows | `Windows` | - | `MCWindows` | `WindowsProofs` |
| plugins, features, host | `Application` | - | `MCApplication` | `ApplicationProofs` |

**`ScopeTree`** keeps the arena as the code lays it out: `held` (the places of `ARENA`, taken by a
tree), `len`, `free`, `serial`, `parent`, `children`, `owns` by slot, and the serial counter.
`names` are the names the program still holds, dead or alive. `NewTree`, `Child`, `Own`,
`RemoveScope`, `DropTree`, `DropEmptyTree` are the operations; a removal detaches everything at once
and then lets go of what was detached, value by value (`TearDown`, `Return`), and between two values
any operation may come again - a second frame of `stack`. `ScopeForest` is the same thing without an arena:
scopes that are each made once, and a removal that takes one out with all that is under it. The mapping, at the
end of `ScopeTree`, reads a scope as its serial and a removal under way as what it has left to let go of.
`CollectIn` says what goes before what in the order of a removal; `MCScopeTree` has the recursion `Tree::collect` is
written as, and TLC compares the two on all trees of four scopes before it runs (`CollectIsTheVisit`, an
`ASSUME`).

**`Turns`** keeps each actor's `queue` and `processing`, `depth`, and the drain with its locals as
`drain` (phase, round, batch, touched cells, calls still to make), `marked` and `draining`. `Send`,
`Push`, `Remove`, `Join`, `Leave` are what code of the program may do; `Handle`, `CloseTurn`,
`Observe`, `Listen` and the drain's steps are what the code does with them. `stale` and `owed` are
bookkeeping for the properties: listeners behind their cell, and updates an observer has not had.
`Mailboxes` is a FIFO per actor.

**`Requests`** follows a call through its caller (`at`), the sender in `pending`, the receiver `rx`,
the job in `ui`, the publication under way (`telling`, from a copy of the subscribers), and the reply
task (`task`). A timeout is two steps, as in the code: the wait ends, then the entry is forgotten;
replies fall in between. `Promises` says that a call is settled at most once.

**`Timers`** has a timer's `gen`eration and mode, and the wake-ups `armed` on some thread, by
generation: they cannot be taken back, only found stale. `start` is three steps (read, watch, arm),
`Timer::period` is two, and a followed value is set by another thread between any of them.

**`Router`** is one navigation cut at each line where code of the program can run: enter guards,
leave guards, the question parked, the frame's hold; then `Take`, `Snapshot` (one segment a step),
`LeaveChain`, one `TakeSleeper` / `Install` / `Rollback` / `GiveUp` for each segment built, `Stand`,
`Wake` (one a step), `Arrive` or `FallBack`, `Tell`. `Answer` is the decision, which may come from
anywhere and for a question that is gone. `History` is a browser's, and `Router` maps the handle's
stacks to it - with a step that has not arrived counted as not taken.

A scope is here a name with the line of scopes above it, not a node of `ScopeTree`: that a removed
scope's name stays dead and that removal takes everything under it is what `ScopeTree` shows, and the
router's `Under` uses it. Turns and requests use it the same way.

**`Tasks`** gives each task a program counter (`pc`): enlisted with its actor's token, flag read, polled,
parked, posting, ringing. The UI thread has its own (`ui`): disarm, read the queue, run the batch it
collected, and, inside a handler or between handlers, `Dispose` in its three steps (flag, notify,
unregister). `armed` is `PENDING_WAKE`, `wakeups` what is in the stream the loop subscribes to.
What a future does in a poll - send, ask, wait, end - is the program's choice. `Deliveries` is one
mailbox per task whose messages reach an actor only while it is there.

**`Nodes`** is one update of the iced shell after another: an envelope is applied (`Begin`), code of the
program may navigate, push, or return, observers' messages are delivered in rounds, and at the end
`Sync` brings the store in line: drops nodes that left, keeps those of pages with
`CACHE_STATE_IN_MEMORY`, takes over what was staged, exchanging it for what was kept. `verdict` are
the slots leave guards read. A navigation is one step here; `Router` has its steps. `Pages` is what a
user sees: segments that stay, go, or come back as they were.

**`Windows`** has a router's place (`at`), its sleeping pages, its parked question and its component
(`shown`) per window, and `staged` by page type for all of them, as the thread-local is. A navigation
makes the window `stale`, and `Compose` catches up. `opening` are windows asked for: they are not in
`standing`, and so not counted by `Exits`. `updating` is the window whose page's `update` is on the stack,
from `Update` to `Updated`: the reactor does nothing else meanwhile (`Turn`), but the page may hold
a `NavigateHandle` or a `Decision`, or call an actor that does, and so navigate or answer between its edits. Its node is borrowed then, and
its leave guard allows without reading it (`winui.rs:1040-1048`); `Asks` has that arm.

**`Application`** is the life of one: `Registry::stack` with a body on it for each unit being installed,
`scope` with what `features.rs` keeps of the application and of the open page (sections, owners of
reducers, answers, exports), `cleanups`. A body does any of what its builder lets it, in any order, and may
fail; a plugin registered under the id of another type fails before it has one (`Collide`). `claims`, `answers`
and `order` record what was asked for, and `ran` what was cleaned up, for the properties; the bounds count the
first three, and nothing reads `ran`.

**`Routes`** is about what runs at build time: `nodes` is a declaration, and a step changes it - a node is
added, a page is declared otherwise, two change places - or an application built from it leaves its route
as text (`kept`). Everything else is operators over the declaration: `Guards`, `LayoutParams`,
`Accepted`, `MatchTree`, `Parse`, `Address`, `Save`, `Restore`, `Manifest`, each a translation
of the function `PROJECT.json` names. A segment of a path is an atom: `Encode` and `Decode` are constants.
So are `ToValue` and `FromValue`, serde's: text does not say what type a value was of, and another type may
read it. They are assumed to give back what the same type wrote, and a value of the type that reads or nothing.

`Habit` is a constant of `Router`: what the code of the program does in its guards and hooks. A
framework cannot hold for every program, and which habits break which property is a result; see
[below](#habits).

## The runs

Deadlock is not checked anywhere: all bounds are guards on what the program asks for, so every model
stops once the program has asked for all it may; each ends in a state with nothing under way.
State counts and times are for 2 workers.

| run | states | what it asks |
|---|---|---|
| `scope_tree` | 465,551 (45 s) | does the arena, with reuse, dead names and nested removals, show anything a forest of scopes does not? |
| `router` | 595,304 (45 s) | navigations, questions, frames and failing installs over five routes, up to five navigations |
| `router_hooks` | 140,496 (45 s) | do scopes stay accounted for and navigations settle when wake hooks and route hooks navigate, installs fail even on the way back, and chains are activated by hand? |
| `turns` | 1,116,066 (150 s) | are turns, drains and call-backs on one stack still mailboxes, with every change handed over? |
| `requests` | 717,159 (120 s) | do races of reply, denial, timeout, drop, sleep and removal settle each call once? |
| `timers` | 3,511 (9 s) | however `start`, ticks, new periods and a followed value interleave, is there one chain of wake-ups? |
| `tasks` | 268,039 (70 s) | whatever order threads post, poll, drain and dispose in, is all work seen, ended and delivered? |
| `nodes` | 304,056 (34 s) | does the store beside the router show pages as one inside the scopes would, and do guards read it? |
| `routes` | 325,422 (140 s) | for every declaration of up to four layouts and pages: guards, layouts, paths, saved text, and the manifest between builds |
| `windows` | 1,538,961 (50 s) | do windows that compose late show their own nodes, ask before edits go, and end the application in time? |
| `application` | 6,130,548 (60 s) | do installs inside installs, any of which may fail, leave an application whose readers are answered? |
| `router_enter_asks` | - | a [disagreement](#disagreements), with its trace |

### What they show

*Scope tree.* `ArenaInStep`: the free list holds the empty nodes and nothing else, each once
(`FreeIsEmptySlots`), and children and parent agree, across trees, at every moment of a nested removal
(`Linked`). `NameNeverComesBack`: a name that was dead never names a scope again. `ImplementsForest`:
removal takes the scope, everything under it, nothing else; what a scope owned is let go once, in the
order the forest says, before the removal returns.

*Turns.* `StackInOrder`: no observer or listener runs on top of a handler (`OffTheHandlersStack`), and a
drain is at the bottom of the stack, so rounds are counted once (`OneDrainAtATime`). `NothingIsMissed`:
when the thread is idle no message waits, no cell is marked, no listener is behind
(`NothingLeftBehind`); the updates an observer is owed since it joined are the last of those on their
way to it, in order (`EveryUpdateIsHanded`); a listener that is behind has its cell marked, in the batch,
among those touched, or is about to be called (`EveryChangeIsTold`). `SettledBeforeTelling`: when
telling begins every observer has every update; a drain that runs out of rounds tells nobody.
`ImplementsMailboxes`: each actor takes its messages one at a time, in order. `DrainEnds`: cells that
feed one another end in giving up, not in a drain that never returns.

*Requests.* `RepliesHaveOneWay`: a caller that waits with nothing in its channel has its sender in
`PENDING_REQUESTS`, and an entry there is that of such a caller, or of one dropped in its await, which
nothing tidies up after (`PendingIsAwaited`); and never a listener answers beside the answerer
(`OnlyTheAnswererAnswers`). `NobodyWaitsForItself`: among reply tasks that wait for one another no
request type comes twice. `ImplementsPromises`: each call is settled once. `AnsweredWithoutTimeout`: a
caller hears even if no timeout ever fires, unless its request, or one its answerer waits for in turn,
was lost - told to nobody awake who answers, or left by a task that ended without a reply.

*Timers.* `OneChain`: at most one wake-up of the current generation. `ChainGoesOn`: a timer that should
tick has one. `TimersTick`: and ticks.

*Router.* `ScopesAccountedFor`: every living scope stands, sleeps, or is in the hands of a navigation
(`NoScopeLeaks`); each segment of the standing chain is in a scope made for that very segment and capture,
under the one before (`SegmentsInTheirScopes`); what sleeps is there, deaf, and under the scopes it was
installed under (`SleepersCanWake`); cached states go to the place and capture they came from
(`StatesComeHome`). `EveryGuardIsAsked`: when the chain comes apart, each guard in it that goes was asked
by this navigation. `NavigationsAccountedFor`: a question that is up can be answered
(`QuestionCanBeAnswered`), and a navigation is parked, held or under way - nobody waits for an outcome that
cannot come (`NoNavigationForgotten`). `AtTheRouteThatStands`, `FrameUndisturbed`, `ImplementsHistory`,
and under fairness `NavigationsSettle`.

*Tasks.* `WorkRings`: while a job lies in the queue a wake-up is on its way, or the UI thread is about to
look. `EveryWaitEnds`: work of an actor that was disposed of ends unless it was given the token itself
(`CancelledWorkEnds`), and an `apply` is answered, with `None` if its actor is gone (`ApplyAnswers`).
`ImplementsDeliveries`: each message reaches the actor once, in its task's order, and none after it went.

*Nodes.* `EverySegmentIsDrawn`, `GuardsReadTheirNodes`, `ImplementsPages` - with one navigation in an
update; what two do is [below](#disagreements).

*Routes.* `GuardsAsDeclared`: the guards in front of a page are those declared around it and not opted
out of further in, each once. `LayoutsHoldEverywhere`: what the compiler is told of a layout from the first
place it stands in is true of all. `PathsOpenTheirPages`: the tree with its backtracking opens a
page exactly if the path fits one, and the most literal of those (`OpensTheMostLiteral`), and a route's
own address opens it again (`AddressesOpenTheirRoutes`, which also says when not: an empty capture leaves no
segment, and a more literal page may be spelled the same). `SavedRoutesComeBack`: what one build wrote comes
back as a whole route in another, each field with what its type now reads in the text, or not at all. `ManifestTellsTheAddresses`: two declarations with the
same manifest open the same page for every path, with the same values behind the same guards; moving a page
within the declaration is one case.

*Windows.* `EveryPageShowsItsNode`, `NothingEditedGoesUnasked`, `EndsWithItsWindows`, each as far as
[habits](#habits) go. `NothingEditedGoesUnasked` excepts the page whose own `update` is under way: without
`updating # w`, TLC finds a page that is edited and left in one `update`, unasked.

*Application.* `BuiltOnce`: however deep a plugin is asked for, it is built once, and none beside it under
its id. `ReadersAreAnswered`: an action sent to the owner of a reducer is answered by what that unit
answers. `ExportsAreClaimed`: what a page can read was claimed. `LastSetUpGoesFirst`: what ran is at
every moment a beginning of what was asked for, backwards, and all of it once the application is over, after an
error as after a shutdown; until it goes, nothing ran.

### Bounds, and why they are enough

- `scope_tree`: two places, four scopes ever and two resources: a node is reused in the same tree and
  in the next tree at its place while both old names are held; `MaxDepth` 2 is a removal inside a
  removal. `MaxSerial` caps the code's 64-bit counter.
- `turns`: two actors send to each other and themselves; one observed cell, one with two listeners, in
  scopes of their own; two effects a handler and one a call-back; `SettleRounds` 2 where the code has a
  larger constant, so that giving up is reached; three messages.
- `requests`: two calls are enough for one to wait on the other and for a second to come while the
  first is answered; three changes of subscribers remove an answerer, bring another and put one to
  sleep; a listener that subscribed before the answerer hears the same request. Three calls of one
  root with two changes (845,000 states) also pass.
- `timers`: timers share nothing, so one is enough; three changes overtake one another in all
  orders. The proofs drop both bounds.
- `router`: two captures of one segment (`editor`, `editor2`), a kept pair under a shell
  (`tab` → `Tab`, `Page`), the same `Page` under another place (`nest`), a route that shares nothing
  and has an enter guard (`other`); a cache of one entry, so it evicts; five navigations are a visit,
  a step back, a step forward, and two that interrupt. `MaxScopes` is never what stops a run: names
  are reused once nothing refers to them (`FreshScope`).
- `tasks`: a source and a task that was handed its token, of one actor: two posters are what one wake-up flag
  needs to lose one; two messages a task have an order, and the second may come after the actor went.
- `nodes`: a page under two captures, an editor that minds, and a page below a second layout, so that the
  chain grows and shrinks; `MaxKept` 1, so that it evicts; two messages between frames.
- `routes`: four nodes are two layouts nested over two pages, or a layout in two places; paths of up to two
  segments, which is where a capture can hide a literal further in; two ways to declare a page under one
  name. A segment may be the text of a literal, empty, or a number spelled two ways; of two types of numbers
  one reads all that the other saved, and is read in part by it.
- `windows`: two windows, one page that is kept and one that is not, two parameters, five scopes: a page
  made, left, made again and put back after a failure while the other window stands. An `update` may hold
  any number of edits, navigations and answers.
- `application`: two plugins of one id, one beside them, a feature, and a page of two features; three bodies
  are an install inside an install inside an install; four claims, answers and cleanups in all.
- `router_hooks`: three navigations, each of which can be the one a hook makes within another.
  Its routes all begin with the shell; see the last paragraph of *Habits*.

<a name="disagreements"></a>
## What the code's documents say and it does not do

`router_enter_asks` is a run, which TLC ends with the trace. Each of the others is seen by putting the
property in the third column, or the change to the instance it names, into the cfg of the run.

| the code says | and does | seen by |
|---|---|---|
| `docs/routing.md:253-254`: nothing is torn down "until every guard has answered" | the answer to an *enter* guard's question (`router.rs:1162`) goes straight to the commit: leave guards, asked only at `:1085-1088`, are not asked | the run `router_enter_asks` |
| `router.rs:1319-1321`: after a failed install the old chain goes back up "with the states its cached segments had" | `:1550` takes the cache entry of the place before comparing captures and drops it on a mismatch; if that segment then fails, the old one comes back empty | `router`: `RollbackKeepsStates` |
| `router.rs:517-519`: a refused step is put back, or "a guarded page would eat a step of history" | `back` (`:473`) takes its entry before `navigate_then` supersedes a parked step, whose refusal then puts its own on top and pops the wrong one: two `back`s in a row over a question shuffle the history | `router` with habit `stepAgain`: `ImplementsHistory` |
| `binding.rs:67-68`: a listener is called "until the returned `Subscription` is dropped" | `notify.rs:179` copies the listeners first; one dropped by an earlier listener is still called this once | `turns`: `DroppedHearsNothing` |
| `timers.rs:63-66`: following cuts the wait short on a change, "the way `Timer::period` does" | `start` reads the value (`:264`) before it watches it (`:265`); a change in between is neither read nor told, and a timer that read nothing is never armed | `timers` with `Meddles`: `ChainGoesOn` |
| `guinea-iced/src/nodes.rs:38-42`: the verdict "is recomputed whenever the node changes, and the registered guard just reads it" | a page that comes back keeps the slot of its first install (`nodes.rs:159`), which is the one written (`envelope.rs:110-112`); the guard its second install registered (`lib.rs:526-546`) reads the other | `nodes` with `Minds = {"List"}`: `GuardsReadTheirNodes` |
| `nodes.rs:92-94`: "Called after every navigation": what left is dropped, or kept if its page asked | it is called once, when the update is over (`envelope.rs:159-164`): of two pages one after the other in one place, the second one's node is looked for under what both captured, and the first one's comes back for it | `nodes` with `MaxNavigations = 2`, `Chain <- MCTwins`, `Route = {"list", "board", "editor"}`, `First = "editor"`, `Cached = {"List", "Board"}` and no page in `Minds`, `Speaks`, `Observes`: `EverySegmentIsDrawn` |
| `docs/routing.md:207-209`: what sleeps is kept, and "the view draws from the state it kept" | on iced the node of a kept page is dropped with its place in the chain (`nodes.rs:120`), and waking installs nothing, so nothing is staged for it | `nodes` with `Keep = {"List"}`, `Cached = {"Detail"}`: `EverySegmentIsDrawn` |
| `matcher.rs:8-12`, `manifest.rs:42-44`: order survives among literals; moving a page "changes nothing" about what is answered to | captures of different names at one place are branches of their own (`matcher.rs:343`), tried in the order of the declaration; the manifest of both orders is the same | `routes` with `Named = "key"`: `PathsOpenTheirPages`, `ManifestTellsTheAddresses` |
| `manifest.rs:162-163`: "every entry is one line", and new and gone lines are what a reviewer wants | an entry is six lines (`:58-86`), and a line that stands in any entry is not shown (`:168-178`): where one page loses a guard and others have lines like its new ones, the difference shown is empty | `routes` with a second `Sub` page that drops no guard: `DifferenceShowsTheChange` |
| `winui.rs:985-993`: "the node is built where the context is and taken where it is needed" | nodes are staged by type for all windows (`:997`): two windows that install one page before either is composed take one another's node, or a `Default` | `windows` with `Together`: `EveryPageShowsItsNode` |
| `winui/run.rs:59-60`: `run` goes on "until the last window closes" | windows that were asked for and do not stand yet are not counted (`:191`) | `windows` with `Late`: `EndsWithItsWindows` |
| `winui/run.rs:37-38`: the application ends if "the main window's first route did not install" | the name is free again once the first window closed (`winui.rs:1471`): a later window takes it, and its failure ends the application under the others | `windows` with `MainCloses`, three windows: `EndsWithItsWindows` |

### Habits

What the code of a program does is a constant of the models. The passing runs leave some of it out; adding
one of these to the cfg shows what a program with that habit gives up:

| habit added | what TLC then finds violated | where |
|---|---|---|
| `Router` `answerInFrame`: a question answered by what a frame draws | `FrameUndisturbed` | `router.rs:1162` commits at once, against `:1675-1677`, `:1095-1098` |
| `guard`: a guard navigates | `NavigationsAccountedFor`, `ScopesAccountedFor`, `EveryGuardIsAsked` | `:1131`, against `:1208-1210` |
| `askWhileHeld`: a guard asks while a frame holds a navigation | `ScopesAccountedFor`, `EveryGuardIsAsked` | the held navigation's shared length and asked guards are of a chain that is gone when the frame ends |
| `enterAsk` | `EveryGuardIsAsked` | `router_enter_asks` |
| `leaveAsk` with two leave guards on one chain (`LeaveGuarded = {"Editor", "Shell"}`) | `EveryGuardIsAsked` | the first guard that asks ends the asking, and the answer commits (`:1162`): those further out are not asked, as after an enter guard |
| `stepAgain` | `ImplementsHistory` | above |
| `hook`: a route hook navigates | `AtTheRouteThatStands` (the sink is told of the older route last) | `:553`, against `:995-996` |
| `wake`: an awake hook navigates | `AtTheRouteThatStands`; with `Page` under `Tab` asleep, `ScopesAccountedFor` | `:1303`, `:1479`, against `:1472-1473`, `:808-809` and "Asleep, it is deaf" in `docs/routing.md` |
| `failBack`: the old chain will not go back up either | `ImplementsHistory` | the step is undone although the router is nowhere |
| `Windows` `Fails`, as in the run: a page past the first fails | `ShowsWhereItIs` (checked by no run) | the page that went back up is another one than is shown, and the window is not told (`router.rs:1369-1390`, `:534-565`) |
| `Application` `Swallow`: a page goes on after a feature of its failed | `ExportsAreClaimed` | `traits.rs:132-135`: exports are marked before the body, and only looked at when it ends well |
| `Retry`, `Nest`: a unit that failed is installed again, or one inside itself | `ReadersAreAnswered` | the first claim wins (`features.rs:50-56`), in a section that answers nothing |
| `Nodes` `MaxNavigations = 2`: two navigations in one update | `ImplementsPages`, with two pages that capture alike `EverySegmentIsDrawn` (above); the update then can panic, as `restored` looks a page up at a place past the end of the chain (`nodes.rs:151`) | both sets of staged nodes are taken over against the last chain |

With `frames`, `DeferredIsAQuestion` fails by design of the code (`:1111`): a navigation held by a frame
is reported as deferred with no question up, though `:1236-1238` and `docs/routing.md:308-309` read as
if deferred meant a question.

`router_hooks` keeps its routes under one shell. With a route that shares no segment with the others,
and with `activate`, answering a parked question over a chain that was activated meanwhile breaks
`ScopesAccountedFor`: the parked shared length is of the chain that was replaced
(`:1024`). No document says a program may or may not do so.

Smaller observations, of which no document says otherwise: on iced a navigation inside the update that edits
a page is decided on the verdict of before the edit (`envelope.rs:112`), and on winui not put to the page at all,
which is let go with a warning (`winui.rs:1040-1048`: "asked whether it may go while it was changing"); all but the winui shell return from a first
route that does not install without shutting the application down (`guinea-iced/src/run.rs:81` and its
like), so no cleanup runs; a listener that pushes to an observed cell
lets the listeners after it run before the observer has caught up (`notify.rs:138-141`); when the
rounds run out, marks are dropped with a warning (`notify.rs:148`); a callback subscribed to the bus
directly is not deaf when the scope that made it sleeps; the chain of requests knows types and not
payloads, so a request for another item of the same type is refused (`rpc.rs:141`).

## Fairness

- `Router`: `WF(Run)`, `WF(EndFrame)`. The UI thread runs a call to its end, and a backend's draw
  returns. Nothing is assumed of whoever answers a question, and `NavigationsSettle` allows a
  navigation to wait for that for ever.
- `Turns`: `WF(Run)`, for the same reason.
- `Requests`: `WF` of the UI thread's step, of each caller's and of each reply task's own step: tokio
  polls what is ready. No fairness of timeouts, so `AnsweredWithoutTimeout` does not lean on them.
- `Timers`: `WF` of a timer's own next line; `SF` of a wake-up and of a value's observation being run:
  both are jobs of the UI queue, a FIFO (`executor.rs`), so one that is there is reached although other
  jobs, or a tick still running, disable it now and then.
- `Tasks`: `WF` of the UI thread's next step and of each task's own steps. Nothing is assumed of what a
  future does or of the world it waits for; `EveryWaitEnds` needs neither.
- `Nodes`, `Windows`, `Application`, `Routes`: none, as they state safety only.

## Proofs

TLAPS checks every leaf of the eight modules `*Proofs`. The theorems hold for every number of scopes,
routes, actors, cells, watchers, timers, tasks, calls, windows, units and changes; what is assumed is each
module's named `ASSUME`, which says no more than that the constants have the right shape, and a
hypothesis where one is written: it excludes a habit that [the table above](#habits) shows to break the
property, and the table of the router below says which of its habits break what.

**`StateProofs`**, of the two stores of state. *Scope tree.* `TypeCorrect`: `Spec => []TypeOK`. `DeadNamesStayDead`: `NameNeverComesBack`.
`TypeOK` alone does not show the second: nothing in it keeps a serial in use below the
counter. The invariant is `TypeInv == TypeOK /\ SerialsUsed`: every serial in the arena or
in a name is smaller than the next one. A new node gets a serial no name has, a removal only empties nodes, so
the node a dead name points at has another serial for ever. `ArenaStaysInStep`: `ArenaInStep`, in the middle
of any nested removal. That free nodes are the empty ones and that children and parents agree is not
inductive: a removal must be known to take *all* that hangs below. The invariant adds `Rooted`: the first
node of a tree is its root, nothing hangs from another tree, and every scope of a tree is under its root. `Under`
is a least set closed under `children`; the lemmas about it (`UnderALiveScope` and its like) are what the proof leans on.
`ArenaIsAForest`: `Spec => ImplementsForest`, a step of the forest or a stutter for each step of the arena. Its
invariant `ForestInv` adds what lets a serial stand for a scope: no two scopes that are there share one, and a
name that bears the serial of a scope bears its slot (`OneSerialEach`); every scope is in a tree that is there
(`LiveAreHeld`), so that a new tree overwrites none; and a tree that is being dropped is dropped by one removal, its
root already gone (`DropsInHand`), so that its place is free of scopes when it is let go. `UnderBySerial` carries
the subtree over, `VisitIsLeaving` the order, and `LetGoNext` shows that tearing down the last resource of the first
scope that has any is taking the head off what is left.

*Iced nodes.* All of it is of programs where nothing sleeps (`Keep = {}`), since a page that wakes has no node; the
other hypotheses are in the table below. `SegmentsAreDrawn` (`EverySegmentIsDrawn`), for any number of
navigations in an update, where no other segment captures what a page that caches its state does (`CapturesTell`);
`SegmentsAreDrawnOnce`, for any captures, where an update navigates once. `GuardsReadNodes`
(`GuardsReadTheirNodes`), where no page that minds caches its state. `NodesImplementPages`: every initial state
and every step of `Nodes` is one of `Pages`, or a stutter, where an update navigates once. The invariants:
`BaseInv`, the types and what an update may have on its hands at each of its stages (`UpdateInv`);
`DrawInv`, that after each navigation every place of the standing chain has a node, mounted or staged, of what
it captured; `SegInv`, that a node is mounted at its own segment's place; `SlotInv` and `GuardInv`, that no
two nodes share a slot and the slot a guard was made with is that of the node at its place; and `PagesInv`: what is staged is of
this update's navigation (`StageInv`), of which there was one (`OnceInv`), what is mounted is the
chain the store saw last (`ShownInv`), and what is kept has its turn to be evicted (`KeptInv`). Without the hypotheses:

| without | TLC finds violated |
|---|---|
| `Keep = {}` | `EverySegmentIsDrawn` (`Keep = {"List"}`, `Cached = {"Detail"}`); `GuardsReadTheirNodes` has then no node to read (`Keep = {"Editor"}`); `ImplementsPages` where a page that sleeps also caches its state (`Keep = {"List"}`) |
| no page that minds caches its state (`Minds = {"List"}`) | `GuardsReadTheirNodes` |
| `CapturesTell`, or one navigation an update (`MCTwins`, above) | `EverySegmentIsDrawn` |
| one navigation an update (`MaxNavigations = 2`) | `ImplementsPages` |

**`TurnsProofs`.** `TurnsTypeCorrect`, `HandlersAreLeftAlone` (`OffTheHandlersStack`), `OneDrain`
(`OneDrainAtATime`), and the two together, `StackStaysInOrder` (`StackInOrder`). The invariant is `TypeOK /\ Shape`: while `draining`, the bottom of the stack is the
drain and what lies on it is the observer or listener it calls; above that, or from the bottom if nothing
drains, turns and handlers alternate; and `depth` counts the turns. `CloseTurn` and `Push` begin a drain
only when no turn is left and `draining` is unset, which by `Shape` is when the stack beneath is empty.
`TurnsAreMailboxes`: `ImplementsMailboxes`; the invariant `MailInv` says that an actor is `processing` exactly if its turn
is on the stack, and a message waits only for one that is. `NothingIsEverMissed` (`NothingIsMissed`)
and `TellingWaits` (`SettledBeforeTelling`) rest on `TellInv`: marks wait for a turn or a drain
to end, the drain's calls are those of its phase, an observer is called with one update at a
time, nobody watches a cell that is gone, and the two halves of `NothingIsMissed` that speak of what is
still on its way.

**`TimersProofs`.** `TimersTypeCorrect`, `OneChainEver` (`OneChain`), and `ChainGoesOnUnmeddled`:
`~Meddles => (Spec => []ChainGoesOn)`, where the hypothesis excludes exactly what the table above says of `Meddles`.
`TypeOK` needs the bound on generations, and that needs counting: each change begins at most two
chains. The invariant says of each timer that (`Bounded`) its generation, with what it is still to be
told and the change it is making, is at most twice the changes made, (`Holding`, `NotYet`) what its lifecycle stage may hold, (`NoneAhead`) no wake-up is armed for a generation
not begun, so that a new chain begins with none, and (`OneLive`) the current generation has at most
one wake-up, armed or being run. `ChainGoesOn` adds that a change not yet told is still to come.

**`RequestsProofs`.** `RequestsTypeCorrect`, `RepliesTakeOneWay` (`RepliesHaveOneWay`),
`NobodyWaitsForItsOwnKind` (`NobodyWaitsForItself`) and `RequestsArePromises` (`ImplementsPromises`), from
one invariant. Each part of it closes a way in which a reply could go twice or nowhere: the
bus has one answerer of a type and it is the listed one (`BusInv`); a call that is not posted has left no
trace (`CallsInv`); a request is told once (`TellingInv`), to someone who answers its type (`DoingInv`); what
is sent was taken from `PENDING_REQUESTS` (`SentInv`); a task awaits one call at a time (`AwaitInv`);
and a call's chain holds the whole chain of the call whose task asked it, in which its own type did not occur
(`ChainInv`). That no type comes twice among tasks that wait for one another needs the chain
along a line of calls of any length: `Line` is a recursive function on calls, each of which asks on behalf of an
earlier one, and the proof goes by the least call for which the claim fails (`WFMin`).

**`TasksProofs`.** `TasksTypeCorrect`, `WorkIsRungFor` (`WorkRings`), and `WorkIsDelivered`: every initial
state and every step of `Tasks` is one of `Deliveries`, or a stutter. The mapping is stated there again
(`Delivered`), since `MCTasks` has it for the instance; the fairness of `Deliveries` stays with TLC. `TaskInv` says where the
UI thread may be with a batch or a handler, and that nobody is told by a token it has not
enlisted with; beside it `Ringing` (a job in the queue has a wake-up on its way, a poster about to arm one, or a UI
thread about to look) and `Queued` (a task's jobs, in the batch and the queue, are its next messages in order).

**`WindowsProofs`.** `PagesShowTheirNodes` (`EveryPageShowsItsNode`) and `EditedPagesAreAsked`
(`NothingEditedGoesUnasked`, with its exception) where windows are composed before another installs (`~Together`);
`ApplicationEndsWithItsWindows` (`EndsWithItsWindows`) where no window is asked for late and the
main one is the last to go (`~Late /\ ~MainCloses`). `StagingInv` is the argument: at most
one window is between its page and its component, and the node staged under that page's type is its own; so
nobody takes another's, and a page that is not in its `update` is read by its guard through the window that
shows it. `EndInv`: until the first window stands nothing does, then a main window stands up to the exit.

**`ApplicationProofs`.** `PluginsAreBuiltOnce` (`BuiltOnce`): what is under way is not there yet and
shares its id with nothing else under way (`OneOfAnId`). `CleanupsRunBackwards` (`LastSetUpGoesFirst`):
what was asked for (`order`) is at every moment what is still to be run, followed by what ran (`ran`) read backwards,
and nothing ran until the application goes (`CleanupInv`); at the end nothing is to be run, so all of it ran. `ExportsStayClaimed`
(`ExportsAreClaimed`), where a page gives up with a feature that failed (`~Swallow`): the bodies under way
are the open sections of the scope they are installed in (`ScopesInv`), and what a page exports is claimed
or is to be by a body that has not ended (`ExportsInv`). `ReadersStayAnswered` (`ReadersAreAnswered`), where no
unit that failed is installed again and none inside itself (`~Retry /\ ~Nest`): a claim is noted under the
section that has its body's answers (`ClaimsInv`, `AnswersInv`), and no unit has two bodies in the application, or
in one page (`OnceInv`), so the body that a reader belongs to is the one whose claim was noted.

The same module has the theorems of *Routes*, which hold of declarations of any size, over any forms of layouts
and pages. The invariant (`RoutesInv`) says that a node stands in a layout declared before it (`Nested`), and that
text which is kept has for each of its fields what a value of some type is saved as (`WrittenWhole`). `GuardsStandAsDeclared`
(`GuardsAsDeclared`): the guards of a node are computed from those of the layout around it, so the claim goes from each
layout to what stands in it; `Folded` says what `fold_into` makes of guards in any order, and `StandingGrows`
that the declared meaning changes in the same way. `LayoutsHold` (`LayoutsHoldEverywhere`): what is above a
layout is a beginning of what is above each page under it (`LineOfLines`), and `check_layouts`, which compares
each place of a layout with the first one only, has thereby compared them all (`LayoutsStandAlike`).
`SavedComeBack` (`SavedRoutesComeBack`), from the two assumptions on `ToValue` and `FromValue`
(`FieldsRead`). What is computed along a declaration is a recursive function; that
it exists, and what it is at each node, is `Computed`, proved once by the least number for which it is not (`FirstNumber`).

**`RouterProofs`.** The invariants stand on one another, and the hypotheses grow with them:

| theorem | states | where | the invariant, and what it is for |
|---|---|---|---|
| `RouterTypeCorrect` | `TypeOK` | always | `BaseInv`: besides the types, how far a frame is in its chain (`Shapes`), and that no two of what is under way, parked and held are one navigation (`Apart`) |
| `NavigationsAreAccountedFor` | `NavigationsAccountedFor` | guards do not navigate | `QuestionInv`: only the last call made is being decided, and no question is up while it is |
| `AtTheRouteItSays` | `AtTheRouteThatStands` | `Calm` | `CalmInv`: one call at a time is under way, and past its guards nothing else waits (`Alone`) |
| `ScopesAreAccountedFor` | `ScopesAccountedFor` | `Steady` | `SteadyInv`: at each line of a commit, what stands so far, what sleeps and what the navigation has in hand are all the scopes there are, each under the one before (`ScopesInv`, `InHand`); a navigation's shared length is that of the chain that stands (`Sharing`); cached states are of the place and capture they are filed under (`CacheHome`) |
| `EveryGuardWasAsked` | `EveryGuardIsAsked` | `Steady`, `AskedAlone` | `AskedInv`: past the leave guards, what goes was asked |
| `FramesStayUndisturbed` | `FrameUndisturbed` | `Steady`, nothing answers in a frame | `DrawingInv`: while a frame is drawn, a navigation under way is still at its guards |
| `HistoryIsABrowsers` | `ImplementsHistory` | `Remembering` | `RememberingInv`: at most one step of the history is out, and it left where it came from on the other side (`HistInv`); the chain of a route can be made again (`AgainInv`) |

`Calm`: guards, wake hooks and route hooks do not navigate, and no guard asks while a frame holds a
navigation. `Steady`: besides, nothing is activated that has no route. `AskedAlone`: enter guards ask nothing, and
a leave guard that asks is the only one of its chain. `Remembering`: `Steady`, steps come one at a
time, a failed chain can be put back, and the router is not deactivated. What each gives up otherwise was
found by adding it to the cfg of `router` or `router_hooks`:

| without | TLC finds violated |
|---|---|
| no guard navigates | `NavigationsAccountedFor`, `AtTheRouteThatStands`, `ImplementsHistory` |
| no wake hook navigates | `SleepersCanWake`, `AtTheRouteThatStands`, `ImplementsHistory` |
| no route hook navigates | `AtTheRouteThatStands`, `ImplementsHistory` |
| no guard asks while a frame holds a navigation | `SegmentsInTheirScopes`, `EveryGuardIsAsked`, `ImplementsHistory` |
| nothing is activated by hand | `SegmentsInTheirScopes`, `EveryGuardIsAsked`, `ImplementsHistory` |
| no enter guard asks | `EveryGuardIsAsked` |
| a leave guard that asks is alone on its chain (`leaveAsk`, `LeaveGuarded = {"Editor", "Shell"}`) | `EveryGuardIsAsked` |
| nothing drawn in a frame answers | `FrameUndisturbed` |
| steps one at a time; a failed chain goes back up; no deactivation | `ImplementsHistory`, for each of the three |

`router_hooks` runs with wake hooks and route hooks that navigate and with `activate`, over routes chosen so
that `ScopesAccountedFor` holds; the theorem says less of habits and more of routes.

Only model-checked: of *Routes*, `PathsOpenTheirPages` and `ManifestTellsTheAddresses`, which speak of a walk over a
tree that is built by folding and filtering sequences, with operators as arguments, which the provers do not unfold;
`CollectIsTheVisit`, whose other side is a `RECURSIVE` operator, which no module with a theorem can reach; and, by the prover's limits, everything that must happen: `NavigationsSettle`,
`DrainEnds`, `AnsweredWithoutTimeout`, `TimersTick`, `EveryWaitEnds`, and the fairness of `Deliveries`.

## What is not modelled

- Panics: no module has any but one lookup of *Nodes* (`panicked`). A panic in a handler unwinds through guards that restore `DEPTH` and
  `DRAINING` (`notify.rs:41`, `:119`) but not `is_processing` of the actor (`addr.rs:283-313`), so what the
  modules say of turns is said of programs whose handlers return.
- What a program renders; the devtools and traces that look on.
- Question hooks of the router, install and teardown call-backs that navigate, and rendering.
- Reachability of state: the type checker decides it. Of the macros only `routes!` is modelled. How
  a value is spelled is a constant of `Routes`, in a path (`Encode`, `Decode`) and in saved text (`ToValue`,
  `FromValue`); that serde may refuse to write a value, and the route is then not saved (`restore.rs:67-73`), is left out.
- Services and shared state (maps filled at start), reducer bindings and loads (what a UI reads a cell
  through), remote actions and window placement (lookups and arithmetic without state).
- eframe, slint and ratatui beyond what they ask of the router; of iced and winui, views and dialogs.
- The seeded executor, `harness`, `acts`, `headless`, `test_kit`: test support; vendored crates, examples,
  build scripts.

`PROJECT.json` lists every part with its reason.

## Plan

Done, in this order because each stands on those before it: the scope tree, the router (the largest part and
the one with most call-backs), turns, requests and timers; then background work with its dispatcher,
the stores of two backends beside the router, the application and its units, and route declarations.

What is left:

1. Proofs: what a path opens (`PathsOpenTheirPages`).
2. `Router` composed with `Nodes`: a navigation cut at its call-backs against the store that waits for the
   end of the update.
3. Window placement against what it promises, and the remote walk to the innermost scope that answers.

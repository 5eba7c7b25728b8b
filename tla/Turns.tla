------------------------------- MODULE Turns -------------------------------
(***************************************************************************)
(* Who runs when on the one UI thread of a guinea application: the         *)
(* mailboxes of actors (guinea-core/src/actor/addr.rs), the reducer cells  *)
(* of scopes (scope/state.rs), and the drain that tells observers and      *)
(* listeners of a change once the turn that made it is over (notify.rs).   *)
(*                                                                         *)
(* A handler, an observer or a listener is code of the program.  While it  *)
(* runs it may send, push, remove a scope, begin or stop watching a cell,  *)
(* and each of these may run more code on top of it before it returns: the *)
(* call stack is a variable.                                               *)
(***************************************************************************)
EXTENDS Naturals, Sequences

CONSTANTS
  Actor,
  Cell,          \* a reducer's state in one scope
  Scope,
  Update,        \* what a push carries
  Observer,      \* watchers handed each update
  Listener,      \* watchers told that their cell changed
  Home,          \* the scope a cell is in
  Watches,       \* the cell a watcher watches
  Does,          \* what the code of a kind of frame may do
  SettleRounds,  \* SETTLE_ROUNDS
  MaxEffects,    \* how much one call of a handler, an observer, a listener does
  MaxSends,      \* messages sent from one idle moment to the next
  Nobody,        \* whom a drain runs for
  Bare           \* a mark that carries no update

Effects == {"send", "push", "remove", "join", "leave"}
Code == {"handler", "observer", "listener"}
Watcher == Observer \cup Listener

ASSUME TurnsAssumption ==
  /\ Home \in [Cell -> Scope]
  /\ Watches \in [Watcher -> Cell]
  /\ Does \in [Code -> SUBSET Effects]
  /\ Observer \cap Listener = {}
  /\ Bare \notin Update
  /\ SettleRounds \in Nat
  /\ MaxEffects \in [Code -> Nat]
  /\ MaxSends \in Nat

Message == 1..MaxSends

VARIABLES
  queue,       \* Addr::queue
  processing,  \* Addr::is_processing
  depth,       \* DEPTH
  marked,      \* MARKED
  draining,    \* DRAINING
  drain,       \* the locals of the drain that runs
  stack,       \* what runs, the innermost last
  removed,     \* scopes that are gone
  watching,    \* watchers subscribed to a cell that is there
  stopped,     \* watchers that have unsubscribed, or whose cell went
  sent,        \* messages sent since the thread was last idle
  stale,       \* listeners not called since their cell changed
  owed         \* the updates each observer has not been handed, in order

mail == <<queue, processing, sent>>
rounds == <<marked, draining, drain>>
watch == <<watching, stopped>>
owing == <<stale, owed>>
vars == <<mail, depth, rounds, stack, removed, watch, owing>>

\* message: the one a handler handles, 0 elsewhere; left: how much more this
\* call does.
Frame == [kind : {"turn", "drain"} \cup Code, who : Actor \cup Watcher \cup {Nobody},
          message : Message \cup {0}, left : Nat]
Change == [cell : Cell, update : Update \cup {Bare}]
Locals == [phase : {"none", "settle", "tell"}, round : 0..SettleRounds,
           batch : Seq(Change), touched : Seq(Cell),
           calls : SUBSET (Watcher \X (Update \cup {Bare}))]

NoDrain == [phase |-> "none", round |-> 0, batch |-> <<>>, touched |-> <<>>, calls |-> {}]
FirstRound == [NoDrain EXCEPT !.phase = "settle"]

TypeOK ==
  /\ queue \in [Actor -> Seq(Message)]
  /\ processing \in [Actor -> BOOLEAN]
  /\ depth \in Nat
  /\ marked \in Seq(Change)
  /\ draining \in BOOLEAN
  /\ drain \in Locals
  /\ stack \in Seq(Frame)
  /\ removed \subseteq Scope
  /\ watching \subseteq Watcher
  /\ stopped \subseteq Watcher \ watching
  /\ sent \in 0..MaxSends
  /\ stale \subseteq Listener \cap watching
  /\ owed \in [Observer -> Seq(Update)]

-----------------------------------------------------------------------------
(* The stack. *)

Idle == stack = <<>>
Top == stack[Len(stack)]
Beneath == SubSeq(stack, 1, Len(stack) - 1)
Running(kind) == ~Idle /\ Top.kind = kind

\* What has nothing beneath it - the toolkit's event loop, a main function -
\* may do anything.
May(effect) ==
  \/ Idle
  \/ /\ ~Idle
     /\ Top.kind \in Code
     /\ Top.left > 0
     /\ effect \in Does[Top.kind]

Spent == IF Idle THEN stack ELSE [stack EXCEPT ![Len(stack)].left = @ - 1]

TurnOf(a) == [kind |-> "turn", who |-> a, message |-> 0, left |-> 0]
DrainFrame == [kind |-> "drain", who |-> Nobody, message |-> 0, left |-> 0]
Call(kind, who, message) ==
  [kind |-> kind, who |-> who, message |-> message, left |-> MaxEffects[kind]]

WatchersOf(c, kind) == {w \in kind \cap watching : Watches[w] = c}
IsMarked(c) == \E i \in DOMAIN marked : marked[i].cell = c

Init ==
  /\ queue = [a \in Actor |-> <<>>]
  /\ processing = [a \in Actor |-> FALSE]
  /\ depth = 0
  /\ marked = <<>>
  /\ draining = FALSE
  /\ drain = NoDrain
  /\ stack = <<>>
  /\ removed = {}
  /\ watching \in SUBSET Watcher
  /\ stopped = {}
  /\ sent = 0
  /\ stale = {}
  /\ owed = [o \in Observer |-> <<>>]

-----------------------------------------------------------------------------
(* What running code does. *)

\* notify::drain on top of `under`, when there is something to drain.
StartDrain(under) ==
  /\ draining' = TRUE
  /\ drain' = FirstRound
  /\ stack' = Append(under, DrainFrame)

\* Mutant of ProcessQueue: an actor that handles a message is entered again.
ProcessQueueAnyway(a) ==
  /\ processing' = [processing EXCEPT ![a] = TRUE]
  /\ depth' = depth + 1
  /\ stack' = Append(Spent, TurnOf(a))

\* Addr::process_queue.
ProcessQueue(a) ==
  IF processing[a]
  THEN /\ stack' = Spent
       /\ UNCHANGED <<processing, depth>>
  ELSE /\ processing' = [processing EXCEPT ![a] = TRUE]
       /\ depth' = depth + 1
       /\ stack' = Append(Spent, TurnOf(a))

\* Addr::send and Addr::apply.
Send(a) ==
  /\ May("send")
  /\ LET message == IF Idle THEN 1 ELSE sent + 1
     IN  /\ message \in Message
         /\ sent' = message
         /\ queue' = [queue EXCEPT ![a] = Append(@, message)]
  /\ ProcessQueue(a)
  /\ UNCHANGED <<marked, draining, drain, removed, watch, owing>>

\* Mutant of Mark: an update is folded into a mark that is there already.
MarkOnce(change) ==
  marked' = IF IsMarked(change.cell) THEN marked ELSE Append(marked, change)

\* notify::mark.
Mark(change) ==
  marked' = IF change.update # Bare \/ ~IsMarked(change.cell)
            THEN Append(marked, change) ELSE marked

\* Mutant of Push: it drains whatever runs beneath it.
PushAtOnce(c, u) ==
  /\ May("push")
  /\ Home[c] \notin removed
  /\ Mark([cell |-> c, update |-> IF WatchersOf(c, Observer) = {} THEN Bare ELSE u])
  /\ IF ~draining
     THEN StartDrain(Spent)
     ELSE stack' = Spent /\ UNCHANGED <<draining, drain>>
  /\ stale' = stale \cup WatchersOf(c, Listener)
  /\ owed' = [o \in Observer |->
                IF o \in WatchersOf(c, Observer) THEN Append(owed[o], u) ELSE owed[o]]
  /\ UNCHANGED <<mail, depth, removed, watch>>

\* Scope::push on a scope that is there; on one that is gone it does nothing.
Push(c, u) ==
  /\ May("push")
  /\ Home[c] \notin removed
  /\ Mark([cell |-> c, update |-> IF WatchersOf(c, Observer) = {} THEN Bare ELSE u])
  /\ IF depth = 0 /\ ~draining
     THEN StartDrain(Spent)
     ELSE stack' = Spent /\ UNCHANGED <<draining, drain>>
  /\ stale' = stale \cup WatchersOf(c, Listener)
  /\ owed' = [o \in Observer |->
                IF o \in WatchersOf(c, Observer) THEN Append(owed[o], u) ELSE owed[o]]
  /\ UNCHANGED <<mail, depth, removed, watch>>

\* Nothing is owed to a watcher that is gone.
StopWatching(ws) ==
  /\ watching' = watching \ ws
  /\ stopped' = stopped \cup ws
  /\ stale' = stale \ ws
  /\ owed' = [o \in Observer |-> IF o \in ws THEN <<>> ELSE owed[o]]

\* Scope::remove: the cells go, and with them the lists of who watches them.
\* What the drain that runs has already copied out of them stays.
Remove(s) ==
  /\ May("remove")
  /\ s \notin removed
  /\ removed' = removed \cup {s}
  /\ StopWatching({w \in watching : Home[Watches[w]] = s})
  /\ stack' = Spent
  /\ UNCHANGED <<mail, depth, rounds>>

\* Scope::subscribe and Scope::observe.
Join(w) ==
  /\ May("join")
  /\ w \notin watching \cup stopped
  /\ Home[Watches[w]] \notin removed
  /\ watching' = watching \cup {w}
  /\ stack' = Spent
  /\ UNCHANGED <<mail, depth, rounds, removed, stopped, owing>>

\* Subscription::drop.
Leave(w) ==
  /\ May("leave")
  /\ w \in watching
  /\ StopWatching({w})
  /\ stack' = Spent
  /\ UNCHANGED <<mail, depth, rounds, removed>>

\* A handler, an observer or a listener returns.
Return ==
  /\ ~Idle
  /\ Top.kind \in Code
  /\ stack' = Beneath
  /\ UNCHANGED <<mail, depth, rounds, removed, watch, owing>>

-----------------------------------------------------------------------------
(* A turn: Addr::drain_queue inside notify::turn. *)

Handle ==
  /\ Running("turn")
  /\ LET a == Top.who
     IN  /\ queue[a] # <<>>
         /\ queue' = [queue EXCEPT ![a] = Tail(@)]
         /\ stack' = Append(stack, Call("handler", a, Head(queue[a])))
  /\ UNCHANGED <<processing, sent, depth, rounds, removed, watch, owing>>

\* The queue is empty, and the guard of the turn is dropped.
CloseTurn ==
  /\ Running("turn")
  /\ queue[Top.who] = <<>>
  /\ processing' = [processing EXCEPT ![Top.who] = FALSE]
  /\ depth' = depth - 1
  /\ IF depth = 1 /\ ~draining /\ marked # <<>>
     THEN StartDrain(Beneath)
     ELSE stack' = Beneath /\ UNCHANGED <<draining, drain>>
  /\ UNCHANGED <<queue, sent, marked, removed, watch, owing>>

-----------------------------------------------------------------------------
(* notify::drain. *)

Settling == Running("drain") /\ drain.phase = "settle" /\ drain.calls = {}
Telling == Running("drain") /\ drain.phase = "tell" /\ drain.calls = {}

EndDrain ==
  /\ draining' = FALSE
  /\ drain' = NoDrain
  /\ stack' = Beneath

NextRound ==
  /\ Settling
  /\ drain.batch = <<>>
  /\ marked # <<>>
  /\ drain.round < SettleRounds
  /\ drain' = [drain EXCEPT !.round = @ + 1, !.batch = marked]
  /\ marked' = <<>>
  /\ UNCHANGED <<mail, depth, draining, stack, removed, watch, owing>>

\* What was marked is dropped, and so is what this settling had touched: the
\* debts end here, with the warning the code logs.
GiveUp ==
  /\ Settling
  /\ drain.batch = <<>>
  /\ marked # <<>>
  /\ drain.round = SettleRounds
  /\ marked' = <<>>
  /\ EndDrain
  /\ stale' = {}
  /\ owed' = [o \in Observer |-> <<>>]
  /\ UNCHANGED <<mail, depth, removed, watch>>

\* The order in which the watchers of one cell are called is left open.
NextChange ==
  /\ Settling
  /\ drain.batch # <<>>
  /\ LET change == Head(drain.batch)
         c == change.cell
         gone == Home[c] \in removed
         seen == \E i \in DOMAIN drain.touched : drain.touched[i] = c
     IN  drain' = [drain EXCEPT
           !.batch = Tail(@),
           !.touched = IF gone \/ seen THEN @ ELSE Append(@, c),
           !.calls = IF gone \/ change.update = Bare THEN {}
                     ELSE WatchersOf(c, Observer) \X {change.update}]
  /\ UNCHANGED <<mail, depth, marked, draining, stack, removed, watch, owing>>

Observe(o, u) ==
  /\ Running("drain")
  /\ drain.phase = "settle"
  /\ <<o, u>> \in drain.calls
  /\ drain' = [drain EXCEPT !.calls = @ \ {<<o, u>>}]
  /\ stack' = Append(stack, Call("observer", o, 0))
  /\ owed' = [owed EXCEPT ![o] = IF @ # <<>> /\ Head(@) = u THEN Tail(@) ELSE @]
  /\ UNCHANGED <<mail, depth, marked, draining, removed, watch, stale>>

\* Mutant of BeginTelling: one batch settles the state.
BeginTellingAfterOne ==
  /\ Settling
  /\ drain.batch = <<>>
  /\ drain.round > 0
  /\ drain' = [drain EXCEPT !.phase = "tell"]
  /\ UNCHANGED <<mail, depth, marked, draining, stack, removed, watch, owing>>

BeginTelling ==
  /\ Settling
  /\ drain.batch = <<>>
  /\ marked = <<>>
  /\ drain' = [drain EXCEPT !.phase = "tell"]
  /\ UNCHANGED <<mail, depth, marked, draining, stack, removed, watch, owing>>

NextCell ==
  /\ Telling
  /\ drain.touched # <<>>
  /\ LET c == Head(drain.touched)
     IN  drain' = [drain EXCEPT
           !.touched = Tail(@),
           !.calls = IF Home[c] \in removed THEN {} ELSE WatchersOf(c, Listener) \X {Bare}]
  /\ UNCHANGED <<mail, depth, marked, draining, stack, removed, watch, owing>>

Listen(l) ==
  /\ Running("drain")
  /\ drain.phase = "tell"
  /\ <<l, Bare>> \in drain.calls
  /\ drain' = [drain EXCEPT !.calls = @ \ {<<l, Bare>>}]
  /\ stack' = Append(stack, Call("listener", l, 0))
  /\ stale' = stale \ {l}
  /\ UNCHANGED <<mail, depth, marked, draining, removed, watch, owed>>

\* Mutant of EndTelling: the rounds are counted per settling.
EndTellingAfresh ==
  /\ Telling
  /\ drain.touched = <<>>
  /\ IF marked = <<>>
     THEN EndDrain
     ELSE /\ drain' = FirstRound
          /\ UNCHANGED <<draining, stack>>
  /\ UNCHANGED <<mail, depth, marked, removed, watch, owing>>

\* What the listeners marked is another round of the same drain.
EndTelling ==
  /\ Telling
  /\ drain.touched = <<>>
  /\ IF marked = <<>>
     THEN EndDrain
     ELSE /\ drain' = [drain EXCEPT !.phase = "settle"]
          /\ UNCHANGED <<draining, stack>>
  /\ UNCHANGED <<mail, depth, marked, removed, watch, owing>>

-----------------------------------------------------------------------------

Drain ==
  \/ NextRound
  \/ GiveUp
  \/ NextChange
  \/ BeginTelling
  \/ NextCell
  \/ EndTelling
  \/ \E o \in Observer, u \in Update : Observe(o, u)
  \/ \E l \in Listener : Listen(l)

\* What runs without anybody asking: the loops and the returns of calls.
Run == Handle \/ CloseTurn \/ Return \/ Drain

Ask ==
  \/ \E a \in Actor : Send(a)
  \/ \E c \in Cell, u \in Update : Push(c, u)
  \/ \E s \in Scope : Remove(s)
  \/ \E w \in Watcher : Join(w) \/ Leave(w)

Next == Run \/ Ask

Spec == Init /\ [][Next]_vars

\* The thread goes on with what it runs, and every call returns.
FairSpec == Spec /\ WF_vars(Run)

-----------------------------------------------------------------------------
(* Properties. *)

\* When nothing runs, nothing waits: no message is left in a mailbox, no mark
\* in MARKED, and neither an actor nor the drain thinks it is still at work
\* (addr.rs:283-313, notify.rs:92-95,112-184: the early returns are only safe
\* when somebody below goes on).
NothingLeftBehind ==
  Idle =>
    /\ \A a \in Actor : queue[a] = <<>> /\ ~processing[a]
    /\ depth = 0
    /\ marked = <<>>
    /\ ~draining

\* No observer and no listener runs on the stack of a handler: navigating or
\* removing a scope from one cannot pull the ground from under an actor that
\* is still running (notify.rs:13-17).
OffTheHandlersStack ==
  \A i, j \in DOMAIN stack :
    /\ stack[i].kind = "handler"
    /\ stack[j].kind \in {"observer", "listener"}
    => j < i

\* A drain never starts on top of anything but the push that asked for it, so
\* there is one at a time and its rounds are counted once (notify.rs:105-112).
OneDrainAtATime ==
  \A i \in DOMAIN stack : stack[i].kind = "drain" => i = 1

\* The drain is at the bottom of the stack and what it calls is above no
\* handler, however sends, turns and drains are nested.
StackInOrder == OffTheHandlersStack /\ OneDrainAtATime

\* Where the updates are that are still to be handed to an observer: the one it
\* is about to be called with, at 0, and those in the changes ahead.
OnTheWay(o, calls, ahead) ==
  {p \in {0} : \E u \in Update : <<o, u>> \in calls}
    \cup {p \in DOMAIN ahead : ahead[p].cell = Watches[o] /\ ahead[p].update # Bare}

\* Each update due is at one of those places, in order, and what comes after
\* one that is due is due as well.
Meets(at, o, due, calls, ahead) ==
  /\ \A i, j \in DOMAIN due : i < j => at[i] < at[j]
  /\ \A i \in DOMAIN due : IF at[i] = 0 THEN <<o, due[i]>> \in calls
                           ELSE ahead[at[i]].update = due[i]
  /\ \A i \in DOMAIN due, p \in OnTheWay(o, calls, ahead) :
       at[i] < p => \E j \in DOMAIN due : at[j] = p

EndOfTheWay(o, due, calls, ahead) ==
  \E at \in [DOMAIN due -> OnTheWay(o, calls, ahead)] : Meets(at, o, due, calls, ahead)

\* No update is lost, merged with another or overtaken on its way to those who
\* observed the cell when it was pushed (notify.rs:74-83, 154-169).
EveryUpdateIsHanded ==
  \A o \in Observer \cap watching :
    EndOfTheWay(o, owed[o], drain.calls, drain.batch \o marked)

\* A listener whose cell changed is going to be called, however marks are
\* folded into one another and whatever runs in between (notify.rs:135-184).
EveryChangeIsTold ==
  \A l \in stale :
    \/ IsMarked(Watches[l])
    \/ \E i \in DOMAIN drain.batch : drain.batch[i].cell = Watches[l]
    \/ \E i \in DOMAIN drain.touched : drain.touched[i] = Watches[l]
    \/ <<l, Bare>> \in drain.calls

\* Nothing that was sent, pushed or marked is left out by the turn, round or
\* copy it fell into.
NothingIsMissed == NothingLeftBehind /\ EveryUpdateIsHanded /\ EveryChangeIsTold

\* State settles before anything is told to redraw: when the telling begins,
\* every observer has been handed every update (notify.rs:138-141).
SettledBeforeTelling ==
  [][drain.phase = "settle" /\ drain'.phase = "tell" => \A o \in Observer : owed[o] = <<>>]_vars

\* Nothing is called once its subscription is dropped (binding.rs:67-68 "Calls
\* `f` after every change, until the returned Subscription is dropped").
DroppedHearsNothing ==
  [][\A w \in Watcher :
       /\ Len(stack') > Len(stack)
       /\ stack'[Len(stack')].kind \in {"observer", "listener"}
       /\ stack'[Len(stack')].who = w
       => w \in watching]_vars

HandlersOn(st, a) == {i \in 1..Len(st) : st[i].kind = "handler" /\ st[i].who = a}

\* The message an actor is handling, 0 for none.
HandledOn(st, a) ==
  IF HandlersOn(st, a) = {} THEN 0 ELSE st[CHOOSE i \in HandlersOn(st, a) : TRUE].message

Mail == INSTANCE Mailboxes WITH
  Nothing <- 0, inbox <- queue, at <- [a \in Actor |-> HandledOn(stack, a)]

\* Turns that fold into one another, handlers that send to themselves and to
\* each other, and callbacks in between show nothing a mailbox does not do
\* (addr.rs:283-309).
ImplementsMailboxes == Mail!Spec

\* Cells that feed one another end in a warning, not in a drain that never
\* returns (notify.rs:98-103, 108-112).
DrainEnds == ~Idle ~> Idle
=============================================================================

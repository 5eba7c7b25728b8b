------------------------------ MODULE Requests ------------------------------
(***************************************************************************)
(* Requests on the global event bus of a guinea application                *)
(* (guinea-core/src/actor/event_bus: mod.rs, rpc.rs, subscribe.rs).        *)
(*                                                                         *)
(* A caller is a task on a background thread.  It leaves a sender under    *)
(* the name of its call in PENDING_REQUESTS and a job for the UI thread,   *)
(* and waits.  The UI thread tells whoever hears the request, the one who  *)
(* answers it replies at once or from a task of its own, and that task may *)
(* ask others meanwhile.  Scopes fall asleep, wake and go between any two  *)
(* steps, and in the middle of a publication when a handler makes them.    *)
(*                                                                         *)
(* A reply is published as an event as well; nothing here hears it.        *)
(***************************************************************************)
EXTENDS Naturals, Sequences, FiniteSets

CONSTANTS
  Kind,        \* request types
  Hearer,      \* subscribers of the bus, each to one request type
  Hears,       \* the type it is subscribed to
  Answers,     \* those that answer what they hear
  InScope,     \* actors that live in a scope, and are deaf while it is not awake
  Style,       \* how the handler of a subscriber may reply
  Place,       \* the order in which the first ones subscribed, 0 for later ones
  MaxCalls,
  MaxChanges,  \* how often subscribers come, go, fall asleep or wake
  Nobody

\* now: it returns the reply.  task: AsyncBus::spawn_reply.  bg: a reply from
\* a Cx::spawn_bg of the actor's own.
Styles == {"now", "task", "bg"}

ASSUME RequestsAssumption ==
  /\ IsFiniteSet(Hearer)
  /\ Nobody \notin Hearer
  /\ Hears \in [Hearer -> Kind]
  /\ Answers \subseteq Hearer
  /\ InScope \subseteq Hearer
  /\ Style \in [Hearer -> SUBSET Styles]
  /\ Place \in [Hearer -> 0..Cardinality(Hearer)]
  /\ \A h, g \in Answers : Hears[h] = Hears[g] /\ Place[h] # 0 /\ Place[g] # 0 => h = g
  /\ \A h, g \in Hearer : Place[h] = Place[g] /\ Place[h] # 0 => h = g
  /\ MaxCalls \in Nat
  /\ MaxChanges \in Nat

Call == 1..MaxCalls
NoCall == 0

VARIABLES
  life,       \* where a subscriber's scope, or itself, stands
  listed,     \* EventBus::subscribers
  answerers,  \* EventBus::answerers
  seq,        \* SubscriptionId::seq
  nextId,     \* EventBus::next_id
  at,         \* how far the caller of a call is
  kind,       \* what it asks
  by,         \* the call whose reply task asked it
  chain,      \* RpcRequest::chain
  pending,    \* PENDING_REQUESTS
  rx,         \* what the sender sent
  ui,         \* jobs of the UI thread
  about,      \* the call whose request is being published
  telling,    \* those the publication has not come to
  handling,   \* the one whose handler runs
  doer,       \* the answerer that was handed a call
  task,       \* the task that replies
  changes,
  replier,    \* whose reply a call got
  lost        \* calls that nobody can answer any more

bus == <<life, listed, answerers, seq, nextId, changes>>
calls == <<at, kind, by, chain>>
publication == <<about, telling, handling>>
work == <<doer, task>>
vars == <<bus, calls, pending, rx, ui, publication, work, replier, lost>>

Open == {"posting", "waiting", "forgetting"}
Over == {"replied", "unanswered", "timedout", "dropped"}

TypeOK ==
  /\ life \in [Hearer -> {"out", "awake", "asleep", "gone"}]
  /\ listed \subseteq Hearer
  /\ answerers \in [Kind -> Answers \cup {Nobody}]
  /\ seq \in [Hearer -> Nat]
  /\ nextId \in Nat
  /\ at \in [Call -> {"unmade"} \cup Open \cup Over]
  /\ kind \in [Call -> Kind \cup {Nobody}]
  /\ by \in [Call -> Call \cup {NoCall}]
  /\ chain \in [Call -> SUBSET Kind]
  /\ pending \subseteq Call
  /\ rx \in [Call -> {"empty", "reply", "unanswered"}]
  /\ ui \in Seq(Call)
  /\ about \in Call \cup {NoCall}
  /\ telling \subseteq Hearer
  /\ handling \in Hearer \cup {Nobody}
  /\ doer \in [Call -> Answers \cup {Nobody}]
  /\ task \in [Call -> {"none", "task", "bg", "over"}]
  /\ changes \in 0..MaxChanges
  /\ replier \in [Call -> Hearer \cup {Nobody}]
  /\ lost \subseteq Call

Init ==
  /\ life = [h \in Hearer |-> IF Place[h] = 0 THEN "out" ELSE "awake"]
  /\ listed = {h \in Hearer : Place[h] # 0}
  /\ answerers \in [Kind -> Answers \cup {Nobody}]
  /\ \A k \in Kind : \A h \in Answers :
       answerers[k] = h <=> h \in listed /\ Hears[h] = k
  /\ seq = Place
  /\ nextId = Cardinality(Hearer) + 1
  /\ at = [c \in Call |-> "unmade"]
  /\ kind = [c \in Call |-> Nobody]
  /\ by = [c \in Call |-> NoCall]
  /\ chain = [c \in Call |-> {}]
  /\ pending = {}
  /\ rx = [c \in Call |-> "empty"]
  /\ ui = <<>>
  /\ about = NoCall
  /\ telling = {}
  /\ handling = Nobody
  /\ doer = [c \in Call |-> Nobody]
  /\ task = [c \in Call |-> "none"]
  /\ changes = 0
  /\ replier = [c \in Call |-> Nobody]
  /\ lost = {}

-----------------------------------------------------------------------------
(* Who hears what: code of the UI thread, from its event loop or from the  *)
(* handler that runs.                                                      *)

Change ==
  /\ about = NoCall \/ handling # Nobody
  /\ changes < MaxChanges
  /\ changes' = changes + 1
  /\ UNCHANGED <<calls, pending, rx, ui, publication, work, replier, lost>>

\* A second answerer of a request type panics, and the program never has one.
Subscribe(h) ==
  /\ Change
  /\ life[h] = "out"
  /\ h \in Answers => answerers[Hears[h]] = Nobody
  /\ life' = [life EXCEPT ![h] = "awake"]
  /\ listed' = listed \cup {h}
  /\ answerers' = IF h \in Answers THEN [answerers EXCEPT ![Hears[h]] = h] ELSE answerers
  /\ seq' = [seq EXCEPT ![h] = nextId]
  /\ nextId' = nextId + 1

Unanswering(h) ==
  IF answerers[Hears[h]] = h THEN [answerers EXCEPT ![Hears[h]] = Nobody] ELSE answerers

\* Its subscription is dropped: with its scope, or when it is disposed.
Remove(h) ==
  /\ Change
  /\ life[h] \in {"awake", "asleep"}
  /\ life' = [life EXCEPT ![h] = "gone"]
  /\ listed' = listed \ {h}
  /\ answerers' = Unanswering(h)
  /\ UNCHANGED <<seq, nextId>>

Sleep(h) ==
  /\ Change
  /\ h \in InScope
  /\ life[h] = "awake"
  /\ life' = [life EXCEPT ![h] = "asleep"]
  /\ UNCHANGED <<listed, answerers, seq, nextId>>

Wake(h) ==
  /\ Change
  /\ life[h] = "asleep"
  /\ life' = [life EXCEPT ![h] = "awake"]
  /\ UNCHANGED <<listed, answerers, seq, nextId>>

-----------------------------------------------------------------------------
(* The caller's side. *)

AskedBy(c) == {d \in Call : by[d] = c /\ at[d] \in Open}

\* Whether the code of a caller is running: a task of the program, or the
\* task that is to reply to p, while it awaits no call of its own.
Running(p) ==
  \/ p = NoCall
  \/ /\ p # NoCall
     /\ task[p] \in {"task", "bg"}
     /\ AskedBy(p) = {}

\* Mutant of ChainOf: a reply task does not know what it is for.
ChainOfNobody(p) == {}

\* current_rpc_chain: only spawn_reply puts its task in a chain.
ChainOf(p) == IF p # NoCall /\ task[p] = "task" THEN chain[p] ELSE {}

Fresh(c) == at[c] = "unmade" /\ \A d \in Call : d < c => at[d] # "unmade"

Ask(p, k, c) ==
  /\ Running(p)
  /\ Fresh(c)
  /\ k \notin ChainOf(p)
  /\ at' = [at EXCEPT ![c] = "posting"]
  /\ kind' = [kind EXCEPT ![c] = k]
  /\ by' = [by EXCEPT ![c] = p]
  /\ chain' = [chain EXCEPT ![c] = ChainOf(p) \cup {k}]
  /\ pending' = pending \cup {c}
  /\ UNCHANGED <<bus, rx, ui, publication, work, replier, lost>>

\* The panic of a cycle ends the task that asked, and with it the reply.
Refuse(p, k) ==
  /\ p # NoCall
  /\ Running(p)
  /\ k \in ChainOf(p)
  /\ task' = [task EXCEPT ![p] = "over"]
  /\ lost' = lost \cup {p}
  /\ UNCHANGED <<bus, calls, pending, rx, ui, publication, doer, replier>>

Post(c) ==
  /\ at[c] = "posting"
  /\ at' = [at EXCEPT ![c] = "waiting"]
  /\ ui' = Append(ui, c)
  /\ UNCHANGED <<bus, kind, by, chain, pending, rx, publication, work, replier, lost>>

Resume(c) ==
  /\ at[c] = "waiting"
  /\ rx[c] # "empty"
  /\ at' = [at EXCEPT ![c] = IF rx[c] = "reply" THEN "replied" ELSE "unanswered"]
  /\ UNCHANGED <<bus, kind, by, chain, pending, rx, ui, publication, work, replier, lost>>

\* Mutant of TimeOut: a reply that came with the timer is thrown away.
TimeOutAnyway(c) ==
  /\ at[c] = "waiting"
  /\ at' = [at EXCEPT ![c] = "forgetting"]
  /\ UNCHANGED <<bus, kind, by, chain, pending, rx, ui, publication, work, replier, lost>>

\* The timer fires: what was sent by then still counts.
TimeOut(c) ==
  /\ at[c] = "waiting"
  /\ rx[c] = "empty"
  /\ at' = [at EXCEPT ![c] = "forgetting"]
  /\ UNCHANGED <<bus, kind, by, chain, pending, rx, ui, publication, work, replier, lost>>

\* Mutant of Forget: a call that timed out leaves its sender behind.
ForgetNothing(c) ==
  /\ at[c] = "forgetting"
  /\ at' = [at EXCEPT ![c] = "timedout"]
  /\ UNCHANGED <<bus, kind, by, chain, pending, rx, ui, publication, work, replier, lost>>

Forget(c) ==
  /\ at[c] = "forgetting"
  /\ at' = [at EXCEPT ![c] = "timedout"]
  /\ pending' = pending \ {c}
  /\ UNCHANGED <<bus, kind, by, chain, rx, ui, publication, work, replier, lost>>

\* The task that asked is dropped where it awaits, as its actor is gone.
Drop(c) ==
  /\ at[c] = "waiting"
  /\ by[c] = NoCall
  /\ at' = [at EXCEPT ![c] = "dropped"]
  /\ UNCHANGED <<bus, kind, by, chain, pending, rx, ui, publication, work, replier, lost>>

-----------------------------------------------------------------------------
(* The UI thread, and the tasks that reply. *)

Deaf(h) == h \in InScope /\ life[h] # "awake"

\* Takes the sender of c, if it is still there, and sends through it; nobody
\* receives once the caller has stopped waiting.
Settle(c, what) ==
  /\ pending' = pending \ {c}
  /\ rx' = IF c \in pending /\ at[c] = "waiting" THEN [rx EXCEPT ![c] = what] ELSE rx

\* AsyncBus::reply of h, to an address that may be nil.
Reply(h, address) ==
  /\ Settle(address, "reply")
  /\ replier' = IF address \in pending THEN [replier EXCEPT ![address] = h] ELSE replier

\* Mutant of Deny: a request nobody answers is let fall.
DenySilently ==
  /\ about = NoCall
  /\ ui # <<>>
  /\ answerers[kind[Head(ui)]] = Nobody
  /\ ui' = Tail(ui)
  /\ UNCHANGED <<bus, calls, pending, rx, publication, work, replier, lost>>

Deny ==
  /\ about = NoCall
  /\ ui # <<>>
  /\ LET c == Head(ui)
         a == answerers[kind[c]]
     IN  /\ a = Nobody \/ (a \in listed /\ Deaf(a))
         /\ Settle(c, "unanswered")
  /\ ui' = Tail(ui)
  /\ UNCHANGED <<bus, calls, publication, work, replier, lost>>

Publish ==
  /\ about = NoCall
  /\ ui # <<>>
  /\ LET c == Head(ui)
         a == answerers[kind[c]]
     IN  /\ a # Nobody
         /\ ~(a \in listed /\ Deaf(a))
         /\ about' = c
         /\ telling' = {h \in listed : Hears[h] = kind[c]}
  /\ ui' = Tail(ui)
  /\ UNCHANGED <<bus, calls, pending, rx, handling, work, replier, lost>>

NextTold(h) == h \in telling /\ \A g \in telling : seq[h] <= seq[g]

Deliver(h) ==
  /\ about # NoCall
  /\ handling = Nobody
  /\ NextTold(h)
  /\ telling' = telling \ {h}
  /\ handling' = IF Deaf(h) THEN Nobody ELSE h
  /\ UNCHANGED <<bus, calls, pending, rx, ui, about, work, replier, lost>>

\* What a subscriber that only hears a request is handed has no address.
Address(h) == IF h \in Answers THEN about ELSE NoCall

HandOver(h) == IF h \in Answers THEN [doer EXCEPT ![about] = h] ELSE doer

ReplyNow ==
  /\ handling # Nobody
  /\ "now" \in Style[handling]
  /\ Reply(handling, Address(handling))
  /\ doer' = HandOver(handling)
  /\ handling' = Nobody
  /\ UNCHANGED <<bus, calls, ui, about, telling, task, lost>>

\* A task of a subscriber that only hears has nowhere to reply to, and is
\* not followed.
SpawnReply(style) ==
  /\ handling # Nobody
  /\ style \in Style[handling] \ {"now"}
  /\ task' = IF handling \in Answers THEN [task EXCEPT ![about] = style] ELSE task
  /\ doer' = HandOver(handling)
  /\ handling' = Nobody
  /\ UNCHANGED <<bus, calls, pending, rx, ui, about, telling, replier, lost>>

Published ==
  /\ about # NoCall
  /\ handling = Nobody
  /\ telling = {}
  /\ about' = NoCall
  /\ lost' = IF doer[about] = Nobody THEN lost \cup {about} ELSE lost
  /\ UNCHANGED <<bus, calls, pending, rx, ui, telling, handling, work, replier>>

TaskReplies(c) ==
  /\ task[c] \in {"task", "bg"}
  /\ AskedBy(c) = {}
  /\ Reply(doer[c], c)
  /\ task' = [task EXCEPT ![c] = "over"]
  /\ UNCHANGED <<bus, calls, ui, publication, doer, lost>>

\* Cancel::guard drops a spawn_bg of a disposed actor at its next await, and
\* the call it awaits with it; a spawn_reply is not guarded.
Cancelled(c) ==
  /\ task[c] = "bg"
  /\ life[doer[c]] = "gone"
  /\ \A d \in AskedBy(c) : at[d] = "waiting"
  /\ task' = [task EXCEPT ![c] = "over"]
  /\ lost' = lost \cup {c}
  /\ at' = [d \in Call |-> IF d \in AskedBy(c) THEN "dropped" ELSE at[d]]
  /\ UNCHANGED <<bus, kind, by, chain, pending, rx, ui, publication, doer, replier>>

UiStep ==
  \/ Deny \/ Publish \/ Published \/ ReplyNow
  \/ \E h \in Hearer : Deliver(h)
  \/ \E style \in Styles : SpawnReply(style)

CallerStep(c) == Post(c) \/ Resume(c) \/ Forget(c)

TaskStep(c) == TaskReplies(c) \/ Cancelled(c)

Next ==
  \/ UiStep
  \/ \E h \in Hearer : Subscribe(h) \/ Remove(h) \/ Sleep(h) \/ Wake(h)
  \/ \E c \in Call : CallerStep(c) \/ TaskStep(c) \/ TimeOut(c) \/ Drop(c)
  \/ \E p \in Call \cup {NoCall}, k \in Kind :
       Refuse(p, k) \/ \E c \in Call : Ask(p, k, c)

Spec == Init /\ [][Next]_vars

\* The UI thread, callers and reply tasks go on; no timer has to fire.
Fairness ==
  /\ WF_vars(UiStep)
  /\ \A c \in Call : WF_vars(CallerStep(c)) /\ WF_vars(TaskStep(c))

FairSpec == Spec /\ Fairness

-----------------------------------------------------------------------------
(* Properties. *)

\* A caller that waits can still be answered, or has been: the sender of an
\* empty channel is in PENDING_REQUESTS.  Conversely a sender is kept there
\* for a caller that has not stopped waiting - or that was dropped in its
\* await, which nothing tidies up after.
PendingIsAwaited ==
  /\ \A c \in pending : at[c] \in Open \cup {"dropped"}
  /\ \A c \in Call : at[c] \in {"posting", "waiting"} /\ rx[c] = "empty" => c \in pending

\* A reply comes from the one subscriber that answers: a listener beside it
\* that tries to reply changes nothing (Event::overheard).
OnlyTheAnswererAnswers ==
  \A c \in Call :
    /\ replier[c] # Nobody => replier[c] = doer[c] /\ Hears[doer[c]] = kind[c]
    /\ at[c] = "replied" => replier[c] # Nobody

\* Every caller has one place its reply can come from and to: its entry in
\* PENDING_REQUESTS, and the one subscriber that answers (rpc.rs:125-229).
RepliesHaveOneWay == PendingIsAwaited /\ OnlyTheAnswererAnswers

\* The calls whose reply tasks wait for c, and c: up to the first task that
\* is in no chain.
Line[c \in 0..MaxCalls] ==
  IF c = NoCall THEN {}
  ELSE {c} \cup IF by[c] # NoCall /\ task[by[c]] = "task" THEN Line[by[c]] ELSE {}

\* No request type waits for itself: of the calls whose reply tasks wait for
\* one another, no two ask the same (the chain of rpc.rs).
NobodyWaitsForItself ==
  \A c \in Call :
    at[c] \in Open => \A d \in Line[c] : kind[d] = kind[c] => d = c

\* Calls that wait, through any reply tasks, for c.
WaitingOn(c) ==
  LET up[d \in 0..MaxCalls] == IF d = NoCall THEN {} ELSE {d} \cup up[by[d]]
  IN  up[c]

Hopeless(c) == \E d \in lost : c \in WaitingOn(d)

\* A caller never depends on its timeout, unless the request it waits for, or
\* one its answerer waits for in turn, was lost on the way: told to nobody
\* who answers, or left by a task that ended without replying.
AnsweredWithoutTimeout ==
  \A c \in Call : at[c] = "waiting" ~> at[c] # "waiting" \/ Hopeless(c)

\* How a call stands for its caller: what was sent to it counts for as long
\* as it waits.
Standing(c) ==
  CASE at[c] = "unmade" -> "unmade"
    [] at[c] \in {"forgetting", "timedout"} -> "given up"
    [] OTHER -> CASE rx[c] = "reply" -> "kept"
                  [] rx[c] = "unanswered" -> "denied"
                  [] rx[c] = "empty" /\ at[c] = "dropped" -> "given up"
                  [] OTHER -> "open"

standings == [c \in Call |-> Standing(c)]

Promise == INSTANCE Promises WITH promise <- standings

\* However replies, denials, timers and dropped callers race, each call is
\* settled once: what AsyncBus::request takes from PENDING_REQUESTS and from
\* its channel agrees with what whoever replied was told.
ImplementsPromises == Promise!Spec
=============================================================================

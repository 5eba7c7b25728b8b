-------------------------------- MODULE Tasks --------------------------------
(***************************************************************************)
(* Background work of guinea: tasks, sources and async contexts            *)
(* (guinea-core/src/actor/ctx.rs), the token that ends them with their     *)
(* actor (cancel.rs, Addr::dispose), and the road back to the UI thread: a *)
(* queue of jobs and the wake-ups that ask the event loop to drain it      *)
(* (adapters/guinea-iced/src/dispatcher.rs).                               *)
(*                                                                         *)
(* Every task is a thread here: the executor runs tasks on several, and    *)
(* between any two steps of one the UI thread and the others run.  What a  *)
(* future of the program does while it is polled is up to it - send, ask   *)
(* the actor and wait for the answer, wait for the world, be done.         *)
(***************************************************************************)
EXTENDS Naturals, Sequences

CONSTANTS
  Actor,
  Task,
  Owner,     \* the actor a task works for
  Kind,      \* spawn_bg, spawn_bg_detached or spawn_source
  Listens,   \* tasks handed the token: not dropped, left to finish
  MaxSends,  \* messages one task sends
  MaxTurns,  \* handlers of its own the UI thread begins
  Nobody     \* whose handler runs when none does

ASSUME TasksAssumption ==
  /\ Owner \in [Task -> Actor]
  /\ Kind \in [Task -> {"bg", "detached", "source"}]
  /\ Listens \subseteq {t \in Task : Kind[t] # "source"}
  /\ MaxSends \in Nat
  /\ MaxTurns \in Nat
  /\ Nobody \notin Actor \cup Task

VARIABLES
  registry,   \* REGISTRY
  cancelled,  \* actors whose token is set: Cancel::cancelled
  waiters,    \* tasks enlisted with their token's Notify
  notified,   \* tasks it has told
  pc,         \* where each task is
  then,       \* where it goes on when what it posts is on its way
  woken,      \* tasks whose future was woken since it was last polled
  asking,     \* tasks whose future awaits the answer of an apply
  sent,       \* messages each task has sent
  jobs,       \* the channel to the UI thread
  armed,      \* PENDING_WAKE
  wakeups,    \* wake-ups in the stream the loop subscribes to
  ui,         \* what the UI thread is at
  batch,      \* the jobs `drain` has collected and not run
  running,    \* the actor whose handler runs
  answering,  \* the task whose apply it runs
  going,      \* the actor `dispose` is at
  turns,      \* handlers begun by the UI thread itself
  handed      \* the messages of each task its actor was handed

token == <<cancelled, waiters, notified>>
task == <<pc, then, woken, asking, sent>>
road == <<jobs, armed, wakeups>>
thread == <<ui, batch, running, answering, going, turns>>
vars == <<registry, token, task, road, thread, handed>>

\* A job carries a message, the closure of an apply, or what a task returns.
Job == [task : Task, number : 1..(MaxSends + 1), apply : BOOLEAN]

Places == {"unborn", "enlist", "check", "poll", "future", "parked", "out", "dropped",
           "post", "arm", "ring", "ended"}

TypeOK ==
  /\ registry \subseteq Actor
  /\ cancelled \subseteq Actor
  /\ waiters \cup notified \cup woken \cup asking \subseteq Task
  /\ waiters \cap notified = {}
  /\ pc \in [Task -> Places]
  /\ then \in [Task -> {"future", "parked", "ended"}]
  /\ sent \in [Task -> 0..(MaxSends + 1)]
  /\ jobs \in Seq(Job)
  /\ armed \in BOOLEAN
  /\ wakeups \in Nat
  /\ ui \in {"idle", "disarm", "read", "run", "notify", "unregister"}
  /\ batch \in Seq(Job)
  /\ running \in Actor \cup {Nobody}
  /\ answering \in Task \cup {Nobody}
  /\ going \in Actor \cup {Nobody}
  /\ turns \in 0..MaxTurns
  /\ handed \in [Task -> Seq(1..(MaxSends + 1))]

Init ==
  /\ registry = Actor
  /\ cancelled = {} /\ waiters = {} /\ notified = {}
  /\ pc = [t \in Task |-> "unborn"]
  /\ then = [t \in Task |-> "future"]
  /\ woken = {} /\ asking = {}
  /\ sent = [t \in Task |-> 0]
  /\ jobs = <<>> /\ armed = FALSE /\ wakeups = 0
  /\ ui = "idle" /\ batch = <<>> /\ running = Nobody
  /\ answering = Nobody /\ going = Nobody /\ turns = 0
  /\ handed = [t \in Task |-> <<>>]

Goto(t, place) == pc' = [pc EXCEPT ![t] = place]

-----------------------------------------------------------------------------
(* Cancel::guard around the future of a task: cancellation is looked at    *)
(* first, every time the task is polled.                                   *)

\* `notified().enable()`: enlisted before the flag is read.
Enlist(t) ==
  /\ pc[t] = "enlist"
  /\ Goto(t, "check")
  /\ waiters' = waiters \cup {t}
  /\ UNCHANGED <<registry, cancelled, notified, then, woken, asking, sent, road, thread, handed>>

\* Mutant of Check: once enlisted, the flag is not read.
CheckNothing(t) ==
  /\ pc[t] = "check"
  /\ Goto(t, "future")
  /\ UNCHANGED <<registry, token, then, woken, asking, sent, road, thread, handed>>

Check(t) ==
  /\ pc[t] = "check"
  /\ Goto(t, IF Owner[t] \in cancelled THEN "dropped" ELSE "future")
  /\ UNCHANGED <<registry, token, then, woken, asking, sent, road, thread, handed>>

\* A task that listens is not guarded: its future is polled at once.
Poll(t) ==
  /\ pc[t] = "poll"
  /\ Goto(t, IF t \in notified THEN "dropped" ELSE "future")
  /\ UNCHANGED <<registry, token, then, woken, asking, sent, road, thread, handed>>

\* A parked task is polled again when its future was woken or its token told
\* it.
Wake(t) ==
  /\ pc[t] = "parked"
  /\ t \in woken \cup notified
  /\ Goto(t, "poll")
  /\ woken' = woken \ {t}
  /\ UNCHANGED <<registry, token, then, asking, sent, road, thread, handed>>

\* What the future waited for happened.
WorldWakes(t) ==
  /\ pc[t] = "parked"
  /\ t \notin woken
  /\ t \notin asking
  /\ woken' = woken \cup {t}
  /\ UNCHANGED <<registry, token, pc, then, asking, sent, road, thread, handed>>

-----------------------------------------------------------------------------
(* One poll of the program's future.                                       *)

Pend(t) ==
  /\ pc[t] = "future"
  /\ Goto(t, "parked")
  /\ UNCHANGED <<registry, token, then, woken, asking, sent, road, thread, handed>>

Finish(t) ==
  /\ pc[t] = "future"
  /\ t \notin asking
  /\ Goto(t, "out")
  /\ UNCHANGED <<registry, token, then, woken, asking, sent, road, thread, handed>>

PutJob(t, apply) ==
  /\ sent' = [sent EXCEPT ![t] = @ + 1]
  /\ jobs' = Append(jobs, [task |-> t, number |-> sent[t] + 1, apply |-> apply])

\* AsyncContext::send.
Send(t) ==
  /\ pc[t] = "future"
  /\ Kind[t] # "source"
  /\ t \notin asking
  /\ sent[t] < MaxSends
  /\ PutJob(t, FALSE)
  /\ Goto(t, "arm")
  /\ then' = [then EXCEPT ![t] = "future"]
  /\ UNCHANGED <<registry, token, woken, asking, armed, wakeups, thread, handed>>

\* AsyncContext::apply, up to awaiting its answer.
Apply(t) ==
  /\ pc[t] = "future"
  /\ Kind[t] # "source"
  /\ t \notin asking
  /\ sent[t] < MaxSends
  /\ PutJob(t, TRUE)
  /\ asking' = asking \cup {t}
  /\ Goto(t, "arm")
  /\ then' = [then EXCEPT ![t] = "parked"]
  /\ UNCHANGED <<registry, token, woken, armed, wakeups, thread, handed>>

\* One round of `pour`: the item is handed on, and the task gives way.
Item(t) ==
  /\ pc[t] = "future"
  /\ Kind[t] = "source"
  /\ sent[t] < MaxSends
  /\ PutJob(t, FALSE)
  /\ woken' = woken \cup {t}
  /\ Goto(t, "arm")
  /\ then' = [then EXCEPT ![t] = "parked"]
  /\ UNCHANGED <<registry, token, asking, armed, wakeups, thread, handed>>

-----------------------------------------------------------------------------
(* The end of a task.                                                      *)

\* The guard drops the future where it last awaited.
Drop(t) ==
  /\ pc[t] = "dropped"
  /\ Goto(t, "ended")
  /\ waiters' = waiters \ {t}
  /\ notified' = notified \ {t}
  /\ woken' = woken \ {t}
  /\ asking' = asking \ {t}
  /\ UNCHANGED <<registry, cancelled, then, sent, road, thread, handed>>

\* What `bg` returns is for nobody when the actor is gone by now; the other
\* kinds return nothing.
Out(t) ==
  /\ pc[t] = "out"
  /\ Goto(t, IF Kind[t] = "bg" /\ Owner[t] \notin cancelled THEN "post" ELSE "ended")
  /\ waiters' = waiters \ {t}
  /\ notified' = notified \ {t}
  /\ woken' = woken \ {t}
  /\ UNCHANGED <<registry, cancelled, then, asking, sent, road, thread, handed>>

Return(t) ==
  /\ pc[t] = "post"
  /\ PutJob(t, FALSE)
  /\ Goto(t, "arm")
  /\ then' = [then EXCEPT ![t] = "ended"]
  /\ UNCHANGED <<registry, token, woken, asking, armed, wakeups, thread, handed>>

-----------------------------------------------------------------------------
(* ChannelDispatcher::dispatch, once the job is in the channel.            *)

\* `PENDING_WAKE.swap(true)`: whoever finds it set leaves it at that.
Arm(t) ==
  /\ pc[t] = "arm"
  /\ armed' = TRUE
  /\ Goto(t, IF armed THEN then[t] ELSE "ring")
  /\ UNCHANGED <<registry, token, then, woken, asking, sent, jobs, wakeups, thread, handed>>

Ring(t) ==
  /\ pc[t] = "ring"
  /\ wakeups' = wakeups + 1
  /\ Goto(t, then[t])
  /\ UNCHANGED <<registry, token, then, woken, asking, sent, jobs, armed, thread, handed>>

-----------------------------------------------------------------------------
(* The UI thread.                                                          *)

Settled ==
  /\ ui = "idle"
  /\ running = Nobody
  /\ wakeups > 0
  /\ wakeups' = wakeups - 1
  /\ ui' = "disarm"
  /\ UNCHANGED <<registry, token, task, jobs, armed, batch, running, answering, going, turns, handed>>

\* Mutant of Disarm: the flag stays set.
DisarmNever ==
  /\ ui = "disarm"
  /\ ui' = "read"
  /\ UNCHANGED <<registry, token, task, road, batch, running, answering, going, turns, handed>>

\* Disarmed before the queue is read.
Disarm ==
  /\ ui = "disarm"
  /\ armed' = FALSE
  /\ ui' = "read"
  /\ UNCHANGED <<registry, token, task, jobs, wakeups, batch, running, answering, going, turns, handed>>

Read ==
  /\ ui = "read"
  /\ batch' = jobs
  /\ jobs' = <<>>
  /\ ui' = "run"
  /\ UNCHANGED <<registry, token, task, armed, wakeups, running, answering, going, turns, handed>>

Answered(t) ==
  /\ asking' = asking \ {t}
  /\ woken' = IF t \in asking THEN woken \cup {t} ELSE woken

\* Mutant of RunJob: a job keeps its address and looks nobody up.
RunJobUnseen ==
  /\ ui = "run"
  /\ running = Nobody
  /\ batch # <<>>
  /\ running' = Owner[Head(batch).task]
  /\ answering' = IF Head(batch).apply THEN Head(batch).task ELSE Nobody
  /\ handed' = [handed EXCEPT ![Head(batch).task] = Append(@, Head(batch).number)]
  /\ batch' = Tail(batch)
  /\ UNCHANGED <<registry, token, task, road, ui, going, turns>>

\* One job: the actor is looked up when the job runs.
RunJob ==
  /\ ui = "run"
  /\ running = Nobody
  /\ batch # <<>>
  /\ Owner[Head(batch).task] \in registry
  /\ running' = Owner[Head(batch).task]
  /\ answering' = IF Head(batch).apply THEN Head(batch).task ELSE Nobody
  /\ handed' = [handed EXCEPT ![Head(batch).task] = Append(@, Head(batch).number)]
  /\ batch' = Tail(batch)
  /\ UNCHANGED <<registry, token, task, road, ui, going, turns>>

\* A job whose actor is gone is dropped - with the sender its apply was to
\* answer through, which is an answer too.
MissJob ==
  /\ ui = "run"
  /\ running = Nobody
  /\ batch # <<>>
  /\ Owner[Head(batch).task] \notin registry
  /\ IF Head(batch).apply THEN Answered(Head(batch).task) ELSE UNCHANGED <<asking, woken>>
  /\ batch' = Tail(batch)
  /\ UNCHANGED <<registry, token, pc, then, sent, road, ui, running, answering, going, turns, handed>>

Drained ==
  /\ ui = "run"
  /\ running = Nobody
  /\ batch = <<>>
  /\ ui' = "idle"
  /\ UNCHANGED <<registry, token, task, road, batch, running, answering, going, turns, handed>>

\* The event loop hands an actor a message of its own.  Whoever holds an
\* address may still send to an actor that was disposed.
Turn(a) ==
  /\ ui = "idle"
  /\ running = Nobody
  /\ turns < MaxTurns
  /\ turns' = turns + 1
  /\ running' = a
  /\ UNCHANGED <<registry, token, task, road, ui, batch, answering, going, handed>>

Handled ==
  /\ running # Nobody
  /\ ui \in {"idle", "run"}
  /\ running' = Nobody
  /\ answering' = Nobody
  /\ IF answering # Nobody THEN Answered(answering) ELSE UNCHANGED <<asking, woken>>
  /\ UNCHANGED <<registry, token, pc, then, sent, road, ui, batch, going, turns, handed>>

\* spawn_bg and its kin, spawn_source: from a handler of the actor.
Spawn(t) ==
  /\ running = Owner[t]
  /\ ui \in {"idle", "run"}
  /\ pc[t] = "unborn"
  /\ Goto(t, IF t \in Listens THEN "future" ELSE "enlist")
  /\ UNCHANGED <<registry, token, then, woken, asking, sent, road, thread, handed>>

\* Addr::dispose, from the handler of any actor or from the loop itself.
Dispose(a) ==
  /\ ui \in {"idle", "run"}
  /\ ui = "run" => running # Nobody
  /\ a \in registry
  /\ going' = a
  /\ cancelled' = cancelled \cup {a}
  /\ ui' = "notify"
  /\ UNCHANGED <<registry, waiters, notified, task, road, batch, running, answering, turns, handed>>

Enlisted(a) == {t \in waiters : Owner[t] = a}

Notify ==
  /\ ui = "notify"
  /\ notified' = notified \cup Enlisted(going)
  /\ waiters' = waiters \ Enlisted(going)
  /\ ui' = "unregister"
  /\ UNCHANGED <<registry, cancelled, task, road, batch, running, answering, going, turns, handed>>

\* Back to what disposed of it: the rest of a batch, or the loop.
Unregister ==
  /\ ui = "unregister"
  /\ registry' = registry \ {going}
  /\ going' = Nobody
  /\ ui' = IF running # Nobody \/ batch # <<>> THEN "run" ELSE "idle"
  /\ UNCHANGED <<token, task, road, batch, running, answering, turns, handed>>

-----------------------------------------------------------------------------
UiStep == Disarm \/ Read \/ RunJob \/ MissJob \/ Drained \/ Handled \/ Notify \/ Unregister

\* A step of a task that is not up to the program or the world.
TaskStep(t) ==
  \/ Enlist(t) \/ Check(t) \/ Poll(t) \/ Wake(t) \/ Drop(t) \/ Out(t) \/ Return(t)
  \/ Arm(t) \/ Ring(t)

FutureStep(t) == Pend(t) \/ Finish(t) \/ Send(t) \/ Apply(t) \/ Item(t)

Next ==
  \/ UiStep \/ Settled
  \/ \E a \in Actor : Turn(a) \/ Dispose(a)
  \/ \E t \in Task : TaskStep(t) \/ FutureStep(t) \/ WorldWakes(t) \/ Spawn(t)

Spec == Init /\ [][Next]_vars

\* The loop goes on, a handler and one poll of a future return, the executor
\* gets round to every task.  What a future waits for need never happen.
Fairness ==
  /\ WF_vars(UiStep)
  /\ WF_vars(Settled)
  /\ \A t \in Task : WF_vars(TaskStep(t)) /\ WF_vars(FutureStep(t))

FairSpec == Spec /\ Fairness

-----------------------------------------------------------------------------
(* Properties. *)

\* Work that waits for the UI thread has asked for a turn: there is a wake-up
\* under way, someone about to send one, or the loop is about to look.
\* PENDING_WAKE keeps a burst down to one wake-up and loses none.
WorkRings ==
  jobs # <<>> =>
    \/ wakeups > 0
    \/ ui \in {"disarm", "read"}
    \/ \E t \in Task : pc[t] \in {"arm", "ring"}

\* Once its actor is disposed a guarded task ends, wherever it was and
\* whatever it waits for; one that is spawned later ends as well.
CancelledWorkEnds ==
  \A t \in Task \ Listens :
    Owner[t] \in cancelled /\ pc[t] # "unborn" ~> pc[t] = "ended" \/ Owner[t] \notin cancelled

\* A future that asks its actor something hears back, if only that there is
\* no actor left to ask.
ApplyAnswers == \A t \in Task : t \in asking ~> t \notin asking

\* No task outlives its actor in a wait that nobody ends (cancel.rs:40-59,
\* ctx.rs:475-501).
EveryWaitEnds == CancelledWorkEnds /\ ApplyAnswers

=============================================================================

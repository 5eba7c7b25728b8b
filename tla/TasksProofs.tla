----------------------------- MODULE TasksProofs -----------------------------
(***************************************************************************)
(* What holds of background work for any actors, any number of tasks and   *)
(* of threads to run them, and any number of messages.                     *)
(***************************************************************************)
EXTENDS Tasks, SequenceTheorems, TLAPS

\* What a task of `bg` returns is the one message it sends beyond its bound.
LastSend ==
  \A t \in Task : sent[t] > MaxSends => pc[t] \in {"arm", "ring", "ended"} /\ then[t] = "ended"

\* The thread that disposes of an actor finds it in the registry, and one that
\* looks for jobs has none left over and no handler running.
UiShape ==
  /\ ui \in {"idle", "disarm", "read"} => batch = <<>>
  /\ ui \in {"notify", "unregister"} => going \in registry
  /\ ui \in {"disarm", "read"} => running = Nobody

\* A task that has not enlisted with its token is not told by it.
Unlisted == \A t \in Task : pc[t] \in {"unborn", "enlist"} => t \notin waiters \cup notified

TaskInv == TypeOK /\ LastSend /\ UiShape /\ Unlisted

\* A job is put behind the others.
LEMMA PutJobType ==
  ASSUME TaskInv, NEW t \in Task, NEW apply \in BOOLEAN, sent[t] <= MaxSends, PutJob(t, apply)
  PROVE  /\ jobs' \in Seq(Job) /\ sent' \in [Task -> 0..(MaxSends + 1)]
         /\ sent'[t] = sent[t] + 1 /\ \A s \in Task : s # t => sent'[s] = sent[s]
         /\ Len(jobs') = Len(jobs) + 1 /\ Len(jobs) \in Nat
         /\ jobs' # <<>>
         /\ DOMAIN jobs = 1..Len(jobs) /\ DOMAIN jobs' = 1..(Len(jobs) + 1)
         /\ \A i \in 1..Len(jobs) : jobs'[i] = jobs[i]
         /\ jobs'[Len(jobs) + 1].task = t
         /\ jobs'[Len(jobs) + 1].number = sent[t] + 1
<1> DEFINE job == [task |-> t, number |-> sent[t] + 1, apply |-> apply]
<1>1. sent \in [Task -> 0..(MaxSends + 1)] /\ MaxSends \in Nat /\ jobs \in Seq(Job)
  BY TasksAssumption DEF TaskInv, TypeOK
<1>2. sent[t] + 1 \in 1..(MaxSends + 1)
  BY <1>1
<1>3. job \in Job /\ job.task = t /\ job.number = sent[t] + 1
  BY <1>2 DEF Job
<1>4. jobs' = Append(jobs, job) /\ sent' = [sent EXCEPT ![t] = @ + 1]
  BY DEF PutJob
<1> HIDE DEF job
<1>5. /\ jobs' \in Seq(Job) /\ Len(jobs') = Len(jobs) + 1
      /\ \A i \in 1..Len(jobs) : jobs'[i] = jobs[i]
      /\ jobs'[Len(jobs) + 1] = job
  BY <1>1, <1>3, <1>4, AppendProperties
<1>6. sent' \in [Task -> 0..(MaxSends + 1)]
  BY <1>1, <1>2, <1>4
<1>7. Len(jobs) \in Nat /\ DOMAIN jobs = 1..Len(jobs) /\ DOMAIN jobs' = 1..(Len(jobs) + 1)
  BY <1>1, <1>5, LenProperties
<1>8. jobs' # <<>>
  BY <1>5, <1>7, EmptySeq
<1>9. sent'[t] = sent[t] + 1 /\ \A s \in Task : s # t => sent'[s] = sent[s]
  BY <1>1, <1>4
<1>. QED
  BY <1>3, <1>5, <1>6, <1>7, <1>8, <1>9

\* A step of a task that puts no job anywhere.
LEMMA TaskMoves ==
  ASSUME TaskInv, NEW t \in Task, NEW place \in Places, Goto(t, place),
         waiters' \subseteq waiters \cup {t}, notified' \subseteq notified, waiters' \cap notified' = {},
         place \in {"unborn", "enlist"} => t \notin waiters' \cup notified',
         woken' \subseteq woken \cup {t}, asking' \subseteq asking,
         sent[t] <= MaxSends \/ place \in {"arm", "ring", "ended"},
         armed' \in BOOLEAN, wakeups' \in {wakeups, wakeups + 1},
         UNCHANGED <<registry, cancelled, then, sent, jobs, thread, handed>>
  PROVE  TaskInv'
<1>1. pc' \in [Task -> Places] /\ pc'[t] = place /\ \A s \in Task : s # t => pc'[s] = pc[s]
  BY DEF Goto, TaskInv, TypeOK
<1>2. TypeOK'
  BY <1>1 DEF TaskInv, TypeOK, thread
<1>3. LastSend'
  <2>1. MaxSends \in Nat /\ sent[t] \in Nat
    BY TasksAssumption DEF TaskInv, TypeOK
  <2>2. sent[t] > MaxSends => place \in {"arm", "ring", "ended"}
    BY <2>1
  <2>. QED
    BY <1>1, <2>2 DEF TaskInv, LastSend
<1>4. UiShape'
  BY DEF TaskInv, UiShape, thread
<1>5. Unlisted'
  BY <1>1 DEF TaskInv, Unlisted
<1>. QED
  BY <1>2, <1>3, <1>4, <1>5 DEF TaskInv

LEMMA TaskPuts ==
  ASSUME TaskInv, NEW t \in Task, NEW apply \in BOOLEAN, sent[t] <= MaxSends, PutJob(t, apply),
         Goto(t, "arm"), NEW place \in {"future", "parked", "ended"}, then' = [then EXCEPT ![t] = place],
         sent[t] < MaxSends \/ place = "ended",
         woken' \subseteq woken \cup {t}, asking' \subseteq asking \cup {t},
         UNCHANGED <<registry, token, armed, wakeups, thread, handed>>
  PROVE  TaskInv'
<1>1. /\ pc' \in [Task -> Places] /\ pc'[t] = "arm" /\ \A s \in Task : s # t => pc'[s] = pc[s]
      /\ then' \in [Task -> {"future", "parked", "ended"}] /\ then'[t] = place
      /\ \A s \in Task : s # t => then'[s] = then[s]
  BY DEF Goto, TaskInv, TypeOK, Places
<1>2. /\ jobs' \in Seq(Job) /\ sent' \in [Task -> 0..(MaxSends + 1)]
      /\ sent'[t] = sent[t] + 1 /\ \A s \in Task : s # t => sent'[s] = sent[s]
  BY PutJobType
<1>3. TypeOK'
  BY <1>1, <1>2 DEF TaskInv, TypeOK, thread, token
<1>4. LastSend'
  <2>1. MaxSends \in Nat /\ sent[t] \in Nat
    BY TasksAssumption DEF TaskInv, TypeOK
  <2>2. sent'[t] > MaxSends => place = "ended"
    BY <1>2, <2>1
  <2>. QED
    BY <1>1, <1>2, <2>2 DEF TaskInv, LastSend
<1>5. UiShape'
  BY DEF TaskInv, UiShape, thread
<1>6. Unlisted'
  BY <1>1 DEF TaskInv, Unlisted, token
<1>. QED
  BY <1>3, <1>4, <1>5, <1>6 DEF TaskInv

LEMMA TaskStepKeepsTypes ==
  ASSUME TaskInv, NEW t \in Task, TaskStep(t) \/ FutureStep(t) \/ WorldWakes(t) \/ Spawn(t)
  PROVE  TaskInv'
<1>0. /\ MaxSends \in Nat /\ sent[t] \in Nat /\ wakeups \in Nat
      /\ armed \in BOOLEAN /\ waiters \cap notified = {} /\ then[t] \in {"future", "parked", "ended"}
      /\ pc[t] \notin {"arm", "ring", "ended"} => sent[t] <= MaxSends
      /\ sent[t] > MaxSends => then[t] = "ended"
  <2>1. /\ MaxSends \in Nat /\ sent[t] \in Nat /\ wakeups \in Nat
        /\ armed \in BOOLEAN /\ waiters \cap notified = {} /\ then[t] \in {"future", "parked", "ended"}
    BY TasksAssumption DEF TaskInv, TypeOK
  <2>2. sent[t] > MaxSends => pc[t] \in {"arm", "ring", "ended"} /\ then[t] = "ended"
    BY DEF TaskInv, LastSend
  <2>. QED
    BY <2>1, <2>2
<1>1. CASE Enlist(t)
  <2>1. t \notin notified
    BY <1>1 DEF Enlist, TaskInv, Unlisted
  <2>. QED
    BY <1>0, <1>1, <2>1, TaskMoves DEF Enlist, Places, token, task, road, thread
<1>2. CASE Check(t)
  BY <1>0, <1>2, TaskMoves DEF Check, Places, token, road
<1>3. CASE Poll(t)
  BY <1>0, <1>3, TaskMoves DEF Poll, Places, token, road
<1>4. CASE Wake(t)
  BY <1>0, <1>4, TaskMoves DEF Wake, Places, token, road
<1>5. CASE Drop(t)
  BY <1>0, <1>5, TaskMoves DEF Drop, Places, token, road
<1>6. CASE Out(t)
  BY <1>0, <1>6, TaskMoves DEF Out, Places, token, road
<1>7. CASE Return(t)
  BY <1>0, <1>7, TaskPuts DEF Return
<1>8. CASE Arm(t)
  BY <1>0, <1>8, TaskMoves DEF Arm, Places, token, road
<1>9. CASE Ring(t)
  BY <1>0, <1>9, TaskMoves DEF Ring, Places, token, road
<1>10. CASE Pend(t)
  BY <1>0, <1>10, TaskMoves DEF Pend, Places, token, road
<1>11. CASE Finish(t)
  BY <1>0, <1>11, TaskMoves DEF Finish, Places, token, road
<1>12. CASE Send(t)
  BY <1>0, <1>12, TaskPuts DEF Send
<1>13. CASE Apply(t)
  BY <1>0, <1>13, TaskPuts DEF Apply
<1>14. CASE Item(t)
  BY <1>0, <1>14, TaskPuts DEF Item
<1>15. CASE WorldWakes(t)
  BY <1>0, <1>15 DEF WorldWakes, TaskInv, TypeOK, LastSend, UiShape, Unlisted, token, road, thread
<1>16. CASE Spawn(t)
  BY <1>0, <1>16, TaskMoves DEF Spawn, TaskInv, Unlisted, Places, token, road
<1>. QED
  BY <1>1, <1>2, <1>3, <1>4, <1>5, <1>6, <1>7, <1>8, <1>9, <1>10, <1>11, <1>12, <1>13, <1>14,
     <1>15, <1>16 DEF TaskStep, FutureStep

\* A step of the UI thread tells tasks and sends nothing.
LEMMA UiStepKeepsTypes ==
  ASSUME TaskInv, UNCHANGED <<pc, then, sent, armed, turns>> \/ UNCHANGED <<pc, then, sent, wakeups, turns>>
                  \/ (UNCHANGED <<pc, then, sent, armed, wakeups>> /\ turns' \in 0..MaxTurns),
         registry' \subseteq registry, cancelled' \subseteq Actor,
         waiters' \subseteq waiters, waiters' \cup notified' \subseteq waiters \cup notified, waiters' \cap notified' = {},
         woken' \subseteq Task, asking' \subseteq asking, jobs' \in {jobs, <<>>}, armed' \in BOOLEAN, wakeups' \in Nat,
         ui' \in {"idle", "disarm", "read", "run", "notify", "unregister"},
         batch' \in Seq(Job), running' \in Actor \cup {Nobody}, answering' \in Task \cup {Nobody},
         going' \in Actor \cup {Nobody}, handed' \in [Task -> Seq(1..(MaxSends + 1))],
         UiShape'
  PROVE  TaskInv'
<1>1. <<>> \in Seq(Job)
  BY EmptySeq
<1>2. TypeOK'
  BY <1>1 DEF TaskInv, TypeOK
<1>3. LastSend'
  BY DEF TaskInv, LastSend
<1>4. Unlisted'
  BY DEF TaskInv, Unlisted
<1>. QED
  BY <1>2, <1>3, <1>4 DEF TaskInv

\* The first job of a batch.
LEMMA FirstJob ==
  ASSUME TaskInv, batch # <<>>
  PROVE  /\ Head(batch).task \in Task /\ Head(batch).number \in 1..(MaxSends + 1)
         /\ Owner[Head(batch).task] \in Actor
         /\ Head(batch) = batch[1] /\ Head(batch).apply \in BOOLEAN
         /\ Len(batch) \in Nat \ {0} /\ DOMAIN batch = 1..Len(batch)
         /\ Tail(batch) \in Seq(Job) /\ DOMAIN Tail(batch) = 1..(Len(batch) - 1)
         /\ \A i \in 1..(Len(batch) - 1) : Tail(batch)[i] = batch[i + 1]
<1>1. batch \in Seq(Job)
  BY DEF TaskInv, TypeOK
<1>2. Head(batch) \in Job /\ Tail(batch) \in Seq(Job)
  BY <1>1, HeadTailProperties
<1>3. /\ Len(batch) \in Nat \ {0} /\ DOMAIN batch = 1..Len(batch)
      /\ Head(batch) = batch[1]
  BY <1>1, EmptySeq, LenProperties, HeadTailProperties
<1>4. /\ Len(Tail(batch)) = Len(batch) - 1
      /\ \A i \in 1..(Len(batch) - 1) : Tail(batch)[i] = batch[i + 1]
  BY <1>1, HeadTailProperties
<1>5. DOMAIN Tail(batch) = 1..(Len(batch) - 1)
  BY <1>2, <1>4, LenProperties
<1>. QED
  BY <1>2, <1>3, <1>4, <1>5, TasksAssumption DEF Job

LEMMA UiKeepsTypes ==
  ASSUME TaskInv, UiStep \/ Settled \/ \E a \in Actor : Turn(a) \/ Dispose(a)
  PROVE  TaskInv'
<1> USE DEF token, task, road, thread
<1>0. TypeOK /\ UiShape /\ MaxTurns \in Nat
  BY TasksAssumption DEF TaskInv
<1>1. CASE Disarm
  BY <1>0, <1>1, UiStepKeepsTypes DEF Disarm, TypeOK, UiShape
<1>2. CASE Read
  BY <1>0, <1>2, UiStepKeepsTypes DEF Read, TypeOK, UiShape
<1>3. CASE RunJob
  <2> DEFINE t == Head(batch).task
             m == Head(batch).number
  <2>1. t \in Task /\ m \in 1..(MaxSends + 1) /\ Owner[t] \in Actor /\ Tail(batch) \in Seq(Job)
    BY <1>3, FirstJob DEF RunJob
  <2>2. /\ handed' = [handed EXCEPT ![t] = Append(@, m)] /\ batch' = Tail(batch)
        /\ running' = Owner[t] /\ answering' \in {t, Nobody}
    BY <1>3 DEF RunJob
  <2> HIDE DEF t, m
  <2>3. handed' \in [Task -> Seq(1..(MaxSends + 1))]
    BY <1>0, <2>1, <2>2, AppendProperties DEF TypeOK
  <2>. QED
    BY <1>0, <1>3, <2>1, <2>2, <2>3, UiStepKeepsTypes DEF RunJob, TypeOK, UiShape
<1>4. CASE MissJob
  <2>1. Head(batch).task \in Task /\ Tail(batch) \in Seq(Job)
    BY <1>4, FirstJob DEF MissJob
  <2>2. woken' \subseteq Task /\ asking' \subseteq asking
    BY <1>0, <1>4, <2>1 DEF MissJob, Answered, TypeOK
  <2>. QED
    BY <1>0, <1>4, <2>1, <2>2, UiStepKeepsTypes DEF MissJob, TypeOK, UiShape
<1>5. CASE Drained
  BY <1>0, <1>5, UiStepKeepsTypes DEF Drained, TypeOK, UiShape
<1>6. CASE Handled
  <2>1. woken' \subseteq Task /\ asking' \subseteq asking
    BY <1>0, <1>6 DEF Handled, Answered, TypeOK
  <2>. QED
    BY <1>0, <1>6, <2>1, UiStepKeepsTypes DEF Handled, TypeOK, UiShape
<1>7. CASE Notify
  <2>1. /\ waiters' \subseteq waiters /\ waiters' \cup notified' \subseteq waiters \cup notified
        /\ waiters' \cap notified' = {}
    BY <1>0, <1>7 DEF Notify, Enlisted, TypeOK
  <2>. QED
    BY <1>0, <1>7, <2>1, UiStepKeepsTypes DEF Notify, TypeOK, UiShape
<1>8. CASE Unregister
  BY <1>0, <1>8, UiStepKeepsTypes DEF Unregister, TypeOK, UiShape
<1>9. CASE Settled
  BY <1>0, <1>9, UiStepKeepsTypes DEF Settled, TypeOK, UiShape
<1>10. ASSUME NEW a \in Actor, Turn(a)
       PROVE  TaskInv'
  BY <1>0, <1>10, UiStepKeepsTypes DEF Turn, TypeOK, UiShape
<1>11. ASSUME NEW a \in Actor, Dispose(a)
       PROVE  TaskInv'
  BY <1>0, <1>11, UiStepKeepsTypes DEF Dispose, TypeOK, UiShape
<1>. QED
  BY <1>1, <1>2, <1>3, <1>4, <1>5, <1>6, <1>7, <1>8, <1>9, <1>10, <1>11 DEF UiStep

LEMMA TaskInductive == TaskInv /\ [Next]_vars => TaskInv'
<1> SUFFICES ASSUME TaskInv, [Next]_vars
             PROVE  TaskInv'
  OBVIOUS
<1>1. CASE UNCHANGED vars
  BY <1>1 DEF vars, token, task, road, thread, TaskInv, TypeOK, LastSend, UiShape, Unlisted
<1>2. CASE Next
  BY <1>2, UiKeepsTypes, TaskStepKeepsTypes DEF Next
<1>. QED
  BY <1>1, <1>2

LEMMA TaskInit == Init => TaskInv
<1> SUFFICES ASSUME Init
             PROVE  TaskInv
  OBVIOUS
<1>1. <<>> \in Seq(Job) /\ <<>> \in Seq(1..(MaxSends + 1))
  BY EmptySeq
<1>2. TypeOK
  <2>1. /\ pc \in [Task -> Places] /\ then \in [Task -> {"future", "parked", "ended"}]
        /\ sent \in [Task -> 0..(MaxSends + 1)] /\ handed \in [Task -> Seq(1..(MaxSends + 1))]
    BY <1>1, TasksAssumption DEF Init, Places
  <2>2. turns \in 0..MaxTurns /\ jobs \in Seq(Job) /\ batch \in Seq(Job)
    BY <1>1, TasksAssumption DEF Init
  <2>. QED
    BY <2>1, <2>2 DEF Init, TypeOK
<1>. QED
  BY <1>2, TasksAssumption DEF Init, TaskInv, LastSend, UiShape, Unlisted

\* What the threads share keeps its types, whatever tasks and handlers do to
\* it at once; a task told by its token had enlisted with it.
THEOREM TasksTypeCorrect == Spec => []TypeOK
<1>1. Spec => []TaskInv
  BY TaskInit, TaskInductive, PTL DEF Spec
<1>2. TaskInv => TypeOK
  BY DEF TaskInv
<1>. QED
  BY <1>1, <1>2, PTL

-----------------------------------------------------------------------------
(* Wake-ups. *)

\* PENDING_WAKE is set while a wake-up is under way, or will be; and a job
\* that nobody is about to read or to ring for found it set.
Ringing ==
  /\ armed => wakeups > 0 \/ ui = "disarm" \/ \E t \in Task : pc[t] = "ring"
  /\ jobs # <<>> => armed \/ ui = "read" \/ \E t \in Task : pc[t] = "arm"

\* A task that is at neither of the two places moves on to whatever place.
LEMMA NoRing ==
  ASSUME TaskInv, Ringing, NEW t \in Task, NEW place, Goto(t, place), pc[t] \notin {"arm", "ring"},
         UNCHANGED <<jobs, armed, wakeups, ui>> \/ (place = "arm" /\ UNCHANGED <<armed, wakeups, ui>>)
  PROVE  Ringing'
<1>1. pc'[t] = place /\ \A s \in Task : s # t => pc'[s] = pc[s]
  BY DEF Goto, TaskInv, TypeOK
<1>2. armed => wakeups' > 0 \/ ui' = "disarm" \/ \E s \in Task : pc'[s] = "ring"
  BY <1>1 DEF Ringing
<1>3. jobs' # <<>> => armed' \/ ui' = "read" \/ \E s \in Task : pc'[s] = "arm"
  BY <1>1 DEF Ringing
<1>. QED
  BY <1>2, <1>3 DEF Ringing

LEMMA RingingInductive == TaskInv /\ Ringing /\ [Next]_vars => Ringing'
<1> SUFFICES ASSUME TaskInv, Ringing, [Next]_vars
             PROVE  Ringing'
  OBVIOUS
<1> USE DEF token, task, road, thread
<1>0. wakeups \in Nat
  BY DEF TaskInv, TypeOK
<1>1. ASSUME NEW t \in Task, TaskStep(t), pc[t] \notin {"arm", "ring"}
      PROVE  Ringing'
  <2>1. \E place : Goto(t, place) /\ UNCHANGED <<armed, wakeups, ui>> /\ (place = "arm" \/ UNCHANGED jobs)
    BY <1>1 DEF TaskStep, Enlist, Check, Poll, Wake, Drop, Out, Return, Arm, Ring
  <2>. QED
    BY <1>1, <2>1, NoRing
<1>2. ASSUME NEW t \in Task, FutureStep(t)
      PROVE  Ringing'
  <2>1. \E place : Goto(t, place) /\ UNCHANGED <<armed, wakeups, ui>> /\ (place = "arm" \/ UNCHANGED jobs)
    BY <1>2 DEF FutureStep, Pend, Finish, Send, Apply, Item
  <2>2. pc[t] = "future"
    BY <1>2 DEF FutureStep, Pend, Finish, Send, Apply, Item
  <2>. QED
    BY <2>1, <2>2, NoRing
<1>3. ASSUME NEW t \in Task, Spawn(t)
      PROVE  Ringing'
  <2>1. pc[t] = "unborn" /\ \E place : Goto(t, place) /\ UNCHANGED <<jobs, armed, wakeups, ui>>
    BY <1>3 DEF Spawn
  <2>. QED
    BY <2>1, NoRing
<1>4. ASSUME NEW t \in Task, Arm(t)
      PROVE  Ringing'
  <2>1. pc'[t] = (IF armed THEN then[t] ELSE "ring") /\ pc[t] = "arm" /\ \A s \in Task : s # t => pc'[s] = pc[s]
    BY <1>4 DEF Arm, Goto, TaskInv, TypeOK
  <2>2. armed' = TRUE /\ UNCHANGED <<jobs, wakeups, ui>>
    BY <1>4 DEF Arm
  <2>. QED
    BY <2>1, <2>2 DEF Ringing
<1>5. ASSUME NEW t \in Task, Ring(t)
      PROVE  Ringing'
  <2>1. pc[t] = "ring" /\ \A s \in Task : s # t => pc'[s] = pc[s]
    BY <1>5 DEF Ring, Goto, TaskInv, TypeOK
  <2>2. wakeups' > 0 /\ UNCHANGED <<jobs, armed, ui>>
    BY <1>0, <1>5 DEF Ring
  <2>. QED
    BY <2>1, <2>2 DEF Ringing
<1>6. ASSUME UNCHANGED <<pc, jobs, armed, wakeups>>, ui \in {"disarm", "read"} => ui' = ui
      PROVE  Ringing'
  BY <1>6 DEF Ringing
<1>7. ASSUME NEW t \in Task, WorldWakes(t)
      PROVE  Ringing'
  BY <1>6, <1>7 DEF WorldWakes
<1>8. CASE Settled
  BY <1>0, <1>8 DEF Settled, Ringing
<1>9. CASE Disarm
  BY <1>9 DEF Disarm, Ringing
<1>10. CASE Read
  BY <1>10 DEF Read, Ringing
<1>11. CASE RunJob \/ MissJob \/ Drained
  BY <1>6, <1>11 DEF RunJob, MissJob, Drained
<1>12. CASE Handled \/ Notify \/ Unregister
  BY <1>6, <1>12 DEF Handled, Notify, Unregister
<1>13. ASSUME NEW a \in Actor, Turn(a) \/ Dispose(a)
       PROVE  Ringing'
  BY <1>6, <1>13 DEF Turn, Dispose
<1>14. CASE UNCHANGED vars
  BY <1>6, <1>14 DEF vars
<1>15. ASSUME NEW t \in Task, TaskStep(t)
       PROVE  Ringing'
  <2>1. CASE pc[t] \in {"arm", "ring"}
    BY <1>4, <1>5, <1>15, <2>1 DEF TaskStep, Enlist, Check, Poll, Wake, Drop, Out, Return
  <2>. QED
    BY <1>1, <1>15, <2>1
<1>. QED
  BY <1>2, <1>3, <1>7, <1>8, <1>9, <1>10, <1>11, <1>12, <1>13, <1>14, <1>15 DEF Next, UiStep

\* However many threads post at once, one wake-up at a time is enough: work
\* that waits for the UI thread has asked for a turn.
THEOREM WorkIsRungFor == Spec => []WorkRings
<1>1. Init => Ringing
  BY DEF Init, Ringing
<1>2. Spec => [](TaskInv /\ Ringing)
  BY <1>1, TaskInit, TaskInductive, RingingInductive, PTL DEF Spec
<1>3. Ringing => WorkRings
  BY DEF Ringing, WorkRings
<1>. QED
  BY <1>2, <1>3, PTL

-----------------------------------------------------------------------------
(* What a task sends and what its actor is handed. *)

Delivered == INSTANCE Deliveries WITH there <- registry

InOrder(q) == \A i, j \in DOMAIN q : i < j /\ q[i].task = q[j].task => q[i].number < q[j].number

Among(q, t, n) == \E i \in DOMAIN q : q[i].task = t /\ q[i].number = n

\* Nothing is in a queue that was not sent, or was handed over already.
SentNotHanded(q) ==
  \A i \in DOMAIN q :
    /\ q[i].number <= sent[q[i].task]
    /\ Owner[q[i].task] \in registry => Len(handed[q[i].task]) < q[i].number

\* The batch and the channel behind it hold, in order, what was sent to an
\* actor that is there and it was not handed.
Queued ==
  /\ InOrder(batch) /\ InOrder(jobs)
  /\ SentNotHanded(batch) /\ SentNotHanded(jobs)
  /\ \A i \in DOMAIN batch, j \in DOMAIN jobs : batch[i].task = jobs[j].task => batch[i].number < jobs[j].number
  /\ \A t \in Task : Len(handed[t]) <= sent[t]
  /\ \A t \in Task : Owner[t] \in registry =>
       \A n \in Nat : Len(handed[t]) < n /\ n <= sent[t] => Among(batch, t, n) \/ Among(jobs, t, n)

\* How many a task has sent and how many arrived.
LEMMA Counts ==
  ASSUME TaskInv
  PROVE  /\ \A t \in Task : sent[t] \in Nat /\ Len(handed[t]) \in Nat
         /\ \A i \in DOMAIN batch : i \in Nat /\ batch[i].task \in Task /\ batch[i].number \in Nat
         /\ \A i \in DOMAIN jobs : i \in Nat /\ jobs[i].task \in Task /\ jobs[i].number \in Nat
<1>1. \A t \in Task : sent[t] \in Nat /\ Len(handed[t]) \in Nat
  BY LenProperties, TasksAssumption DEF TaskInv, TypeOK
<1>2. \A j \in Job : j.task \in Task /\ j.number \in Nat
  BY TasksAssumption DEF Job
<1>3. ASSUME NEW q \in Seq(Job), NEW i \in DOMAIN q
      PROVE  i \in Nat /\ q[i] \in Job
  BY LenProperties, ElementOfSeq
<1>. QED
  BY <1>1, <1>2, <1>3 DEF TaskInv, TypeOK

LEMMA PutJobQueues ==
  ASSUME TaskInv, Queued, NEW t \in Task, NEW apply \in BOOLEAN, sent[t] <= MaxSends, PutJob(t, apply),
         UNCHANGED <<registry, batch, handed>>
  PROVE  Queued'
<1> DEFINE last == Len(jobs) + 1
<1>1. /\ sent'[t] = sent[t] + 1 /\ \A s \in Task : s # t => sent'[s] = sent[s]
      /\ Len(jobs) \in Nat
      /\ DOMAIN jobs = 1..Len(jobs) /\ DOMAIN jobs' = 1..last
      /\ \A i \in 1..Len(jobs) : jobs'[i] = jobs[i]
      /\ jobs'[last].task = t
      /\ jobs'[last].number = sent[t] + 1
  BY PutJobType
<1>2. /\ \A s \in Task : sent[s] \in Nat /\ Len(handed[s]) \in Nat /\ sent[s] <= sent'[s]
      /\ \A i \in DOMAIN batch : batch[i].task \in Task /\ batch[i].number \in Nat
      /\ \A i \in DOMAIN jobs : jobs[i].task \in Task /\ jobs[i].number \in Nat
  BY <1>1, Counts
<1>3. /\ last \in DOMAIN jobs' /\ last \notin DOMAIN jobs
      /\ \A i \in DOMAIN jobs' : i = last \/ i \in DOMAIN jobs
      /\ \A i \in DOMAIN jobs : i \in DOMAIN jobs' /\ i < last /\ jobs'[i] = jobs[i]
  BY <1>1
<1> HIDE DEF last
<1>4. /\ \A s \in Task, n \in Nat : n <= sent[s] => n <= sent'[s]
      /\ \A s \in Task : Len(handed[s]) <= sent'[s]
  <2>1. \A s \in Task : sent'[s] = sent[s] + 1 \/ sent'[s] = sent[s]
    BY <1>1
  <2>2. \A s \in Task, n \in Nat : n <= sent[s] => n <= sent'[s]
    BY <1>2, <2>1
  <2>. QED
    BY <1>2, <2>2 DEF Queued
<1>5. SentNotHanded(batch)'
  BY <1>2, <1>4 DEF Queued, SentNotHanded
<1>6. ASSUME NEW i \in DOMAIN jobs'
      PROVE  /\ jobs'[i].number <= sent'[jobs'[i].task]
             /\ Owner[jobs'[i].task] \in registry => Len(handed[jobs'[i].task]) < jobs'[i].number
  <2>1. CASE i = last
    BY <1>1, <1>2, <2>1 DEF Queued
  <2>2. CASE i \in DOMAIN jobs
    BY <1>2, <1>3, <1>4, <2>2 DEF Queued, SentNotHanded
  <2>. QED
    BY <1>3, <2>1, <2>2
<1>7. ASSUME NEW i \in DOMAIN jobs', NEW j \in DOMAIN jobs', i < j, jobs'[i].task = jobs'[j].task
      PROVE  jobs'[i].number < jobs'[j].number
  <2>1. i \in DOMAIN jobs
    BY <1>1, <1>3, <1>7
  <2>2. CASE j = last
    BY <1>1, <1>2, <1>3, <1>7, <2>1, <2>2 DEF Queued, SentNotHanded
  <2>3. CASE j \in DOMAIN jobs
    BY <1>3, <1>7, <2>1, <2>3 DEF Queued, InOrder
  <2>. QED
    BY <1>3, <2>2, <2>3
<1>8. ASSUME NEW i \in DOMAIN batch, NEW j \in DOMAIN jobs', batch[i].task = jobs'[j].task
      PROVE  batch[i].number < jobs'[j].number
  <2>1. CASE j = last
    BY <1>1, <1>2, <1>8, <2>1 DEF Queued, SentNotHanded
  <2>2. CASE j \in DOMAIN jobs
    BY <1>3, <1>8, <2>2 DEF Queued
  <2>. QED
    BY <1>3, <2>1, <2>2
<1>9. ASSUME NEW s \in Task, Owner[s] \in registry, NEW n \in Nat, Len(handed[s]) < n, n <= sent'[s]
      PROVE  Among(batch, s, n) \/ Among(jobs', s, n)
  <2>1. CASE s = t /\ n = sent[t] + 1
    BY <1>1, <1>3, <2>1 DEF Among
  <2>2. CASE n <= sent[s]
    <3>1. Among(batch, s, n) \/ Among(jobs, s, n)
      BY <1>9, <2>2 DEF Queued
    <3>. QED
      BY <1>3, <3>1 DEF Among
  <2>. QED
    BY <1>1, <1>2, <1>9, <2>1, <2>2
<1>. QED
  BY <1>4, <1>6, <1>7, <1>8, <1>9, <1>5 DEF Queued, InOrder, SentNotHanded

LEMMA ReadQueues ==
  ASSUME TaskInv, Queued, Read
  PROVE  Queued'
<1>1. batch = <<>> /\ batch' = jobs /\ jobs' = <<>> /\ UNCHANGED <<sent, handed, registry>>
  BY DEF Read, TaskInv, UiShape, task
<1>2. DOMAIN <<>> = {}
  OBVIOUS
<1>. QED
  BY <1>1, <1>2 DEF Queued, InOrder, Among, SentNotHanded

\* The first job of a batch leaves it: what is behind stays in order.
LEMMA FirstLeaves ==
  ASSUME TaskInv, Queued, batch # <<>>, batch' = Tail(batch)
  PROVE  /\ InOrder(batch')
         /\ \A i \in DOMAIN batch' : \E j \in DOMAIN batch : j > 1 /\ batch'[i] = batch[j]
         /\ \A j \in DOMAIN batch : j = 1 \/ \E i \in DOMAIN batch' : batch'[i] = batch[j]
         /\ 1 \in DOMAIN batch /\ Head(batch) = batch[1]
<1> DEFINE n == Len(batch)
<1>1. /\ n \in Nat \ {0} /\ DOMAIN batch = 1..n /\ DOMAIN batch' = 1..(n - 1)
      /\ \A i \in 1..(n - 1) : batch'[i] = batch[i + 1]
      /\ Head(batch) = batch[1]
  BY FirstJob
<1> HIDE DEF n
<1>2. \A i \in DOMAIN batch' : i \in Nat /\ i + 1 \in DOMAIN batch /\ i + 1 > 1 /\ batch'[i] = batch[i + 1]
  BY <1>1
<1>3. ASSUME NEW j \in DOMAIN batch, j # 1
      PROVE  j - 1 \in DOMAIN batch' /\ batch'[j - 1] = batch[j]
  <2>1. j - 1 \in 1..(n - 1) /\ j - 1 + 1 = j
    BY <1>1, <1>3
  <2>. QED
    BY <1>1, <2>1
<1>4. InOrder(batch')
  <2> SUFFICES ASSUME NEW i \in DOMAIN batch', NEW j \in DOMAIN batch', i < j, batch'[i].task = batch'[j].task
               PROVE  batch'[i].number < batch'[j].number
    BY DEF InOrder
  <2>1. i + 1 < j + 1
    BY <1>2
  <2>. QED
    BY <1>2, <2>1 DEF Queued, InOrder
<1>5. 1 \in DOMAIN batch
  BY <1>1
<1>. QED
  BY <1>1, <1>2, <1>3, <1>4, <1>5

\* The first job of a task that a batch holds carries what its actor is to be
\* handed next.
LEMMA FirstIsNext ==
  ASSUME TaskInv, Queued, batch # <<>>, Owner[Head(batch).task] \in registry
  PROVE  Head(batch).number = Len(handed[Head(batch).task]) + 1
<1> DEFINE t == Head(batch).task
           m == Len(handed[t]) + 1
<1>1. t \in Task /\ Head(batch) = batch[1] /\ 1 \in DOMAIN batch
  BY FirstJob
<1>2. /\ m \in Nat /\ batch[1].number \in Nat /\ batch[1].task = t /\ sent[t] \in Nat /\ Len(handed[t]) \in Nat
      /\ Len(handed[t]) < batch[1].number /\ batch[1].number <= sent[t]
      /\ \A i \in DOMAIN batch : i \in Nat /\ batch[i].number \in Nat
  BY <1>1, Counts DEF Queued, SentNotHanded
<1>3. Len(handed[t]) < m /\ m <= sent[t] /\ m <= batch[1].number
  BY <1>2
<1>4. Among(batch, t, m) \/ Among(jobs, t, m)
  BY <1>1, <1>2, <1>3 DEF Queued
<1> HIDE DEF m
<1>5. ASSUME NEW j \in DOMAIN jobs, jobs[j].task = t, jobs[j].number = m
      PROVE  FALSE
  BY <1>1, <1>2, <1>3, <1>5 DEF Queued
<1>6. PICK i \in DOMAIN batch : batch[i].task = t /\ batch[i].number = m
  BY <1>4, <1>5 DEF Among
<1>7. i = 1
  <2>1. CASE i > 1
    <3>1. batch[1].number < batch[i].number
      BY <1>1, <1>2, <1>6, <2>1 DEF Queued, InOrder
    <3>. QED
      BY <1>2, <1>3, <1>6, <3>1
  <2>2. i >= 1
    BY FirstJob
  <2>. QED
    BY <1>2, <2>1, <2>2
<1>. QED
  BY <1>1, <1>6, <1>7 DEF m

LEMMA RunJobQueues ==
  ASSUME TaskInv, Queued, RunJob
  PROVE  Queued'
<1> DEFINE t == Head(batch).task
           m == Head(batch).number
<1>1. /\ batch # <<>> /\ batch' = Tail(batch) /\ Owner[t] \in registry
      /\ UNCHANGED <<registry, jobs, sent>>
      /\ handed' = [handed EXCEPT ![t] = Append(@, m)]
  BY DEF RunJob, task, road
<1>2. t \in Task /\ m \in 1..(MaxSends + 1)
  BY <1>1, FirstJob
<1>3. /\ InOrder(batch')
      /\ \A i \in DOMAIN batch' : \E j \in DOMAIN batch : j > 1 /\ batch'[i] = batch[j]
      /\ \A j \in DOMAIN batch : j = 1 \/ \E i \in DOMAIN batch' : batch'[i] = batch[j]
      /\ 1 \in DOMAIN batch /\ Head(batch) = batch[1]
  BY <1>1, FirstLeaves
<1>4. m = Len(handed[t]) + 1
  BY <1>1, FirstIsNext
<1>5. /\ \A s \in Task : sent[s] \in Nat /\ Len(handed[s]) \in Nat
      /\ \A i \in DOMAIN batch : i \in Nat /\ batch[i].task \in Task /\ batch[i].number \in Nat
      /\ \A i \in DOMAIN jobs : jobs[i].task \in Task /\ jobs[i].number \in Nat
  BY Counts
<1>6. batch[1].task = t /\ batch[1].number = m
  BY <1>3
<1> HIDE DEF t, m
<1>7. /\ Len(handed'[t]) = m
      /\ \A s \in Task : s # t => handed'[s] = handed[s]
  <2>1. handed[t] \in Seq(1..(MaxSends + 1)) /\ handed \in [Task -> Seq(1..(MaxSends + 1))]
    BY <1>2 DEF TaskInv, TypeOK
  <2>2. Len(Append(handed[t], m)) = Len(handed[t]) + 1
    BY <1>2, <2>1, AppendProperties
  <2>. QED
    BY <1>1, <1>2, <1>4, <2>1, <2>2
<1>8. m <= sent[t]
  BY <1>3, <1>6 DEF Queued, SentNotHanded
<1>9. ASSUME NEW i \in DOMAIN batch'
      PROVE  /\ batch'[i].number <= sent[batch'[i].task]
             /\ Owner[batch'[i].task] \in registry => Len(handed'[batch'[i].task]) < batch'[i].number
             /\ \A j \in DOMAIN jobs : batch'[i].task = jobs[j].task => batch'[i].number < jobs[j].number
  <2>1. PICK k \in DOMAIN batch : k > 1 /\ batch'[i] = batch[k]
    BY <1>3
  <2>2. CASE batch[k].task = t
    <3>1. m < batch[k].number
      BY <1>3, <1>6, <2>1, <2>2 DEF Queued, InOrder
    <3>. QED
      BY <1>7, <2>1, <2>2, <3>1 DEF Queued, SentNotHanded
  <2>3. CASE batch[k].task # t
    BY <1>5, <1>7, <2>1, <2>3 DEF Queued, SentNotHanded
  <2>. QED
    BY <2>2, <2>3
<1>10. ASSUME NEW j \in DOMAIN jobs, Owner[jobs[j].task] \in registry
       PROVE  Len(handed'[jobs[j].task]) < jobs[j].number
  <2>1. CASE jobs[j].task = t
    BY <1>3, <1>6, <1>7, <2>1 DEF Queued
  <2>2. CASE jobs[j].task # t
    BY <1>5, <1>7, <1>10, <2>2 DEF Queued, SentNotHanded
  <2>. QED
    BY <2>1, <2>2
<1>11. ASSUME NEW s \in Task, Owner[s] \in registry, NEW n \in Nat, Len(handed'[s]) < n, n <= sent[s]
       PROVE  Among(batch', s, n) \/ Among(jobs, s, n)
  <2>1. Len(handed[s]) < n /\ (s = t => n # m)
    BY <1>2, <1>4, <1>5, <1>7, <1>11
  <2>2. Among(batch, s, n) \/ Among(jobs, s, n)
    BY <1>11, <2>1 DEF Queued
  <2>3. ASSUME NEW k \in DOMAIN batch, batch[k].task = s, batch[k].number = n
        PROVE  Among(batch', s, n)
    BY <1>3, <1>6, <2>1, <2>3 DEF Among
  <2>. QED
    BY <2>2, <2>3 DEF Among
<1>12. \A s \in Task : Len(handed'[s]) <= sent[s]
  BY <1>7, <1>8 DEF Queued
<1>. QED
  BY <1>1, <1>3, <1>9, <1>10, <1>11, <1>12 DEF Queued, SentNotHanded

LEMMA MissJobQueues ==
  ASSUME TaskInv, Queued, MissJob
  PROVE  Queued'
<1> DEFINE t == Head(batch).task
<1>1. /\ batch # <<>> /\ batch' = Tail(batch) /\ Owner[t] \notin registry
      /\ UNCHANGED <<registry, jobs, sent, handed>>
  BY DEF MissJob, road
<1>2. /\ InOrder(batch')
      /\ \A i \in DOMAIN batch' : \E j \in DOMAIN batch : j > 1 /\ batch'[i] = batch[j]
      /\ \A j \in DOMAIN batch : j = 1 \/ \E i \in DOMAIN batch' : batch'[i] = batch[j]
      /\ batch[1].task = t
  BY <1>1, FirstLeaves
<1> HIDE DEF t
<1>3. ASSUME NEW i \in DOMAIN batch'
      PROVE  /\ batch'[i].number <= sent[batch'[i].task]
             /\ Owner[batch'[i].task] \in registry => Len(handed[batch'[i].task]) < batch'[i].number
             /\ \A j \in DOMAIN jobs : batch'[i].task = jobs[j].task => batch'[i].number < jobs[j].number
  BY <1>2 DEF Queued, SentNotHanded
<1>4. ASSUME NEW s \in Task, Owner[s] \in registry, NEW n \in Nat, Len(handed[s]) < n, n <= sent[s]
      PROVE  Among(batch', s, n) \/ Among(jobs, s, n)
  <2>1. Among(batch, s, n) \/ Among(jobs, s, n)
    BY <1>4 DEF Queued
  <2>2. ASSUME NEW k \in DOMAIN batch, batch[k].task = s, batch[k].number = n
        PROVE  Among(batch', s, n)
    BY <1>1, <1>2, <1>4, <2>2 DEF Among
  <2>. QED
    BY <2>1, <2>2 DEF Among
<1>. QED
  BY <1>1, <1>2, <1>3, <1>4 DEF Queued, SentNotHanded

\* A step that puts no job anywhere and takes none.
LEMMA QueuesUntouched ==
  ASSUME Queued, UNCHANGED <<batch, jobs, sent, handed>>, registry' \subseteq registry
  PROVE  Queued'
BY DEF Queued, InOrder, Among, SentNotHanded

\* What a step of a task is to the queues.
LEMMA TaskStepQueues ==
  ASSUME TaskInv, NEW t \in Task, TaskStep(t) \/ FutureStep(t) \/ WorldWakes(t) \/ Spawn(t)
  PROVE  \/ UNCHANGED <<registry, batch, jobs, sent, handed>>
         \/ /\ \E apply \in BOOLEAN : PutJob(t, apply)
            /\ sent[t] <= MaxSends
            /\ UNCHANGED <<registry, batch, handed>>
<1> USE DEF token, task, road, thread
<1>1. CASE Return(t) \/ Send(t) \/ Apply(t) \/ Item(t)
  <2>1. MaxSends \in Nat /\ sent[t] \in Nat
    BY TasksAssumption DEF TaskInv, TypeOK
  <2>2. pc[t] \in {"post", "future"}
    BY <1>1 DEF Return, Send, Apply, Item
  <2>3. ~(sent[t] > MaxSends)
    BY <2>2 DEF TaskInv, LastSend
  <2>4. sent[t] <= MaxSends
    BY <2>1, <2>3
  <2>. QED
    BY <1>1, <2>4 DEF Return, Send, Apply, Item
<1>2. CASE Enlist(t) \/ Check(t) \/ Poll(t) \/ Wake(t) \/ Drop(t) \/ Out(t)
  BY <1>2 DEF Enlist, Check, Poll, Wake, Drop, Out
<1>3. CASE Arm(t) \/ Ring(t) \/ Pend(t) \/ Finish(t) \/ WorldWakes(t) \/ Spawn(t)
  BY <1>3 DEF Arm, Ring, Pend, Finish, WorldWakes, Spawn
<1>. QED
  BY <1>1, <1>2, <1>3 DEF TaskStep, FutureStep

\* What a step of the UI thread is to them.
LEMMA UiStepQueues ==
  ASSUME UiStep \/ Settled \/ \E a \in Actor : Turn(a) \/ Dispose(a)
  PROVE  \/ UNCHANGED <<registry, batch, jobs, sent, handed>>
         \/ Read \/ RunJob \/ MissJob
         \/ Unregister /\ UNCHANGED <<batch, jobs, sent, handed>>
<1> USE DEF token, task, road, thread
<1>1. CASE Disarm \/ Drained \/ Handled \/ Notify \/ Settled
  BY <1>1 DEF Disarm, Drained, Handled, Notify, Settled
<1>2. CASE \E a \in Actor : Turn(a) \/ Dispose(a)
  BY <1>2 DEF Turn, Dispose
<1>3. CASE Unregister
  BY <1>3 DEF Unregister
<1>. QED
  BY <1>1, <1>2, <1>3 DEF UiStep

LEMMA QueuedInductive == TaskInv /\ Queued /\ [Next]_vars => Queued'
<1> SUFFICES ASSUME TaskInv, Queued, [Next]_vars
             PROVE  Queued'
  OBVIOUS
<1>1. ASSUME NEW t \in Task, TaskStep(t) \/ FutureStep(t) \/ WorldWakes(t) \/ Spawn(t)
      PROVE  Queued'
  BY <1>1, TaskStepQueues, PutJobQueues, QueuesUntouched
<1>2. CASE UiStep \/ Settled \/ \E a \in Actor : Turn(a) \/ Dispose(a)
  <2>1. Unregister => registry' \subseteq registry
    BY DEF Unregister
  <2>. QED
    BY <1>2, <2>1, UiStepQueues, ReadQueues, RunJobQueues, MissJobQueues, QueuesUntouched
<1>3. CASE UNCHANGED vars
  BY <1>3, QueuesUntouched DEF vars, task, road, thread
<1>. QED
  BY <1>1, <1>2, <1>3 DEF Next

LEMMA QueuedInit == Init => Queued
<1> SUFFICES ASSUME Init
             PROVE  Queued
  OBVIOUS
<1>1. DOMAIN <<>> = {} /\ Len(<<>>) = 0
  BY EmptySeq
<1>. QED
  BY <1>1 DEF Init, Queued, InOrder, Among, SentNotHanded

LEMMA DeliveriesStep == TaskInv /\ Queued /\ [Next]_vars => [Delivered!Next]_(Delivered!vars)
<1> SUFFICES ASSUME TaskInv, Queued, [Next]_vars
             PROVE  [Delivered!Next]_(Delivered!vars)
  OBVIOUS
<1>1. ASSUME UNCHANGED <<registry, sent, handed>>
      PROVE  UNCHANGED Delivered!vars
  BY <1>1 DEF Delivered!vars
<1>2. ASSUME NEW t \in Task, TaskStep(t) \/ FutureStep(t) \/ WorldWakes(t) \/ Spawn(t)
      PROVE  [Delivered!Next]_(Delivered!vars)
  <2>1. CASE UNCHANGED <<registry, batch, jobs, sent, handed>>
    BY <1>1, <2>1
  <2>2. ASSUME NEW apply \in BOOLEAN, PutJob(t, apply), UNCHANGED <<registry, handed>>
        PROVE  Delivered!Next
    <3>1. Delivered!Send(t)
      BY <2>2 DEF PutJob, Delivered!Send
    <3>. QED
      BY <3>1 DEF Delivered!Next
  <2>. QED
    BY <1>2, <2>1, <2>2, TaskStepQueues
<1>3. CASE RunJob
  <2> DEFINE t == Head(batch).task
  <2>1. t \in Task
    BY <1>3, FirstJob DEF RunJob
  <2>2. Head(batch).number = Len(handed[t]) + 1 /\ Owner[t] \in registry
    BY <1>3, FirstIsNext DEF RunJob
  <2>3. Len(handed[t]) < sent[t]
    <3>1. Head(batch).number <= sent[t]
      BY <1>3, FirstJob DEF RunJob, Queued, SentNotHanded
    <3>. QED
      BY <2>1, <2>2, <3>1, Counts
  <2>4. handed' = [handed EXCEPT ![t] = Append(@, Head(batch).number)] /\ UNCHANGED <<registry, sent>>
    BY <1>3 DEF RunJob, task
  <2> HIDE DEF t
  <2>5. handed' = [handed EXCEPT ![t] = Append(@, Len(@) + 1)]
    BY <2>1, <2>2, <2>4 DEF TaskInv, TypeOK
  <2>6. Delivered!Hand(t)
    BY <2>2, <2>3, <2>4, <2>5 DEF Delivered!Hand
  <2>. QED
    BY <2>1, <2>6 DEF Delivered!Next
<1>4. CASE Unregister
  <2>1. going \in registry /\ registry \subseteq Actor
    BY <1>4 DEF Unregister, TaskInv, UiShape, TypeOK
  <2>2. Delivered!Go(going)
    BY <1>4, <2>1 DEF Unregister, Delivered!Go, task
  <2>. QED
    BY <2>1, <2>2 DEF Delivered!Next
<1>5. CASE Read \/ MissJob
  BY <1>1, <1>5 DEF Read, MissJob, task
<1>6. CASE UNCHANGED vars
  BY <1>1, <1>6 DEF vars, task
<1>7. CASE UiStep \/ Settled \/ \E a \in Actor : Turn(a) \/ Dispose(a)
  BY <1>1, <1>3, <1>4, <1>5, <1>7, UiStepQueues
<1>. QED
  BY <1>2, <1>6, <1>7 DEF Next

\* Two queues, a flag and a token that threads share hand an actor what one
\* queue for each task would: what was sent, in order, once, for as long as
\* the actor is there and no longer.
THEOREM WorkIsDelivered == Spec => Delivered!Init /\ [][Delivered!Next]_(Delivered!vars)
<1>1. Init => Delivered!Init
  BY DEF Init, Delivered!Init
<1>2. Spec => [](TaskInv /\ Queued)
  BY TaskInit, TaskInductive, QueuedInit, QueuedInductive, PTL DEF Spec
<1>. QED
  BY <1>1, <1>2, DeliveriesStep, PTL DEF Spec
=============================================================================

--------------------------- MODULE RequestsProofs ---------------------------
(***************************************************************************)
(* What holds of requests for any subscribers, any number of calls and any *)
(* number of changes of who listens.                                       *)
(***************************************************************************)
EXTENDS Requests, FiniteSetTheorems, SequenceTheorems, WellFoundedInduction, TLAPS

\* A subscriber is listed while it is subscribed, awake or not, and whoever
\* answers a request type is the one listed answerer of it.
BusInv ==
  /\ listed = {h \in Hearer : life[h] \in {"awake", "asleep"}}
  /\ \A k \in Kind : \A h \in Answers : answerers[k] = h <=> h \in listed /\ Hears[h] = k

Unmade == {c \in Call : at[c] = "unmade"}

\* A call that the UI thread has not been handed yet.
Untold(c) == doer[c] = Nobody /\ task[c] = "none" /\ replier[c] = Nobody

\* Calls are made in order, and one that is not posted has left no trace on
\* the UI thread.
CallsInv ==
  /\ \A c, d \in Call : c \in Unmade /\ d > c => d \in Unmade
  /\ \A c \in Call \ Unmade : kind[c] \in Kind
  /\ \A c \in Unmade : c \notin pending /\ by[c] = NoCall
  /\ \A c \in Call : by[c] < c
  /\ \A c \in Call : at[c] \in {"unmade", "posting"} =>
       /\ rx[c] = "empty"
       /\ about # c
       /\ Untold(c)
       /\ \A i \in DOMAIN ui : ui[i] # c

\* Those the handler of the request being told runs in or is to run in.
Due == {h \in Hearer : h \in telling \/ h = handling}

\* A request is told once: while it is in the queue nobody was handed it, and
\* while it is told at most one answerer is still to be.
TellingInv ==
  /\ \A i, j \in DOMAIN ui : ui[i] = ui[j] => i = j
  /\ \A i \in DOMAIN ui : ui[i] # about /\ Untold(ui[i])
  /\ about = NoCall => telling = {} /\ handling = Nobody
  /\ about # NoCall => \A h \in Due : Hears[h] = kind[about]
  /\ handling \notin telling
  /\ \A h, g \in Due \cap Answers : h = g
  /\ about # NoCall /\ ~Untold(about) => Due \cap Answers = {}

\* Whoever was handed a call answers its type, and replies to it or not yet.
DoingInv ==
  /\ \A c \in Call : task[c] # "none" => doer[c] # Nobody
  /\ \A c \in Call : doer[c] # Nobody => Hears[doer[c]] = kind[c]
  /\ \A c \in Call : replier[c] # Nobody => replier[c] = doer[c]

\* What is sent is taken from PENDING_REQUESTS, and a reply has an author.
SentInv ==
  /\ \A c \in Call : rx[c] # "empty" => c \notin pending
  /\ \A c \in Call : rx[c] = "reply" => replier[c] # Nobody
  /\ \A c \in Call : at[c] = "replied" => rx[c] = "reply"
  /\ \A c \in Call : at[c] = "unanswered" => rx[c] = "unanswered"
  /\ \A c \in Call : at[c] \in {"forgetting", "timedout"} => rx[c] = "empty"

\* Calls are made by tasks that reply, each of which awaits one at a time.
AwaitInv ==
  /\ \A c \in Call : by[c] # NoCall => task[by[c]] # "none"
  /\ \A c, d \in Call : by[c] = by[d] /\ by[c] # NoCall /\ at[c] \in Open /\ at[d] \in Open => c = d

\* The chain of a call holds what it asks, and the whole chain of the call
\* whose task asked it, where that did not occur.
ChainInv ==
  /\ \A c \in Call \ Unmade : kind[c] \in chain[c]
  /\ \A c \in Call : by[c] # NoCall /\ task[by[c]] = "task" =>
       chain[by[c]] \subseteq chain[c] /\ kind[c] \notin chain[by[c]]

RequestsInv ==
  /\ TypeOK /\ BusInv /\ CallsInv /\ TellingInv /\ DoingInv /\ SentInv /\ AwaitInv /\ ChainInv
  /\ PendingIsAwaited

-----------------------------------------------------------------------------
(* Types. *)

LEMMA CallNumbers == Call \subseteq Nat \ {0} /\ NoCall \notin Call /\ MaxCalls \in Nat /\ NoCall \in Nat
BY RequestsAssumption DEF Call, NoCall

\* What taking a sender changes, and what it leaves.
LEMMA Settling ==
  ASSUME TypeOK, NEW c \in Call \cup {NoCall}, NEW what \in {"reply", "unanswered"}, Settle(c, what)
  PROVE  /\ pending' = pending \ {c}
         /\ pending' \subseteq Call
         /\ rx' \in [Call -> {"empty", "reply", "unanswered"}]
         /\ \A d \in Call : d # c => rx'[d] = rx[d]
         /\ \A d \in Call : rx'[d] = rx[d] \/ (d = c /\ rx'[d] = what /\ c \in pending /\ at[c] = "waiting")
         /\ c \in pending /\ at[c] = "waiting" => rx'[c] = what
BY DEF TypeOK, Settle

LEMMA Replying ==
  ASSUME TypeOK, NEW c \in Call \cup {NoCall}, NEW h \in Hearer, Reply(h, c)
  PROVE  /\ Settle(c, "reply")
         /\ replier' \in [Call -> Hearer \cup {Nobody}]
         /\ \A d \in Call : d # c => replier'[d] = replier[d]
         /\ \A d \in Call : replier'[d] = replier[d] \/ (d = c /\ replier'[d] = h /\ c \in pending)
         /\ c \in pending => replier'[c] = h
BY DEF TypeOK, Reply

\* The next job of the UI thread, and those after it.
LEMMA NextJob ==
  ASSUME TypeOK, ui # <<>>, ui' = Tail(ui)
  PROVE  /\ ui' \in Seq(Call) /\ Head(ui) \in Call /\ Head(ui) = ui[1] /\ 1 \in DOMAIN ui
         /\ \A i \in DOMAIN ui' : i + 1 \in DOMAIN ui /\ i + 1 # 1 /\ ui'[i] = ui[i + 1] /\ i \in Nat
         /\ \A i \in DOMAIN ui' : \E j \in DOMAIN ui : ui'[i] = ui[j] /\ j # 1
<1>1. ui \in Seq(Call)
  BY DEF TypeOK
<1>2. /\ ui' \in Seq(Call) /\ Head(ui) \in Call /\ Head(ui) = ui[1] /\ Len(ui) \in Nat /\ Len(ui) # 0
      /\ Len(ui') = Len(ui) - 1 /\ DOMAIN ui = 1..Len(ui) /\ DOMAIN ui' = 1..(Len(ui) - 1)
      /\ \A i \in 1..Len(ui') : ui'[i] = ui[i + 1]
  BY <1>1, HeadTailProperties, LenProperties, EmptySeq
<1>3. 1 \in DOMAIN ui
  BY <1>2
<1>4. ASSUME NEW i \in DOMAIN ui'
      PROVE  i + 1 \in DOMAIN ui /\ i + 1 # 1 /\ ui'[i] = ui[i + 1] /\ i \in Nat
  <2>1. i \in 1..(Len(ui) - 1)
    BY <1>2
  <2>2. i + 1 \in 1..Len(ui) /\ i + 1 # 1 /\ i \in Nat
    BY <1>2, <2>1
  <2>. QED
    BY <1>2, <2>1, <2>2
<1>. QED
  BY <1>2, <1>3, <1>4

LEMMA InitTypes == Init => TypeOK
<1> SUFFICES ASSUME Init PROVE TypeOK
  OBVIOUS
<1>1. IsFiniteSet(Hearer) /\ Cardinality(Hearer) \in Nat
  BY RequestsAssumption, FS_CardinalityType
<1>2. seq \in [Hearer -> Nat] /\ nextId \in Nat /\ changes \in 0..MaxChanges
  <2>1. Place \in [Hearer -> 0..Cardinality(Hearer)] /\ MaxChanges \in Nat
    BY RequestsAssumption
  <2>2. 0..Cardinality(Hearer) \subseteq Nat /\ 0 \in 0..MaxChanges /\ Cardinality(Hearer) + 1 \in Nat
    BY <1>1, <2>1
  <2>. QED
    BY <2>1, <2>2 DEF Init
<1>3. ui \in Seq(Call)
  BY DEF Init
<1>. QED
  BY <1>2, <1>3 DEF Init, TypeOK, Open, Over

\* Changes of who hears what.
LEMMA ChangesType == TypeOK /\ Change => changes' \in 0..MaxChanges
BY RequestsAssumption DEF TypeOK, Change

LEMMA BusStepTypes ==
  ASSUME TypeOK, NEW h \in Hearer, Subscribe(h) \/ Remove(h) \/ Sleep(h) \/ Wake(h)
  PROVE  TypeOK'
<1>1. changes' \in 0..MaxChanges
  BY ChangesType DEF Subscribe, Remove, Sleep, Wake
<1>2. nextId' \in Nat /\ seq' \in [Hearer -> Nat]
  BY DEF TypeOK, Subscribe, Remove, Sleep, Wake
<1>3. answerers' \in [Kind -> Answers \cup {Nobody}]
  <2>1. answerers \in [Kind -> Answers \cup {Nobody}]
    BY DEF TypeOK
  <2>2. h \in Answers => [answerers EXCEPT ![Hears[h]] = h] \in [Kind -> Answers \cup {Nobody}]
    BY <2>1
  <2>3. Unanswering(h) \in [Kind -> Answers \cup {Nobody}]
    BY <2>1 DEF Unanswering
  <2>. QED
    BY <2>1, <2>2, <2>3 DEF Subscribe, Remove, Sleep, Wake
<1>4. life' \in [Hearer -> {"out", "awake", "asleep", "gone"}] /\ listed' \subseteq Hearer
  BY DEF TypeOK, Subscribe, Remove, Sleep, Wake
<1>. QED
  BY <1>1, <1>2, <1>3, <1>4 DEF TypeOK, Subscribe, Remove, Sleep, Wake, Change, calls, publication, work

LEMMA CallerStepTypes ==
  ASSUME TypeOK, NEW c \in Call, CallerStep(c) \/ TimeOut(c) \/ Drop(c)
  PROVE  TypeOK'
<1>1. CASE Post(c)
  <2>1. ui' \in Seq(Call)
    BY <1>1, AppendProperties DEF TypeOK, Post
  <2>. QED
    BY <1>1, <2>1 DEF TypeOK, Post, bus, publication, work, Open
<1>2. CASE Resume(c)
  BY <1>2 DEF TypeOK, Resume, bus, publication, work, Over
<1>3. CASE Forget(c)
  BY <1>3 DEF TypeOK, Forget, bus, publication, work, Over
<1>4. CASE TimeOut(c)
  BY <1>4 DEF TypeOK, TimeOut, bus, publication, work, Open
<1>5. CASE Drop(c)
  BY <1>5 DEF TypeOK, Drop, bus, publication, work, Over
<1>. QED
  BY <1>1, <1>2, <1>3, <1>4, <1>5 DEF CallerStep

LEMMA TaskStepTypes ==
  ASSUME TypeOK, DoingInv, NEW c \in Call, TaskStep(c)
  PROVE  TypeOK'
<1>1. CASE TaskReplies(c)
  <2>1. doer[c] \in Hearer
    BY <1>1, RequestsAssumption DEF TaskReplies, DoingInv, TypeOK
  <2>2. /\ pending' \subseteq Call /\ rx' \in [Call -> {"empty", "reply", "unanswered"}]
        /\ replier' \in [Call -> Hearer \cup {Nobody}]
    BY <1>1, <2>1, Settling, Replying DEF TaskReplies
  <2>. QED
    BY <1>1, <2>2 DEF TypeOK, TaskReplies, bus, calls, publication
<1>2. CASE Cancelled(c)
  BY <1>2 DEF TypeOK, Cancelled, bus, publication, Over
<1>. QED
  BY <1>1, <1>2 DEF TaskStep

LEMMA AskingTypes ==
  ASSUME TypeOK, NEW p \in Call \cup {NoCall}, NEW k \in Kind, NEW c \in Call, Ask(p, k, c) \/ Refuse(p, k)
  PROVE  TypeOK'
<1>1. CASE Ask(p, k, c)
  <2>1. ChainOf(p) \subseteq Kind
    BY DEF TypeOK, ChainOf
  <2>. QED
    BY <1>1, <2>1 DEF TypeOK, Ask, bus, publication, work, Open
<1>2. CASE Refuse(p, k)
  BY <1>2 DEF TypeOK, Refuse, bus, publication, calls
<1>. QED
  BY <1>1, <1>2

LEMMA UiStepTypes ==
  ASSUME TypeOK, UiStep
  PROVE  TypeOK'
<1>1. CASE Deny
  BY <1>1, NextJob, Settling DEF TypeOK, Deny, bus, calls, publication, work
<1>2. CASE Publish
  BY <1>2, NextJob DEF TypeOK, Publish, bus, calls, work
<1>3. CASE Published
  BY <1>3 DEF TypeOK, Published, bus, calls, work
<1>4. CASE ReplyNow
  <2>1. handling \in Hearer /\ Address(handling) \in Call \cup {NoCall}
    BY <1>4 DEF ReplyNow, TypeOK, Address
  <2>2. /\ pending' \subseteq Call /\ rx' \in [Call -> {"empty", "reply", "unanswered"}]
        /\ replier' \in [Call -> Hearer \cup {Nobody}]
    BY <1>4, <2>1, Settling, Replying DEF ReplyNow
  <2>. QED
    BY <1>4, <2>2 DEF TypeOK, ReplyNow, HandOver, bus, calls
<1>5. ASSUME NEW h \in Hearer, Deliver(h) PROVE TypeOK'
  BY <1>5 DEF TypeOK, Deliver, bus, calls, work
<1>6. ASSUME NEW style \in Styles, SpawnReply(style) PROVE TypeOK'
  BY <1>6, RequestsAssumption DEF TypeOK, SpawnReply, Styles, HandOver, bus, calls
<1>. QED
  BY <1>1, <1>2, <1>3, <1>4, <1>5, <1>6 DEF UiStep
-----------------------------------------------------------------------------
(* Each part of the invariant, step by step. *)

StepOfBus(h) == Subscribe(h) \/ Remove(h) \/ Sleep(h) \/ Wake(h)
StepOfCall(c) == CallerStep(c) \/ TimeOut(c) \/ Drop(c)
StepOfAsking(p, k, c) == Ask(p, k, c) \/ Refuse(p, k)

\* What no step but its own kind touches.
LEMMA BusStepLeaves ==
  ASSUME NEW h, StepOfBus(h)
  PROVE  UNCHANGED <<calls, pending, rx, ui, publication, work, replier, lost>>
BY DEF StepOfBus, Subscribe, Remove, Sleep, Wake, Change

LEMMA CallStepLeaves ==
  ASSUME NEW c, StepOfCall(c)
  PROVE  UNCHANGED <<bus, kind, by, chain, rx, publication, work, replier, lost>>
BY DEF StepOfCall, CallerStep, Post, Resume, Forget, TimeOut, Drop

LEMMA TaskStepLeaves ==
  ASSUME NEW c, TaskStep(c)
  PROVE  UNCHANGED <<bus, kind, by, chain, ui, publication, doer>>
BY DEF TaskStep, TaskReplies, Cancelled, calls

LEMMA AskingLeaves ==
  ASSUME NEW p, NEW k, NEW c, StepOfAsking(p, k, c)
  PROVE  UNCHANGED <<bus, rx, ui, publication, doer, replier>>
BY DEF StepOfAsking, Ask, Refuse, work

LEMMA UiStepLeaves == UiStep => UNCHANGED <<bus, calls>>
<1>1. \A h \in Hearer : Deliver(h) => UNCHANGED <<bus, calls>>
  BY DEF Deliver
<1>2. \A style \in Styles : SpawnReply(style) => UNCHANGED <<bus, calls>>
  BY DEF SpawnReply
<1>3. Deny \/ Publish \/ Published \/ ReplyNow => UNCHANGED <<bus, calls>>
  BY DEF Deny, Publish, Published, ReplyNow
<1>. QED
  BY <1>1, <1>2, <1>3 DEF UiStep

LEMMA NextSteps ==
  ASSUME Next
  PROVE  \/ UiStep
         \/ \E h \in Hearer : StepOfBus(h)
         \/ \E c \in Call : StepOfCall(c) \/ TaskStep(c)
         \/ \E p \in Call \cup {NoCall}, k \in Kind, c \in Call : StepOfAsking(p, k, c)
<1>1. ASSUME NEW p \in Call \cup {NoCall}, NEW k \in Kind, Refuse(p, k)
      PROVE  \E q \in Call \cup {NoCall}, j \in Kind, c \in Call : StepOfAsking(q, j, c)
  <2>1. p \in Call
    BY <1>1 DEF Refuse
  <2>. QED
    BY <1>1, <2>1 DEF StepOfAsking
<1>2. ASSUME NEW p \in Call \cup {NoCall}, NEW k \in Kind, NEW c \in Call, Ask(p, k, c)
      PROVE  \E q \in Call \cup {NoCall}, j \in Kind, d \in Call : StepOfAsking(q, j, d)
  BY <1>2 DEF StepOfAsking
<1>3. \A h \in Hearer : Subscribe(h) \/ Remove(h) \/ Sleep(h) \/ Wake(h) => StepOfBus(h)
  BY DEF StepOfBus
<1>4. \A c \in Call : CallerStep(c) \/ TaskStep(c) \/ TimeOut(c) \/ Drop(c) => StepOfCall(c) \/ TaskStep(c)
  BY DEF StepOfCall
<1>. QED
  BY <1>1, <1>2, <1>3, <1>4 DEF Next

LEMMA BusStepKeepsBus ==
  ASSUME TypeOK, BusInv, NEW h \in Hearer, StepOfBus(h)
  PROVE  BusInv'
<1>0. /\ Nobody \notin Hearer /\ Hears \in [Hearer -> Kind] /\ Answers \subseteq Hearer
      /\ life \in [Hearer -> {"out", "awake", "asleep", "gone"}]
      /\ answerers \in [Kind -> Answers \cup {Nobody}]
  BY RequestsAssumption DEF TypeOK
<1>1. listed' = {g \in Hearer : life'[g] \in {"awake", "asleep"}}
  BY <1>0 DEF BusInv, StepOfBus, Subscribe, Remove, Sleep, Wake
<1>2. ASSUME NEW k \in Kind, NEW g \in Answers
      PROVE  answerers'[k] = g <=> g \in listed' /\ Hears[g] = k
  <2>1. answerers[k] = g <=> g \in listed /\ Hears[g] = k
    BY DEF BusInv
  <2>2. CASE Sleep(h) \/ Wake(h)
    BY <2>1, <2>2 DEF Sleep, Wake
  <2>3. CASE Subscribe(h)
    <3>1. h \notin listed
      BY <1>0, <2>3 DEF BusInv, Subscribe
    <3>2. CASE h \in Answers
      <4>1. answerers[Hears[h]] = Nobody /\ answerers' = [answerers EXCEPT ![Hears[h]] = h] /\ listed' = listed \cup {h}
        BY <2>3, <3>2 DEF Subscribe
      <4>. QED
        BY <1>0, <2>1, <3>1, <3>2, <4>1
    <3>3. CASE h \notin Answers
      BY <2>1, <2>3, <3>3 DEF Subscribe
    <3>. QED
      BY <3>2, <3>3
  <2>4. CASE Remove(h)
    <3>1. listed' = listed \ {h} /\ answerers' = Unanswering(h)
      BY <2>4 DEF Remove
    <3>2. CASE answerers[Hears[h]] = h
      <4>1. answerers' = [answerers EXCEPT ![Hears[h]] = Nobody]
        BY <3>1, <3>2 DEF Unanswering
      <4>2. k = Hears[h] => answerers'[k] = Nobody
        BY <1>0, <4>1
      <4>3. k # Hears[h] => answerers'[k] = answerers[k]
        BY <1>0, <4>1
      <4>. QED
        BY <1>0, <2>1, <3>1, <3>2, <4>2, <4>3
    <3>3. CASE answerers[Hears[h]] # h
      <4>1. answerers' = answerers
        BY <3>1, <3>3 DEF Unanswering
      <4>. QED
        BY <1>0, <2>1, <3>1, <3>3, <4>1
    <3>. QED
      BY <3>2, <3>3
  <2>. QED
    BY <2>2, <2>3, <2>4 DEF StepOfBus
<1>. QED
  BY <1>1, <1>2 DEF BusInv

LEMMA KeepsBus ==
  ASSUME TypeOK, BusInv, Next
  PROVE  BusInv'
<1>1. UNCHANGED bus => BusInv'
  BY DEF bus, BusInv
<1>2. ASSUME NEW c \in Call, StepOfCall(c) \/ TaskStep(c) PROVE UNCHANGED bus
  BY <1>2, CallStepLeaves, TaskStepLeaves
<1>3. ASSUME NEW p \in Call \cup {NoCall}, NEW k \in Kind, NEW c \in Call, StepOfAsking(p, k, c)
      PROVE  UNCHANGED bus
  BY <1>3, AskingLeaves
<1>. QED
  BY <1>1, <1>2, <1>3, NextSteps, BusStepKeepsBus, UiStepLeaves

-----------------------------------------------------------------------------
(* The order in which calls are made. *)

\* What a fresh call and the calls made before it look like.
LEMMA Asked ==
  ASSUME TypeOK, CallsInv, DoingInv, NEW p \in Call \cup {NoCall}, NEW k \in Kind, NEW c \in Call, Ask(p, k, c)
  PROVE  /\ c \in Unmade /\ Unmade' = Unmade \ {c}
         /\ p < c
         /\ at'[c] = "posting" /\ kind'[c] = k /\ by'[c] = p /\ chain'[c] = ChainOf(p) \cup {k}
         /\ \A d \in Call : d # c =>
              at'[d] = at[d] /\ kind'[d] = kind[d] /\ by'[d] = by[d] /\ chain'[d] = chain[d]
         /\ \A d \in Call : d < c => d \notin Unmade
         /\ pending' = pending \cup {c}
<1>1. /\ at \in [Call -> {"unmade"} \cup Open \cup Over] /\ kind \in [Call -> Kind \cup {Nobody}]
      /\ by \in [Call -> Call \cup {NoCall}] /\ chain \in [Call -> SUBSET Kind]
  BY DEF TypeOK
<1>2. c \in Unmade /\ \A d \in Call : d < c => d \notin Unmade
  BY DEF Ask, Fresh, Unmade
<1>3. at'[c] = "posting" /\ \A d \in Call : d # c => at'[d] = at[d]
  BY <1>1 DEF Ask
<1>4. Unmade' = Unmade \ {c}
  BY <1>3 DEF Unmade
<1>5. p < c
  <2>1. CASE p = NoCall
    BY <2>1, CallNumbers DEF NoCall
  <2>2. CASE p \in Call
    <3>1. p # NoCall
      BY <2>2, CallNumbers
    <3>2. task[p] # "none"
      BY <3>1 DEF Ask, Running
    <3>3. p \notin Unmade
      BY <2>2, <3>2 DEF CallsInv, Untold, Unmade
    <3>4. ~(p > c) /\ p # c
      BY <1>2, <2>2, <3>3 DEF CallsInv
    <3>. QED
      BY <2>2, <3>4, CallNumbers
  <2>. QED
    BY <2>1, <2>2
<1>. QED
  BY <1>1, <1>2, <1>3, <1>4, <1>5 DEF Ask
LEMMA KeepsCalls ==
  ASSUME TypeOK, CallsInv, TellingInv, DoingInv, Next
  PROVE  CallsInv'
<1>0. /\ at \in [Call -> {"unmade"} \cup Open \cup Over] /\ ui \in Seq(Call)
      /\ doer \in [Call -> Answers \cup {Nobody}] /\ task \in [Call -> {"none", "task", "bg", "over"}]
      /\ \A c \in Call : c \in Nat /\ c # NoCall
  BY CallNumbers DEF TypeOK
\* Nothing but a step of asking makes a call.
<1>1. ASSUME UNCHANGED <<kind, by>>, Unmade' = Unmade, pending' \subseteq pending,
             \A c \in Call : at'[c] \in {"unmade", "posting"} =>
               /\ at[c] \in {"unmade", "posting"}
               /\ rx'[c] = "empty" /\ about' # c /\ Untold(c)'
               /\ \A i \in DOMAIN ui' : ui'[i] # c
      PROVE  CallsInv'
  BY <1>1 DEF CallsInv
<1>2. ASSUME NEW h \in Hearer, StepOfBus(h) PROVE CallsInv'
  BY <1>2, BusStepLeaves, <1>1 DEF calls, publication, work, CallsInv, Unmade, Untold
<1>3. ASSUME NEW c \in Call, StepOfCall(c) PROVE CallsInv'
  <2>1. UNCHANGED <<kind, by, rx, about, doer, task, replier>>
    BY <1>3, CallStepLeaves DEF publication, work
  <2>2. pending' \subseteq pending
    BY <1>3 DEF StepOfCall, CallerStep, Post, Resume, Forget, TimeOut, Drop
  <2>3. at[c] # "unmade" /\ at'[c] \notin {"unmade", "posting"} /\ \A d \in Call : d # c => at'[d] = at[d]
    BY <1>0, <1>3 DEF StepOfCall, CallerStep, Post, Resume, Forget, TimeOut, Drop
  <2>4. Unmade' = Unmade
    BY <2>3 DEF Unmade
  <2>5. \A i \in DOMAIN ui' : ui'[i] = c \/ \E j \in DOMAIN ui : ui'[i] = ui[j]
    <3>1. CASE Post(c)
      <4>1. ui' = Append(ui, c)
        BY <3>1 DEF Post
      <4>2. /\ Len(ui) \in Nat /\ DOMAIN ui = 1..Len(ui) /\ DOMAIN ui' = 1..(Len(ui) + 1)
            /\ ui'[Len(ui) + 1] = c /\ \A i \in 1..Len(ui) : ui'[i] = ui[i]
        BY <1>0, <4>1, AppendProperties, LenProperties
      <4>. QED
        BY <4>2
    <3>2. CASE ~Post(c)
      BY <1>3, <3>2 DEF StepOfCall, CallerStep, Resume, Forget, TimeOut, Drop
    <3>. QED
      BY <3>1, <3>2
  <2>6. ASSUME NEW d \in Call, at'[d] \in {"unmade", "posting"}
        PROVE  /\ at[d] \in {"unmade", "posting"} /\ rx'[d] = "empty" /\ about' # d /\ Untold(d)'
               /\ \A i \in DOMAIN ui' : ui'[i] # d
    <3>1. d # c /\ at[d] \in {"unmade", "posting"}
      BY <2>3, <2>6
    <3>2. rx[d] = "empty" /\ about # d /\ Untold(d) /\ \A i \in DOMAIN ui : ui[i] # d
      BY <3>1 DEF CallsInv
    <3>. QED
      BY <2>1, <2>5, <3>1, <3>2 DEF Untold
  <2>. QED
    BY <2>1, <2>2, <2>4, <2>6, <1>1
<1>4. ASSUME NEW c \in Call, TaskStep(c) PROVE CallsInv'
  <2>1. UNCHANGED <<kind, by, ui, about, doer>>
    BY <1>4, TaskStepLeaves DEF publication
  <2>2. task[c] # "none" /\ at[c] \notin {"unmade", "posting"}
    BY <1>4 DEF TaskStep, TaskReplies, Cancelled, CallsInv, Untold
  <2>3. /\ pending' \subseteq pending
        /\ \A d \in Call : d # c => rx'[d] = rx[d] /\ task'[d] = task[d] /\ replier'[d] = replier[d]
    <3>1. CASE TaskReplies(c)
      <4>1. doer[c] \in Hearer /\ Reply(doer[c], c) /\ task' = [task EXCEPT ![c] = "over"]
        BY <2>2, <3>1, RequestsAssumption DEF TaskReplies, DoingInv, TypeOK
      <4>2. Settle(c, "reply") /\ \A d \in Call : d # c => replier'[d] = replier[d]
        BY <4>1, Replying
      <4>. QED
        BY <4>1, <4>2, Settling
    <3>2. CASE Cancelled(c)
      BY <3>2 DEF Cancelled
    <3>. QED
      BY <1>4, <3>1, <3>2 DEF TaskStep
  <2>4. \A d \in Call : at'[d] # at[d] => at[d] \in Open /\ at[d] # "posting" /\ at'[d] = "dropped"
    BY <1>0, <1>4 DEF TaskStep, TaskReplies, Cancelled, calls, AskedBy
  <2>5. Unmade' = Unmade
    BY <2>4 DEF Unmade, Open
  <2>6. ASSUME NEW d \in Call, at'[d] \in {"unmade", "posting"}
        PROVE  /\ at[d] \in {"unmade", "posting"} /\ rx'[d] = "empty" /\ about' # d /\ Untold(d)'
               /\ \A i \in DOMAIN ui' : ui'[i] # d
    <3>1. at[d] = at'[d] /\ d # c
      BY <2>2, <2>4, <2>6
    <3>. QED
      BY <2>1, <2>3, <2>6, <3>1 DEF CallsInv, Untold
  <2>. QED
    BY <2>1, <2>3, <2>5, <2>6, <1>1
<1>5. ASSUME NEW p \in Call \cup {NoCall}, NEW k \in Kind, NEW c \in Call, Ask(p, k, c) PROVE CallsInv'
  <2>1. /\ c \in Unmade /\ Unmade' = Unmade \ {c}
        /\ p < c
        /\ at'[c] = "posting" /\ kind'[c] = k /\ by'[c] = p
        /\ \A d \in Call : d # c => at'[d] = at[d] /\ kind'[d] = kind[d] /\ by'[d] = by[d]
        /\ \A d \in Call : d < c => d \notin Unmade
        /\ pending' = pending \cup {c}
    BY <1>5, Asked
  <2>2. UNCHANGED <<rx, ui, about, doer, task, replier>>
    BY <1>5 DEF Ask, work, publication
  <2>3. \A d, e \in Call : d \in Unmade' /\ e > d => e \in Unmade'
    <3>1. \A d, e \in Call : d < c \/ d = c \/ d > c
      BY <1>0
    <3>. QED
      BY <1>0, <2>1, <3>1 DEF CallsInv
  <2>4. \A d \in Call \ Unmade' : kind'[d] \in Kind
    BY <2>1 DEF CallsInv
  <2>5. \A d \in Unmade' : d \notin pending' /\ by'[d] = NoCall
    BY <2>1 DEF CallsInv, Unmade
  <2>6. \A d \in Call : by'[d] < d
    BY <2>1 DEF CallsInv
  <2>7. \A d \in Call : at'[d] \in {"unmade", "posting"} => at[d] \in {"unmade", "posting"}
    BY <2>1 DEF Unmade
  <2>8. \A d \in Call : at'[d] \in {"unmade", "posting"} =>
          rx'[d] = "empty" /\ about' # d /\ Untold(d)' /\ \A i \in DOMAIN ui' : ui'[i] # d
    BY <2>2, <2>7 DEF CallsInv, Untold
  <2>. QED
    BY <2>3, <2>4, <2>5, <2>6, <2>8 DEF CallsInv
<1>6. ASSUME NEW p \in Call \cup {NoCall}, NEW k \in Kind, Refuse(p, k) PROVE CallsInv'
  <2>1. UNCHANGED <<kind, by, at, rx, ui, about, doer, replier, pending>>
    BY <1>6 DEF Refuse, calls, publication
  <2>2. p \in Call /\ task[p] # "none" /\ \A d \in Call : d # p => task'[d] = task[d]
    BY <1>6 DEF Refuse, Running
  <2>3. at[p] \notin {"unmade", "posting"}
    BY <2>2 DEF CallsInv, Untold
  <2>. QED
    BY <1>1, <2>1, <2>2, <2>3 DEF CallsInv, Unmade, Untold
<1>7. ASSUME UiStep PROVE CallsInv'
  <2>1. UNCHANGED <<at, kind, by>> /\ Unmade' = Unmade
    BY <1>7, UiStepLeaves DEF calls, Unmade
  <2>2. CASE Publish
    <3>1. /\ \A i \in DOMAIN ui' : \E j \in DOMAIN ui : ui'[i] = ui[j]
          /\ about' = ui[1] /\ 1 \in DOMAIN ui
      BY <2>2, NextJob DEF Publish
    <3>2. UNCHANGED <<pending, rx, doer, task, replier>>
      BY <2>2 DEF Publish, work
    <3>. QED
      BY <1>1, <2>1, <3>1, <3>2 DEF CallsInv, Untold
  <2>3. CASE Deny
    <3>1. /\ \A i \in DOMAIN ui' : \E j \in DOMAIN ui : ui'[i] = ui[j]
          /\ Head(ui) = ui[1] /\ 1 \in DOMAIN ui /\ Head(ui) \in Call
      BY <2>3, NextJob DEF Deny
    <3>2. UNCHANGED <<about, doer, task, replier>> /\ Settle(Head(ui), "unanswered")
      BY <2>3 DEF Deny, work, publication
    <3>3. pending' \subseteq pending /\ \A d \in Call : d # Head(ui) => rx'[d] = rx[d]
      BY <3>1, <3>2, Settling
    <3>. QED
      BY <1>1, <2>1, <3>1, <3>2, <3>3 DEF CallsInv, Untold
  <2>4. CASE Published \/ \E h \in Hearer : Deliver(h)
    <3>1. UNCHANGED <<pending, rx, ui, doer, task, replier>> /\ about' \in {about, NoCall}
      BY <2>4 DEF Published, Deliver, work
    <3>. QED
      BY <1>0, <1>1, <2>1, <3>1 DEF CallsInv, Untold
  <2>5. CASE ReplyNow \/ \E style \in Styles : SpawnReply(style)
    <3>1. UNCHANGED <<ui, about>> /\ handling \in Hearer /\ about # NoCall /\ about \in Call
      BY <2>5 DEF ReplyNow, SpawnReply, TellingInv, TypeOK
    <3>2. \A d \in Call : d # about => doer'[d] = doer[d] /\ task'[d] = task[d]
      BY <1>0, <2>5 DEF ReplyNow, SpawnReply, HandOver
    <3>3. pending' \subseteq pending /\ \A d \in Call : d # about => rx'[d] = rx[d] /\ replier'[d] = replier[d]
      <4>1. CASE ReplyNow
        <5>1. Reply(handling, Address(handling)) /\ Address(handling) \in {about, NoCall}
          BY <4>1 DEF ReplyNow, Address
        <5>. QED
          BY <1>0, <3>1, <5>1, Settling, Replying
      <4>2. CASE \E style \in Styles : SpawnReply(style)
        BY <4>2 DEF SpawnReply
      <4>. QED
        BY <2>5, <4>1, <4>2
    <3>. QED
      BY <1>1, <2>1, <3>1, <3>2, <3>3 DEF CallsInv, Untold
  <2>. QED
    BY <1>7, <2>2, <2>3, <2>4, <2>5 DEF UiStep
<1>. QED
  <2>1. \A p \in Call \cup {NoCall}, k \in Kind, c \in Call : StepOfAsking(p, k, c) => CallsInv'
    BY <1>5, <1>6 DEF StepOfAsking
  <2>. QED
    BY <1>2, <1>3, <1>4, <1>7, <2>1, NextSteps
-----------------------------------------------------------------------------
(* The publication of a request. *)

Handled == ReplyNow \/ \E style \in Styles : SpawnReply(style)

\* What the handler that runs does to the call it is told of, and to no other.
LEMMA Handling ==
  ASSUME TypeOK, TellingInv, Handled
  PROVE  /\ about \in Call /\ handling \in Hearer /\ handling' = Nobody
         /\ UNCHANGED <<bus, calls, ui, about, telling, lost>>
         /\ pending' \subseteq pending
         /\ \A d \in Call : d # about => /\ doer'[d] = doer[d] /\ task'[d] = task[d] /\ rx'[d] = rx[d]
                                         /\ replier'[d] = replier[d]
                                         /\ (d \in pending => d \in pending')
         /\ handling \notin Answers => UNCHANGED <<pending, rx, doer, task, replier>>
         /\ handling \in Answers =>
              /\ doer'[about] = handling
              /\ replier'[about] \in {replier[about], handling}
              /\ \/ UNCHANGED <<pending, rx, replier>>
                 \/ /\ UNCHANGED task /\ Settle(about, "reply") /\ about \notin pending'
                    /\ about \in pending => replier'[about] = handling
<1>0. /\ about \in Call \cup {NoCall} /\ Nobody \notin Hearer /\ NoCall \notin Call
      /\ doer \in [Call -> Answers \cup {Nobody}] /\ task \in [Call -> {"none", "task", "bg", "over"}]
      /\ pending \subseteq Call
  BY RequestsAssumption, CallNumbers DEF TypeOK
<1>1. handling # Nobody /\ handling' = Nobody /\ UNCHANGED <<bus, calls, ui, about, telling, lost>>
  BY DEF Handled, ReplyNow, SpawnReply
<1>2. about \in Call /\ handling \in Hearer
  BY <1>0, <1>1 DEF TellingInv, TypeOK
<1>3. doer' = HandOver(handling)
  BY DEF Handled, ReplyNow, SpawnReply
<1>4. /\ \A d \in Call : d # about => doer'[d] = doer[d]
      /\ handling \notin Answers => doer' = doer
      /\ handling \in Answers => doer'[about] = handling
  BY <1>0, <1>2, <1>3 DEF HandOver
<1>5. CASE ReplyNow
  <2>1. UNCHANGED task /\ Reply(handling, Address(handling))
    BY <1>5 DEF ReplyNow
  <2>2. CASE handling \in Answers
    <3>1. Reply(handling, about)
      BY <2>1, <2>2 DEF Address
    <3>2. /\ Settle(about, "reply")
          /\ \A d \in Call : d # about => replier'[d] = replier[d]
          /\ \A d \in Call : replier'[d] = replier[d] \/ (d = about /\ replier'[d] = handling)
          /\ about \in pending => replier'[about] = handling
      BY <1>2, <3>1, Replying
    <3>3. pending' = pending \ {about} /\ \A d \in Call : d # about => rx'[d] = rx[d]
      BY <1>2, <3>2, Settling
    <3>. QED
      BY <1>1, <1>2, <1>4, <2>1, <2>2, <3>2, <3>3
  <2>3. CASE handling \notin Answers
    <3>1. Reply(handling, NoCall)
      BY <2>1, <2>3 DEF Address
    <3>2. UNCHANGED <<pending, rx, replier>>
      BY <1>0, <3>1 DEF Reply, Settle
    <3>. QED
      BY <1>1, <1>2, <1>4, <2>1, <2>3, <3>2
  <2>. QED
    BY <2>2, <2>3
<1>6. ASSUME NEW style \in Styles, SpawnReply(style)
      PROVE  /\ UNCHANGED <<pending, rx, replier>>
             /\ \A d \in Call : d # about => task'[d] = task[d]
             /\ handling \notin Answers => task' = task
  BY <1>0, <1>2, <1>6 DEF SpawnReply
<1>. QED
  BY <1>1, <1>2, <1>4, <1>5, <1>6 DEF Handled

LEMMA KeepsTelling ==
  ASSUME TypeOK, BusInv, CallsInv, TellingInv, DoingInv, Next
  PROVE  TellingInv'
<1>0. /\ about \in Call \cup {NoCall} /\ Nobody \notin Hearer /\ NoCall \notin Call /\ ui \in Seq(Call)
      /\ telling \subseteq Hearer /\ listed \subseteq Hearer /\ task \in [Call -> {"none", "task", "bg", "over"}]
      /\ \A i \in DOMAIN ui : ui[i] \in Call
  BY RequestsAssumption, CallNumbers DEF TypeOK
<1>1. ASSUME NEW h \in Hearer, StepOfBus(h) PROVE TellingInv'
  BY <1>1, BusStepLeaves DEF TellingInv, Due, Untold, publication, work, calls
<1>2. ASSUME NEW c \in Call, StepOfCall(c) PROVE TellingInv'
  <2>1. UNCHANGED <<kind, publication, work, replier>>
    BY <1>2, CallStepLeaves
  <2>2. CASE Post(c)
    <3>1. at[c] = "posting" /\ ui' = Append(ui, c)
      BY <2>2 DEF Post
    <3>2. /\ Len(ui) \in Nat /\ DOMAIN ui = 1..Len(ui) /\ DOMAIN ui' = 1..(Len(ui) + 1)
          /\ ui'[Len(ui) + 1] = c /\ \A i \in 1..Len(ui) : ui'[i] = ui[i]
      BY <1>0, <3>1, AppendProperties, LenProperties
    <3>3. about # c /\ Untold(c) /\ \A i \in DOMAIN ui : ui[i] # c
      BY <3>1 DEF CallsInv
    <3>4. DOMAIN ui' = DOMAIN ui \cup {Len(ui) + 1} /\ Len(ui) + 1 \notin DOMAIN ui
      BY <3>2
    <3>5. \A i, j \in DOMAIN ui' : ui'[i] = ui'[j] => i = j
      BY <3>2, <3>3, <3>4 DEF TellingInv
    <3>6. \A i \in DOMAIN ui' : ui'[i] # about /\ Untold(ui'[i])
      BY <3>2, <3>3, <3>4 DEF TellingInv
    <3>. QED
      BY <2>1, <3>5, <3>6 DEF TellingInv, Due, Untold, publication, work
  <2>3. CASE ~Post(c)
    <3>1. ui' = ui
      BY <1>2, <2>3 DEF StepOfCall, CallerStep, Resume, Forget, TimeOut, Drop
    <3>. QED
      BY <2>1, <3>1 DEF TellingInv, Due, Untold, publication, work
  <2>. QED
    BY <2>2, <2>3
\* A task that replies or ends has been handed its call before.
<1>3. ASSUME NEW c \in Call, UNCHANGED <<kind, ui, publication, doer>>, task[c] # "none",
             \A d \in Call : d # c => task'[d] = task[d] /\ replier'[d] = replier[d]
      PROVE  TellingInv'
  <2>1. doer[c] # Nobody
    BY <1>3 DEF DoingInv
  <2>2. \A d \in Call : Untold(d)' <=> Untold(d)
    BY <1>3, <2>1 DEF Untold
  <2>. QED
    BY <1>0, <1>3, <2>2 DEF TellingInv, Due, publication
<1>4. ASSUME NEW c \in Call, TaskStep(c) PROVE TellingInv'
  <2>1. UNCHANGED <<kind, ui, publication, doer>> /\ task[c] # "none"
    BY <1>4, TaskStepLeaves DEF TaskStep, TaskReplies, Cancelled
  <2>2. CASE TaskReplies(c)
    <3>1. doer[c] \in Hearer /\ Reply(doer[c], c) /\ task' = [task EXCEPT ![c] = "over"]
      BY <2>1, <2>2, RequestsAssumption DEF TaskReplies, DoingInv, TypeOK
    <3>. QED
      BY <1>0, <1>3, <2>1, <3>1, Replying
  <2>3. CASE Cancelled(c)
    BY <1>0, <1>3, <2>1, <2>3 DEF Cancelled
  <2>. QED
    BY <1>4, <2>2, <2>3 DEF TaskStep
<1>5. ASSUME NEW p \in Call \cup {NoCall}, NEW k \in Kind, NEW c \in Call, Ask(p, k, c) PROVE TellingInv'
  <2>1. c \in Unmade /\ \A d \in Call : d # c => kind'[d] = kind[d]
    BY <1>5, Asked
  <2>2. about # c
    BY <2>1 DEF CallsInv, Unmade
  <2>3. UNCHANGED <<ui, publication, work, replier>>
    BY <1>5 DEF Ask
  <2>. QED
    BY <1>0, <2>1, <2>2, <2>3 DEF TellingInv, Due, Untold, publication, work
<1>6. ASSUME NEW p \in Call \cup {NoCall}, NEW k \in Kind, Refuse(p, k) PROVE TellingInv'
  <2>1. p \in Call /\ task[p] # "none" /\ task' = [task EXCEPT ![p] = "over"]
    BY <1>6 DEF Refuse, Running
  <2>2. UNCHANGED <<kind, ui, publication, doer, replier>>
    BY <1>6 DEF Refuse, calls
  <2>. QED
    BY <1>0, <1>3, <2>1, <2>2
\* What is left in the queue keeps its shape.
<1>7. ASSUME ui # <<>>, ui' = Tail(ui)
      PROVE  /\ \A i, j \in DOMAIN ui' : ui'[i] = ui'[j] => i = j
             /\ \A i \in DOMAIN ui' : ui'[i] # ui[1] /\ ui'[i] # about /\ Untold(ui'[i]) /\ ui'[i] \in Call
  <2>1. /\ \A i \in DOMAIN ui' : i + 1 \in DOMAIN ui /\ i + 1 # 1 /\ ui'[i] = ui[i + 1] /\ i \in Nat
        /\ 1 \in DOMAIN ui
    BY <1>7, NextJob
  <2>2. ASSUME NEW i \in DOMAIN ui', NEW j \in DOMAIN ui', ui'[i] = ui'[j] PROVE i = j
    <3>1. i + 1 = j + 1 /\ i \in Nat /\ j \in Nat
      BY <2>1, <2>2 DEF TellingInv
    <3>. QED
      BY <3>1
  <2>3. ASSUME NEW i \in DOMAIN ui' PROVE ui'[i] # ui[1] /\ ui'[i] # about /\ Untold(ui'[i]) /\ ui'[i] \in Call
    <3>1. i + 1 \in DOMAIN ui /\ i + 1 # 1 /\ ui'[i] = ui[i + 1] /\ 1 \in DOMAIN ui
      BY <2>1
    <3>. QED
      BY <1>0, <3>1 DEF TellingInv
  <2>. QED
    BY <2>2, <2>3
<1>8. CASE Deny
  <2>1. ui # <<>> /\ ui' = Tail(ui) /\ UNCHANGED <<publication, work, replier, kind>>
    BY <1>8 DEF Deny, calls
  <2>. QED
    BY <1>7, <2>1 DEF TellingInv, Due, Untold, publication, work
<1>9. CASE Publish
  <2>1. /\ ui # <<>> /\ ui' = Tail(ui) /\ about = NoCall
        /\ UNCHANGED <<handling, work, replier, kind>>
    BY <1>9 DEF Publish, calls
  <2>2. about' = ui[1] /\ Head(ui) = ui[1] /\ about' \in Call /\ Untold(about') /\ 1 \in DOMAIN ui
    BY <1>9, <2>1, NextJob DEF Publish, TellingInv
  <2>3. telling' = {h \in listed : Hears[h] = kind[about']} /\ handling = Nobody /\ kind[about'] \in Kind
    <3>1. at[about'] # "unmade"
      BY <2>2 DEF CallsInv
    <3>. QED
      BY <1>9, <2>1, <2>2, <3>1 DEF Publish, TellingInv, CallsInv, Unmade
  <2>4. Due' = {h \in listed : Hears[h] = kind[about']}
    BY <1>0, <2>1, <2>3 DEF Due
  <2>5. \A h, g \in Due' \cap Answers : h = g
    BY <2>3, <2>4 DEF BusInv
  <2>6. \A i \in DOMAIN ui' : ui'[i] # about' /\ Untold(ui'[i])
    BY <1>7, <2>1, <2>2
  <2>7. \A d \in Call : Untold(d)' <=> Untold(d)
    BY <2>1 DEF Untold, work
  <2>8. \A i, j \in DOMAIN ui' : ui'[i] = ui'[j] => i = j
    BY <1>7, <2>1
  <2>9. \A i \in DOMAIN ui' : ui'[i] \in Call
    BY <1>7, <2>1
  <2>10. handling' \notin telling'
    BY <1>0, <2>1, <2>3
  <2>. QED
    BY <1>0, <2>1, <2>2, <2>3, <2>4, <2>5, <2>6, <2>7, <2>8, <2>9, <2>10 DEF TellingInv
<1>10. CASE Published
  <2>1. UNCHANGED <<kind, ui, telling, handling, work, replier>> /\ about' = NoCall /\ telling = {} /\ handling = Nobody
    BY <1>10 DEF Published, calls
  <2>. QED
    BY <1>0, <2>1 DEF TellingInv, Due, Untold, work
<1>11. ASSUME NEW h \in Hearer, Deliver(h) PROVE TellingInv'
  <2>1. /\ UNCHANGED <<kind, ui, about, work, replier>> /\ h \in telling /\ telling' = telling \ {h}
        /\ handling' \in {Nobody, h} /\ about # NoCall
    BY <1>11 DEF Deliver, NextTold, calls
  <2>2. Due' \subseteq Due /\ handling' \notin telling'
    BY <1>0, <2>1 DEF Due
  <2>. QED
    BY <1>0, <2>1, <2>2 DEF TellingInv, Untold, work
<1>12. CASE Handled
  <2>1. /\ about \in Call /\ handling \in Hearer /\ handling' = Nobody
        /\ UNCHANGED <<kind, ui, about, telling>>
        /\ \A d \in Call : d # about => doer'[d] = doer[d] /\ task'[d] = task[d] /\ replier'[d] = replier[d]
        /\ handling \notin Answers => UNCHANGED <<doer, task, replier>>
    BY <1>12, Handling DEF calls
  <2>2. Due' = telling /\ telling \subseteq Due /\ handling \in Due
    BY <1>0, <2>1 DEF Due
  <2>3. ~Untold(about)' => Due' \cap Answers = {}
    <3>1. CASE handling \in Answers
      BY <2>2, <3>1 DEF TellingInv
    <3>2. CASE handling \notin Answers
      BY <1>0, <2>1, <2>2, <3>2 DEF TellingInv, Untold
    <3>. QED
      BY <3>1, <3>2
  <2>4. \A i \in DOMAIN ui : Untold(ui[i])'
    BY <1>0, <2>1 DEF TellingInv, Untold
  <2>5. \A h, g \in Due' \cap Answers : h = g
    BY <2>2 DEF TellingInv
  <2>6. about' # NoCall => \A h \in Due' : Hears[h] = kind'[about']
    BY <2>1, <2>2 DEF TellingInv
  <2>7. handling' \notin telling'
    BY <1>0, <2>1
  <2>. QED
    BY <1>0, <2>1, <2>3, <2>4, <2>5, <2>6, <2>7 DEF TellingInv
<1>. QED
  <2>1. \A p \in Call \cup {NoCall}, k \in Kind, c \in Call : StepOfAsking(p, k, c) => TellingInv'
    BY <1>5, <1>6 DEF StepOfAsking
  <2>2. UiStep => TellingInv'
    BY <1>8, <1>9, <1>10, <1>11, <1>12 DEF UiStep, Handled
  <2>. QED
    BY <1>1, <1>2, <1>4, <2>1, <2>2, NextSteps
-----------------------------------------------------------------------------
(* Who was handed a call, and what was sent. *)

\* The task that replies to c sends what it has to the caller of c.
LEMMA TaskReplying ==
  ASSUME TypeOK, DoingInv, NEW c \in Call, TaskReplies(c)
  PROVE  /\ task[c] # "none" /\ doer[c] # Nobody /\ doer[c] \in Hearer /\ Settle(c, "reply")
         /\ UNCHANGED <<bus, calls, ui, publication, doer, lost>>
         /\ task' = [task EXCEPT ![c] = "over"]
         /\ \A d \in Call : d # c => replier'[d] = replier[d]
         /\ replier'[c] \in {replier[c], doer[c]}
         /\ c \in pending => replier'[c] = doer[c]
<1>1. task[c] # "none" /\ Reply(doer[c], c) /\ task' = [task EXCEPT ![c] = "over"]
  BY DEF TaskReplies
<1>2. doer[c] # Nobody /\ doer[c] \in Hearer
  BY <1>1, RequestsAssumption DEF DoingInv, TypeOK
<1>3. UNCHANGED <<bus, calls, ui, publication, doer, lost>>
  BY DEF TaskReplies
<1>. QED
  BY <1>1, <1>2, <1>3, Replying

LEMMA KeepsDoing ==
  ASSUME TypeOK, CallsInv, TellingInv, DoingInv, Next
  PROVE  DoingInv'
<1>0. Nobody \notin Hearer /\ NoCall \notin Call /\ task \in [Call -> {"none", "task", "bg", "over"}]
  BY RequestsAssumption, CallNumbers DEF TypeOK
<1>1. ASSUME UNCHANGED <<kind, doer, replier>>, \A c \in Call : task'[c] # "none" => task[c] # "none"
      PROVE  DoingInv'
  BY <1>1 DEF DoingInv
<1>2. ASSUME NEW h \in Hearer, StepOfBus(h) PROVE DoingInv'
  BY <1>1, <1>2, BusStepLeaves DEF calls, work
<1>3. ASSUME NEW c \in Call, StepOfCall(c) PROVE DoingInv'
  BY <1>1, <1>3, CallStepLeaves DEF work
<1>4. ASSUME NEW c \in Call, TaskReplies(c) PROVE DoingInv'
  BY <1>0, <1>4, TaskReplying DEF DoingInv, calls
<1>5. ASSUME NEW c \in Call, Cancelled(c) PROVE DoingInv'
  BY <1>0, <1>1, <1>5 DEF Cancelled
<1>6. ASSUME NEW p \in Call \cup {NoCall}, NEW k \in Kind, NEW c \in Call, Ask(p, k, c) PROVE DoingInv'
  <2>1. c \in Unmade /\ \A d \in Call : d # c => kind'[d] = kind[d]
    BY <1>6, Asked
  <2>2. doer[c] = Nobody /\ UNCHANGED <<work, replier>>
    BY <1>6, <2>1 DEF Ask, CallsInv, Unmade, Untold
  <2>. QED
    BY <2>1, <2>2 DEF DoingInv, work
<1>7. ASSUME NEW p \in Call \cup {NoCall}, NEW k \in Kind, Refuse(p, k) PROVE DoingInv'
  BY <1>0, <1>1, <1>7 DEF Refuse, Running, calls
<1>8. CASE Handled
  <2>1. /\ about \in Call /\ handling \in Hearer /\ UNCHANGED kind
        /\ \A d \in Call : d # about => doer'[d] = doer[d] /\ task'[d] = task[d] /\ replier'[d] = replier[d]
        /\ handling \notin Answers => UNCHANGED <<doer, task, replier>>
        /\ handling \in Answers => doer'[about] = handling /\ replier'[about] \in {replier[about], handling}
    BY <1>8, Handling DEF calls
  <2>2. CASE handling \in Answers
    <3>1. handling \in Due
      BY <2>1 DEF Due
    <3>2. Hears[handling] = kind[about] /\ replier[about] = Nobody
      BY <1>0, <2>1, <2>2, <3>1 DEF TellingInv, Untold
    <3>. QED
      BY <1>0, <2>1, <2>2, <3>2 DEF DoingInv
  <2>3. CASE handling \notin Answers
    BY <2>1, <2>3 DEF DoingInv
  <2>. QED
    BY <2>2, <2>3
<1>9. CASE Deny \/ Publish \/ Published \/ \E h \in Hearer : Deliver(h)
  BY <1>1, <1>9 DEF Deny, Publish, Published, Deliver, calls, work
<1>. QED
  <2>1. \A p \in Call \cup {NoCall}, k \in Kind, c \in Call : StepOfAsking(p, k, c) => DoingInv'
    BY <1>6, <1>7 DEF StepOfAsking
  <2>2. UiStep => DoingInv'
    BY <1>8, <1>9 DEF UiStep, Handled
  <2>3. \A c \in Call : TaskStep(c) => DoingInv'
    BY <1>4, <1>5 DEF TaskStep
  <2>. QED
    BY <1>2, <1>3, <2>1, <2>2, <2>3, NextSteps

\* What goes with a settled call: its place in PENDING_REQUESTS, and with a
\* reply its author.
LEMMA SettlingKeepsSent ==
  ASSUME TypeOK, SentInv, PendingIsAwaited, NEW c \in Call, at[c] # "posting",
         NEW what \in {"reply", "unanswered"}, Settle(c, what), UNCHANGED at,
         \A d \in Call : replier[d] # Nobody => replier'[d] # Nobody,
         what = "reply" /\ c \in pending => replier'[c] # Nobody
  PROVE  SentInv' /\ PendingIsAwaited'
<1>1. /\ pending' = pending \ {c}
      /\ \A d \in Call : rx'[d] = rx[d] \/ (d = c /\ rx'[d] = what /\ c \in pending /\ at[c] = "waiting")
      /\ c \in pending /\ at[c] = "waiting" => rx'[c] = what
  BY Settling
<1>2. SentInv'
  BY <1>1 DEF SentInv
<1>3. PendingIsAwaited'
  BY <1>1 DEF PendingIsAwaited, SentInv
<1>. QED
  BY <1>2, <1>3

LEMMA KeepsSent ==
  ASSUME TypeOK, CallsInv, TellingInv, DoingInv, SentInv, PendingIsAwaited, Next
  PROVE  SentInv' /\ PendingIsAwaited'
<1>0. /\ Nobody \notin Hearer /\ NoCall \notin Call /\ at \in [Call -> {"unmade"} \cup Open \cup Over]
      /\ rx \in [Call -> {"empty", "reply", "unanswered"}] /\ pending \subseteq Call
  BY RequestsAssumption, CallNumbers DEF TypeOK
<1>1. UNCHANGED <<at, rx, pending, replier>> => SentInv' /\ PendingIsAwaited'
  BY DEF SentInv, PendingIsAwaited
<1>2. ASSUME NEW h \in Hearer, StepOfBus(h) PROVE UNCHANGED <<at, rx, pending, replier>>
  BY <1>2, BusStepLeaves DEF calls
<1>3. ASSUME NEW c \in Call, StepOfCall(c) PROVE SentInv' /\ PendingIsAwaited'
  <2>1. UNCHANGED <<rx, replier>>
    BY <1>3, CallStepLeaves
  <2>2. \A d \in Call : d # c => at'[d] = at[d] /\ (d \in pending' <=> d \in pending)
    BY <1>0, <1>3 DEF StepOfCall, CallerStep, Post, Resume, Forget, TimeOut, Drop
  <2>3. \/ at[c] = "posting" /\ at'[c] = "waiting" /\ pending' = pending
        \/ at[c] = "waiting" /\ rx[c] = "reply" /\ at'[c] = "replied" /\ pending' = pending
        \/ at[c] = "waiting" /\ rx[c] = "unanswered" /\ at'[c] = "unanswered" /\ pending' = pending
        \/ at[c] = "waiting" /\ rx[c] = "empty" /\ at'[c] = "forgetting" /\ pending' = pending
        \/ at[c] = "waiting" /\ at'[c] = "dropped" /\ pending' = pending
        \/ at[c] = "forgetting" /\ at'[c] = "timedout" /\ pending' = pending \ {c}
    BY <1>0, <1>3 DEF StepOfCall, CallerStep, Post, Resume, Forget, TimeOut, Drop
  <2>4. SentInv'
    BY <2>1, <2>2, <2>3 DEF SentInv
  <2>5. PendingIsAwaited'
    BY <1>0, <2>1, <2>2, <2>3 DEF PendingIsAwaited, SentInv, Open
  <2>. QED
    BY <2>4, <2>5
<1>4. ASSUME NEW c \in Call, TaskReplies(c) PROVE SentInv' /\ PendingIsAwaited'
  <2>1. /\ task[c] # "none" /\ doer[c] # Nobody /\ Settle(c, "reply") /\ UNCHANGED at
        /\ \A d \in Call : d # c => replier'[d] = replier[d]
        /\ replier'[c] \in {replier[c], doer[c]}
        /\ c \in pending => replier'[c] = doer[c]
    BY <1>4, TaskReplying DEF calls
  <2>2. at[c] # "posting"
    BY <2>1 DEF CallsInv, Untold
  <2>3. \A d \in Call : replier[d] # Nobody => replier'[d] # Nobody
    BY <2>1
  <2>. QED
    BY <2>1, <2>2, <2>3, SettlingKeepsSent
<1>5. ASSUME NEW c \in Call, Cancelled(c) PROVE SentInv' /\ PendingIsAwaited'
  <2>1. UNCHANGED <<rx, replier, pending>>
    BY <1>5 DEF Cancelled
  <2>2. \A d \in Call : at'[d] = at[d] \/ (at[d] = "waiting" /\ at'[d] = "dropped")
    BY <1>5 DEF Cancelled
  <2>. QED
    BY <1>0, <2>1, <2>2 DEF SentInv, PendingIsAwaited, Open
<1>6. ASSUME NEW p \in Call \cup {NoCall}, NEW k \in Kind, NEW c \in Call, Ask(p, k, c)
      PROVE  SentInv' /\ PendingIsAwaited'
  <2>1. /\ c \in Unmade /\ at'[c] = "posting" /\ pending' = pending \cup {c}
        /\ \A d \in Call : d # c => at'[d] = at[d]
    BY <1>6, Asked
  <2>2. rx[c] = "empty" /\ UNCHANGED <<rx, replier>>
    BY <1>6, <2>1 DEF Ask, CallsInv, Unmade
  <2>. QED
    BY <1>0, <2>1, <2>2 DEF SentInv, PendingIsAwaited, Open
<1>7. ASSUME NEW p \in Call \cup {NoCall}, NEW k \in Kind, Refuse(p, k)
      PROVE  UNCHANGED <<at, rx, pending, replier>>
  BY <1>7 DEF Refuse, calls
<1>8. CASE Handled
  <2>1. /\ about \in Call /\ handling \in Hearer /\ UNCHANGED at
        /\ \A d \in Call : d # about => replier'[d] = replier[d]
        /\ handling \notin Answers => UNCHANGED <<pending, rx, replier>>
        /\ handling \in Answers =>
             /\ replier'[about] \in {replier[about], handling}
             /\ \/ UNCHANGED <<pending, rx, replier>>
                \/ Settle(about, "reply") /\ (about \in pending => replier'[about] = handling)
    BY <1>8, Handling DEF calls
  <2>2. CASE UNCHANGED <<pending, rx, replier>>
    BY <1>1, <2>1, <2>2
  <2>3. CASE /\ handling \in Answers /\ Settle(about, "reply")
             /\ about \in pending => replier'[about] = handling
    <3>1. at[about] # "posting"
      BY <2>1 DEF CallsInv
    <3>2. \A d \in Call : replier[d] # Nobody => replier'[d] # Nobody
      BY <1>0, <2>1, <2>3
    <3>. QED
      BY <1>0, <2>1, <2>3, <3>1, <3>2, SettlingKeepsSent
  <2>. QED
    BY <2>1, <2>2, <2>3
<1>9. CASE Deny
  <2>1. Head(ui) \in Call /\ Head(ui) = ui[1] /\ 1 \in DOMAIN ui /\ Settle(Head(ui), "unanswered")
    BY <1>9, NextJob DEF Deny
  <2>2. at[Head(ui)] # "posting" /\ UNCHANGED <<at, replier>>
    BY <1>9, <2>1 DEF CallsInv, Deny, calls
  <2>. QED
    BY <2>1, <2>2, SettlingKeepsSent
<1>10. CASE Publish \/ Published \/ \E h \in Hearer : Deliver(h)
  BY <1>1, <1>10 DEF Publish, Published, Deliver, calls
<1>. QED
  <2>1. \A p \in Call \cup {NoCall}, k \in Kind, c \in Call : StepOfAsking(p, k, c) => SentInv' /\ PendingIsAwaited'
    BY <1>1, <1>6, <1>7 DEF StepOfAsking
  <2>2. UiStep => SentInv' /\ PendingIsAwaited'
    BY <1>8, <1>9, <1>10 DEF UiStep, Handled
  <2>3. \A c \in Call : TaskStep(c) => SentInv' /\ PendingIsAwaited'
    BY <1>4, <1>5 DEF TaskStep
  <2>. QED
    BY <1>1, <1>2, <1>3, <2>1, <2>2, <2>3, NextSteps
-----------------------------------------------------------------------------
(* The chains of requests. *)

\* What a step that makes no call does to those there are.
LEMMA NobodyAsks ==
  ASSUME TypeOK, CallsInv, TellingInv, DoingInv, AwaitInv, ChainInv, UNCHANGED <<kind, by, chain>>,
         Unmade' = Unmade,
         \A c \in Call : at'[c] \in Open => at[c] \in Open,
         \A c \in Call : task[c] # "none" => task'[c] # "none",
         \A c \in Call : task[c] # "none" /\ task'[c] = "task" => task[c] = "task"
  PROVE  AwaitInv' /\ ChainInv'
<1>0. by \in [Call -> Call \cup {NoCall}]
  BY DEF TypeOK
<1>1. AwaitInv'
  BY <1>0 DEF AwaitInv
<1>2. ChainInv'
  BY <1>0 DEF ChainInv, AwaitInv
<1>. QED
  BY <1>1, <1>2

LEMMA KeepsChains ==
  ASSUME TypeOK, CallsInv, TellingInv, DoingInv, AwaitInv, ChainInv, Next
  PROVE  AwaitInv' /\ ChainInv'
<1>0. /\ Nobody \notin Hearer /\ NoCall \notin Call /\ at \in [Call -> {"unmade"} \cup Open \cup Over]
      /\ task \in [Call -> {"none", "task", "bg", "over"}] /\ by \in [Call -> Call \cup {NoCall}]
      /\ \A c \in Call : c \in Nat
  BY RequestsAssumption, CallNumbers DEF TypeOK
<1>1. UNCHANGED <<calls, task>> => AwaitInv' /\ ChainInv'
  BY NobodyAsks DEF calls, Unmade
<1>2. ASSUME NEW h \in Hearer, StepOfBus(h) PROVE UNCHANGED <<calls, task>>
  BY <1>2, BusStepLeaves DEF work
<1>3. ASSUME NEW c \in Call, StepOfCall(c) PROVE AwaitInv' /\ ChainInv'
  <2>1. UNCHANGED <<kind, by, chain, task>>
    BY <1>3, CallStepLeaves DEF work
  <2>2. \A d \in Call : at'[d] = at[d] \/ (at[d] \in Open /\ at'[d] # "unmade")
    BY <1>0, <1>3 DEF StepOfCall, CallerStep, Post, Resume, Forget, TimeOut, Drop, Open
  <2>3. Unmade' = Unmade
    BY <2>2 DEF Unmade, Open
  <2>. QED
    BY <2>1, <2>2, <2>3, NobodyAsks
<1>4. ASSUME NEW c \in Call, TaskStep(c) PROVE AwaitInv' /\ ChainInv'
  <2>1. UNCHANGED <<kind, by, chain>>
    BY <1>4, TaskStepLeaves
  <2>2. task' = [task EXCEPT ![c] = "over"]
    BY <1>4 DEF TaskStep, TaskReplies, Cancelled
  <2>3. \A d \in Call : at'[d] = at[d] \/ (at[d] = "waiting" /\ at'[d] = "dropped")
    BY <1>4 DEF TaskStep, TaskReplies, Cancelled, calls
  <2>4. Unmade' = Unmade
    BY <2>3 DEF Unmade
  <2>5. \A d \in Call : at'[d] \in Open => at[d] \in Open
    BY <2>3 DEF Open
  <2>6. \A d \in Call : (task[d] # "none" => task'[d] # "none") /\ (task'[d] = "task" => task[d] = "task")
    BY <1>0, <2>2
  <2>. QED
    BY <2>1, <2>4, <2>5, <2>6, NobodyAsks
<1>5. ASSUME NEW p \in Call \cup {NoCall}, NEW k \in Kind, Refuse(p, k) PROVE AwaitInv' /\ ChainInv'
  <2>1. UNCHANGED calls /\ task' = [task EXCEPT ![p] = "over"] /\ p \in Call
    BY <1>5 DEF Refuse
  <2>2. \A d \in Call : (task[d] # "none" => task'[d] # "none") /\ (task'[d] = "task" => task[d] = "task")
    BY <1>0, <2>1
  <2>. QED
    BY <2>1, <2>2, NobodyAsks DEF calls, Unmade
<1>6. CASE Handled
  <2>1. /\ about \in Call /\ handling \in Hearer /\ UNCHANGED calls
        /\ \A d \in Call : d # about => task'[d] = task[d]
        /\ handling \notin Answers => UNCHANGED task
    BY <1>6, Handling
  <2>2. handling \in Answers => task[about] = "none"
    BY <1>0, <2>1 DEF TellingInv, Due, Untold
  <2>3. \A d \in Call : task[d] # "none" => task'[d] = task[d]
    BY <2>1, <2>2
  <2>. QED
    BY <2>1, <2>3, NobodyAsks DEF calls, Unmade
<1>7. ASSUME NEW p \in Call \cup {NoCall}, NEW k \in Kind, NEW c \in Call, Ask(p, k, c)
      PROVE  AwaitInv' /\ ChainInv'
  <2>1. /\ c \in Unmade /\ Unmade' = Unmade \ {c} /\ p < c
        /\ kind'[c] = k /\ by'[c] = p /\ chain'[c] = ChainOf(p) \cup {k}
        /\ \A d \in Call : d # c =>
             at'[d] = at[d] /\ kind'[d] = kind[d] /\ by'[d] = by[d] /\ chain'[d] = chain[d]
    BY <1>7, Asked
  <2>2. k \notin ChainOf(p) /\ Running(p) /\ UNCHANGED task
    BY <1>7 DEF Ask, work
  <2>3. \A d \in Call : by[d] # c
    <3>1. \A d \in Call : by[d] = c => d > c
      BY <1>0 DEF CallsInv
    <3>2. \A d \in Call : d > c => by[d] = NoCall
      BY <2>1 DEF CallsInv
    <3>. QED
      BY <1>0, <3>1, <3>2
  <2>4. AwaitInv'
    <3>1. \A d \in Call : by'[d] # NoCall => task[by'[d]] # "none"
      BY <2>1, <2>2 DEF AwaitInv, Running
    <3>2. p # NoCall => \A d \in Call : by[d] = p => at[d] \notin Open
      BY <2>2 DEF Running, AskedBy
    <3>3. \A d, e \in Call : by'[d] = by'[e] /\ by'[d] # NoCall /\ at'[d] \in Open /\ at'[e] \in Open => d = e
      BY <2>1, <3>2 DEF AwaitInv
    <3>. QED
      BY <2>2, <3>1, <3>3 DEF AwaitInv
  <2>5. ChainInv'
    <3>1. \A d \in Call \ Unmade' : kind'[d] \in chain'[d]
      BY <2>1 DEF ChainInv
    <3>2. \A d \in Call : by'[d] # c
      BY <2>1, <2>3, <1>0
    <3>3. \A d \in Call : by'[d] # NoCall => by'[d] \in Call /\ chain'[by'[d]] = chain[by'[d]]
      BY <1>0, <2>1, <3>2
    <3>4. p # NoCall /\ task[p] = "task" => chain[p] \subseteq chain'[c] /\ kind'[c] \notin chain[p]
      BY <2>1, <2>2 DEF ChainOf
    <3>5. \A d \in Call : by'[d] # NoCall /\ task[by'[d]] = "task" =>
            chain[by'[d]] \subseteq chain'[d] /\ kind'[d] \notin chain[by'[d]]
      BY <2>1, <3>4 DEF ChainInv
    <3>. QED
      BY <2>2, <3>1, <3>3, <3>5 DEF ChainInv
  <2>. QED
    BY <2>4, <2>5
<1>8. CASE Deny \/ Publish \/ Published \/ \E h \in Hearer : Deliver(h)
  BY <1>1, <1>8 DEF Deny, Publish, Published, Deliver, work
<1>. QED
  <2>1. \A p \in Call \cup {NoCall}, k \in Kind, c \in Call : StepOfAsking(p, k, c) => AwaitInv' /\ ChainInv'
    BY <1>5, <1>7 DEF StepOfAsking
  <2>2. UiStep => AwaitInv' /\ ChainInv'
    BY <1>6, <1>8 DEF UiStep, Handled
  <2>. QED
    BY <1>1, <1>2, <1>3, <1>4, <2>1, <2>2, NextSteps

-----------------------------------------------------------------------------
(* The invariant. *)

LEMMA InitInv == Init => RequestsInv
<1> SUFFICES ASSUME Init PROVE RequestsInv
  OBVIOUS
<1>1. TypeOK
  BY InitTypes
<1>2. BusInv
  BY RequestsAssumption DEF Init, BusInv
<1>3. CallsInv
  <2>1. \A c \in Call : c > 0 /\ about # c
    BY CallNumbers DEF Init, NoCall
  <2>2. DOMAIN ui = {}
    BY DEF Init
  <2>. QED
    BY <2>1, <2>2 DEF Init, CallsInv, Unmade, Untold, NoCall
<1>4. TellingInv
  <2>1. DOMAIN ui = {} /\ Due = {}
    BY RequestsAssumption DEF Init, Due
  <2>. QED
    BY <2>1 DEF Init, TellingInv
<1>5. DoingInv /\ SentInv /\ AwaitInv /\ ChainInv /\ PendingIsAwaited
  BY DEF Init, DoingInv, SentInv, AwaitInv, ChainInv, PendingIsAwaited, Unmade, Open
<1>. QED
  BY <1>1, <1>2, <1>3, <1>4, <1>5 DEF RequestsInv

LEMMA NextKeepsTypes == TypeOK /\ DoingInv /\ Next => TypeOK'
BY NextSteps, BusStepTypes, CallerStepTypes, TaskStepTypes, AskingTypes, UiStepTypes
   DEF StepOfBus, StepOfCall, StepOfAsking

LEMMA NextKeepsInv == RequestsInv /\ [Next]_vars => RequestsInv'
<1> SUFFICES ASSUME RequestsInv, [Next]_vars PROVE RequestsInv'
  OBVIOUS
<1>1. CASE Next
  BY <1>1, NextKeepsTypes, KeepsBus, KeepsCalls, KeepsTelling, KeepsDoing, KeepsSent, KeepsChains DEF RequestsInv
<1>2. CASE UNCHANGED vars
  BY <1>2 DEF vars, bus, calls, publication, work, RequestsInv, TypeOK, BusInv, CallsInv, Unmade, Untold,
     TellingInv, Due, DoingInv, SentInv, AwaitInv, ChainInv, PendingIsAwaited
<1>. QED
  BY <1>1, <1>2

LEMMA InvHolds == Spec => []RequestsInv
BY InitInv, NextKeepsInv, PTL DEF Spec

\* The state of the bus, of calls and of their tasks keeps its types.
THEOREM RequestsTypeCorrect == Spec => []TypeOK
<1>1. RequestsInv => TypeOK
  BY DEF RequestsInv
<1>. QED
  BY <1>1, InvHolds, PTL

\* However replies, timers and changes of who listens meet, a caller that waits
\* can be answered, and only by the one that answers.
THEOREM RepliesTakeOneWay == Spec => []RepliesHaveOneWay
<1>1. RequestsInv => RepliesHaveOneWay
  BY DEF RequestsInv, RepliesHaveOneWay, OnlyTheAnswererAnswers, DoingInv, SentInv
<1>. QED
  BY <1>1, InvHolds, PTL
-----------------------------------------------------------------------------
(* Nobody waits for itself. *)

LEMMA Least ==
  ASSUME NEW S, S \subseteq Nat, S # {}
  PROVE  \E n \in S : \A m \in S : n <= m
<1>1. PICK n \in S : \A m \in S : <<m, n>> \notin OpToRel(<, Nat)
  BY WFMin, NatLessThanWellFounded
<1>2. \A m \in S : ~(m < n)
  BY <1>1 DEF OpToRel
<1>3. \A m \in S : n <= m
  <2>1. \A m \in S : m \in Nat /\ n \in Nat
    OBVIOUS
  <2>. QED
    BY <1>2, <2>1
<1>. QED
  BY <1>3

\* A call and, if the task of another waits for it in a chain, those behind it.
Behind(f, c) ==
  IF c = NoCall THEN {} ELSE {c} \cup IF by[c] # NoCall /\ task[by[c]] = "task" THEN f[by[c]] ELSE {}

LineTo(n, f) == f = [c \in 0..n |-> Behind(f, c)]

LEMMA LineGoesOn ==
  ASSUME TypeOK, CallsInv, NEW n \in Nat, n + 1 <= MaxCalls, NEW f, LineTo(n, f)
  PROVE  \E g : LineTo(n + 1, g)
<1>0. MaxCalls \in Nat /\ NoCall = 0 /\ n + 1 \in Call /\ n + 1 # NoCall /\ n \in 0..MaxCalls
  BY CallNumbers DEF Call, NoCall
<1>1. \A c \in 0..(n + 1) : c # NoCall => c \in Call /\ by[c] \in 0..n /\ (c # n + 1 => c \in 0..n)
  <2>1. ASSUME NEW c \in 0..(n + 1), c # NoCall
        PROVE  c \in Call /\ by[c] \in 0..n /\ (c # n + 1 => c \in 0..n)
    <3>1. c \in Call
      BY <1>0, <2>1 DEF Call
    <3>2. by[c] \in Call \cup {NoCall} /\ by[c] < c
      BY <3>1 DEF TypeOK, CallsInv
    <3>. QED
      BY <1>0, <3>1, <3>2 DEF Call
  <2>. QED
    BY <2>1
<1> DEFINE g == [c \in 0..(n + 1) |-> IF c = n + 1 THEN Behind(f, n + 1) ELSE f[c]]
<1>2. \A c \in 0..n : f[c] = Behind(f, c)
  BY DEF LineTo
<1>3. \A c \in 0..(n + 1) : c # n + 1 => c \in 0..n
  BY <1>0
<1>4. g = [c \in 0..(n + 1) |-> g[c]]
  OBVIOUS
<1>5. \A c \in 0..n : g[c] = f[c]
  BY <1>0
<1>6. g[n + 1] = Behind(f, n + 1)
  BY <1>0
<1> HIDE DEF g
<1>7. \A c \in 0..(n + 1) : Behind(g, c) = Behind(f, c)
  BY <1>1, <1>5 DEF Behind
<1>8. \A c \in 0..(n + 1) : g[c] = Behind(g, c)
  BY <1>2, <1>3, <1>5, <1>6, <1>7
<1>. QED
  BY <1>4, <1>8 DEF LineTo

\* The lines there are: a call is made by one made before it.
LEMMA Lines ==
  ASSUME TypeOK, CallsInv
  PROVE  LineTo(MaxCalls, Line)
<1>0. MaxCalls \in Nat /\ NoCall = 0
  BY CallNumbers DEF NoCall
<1> DEFINE T == {n \in 0..MaxCalls : \A f : ~LineTo(n, f)}
<1>1. T = {}
  <2>1. SUFFICES ASSUME T # {} PROVE FALSE
    OBVIOUS
  <2>2. T \subseteq Nat
    BY <1>0
  <2>3. PICK n \in T : \A m \in T : n <= m
    <3> HIDE DEF T
    <3>. QED
      BY <2>1, <2>2, Least
  <2>4. n \in 0..MaxCalls /\ \A f : ~LineTo(n, f)
    BY <2>3
  <2>5. n # 0
    <3>1. LineTo(0, [c \in 0..0 |-> {}])
      <4>1. 0..0 = {0}
        OBVIOUS
      <4>. QED
        BY <1>0, <4>1 DEF LineTo, Behind
    <3>. QED
      BY <2>4, <3>1
  <2>6. n - 1 \in Nat /\ n - 1 \in 0..MaxCalls /\ (n - 1) + 1 = n /\ ~(n <= n - 1)
    BY <1>0, <2>4, <2>5
  <2>7. n - 1 \notin T
    BY <2>3, <2>6
  <2>8. PICK f : LineTo(n - 1, f)
    BY <2>6, <2>7
  <2>9. \E g : LineTo((n - 1) + 1, g)
    BY <1>0, <2>4, <2>6, <2>8, LineGoesOn
  <2>. QED
    BY <2>4, <2>6, <2>9
<1>2. \E f : LineTo(MaxCalls, f)
  BY <1>0, <1>1
<1>3. PICK f : LineTo(MaxCalls, f)
  BY <1>2
<1>. QED
  BY <1>3 DEF Line, LineTo, Behind

\* Whoever waits in line for a call asks what the chain of that call holds.
LEMMA LinesAreInChains ==
  ASSUME RequestsInv
  PROVE  \A c \in Call : c \notin Unmade => \A d \in Line[c] : kind[d] \in chain[c]
<1>0. /\ MaxCalls \in Nat /\ NoCall = 0 /\ Call \subseteq 0..MaxCalls /\ Call \subseteq Nat
      /\ by \in [Call -> Call \cup {NoCall}]
  BY CallNumbers DEF NoCall, Call, RequestsInv, TypeOK
<1>1. \A c \in Call : Line[c] = Behind(Line, c)
  <2>1. LineTo(MaxCalls, Line)
    BY Lines DEF RequestsInv
  <2>. QED
    BY <1>0, <2>1 DEF LineTo
<1> DEFINE T == {c \in Call : c \notin Unmade /\ \E d \in Line[c] : kind[d] \notin chain[c]}
<1>2. SUFFICES ASSUME T # {} PROVE FALSE
  OBVIOUS
<1>3. PICK c \in T : \A b \in T : c <= b
  <2> HIDE DEF T
  <2>1. T \subseteq Nat
    BY <1>0 DEF T
  <2>. QED
    BY <1>2, <2>1, Least
<1>4. c \in Call \ Unmade /\ c # NoCall
  BY CallNumbers
<1>5. PICK d \in Line[c] : kind[d] \notin chain[c]
  OBVIOUS
<1>6. kind[c] \in chain[c]
  BY <1>4 DEF RequestsInv, ChainInv
<1>7. by[c] # NoCall /\ task[by[c]] = "task" /\ d \in Line[by[c]]
  BY <1>1, <1>4, <1>5, <1>6 DEF Behind
<1>8. by[c] \in Call \ Unmade /\ chain[by[c]] \subseteq chain[c]
  BY <1>0, <1>4, <1>7 DEF RequestsInv, ChainInv, CallsInv, Untold, Unmade
<1>9. by[c] < c /\ by[c] \in Nat /\ c \in Nat
  BY <1>0, <1>4, <1>8 DEF RequestsInv, CallsInv
<1>10. by[c] \notin T
  BY <1>3, <1>9
<1>. QED
  BY <1>5, <1>7, <1>8, <1>10

\* Through any number of tasks that ask one another, nobody waits for a request
\* of the type it is asked itself.
THEOREM NobodyWaitsForItsOwnKind == Spec => []NobodyWaitsForItself
<1>1. RequestsInv => NobodyWaitsForItself
  <2>1. SUFFICES ASSUME RequestsInv, NEW c \in Call, at[c] \in Open, NEW d \in Line[c], kind[d] = kind[c]
                 PROVE  d = c
    BY DEF NobodyWaitsForItself
  <2>2. SUFFICES ASSUME d # c PROVE FALSE
    OBVIOUS
  <2>3. /\ MaxCalls \in Nat /\ c \in 0..MaxCalls /\ c # NoCall /\ by \in [Call -> Call \cup {NoCall}]
    BY <2>1, CallNumbers DEF Call, RequestsInv, TypeOK
  <2>4. Line[c] = Behind(Line, c)
    <3>1. LineTo(MaxCalls, Line)
      BY <2>1, Lines DEF RequestsInv
    <3>. QED
      BY <2>3, <3>1 DEF LineTo
  <2>5. by[c] # NoCall /\ task[by[c]] = "task" /\ d \in Line[by[c]]
    BY <2>1, <2>2, <2>3, <2>4 DEF Behind
  <2>6. by[c] \in Call \ Unmade /\ kind[c] \notin chain[by[c]]
    <3>1. by[c] \in Call /\ kind[c] \notin chain[by[c]]
      BY <2>1, <2>3, <2>5 DEF RequestsInv, ChainInv
    <3>2. by[c] \notin Unmade
      BY <2>1, <2>5, <3>1 DEF RequestsInv, CallsInv, Untold, Unmade
    <3>. QED
      BY <3>1, <3>2
  <2>7. kind[d] \in chain[by[c]]
    BY <2>1, <2>5, <2>6, LinesAreInChains
  <2>. QED
    BY <2>1, <2>6, <2>7
<1>. QED
  BY <1>1, InvHolds, PTL
-----------------------------------------------------------------------------
(* Every call is a promise, settled at most once. *)

\* How a call stands, told from where its caller is and what was sent.
LEMMA Stands ==
  ASSUME TypeOK, SentInv, NEW c \in Call
  PROVE  /\ at[c] = "unmade" => Standing(c) = "unmade"
         /\ at[c] \in {"forgetting", "timedout"} => Standing(c) = "given up"
         /\ at[c] \in {"posting", "waiting"} /\ rx[c] = "empty" => Standing(c) = "open"
         /\ at[c] = "dropped" /\ rx[c] = "empty" => Standing(c) = "given up"
         /\ at[c] \in {"posting", "waiting", "replied", "unanswered", "dropped"} =>
              /\ rx[c] = "reply" => Standing(c) = "kept"
              /\ rx[c] = "unanswered" => Standing(c) = "denied"
BY DEF TypeOK, SentInv, Standing, Open, Over

\* What a step that changes how one call stands does to the promises.
LEMMA OnePromise ==
  ASSUME NEW c \in Call, \A d \in Call : d # c => Standing(d)' = Standing(d),
         \/ Standing(c)' = Standing(c)
         \/ Standing(c) = "unmade" /\ Standing(c)' = "open"
         \/ Standing(c) = "open" /\ Standing(c)' \in {"kept", "denied", "given up"}
  PROVE  [Promise!Next]_standings
<1>1. CASE Standing(c)' = Standing(c)
  <2>1. \A d \in Call : Standing(d)' = Standing(d)
    BY <1>1
  <2>2. standings' = standings
    BY <2>1 DEF standings
  <2>. QED
    BY <2>2
<1>2. ASSUME NEW x, Standing(c)' = x PROVE standings' = [standings EXCEPT ![c] = x]
  <2>1. \A d \in Call : Standing(d)' = IF d = c THEN x ELSE Standing(d)
    BY <1>2
  <2>. QED
    BY <2>1 DEF standings
<1>3. standings[c] = Standing(c)
  BY DEF standings
<1>4. CASE Standing(c) = "unmade" /\ Standing(c)' = "open"
  <2>1. Promise!Make(c)
    BY <1>2, <1>3, <1>4 DEF Promise!Make, Promise!Become
  <2>. QED
    BY <2>1 DEF Promise!Next
<1>5. CASE Standing(c) = "open" /\ Standing(c)' \in {"kept", "denied", "given up"}
  <2>1. Promise!Keep(c) \/ Promise!Deny(c) \/ Promise!GiveUp(c)
    BY <1>2, <1>3, <1>5 DEF Promise!Keep, Promise!Deny, Promise!GiveUp, Promise!Become
  <2>. QED
    BY <2>1 DEF Promise!Next
<1>. QED
  BY <1>1, <1>4, <1>5

\* Sending something to a caller settles its call, or comes too late.
LEMMA SettlingPromises ==
  ASSUME TypeOK, TypeOK', SentInv, SentInv', NEW c \in Call, NEW what \in {"reply", "unanswered"},
         Settle(c, what), UNCHANGED at
  PROVE  [Promise!Next]_standings
<1>1. \A d \in Call : rx'[d] = rx[d] \/ (d = c /\ rx'[d] = what /\ c \in pending /\ at[c] = "waiting")
  BY Settling
<1>2. \A d \in Call : rx'[d] = rx[d] => Standing(d)' = Standing(d)
  BY DEF Standing
<1>3. \A d \in Call : d # c => Standing(d)' = Standing(d)
  BY <1>1, <1>2
<1>4. CASE rx'[c] = rx[c]
  BY <1>2, <1>3, <1>4, OnePromise
<1>5. CASE rx'[c] = what /\ c \in pending /\ at[c] = "waiting"
  <2>1. rx[c] = "empty" /\ at'[c] = "waiting"
    BY <1>5 DEF SentInv
  <2>2. Standing(c) = "open"
    BY <1>5, <2>1, Stands
  <2>3. Standing(c)' \in {"kept", "denied"}
    BY <1>5, <2>1 DEF Standing
  <2>. QED
    BY <1>3, <2>2, <2>3, OnePromise
<1>. QED
  BY <1>1, <1>4, <1>5

LEMMA InitPromises == Init => Promise!Init
BY DEF Init, Promise!Init, Standing, standings

LEMMA StepPromises ==
  ASSUME RequestsInv, RequestsInv', Next
  PROVE  [Promise!Next]_standings
<1>0. /\ TypeOK /\ TypeOK' /\ SentInv /\ SentInv' /\ TellingInv /\ DoingInv /\ CallsInv /\ AwaitInv
      /\ at \in [Call -> {"unmade"} \cup Open \cup Over]
      /\ by \in [Call -> Call \cup {NoCall}] /\ NoCall \notin Call
      /\ rx \in [Call -> {"empty", "reply", "unanswered"}]
  BY CallNumbers DEF RequestsInv, TypeOK
<1>1. ASSUME UNCHANGED <<at, rx>> PROVE UNCHANGED standings
  <2>1. \A d \in Call : Standing(d)' = Standing(d)
    BY <1>1 DEF Standing
  <2>. QED
    BY <2>1 DEF standings
<1>2. ASSUME NEW h \in Hearer, StepOfBus(h) PROVE UNCHANGED standings
  BY <1>1, <1>2, BusStepLeaves DEF calls
<1>3. ASSUME UNCHANGED rx, NEW c \in Call, \A d \in Call : d # c => at'[d] = at[d],
             \/ Standing(c)' = Standing(c)
             \/ Standing(c) = "unmade" /\ Standing(c)' = "open"
             \/ Standing(c) = "open" /\ Standing(c)' = "given up"
      PROVE  [Promise!Next]_standings
  <2>1. \A d \in Call : d # c => Standing(d)' = Standing(d)
    BY <1>3 DEF Standing
  <2>. QED
    BY <1>3, <2>1, OnePromise
<1>4. ASSUME NEW c \in Call, StepOfCall(c) PROVE [Promise!Next]_standings
  <2>1. UNCHANGED rx /\ \A d \in Call : d # c => at'[d] = at[d]
    BY <1>0, <1>4, CallStepLeaves DEF StepOfCall, CallerStep, Post, Resume, Forget, TimeOut, Drop
  <2>2. \/ at[c] = "posting" /\ at'[c] = "waiting"
        \/ at[c] = "waiting" /\ at'[c] \in {"replied", "unanswered"} /\ rx[c] # "empty"
        \/ at[c] = "waiting" /\ at'[c] = "forgetting" /\ rx[c] = "empty"
        \/ at[c] = "waiting" /\ at'[c] = "dropped"
        \/ at[c] = "forgetting" /\ at'[c] = "timedout"
    BY <1>0, <1>4 DEF StepOfCall, CallerStep, Post, Resume, Forget, TimeOut, Drop
  <2>3. Standing(c)' = Standing(c) \/ (Standing(c) = "open" /\ Standing(c)' = "given up")
    BY <1>0, <2>1, <2>2 DEF Standing
  <2>. QED
    BY <1>3, <2>1, <2>3
<1>5. ASSUME NEW c \in Call, TaskReplies(c) PROVE [Promise!Next]_standings
  BY <1>0, <1>5, TaskReplying, SettlingPromises DEF calls
<1>6. ASSUME NEW c \in Call, Cancelled(c) PROVE [Promise!Next]_standings
  <2>1. UNCHANGED rx /\ \A d \in AskedBy(c) : at[d] = "waiting"
    BY <1>6 DEF Cancelled
  <2>2. \A d \in Call : at'[d] = IF d \in AskedBy(c) THEN "dropped" ELSE at[d]
    BY <1>6 DEF Cancelled
  <2>3. CASE AskedBy(c) = {}
    <3>1. \A d \in Call : Standing(d)' = Standing(d)
      BY <2>1, <2>2, <2>3 DEF Standing
    <3>. QED
      BY <3>1 DEF standings
  <2>4. CASE AskedBy(c) # {}
    <3>1. PICK e \in AskedBy(c) : TRUE
      BY <2>4
    <3>2. AskedBy(c) = {e} /\ e \in Call
      BY <1>0, <3>1 DEF AskedBy, AwaitInv
    <3>3. at[e] = "waiting" /\ at'[e] = "dropped" /\ \A d \in Call : d # e => at'[d] = at[d]
      BY <2>1, <2>2, <3>2
    <3>4. Standing(e)' = Standing(e) \/ (Standing(e) = "open" /\ Standing(e)' = "given up")
      BY <1>0, <2>1, <3>2, <3>3 DEF Standing
    <3>. QED
      BY <1>3, <2>1, <3>2, <3>3, <3>4
  <2>. QED
    BY <2>3, <2>4
<1>7. ASSUME NEW q \in Call \cup {NoCall}, NEW k \in Kind, NEW c \in Call, Ask(q, k, c) PROVE [Promise!Next]_standings
  <2>1. /\ c \in Unmade /\ at'[c] = "posting"
        /\ \A d \in Call : d # c => at'[d] = at[d]
    BY <1>0, <1>7, Asked
  <2>2. at[c] = "unmade" /\ rx[c] = "empty" /\ UNCHANGED rx
    BY <1>0, <1>7, <2>1 DEF Ask, CallsInv, Unmade
  <2>3. Standing(c) = "unmade" /\ Standing(c)' = "open"
    BY <2>1, <2>2 DEF Standing
  <2>. QED
    BY <1>3, <2>1, <2>2, <2>3
<1>8. ASSUME NEW q \in Call \cup {NoCall}, NEW k \in Kind, Refuse(q, k) PROVE UNCHANGED standings
  BY <1>1, <1>8 DEF Refuse, calls
<1>9. CASE Handled
  <2>1. /\ about \in Call /\ UNCHANGED at
        /\ UNCHANGED rx \/ Settle(about, "reply")
    BY <1>0, <1>9, Handling DEF calls
  <2>. QED
    BY <1>0, <1>1, <2>1, SettlingPromises
<1>10. CASE Deny
  <2>1. Head(ui) \in Call /\ Settle(Head(ui), "unanswered") /\ UNCHANGED at
    BY <1>0, <1>10, NextJob DEF Deny, calls
  <2>. QED
    BY <1>0, <2>1, SettlingPromises
<1>11. CASE Publish \/ Published \/ \E h \in Hearer : Deliver(h)
  BY <1>1, <1>11 DEF Publish, Published, Deliver, calls
<1>. QED
  <2>1. \A q \in Call \cup {NoCall}, k \in Kind, c \in Call : StepOfAsking(q, k, c) => [Promise!Next]_standings
    BY <1>7, <1>8 DEF StepOfAsking
  <2>2. UiStep => [Promise!Next]_standings
    BY <1>9, <1>10, <1>11 DEF UiStep, Handled
  <2>3. \A c \in Call : TaskStep(c) => [Promise!Next]_standings
    BY <1>5, <1>6 DEF TaskStep
  <2>. QED
    BY <1>2, <1>4, <2>1, <2>2, <2>3, NextSteps

\* A step of the bus, of a caller or of a task settles one call, or none, and
\* never one that is settled.
THEOREM RequestsArePromises == Spec => ImplementsPromises
<1>1. Init => Promise!Init
  BY InitPromises
<1>2. RequestsInv /\ RequestsInv' /\ [Next]_vars => [Promise!Next]_standings
  <2>1. CASE UNCHANGED vars
    <3>1. \A d \in Call : Standing(d)' = Standing(d)
      BY <2>1 DEF vars, calls, Standing
    <3>. QED
      BY <3>1 DEF standings
  <2>2. CASE RequestsInv /\ RequestsInv' /\ Next
    BY <2>2, StepPromises
  <2>. QED
    BY <2>1, <2>2
<1>. QED
  BY <1>1, <1>2, InvHolds, PTL DEF Spec, ImplementsPromises, Promise!Spec
=============================================================================

---------------------------- MODULE TurnsProofs ----------------------------
(***************************************************************************)
(* What holds of turns and drains for any actors, cells and watchers, and  *)
(* for any bounds on what their code does.                                 *)
(***************************************************************************)
EXTENDS Turns, SequenceTheorems, TLAPS

-----------------------------------------------------------------------------
(* The shape of the stack.  Turns and handlers alternate.  Under a drain    *)
(* there is nothing, and over it first the observer or listener it calls:   *)
(* a drain starts at depth 0, and depth counts the turns.                   *)

Floor(dr) == IF dr THEN 2 ELSE 0

ShapeOf(st, d, dr) ==
  /\ dr => /\ Len(st) \in {2 * d + 1, 2 * d + 2}
           /\ st[1].kind = "drain"
           /\ Len(st) > 1 => st[2].kind \in {"observer", "listener"}
  /\ ~dr => Len(st) \in {2 * d - 1, 2 * d}
  /\ \A i \in 1..Len(st) :
       i > Floor(dr) => st[i].kind = IF i % 2 = 1 THEN "turn" ELSE "handler"
  /\ \A i \in 1..Len(st) : st[i].kind = "turn" => st[i].who \in Actor

Shape == ShapeOf(stack, depth, draining)

IInv == TypeOK /\ Shape

-----------------------------------------------------------------------------
(* What is on top, and what is left beneath it. *)

\* A stack without its last frame.
LEMMA BeneathOf ==
  ASSUME stack \in Seq(Frame), ~Idle
  PROVE  /\ Len(stack) \in Nat \ {0}
         /\ Beneath \in Seq(Frame)
         /\ Len(Beneath) = Len(stack) - 1
         /\ \A i \in 1..(Len(stack) - 1) : Beneath[i] = stack[i]
         /\ Top \in Frame
<1> DEFINE n == Len(stack)
<1>1. n \in Nat \ {0}
  BY EmptySeq DEF Idle
<1>2. \A i \in 1..n : stack[i] \in Frame
  BY ElementOfSeq
<1>3. \A i \in 1..(n - 1) : stack[i] \in Frame
  BY <1>1, <1>2
<1>4. 1 \in Int /\ n - 1 \in Int
  BY <1>1
<1>5. /\ SubSeq(stack, 1, n - 1) \in Seq(Frame)
      /\ Len(SubSeq(stack, 1, n - 1)) = IF 1 <= n - 1 THEN n - 1 - 1 + 1 ELSE 0
      /\ \A i \in 1..(n - 1 - 1 + 1) : SubSeq(stack, 1, n - 1)[i] = stack[1 + i - 1]
  BY <1>3, <1>4, SubSeqProperties
<1>6. Len(Beneath) = n - 1
  <2> DEFINE len == Len(SubSeq(stack, 1, n - 1))
  <2>1. len = IF 1 <= n - 1 THEN n - 1 - 1 + 1 ELSE 0
    BY <1>5
  <2> HIDE DEF len, n
  <2>2. len = n - 1
    BY <2>1, <1>1
  <2>. QED
    BY <2>2 DEF len, n, Beneath
<1>7. ASSUME NEW i \in 1..(n - 1)
      PROVE  Beneath[i] = stack[i]
  <2>1. i \in 1..(n - 1 - 1 + 1) /\ 1 + i - 1 = i
    BY <1>1
  <2>. QED
    BY <1>5, <2>1 DEF Beneath
<1>8. Top \in Frame
  BY <1>1, <1>2 DEF Top
<1>. QED
  BY <1>1, <1>5, <1>6, <1>7, <1>8 DEF Beneath

\* Code that runs has spent some of what it may do, and is still there.
LEMMA SpentOf ==
  ASSUME TypeOK, NEW e, May(e)
  PROVE  /\ Spent \in Seq(Frame)
         /\ Len(Spent) = Len(stack)
         /\ Len(stack) \in Nat
         /\ \A i \in 1..Len(stack) : /\ Spent[i].kind = stack[i].kind
                                     /\ Spent[i].who = stack[i].who
                                     /\ Spent[i].message = stack[i].message
         /\ Idle => Spent = <<>>
         /\ ~Idle => stack[Len(stack)].kind \in Code
<1>1. CASE Idle
  <2>1. Len(stack) = 0
    BY <1>1, EmptySeq DEF Idle
  <2>. QED
    BY <1>1, <2>1 DEF Spent, TypeOK, Idle
<1>2. CASE ~Idle
  <2> DEFINE n == Len(stack)
             f == [stack[n] EXCEPT !.left = @ - 1]
  <2>1. n \in Nat \ {0} /\ n \in 1..n
    BY <1>2, EmptySeq DEF TypeOK, Idle
  <2>2. stack[n] \in Frame
    BY <2>1, ElementOfSeq DEF TypeOK
  <2>3. stack[n].left > 0 /\ stack[n].kind \in Code
    BY <1>2 DEF May, Top
  <2>4. /\ f \in Frame /\ f.kind = stack[n].kind
        /\ f.who = stack[n].who /\ f.message = stack[n].message
    BY <2>2, <2>3 DEF Frame
  <2>5. Spent = [stack EXCEPT ![n] = f]
    BY <1>2 DEF Spent
  <2> HIDE DEF f
  <2>6. /\ Spent \in Seq(Frame)
        /\ Len(Spent) = n
        /\ \A j \in 1..n : Spent[j] = IF j = n THEN f ELSE stack[j]
    BY <2>1, <2>4, <2>5, ExceptSeq DEF TypeOK
  <2>. QED
    BY <1>2, <2>1, <2>3, <2>4, <2>6
<1>. QED
  BY <1>1, <1>2

-----------------------------------------------------------------------------
(* The shape is kept by each thing that is done to the stack. *)

\* Only what each frame is and whose it is counts.
LEMMA SameFrames ==
  ASSUME NEW s, NEW t, NEW d, NEW dr, Len(t) = Len(s), Len(s) \in Nat,
         \A i \in 1..Len(s) : t[i].kind = s[i].kind /\ t[i].who = s[i].who,
         d \in Nat, ShapeOf(s, d, dr)
  PROVE  ShapeOf(t, d, dr)
<1>1. CASE dr
  <2>1. Len(s) \in {2 * d + 1, 2 * d + 2}
    BY <1>1 DEF ShapeOf
  <2>2. 1 \in 1..Len(s) /\ (Len(s) > 1 => 2 \in 1..Len(s))
    BY <2>1
  <2>. QED
    BY <1>1, <2>1, <2>2 DEF ShapeOf
<1>2. CASE ~dr
  BY <1>2 DEF ShapeOf
<1>. QED
  BY <1>1, <1>2

\* A stack with one frame more, which is not the one of a drain.
LEMMA OneMore ==
  ASSUME NEW s \in Seq(Frame), NEW f \in Frame, NEW d \in Nat, NEW e \in Nat, NEW dr \in BOOLEAN,
         ShapeOf(s, d, dr),
         f.kind = "turn" => f.who \in Actor,
         \/ f.kind = "turn" /\ e = d + 1 /\ Len(s) = IF dr THEN 2 * d + 2 ELSE 2 * d
         \/ f.kind = "handler" /\ e = d /\ d > 0 /\ Len(s) = IF dr THEN 2 * d + 1 ELSE 2 * d - 1
         \/ f.kind \in {"observer", "listener"} /\ e = d /\ dr /\ Len(s) = 1
  PROVE  Append(s, f) \in Seq(Frame) /\ ShapeOf(Append(s, f), e, dr)
<1> DEFINE t == Append(s, f)
           n == Len(s)
<1>1. /\ t \in Seq(Frame)
      /\ n \in Nat
      /\ Len(t) = n + 1
      /\ \A i \in 1..n : t[i] = s[i]
      /\ t[n + 1] = f
  BY AppendProperties, LenProperties
<1> HIDE DEF t, n
<1>2. dr => Len(s) > 0
  BY DEF ShapeOf
<1>3. \A i \in 1..Len(t) : i \in 1..n \/ i = n + 1
  BY <1>1
<1>4. dr => /\ Len(t) \in {2 * e + 1, 2 * e + 2}
            /\ t[1].kind = "drain"
            /\ Len(t) > 1 => t[2].kind \in {"observer", "listener"}
  BY <1>1, <1>2 DEF ShapeOf, n
<1>5. ~dr => Len(t) \in {2 * e - 1, 2 * e}
  BY <1>1 DEF n
<1>6. n + 1 > Floor(dr) => f.kind = IF (n + 1) % 2 = 1 THEN "turn" ELSE "handler"
  BY <1>1 DEF n, Floor
<1>7. \A i \in 1..Len(t) :
        i > Floor(dr) => t[i].kind = IF i % 2 = 1 THEN "turn" ELSE "handler"
  BY <1>1, <1>3, <1>6 DEF ShapeOf, n
<1>8. \A i \in 1..Len(t) : t[i].kind = "turn" => t[i].who \in Actor
  BY <1>1, <1>3 DEF ShapeOf, n
<1>. QED
  BY <1>1, <1>4, <1>5, <1>7, <1>8 DEF ShapeOf, t

\* What the kind of the top frame says of how many there are.
LEMMA TopSays ==
  ASSUME stack \in Seq(Frame), depth \in Nat, draining \in BOOLEAN, Shape, ~Idle
  PROVE  /\ Top.kind \in Code =>
              Len(stack) = IF draining THEN 2 * depth + 2 ELSE 2 * depth
         /\ Top.kind = "turn" =>
              /\ depth > 0
              /\ Top.who \in Actor
              /\ Len(stack) = IF draining THEN 2 * depth + 1 ELSE 2 * depth - 1
         /\ Top.kind = "drain" => draining /\ Len(stack) = 1 /\ depth = 0
<1> DEFINE n == Len(stack)
<1>1. n \in Nat \ {0}
  BY BeneathOf
<1>2. n \in 1..n
  BY <1>1
<1>3. n > Floor(draining) => stack[n].kind = IF n % 2 = 1 THEN "turn" ELSE "handler"
  BY <1>2 DEF Shape, ShapeOf
<1>4. CASE n > Floor(draining) /\ n % 2 = 1
  <2>1. Top.kind = "turn" /\ Top.who \in Actor
    BY <1>2, <1>3, <1>4 DEF Top, Shape, ShapeOf
  <2>2. n = IF draining THEN 2 * depth + 1 ELSE 2 * depth - 1
    BY <1>1, <1>4 DEF Shape, ShapeOf
  <2>3. depth > 0
    BY <1>1, <1>4, <2>2 DEF Floor
  <2>. QED
    BY <2>1, <2>2, <2>3 DEF Code
<1>5. CASE n > Floor(draining) /\ n % 2 # 1
  <2>1. Top.kind = "handler"
    BY <1>3, <1>5 DEF Top
  <2>2. n = IF draining THEN 2 * depth + 2 ELSE 2 * depth
    BY <1>1, <1>5 DEF Shape, ShapeOf
  <2>. QED
    BY <2>1, <2>2 DEF Code
<1>6. CASE ~(n > Floor(draining))
  <2>1. draining /\ n \in {1, 2} /\ depth = 0
    <3>1. draining
      BY <1>1, <1>6 DEF Floor
    <3>2. n \in {2 * depth + 1, 2 * depth + 2}
      BY <3>1 DEF Shape, ShapeOf
    <3>3. n <= 2
      BY <1>1, <1>6, <3>1 DEF Floor
    <3> HIDE DEF n
    <3>. QED
      BY <1>1, <3>1, <3>2, <3>3
  <2>2. n = 1 => Top.kind = "drain"
    BY <2>1 DEF Top, Shape, ShapeOf
  <2>3. n = 2 => Top.kind \in {"observer", "listener"}
    BY <2>1 DEF Top, Shape, ShapeOf
  <2>. QED
    BY <2>1, <2>2, <2>3 DEF Code
<1>. QED
  BY <1>4, <1>5, <1>6

\* A frame that is not the one of a drain returns.
LEMMA OneLess ==
  ASSUME stack \in Seq(Frame), depth \in Nat, draining \in BOOLEAN, Shape, ~Idle,
         NEW e \in Nat,
         \/ Top.kind \in Code /\ e = depth
         \/ Top.kind = "turn" /\ e = depth - 1
  PROVE  Beneath \in Seq(Frame) /\ ShapeOf(Beneath, e, draining)
<1> DEFINE n == Len(stack)
<1>1. /\ n \in Nat \ {0}
      /\ Beneath \in Seq(Frame)
      /\ Len(Beneath) = n - 1
      /\ \A i \in 1..(n - 1) : Beneath[i] = stack[i]
  BY BeneathOf
<1>2. n = IF draining THEN (IF e = depth THEN 2 * depth + 2 ELSE 2 * depth + 1)
                      ELSE (IF e = depth THEN 2 * depth ELSE 2 * depth - 1)
  BY TopSays DEF Code
<1>3. \A i \in 1..(n - 1) : i \in 1..n
  BY <1>1
<1>4. /\ draining => Len(Beneath) \in {2 * e + 1, 2 * e + 2}
      /\ ~draining => Len(Beneath) \in {2 * e - 1, 2 * e}
  BY <1>1, <1>2, TopSays
<1>5. draining => /\ Beneath[1].kind = "drain"
                  /\ Len(Beneath) > 1 => Beneath[2].kind \in {"observer", "listener"}
  BY <1>1, <1>4 DEF Shape, ShapeOf
<1>. QED
  BY <1>1, <1>3, <1>4, <1>5 DEF Shape, ShapeOf

-----------------------------------------------------------------------------
(* Every action keeps the invariant. *)

\* What a drain begins and ends with.
LEMMA FirstAndLast == NoDrain \in Locals /\ FirstRound \in Locals
<1>1. NoDrain \in Locals
  <2>1. 0 \in 0..SettleRounds
    BY TurnsAssumption
  <2>2. <<>> \in Seq(Change) /\ <<>> \in Seq(Cell)
    BY EmptySeq
  <2>. QED
    BY <2>1, <2>2 DEF NoDrain, Locals
<1>2. FirstRound \in Locals
  <2> HIDE DEF NoDrain
  <2>. QED
    BY <1>1 DEF FirstRound, Locals
<1>. QED
  BY <1>1, <1>2

LEMMA InitInv == Init => IInv
<1> SUFFICES ASSUME Init PROVE IInv
  OBVIOUS
<1>1. <<>> \in Seq(Change) /\ <<>> \in Seq(Cell) /\ <<>> \in Seq(Frame) /\ Len(<<>>) = 0
  BY EmptySeq
<1>2. \A a \in Actor : <<>> \in Seq(Message)
  BY EmptySeq
<1>3. \A o \in Observer : <<>> \in Seq(Update)
  BY EmptySeq
<1>4. TypeOK
  <2>1. queue \in [Actor -> Seq(Message)] /\ owed \in [Observer -> Seq(Update)]
    BY <1>2, <1>3 DEF Init
  <2>2. sent \in 0..MaxSends
    BY TurnsAssumption DEF Init
  <2>. QED
    BY <1>1, <2>1, <2>2, FirstAndLast DEF Init, TypeOK
<1>5. Shape
  BY <1>1 DEF Init, Shape, ShapeOf
<1>. QED
  BY <1>4, <1>5 DEF IInv

\* The frames that are pushed.
LEMMA NewFrames ==
  /\ \A a \in Actor : TurnOf(a) \in Frame
  /\ DrainFrame \in Frame
  /\ \A k \in Code, w \in Actor \cup Watcher, m \in Message \cup {0} : Call(k, w, m) \in Frame
<1>1. \A k \in Code : MaxEffects[k] \in Nat
  BY TurnsAssumption
<1>. QED
  BY <1>1 DEF TurnOf, DrainFrame, Call, Frame

LEMMA SendInv ==
  ASSUME IInv, NEW a \in Actor, Send(a)
  PROVE  IInv'
<1> USE DEF IInv
<1>1. /\ Spent \in Seq(Frame)
      /\ Len(Spent) = Len(stack)
      /\ Len(stack) \in Nat
      /\ \A i \in 1..Len(stack) : Spent[i].kind = stack[i].kind /\ Spent[i].who = stack[i].who
  BY SpentOf DEF Send
<1>2. ShapeOf(Spent, depth, draining)
  BY <1>1, SameFrames DEF Shape, TypeOK
<1>3. stack' \in Seq(Frame) /\ depth' \in Nat /\ ShapeOf(stack', depth', draining)
  <2>1. CASE processing[a]
    BY <1>1, <1>2, <2>1 DEF Send, ProcessQueue, TypeOK
  <2>2. CASE ~processing[a]
    <3>1. Len(Spent) = IF draining THEN 2 * depth + 2 ELSE 2 * depth
      <4>1. CASE Idle
        BY <1>1, <4>1, EmptySeq DEF Idle, Shape, ShapeOf, TypeOK
      <4>2. CASE ~Idle
        BY <1>1, <4>2, TopSays, SpentOf DEF Send, Top, TypeOK
      <4>. QED
        BY <4>1, <4>2
    <3>2. TurnOf(a) \in Frame /\ TurnOf(a).kind = "turn" /\ TurnOf(a).who \in Actor
      BY NewFrames DEF TurnOf
    <3>3. depth + 1 \in Nat /\ depth \in Nat /\ draining \in BOOLEAN
      BY DEF TypeOK
    <3>4. Append(Spent, TurnOf(a)) \in Seq(Frame) /\ ShapeOf(Append(Spent, TurnOf(a)), depth + 1, draining)
      BY <1>1, <1>2, <3>1, <3>2, <3>3, OneMore
    <3>. QED
      BY <2>2, <3>3, <3>4 DEF Send, ProcessQueue
  <2>. QED
    BY <2>1, <2>2
<1>4. processing' \in [Actor -> BOOLEAN]
  BY DEF Send, ProcessQueue, TypeOK
<1>5. queue' \in [Actor -> Seq(Message)] /\ sent' \in 0..MaxSends
  <2> DEFINE m == IF Idle THEN 1 ELSE sent + 1
  <2>1. m \in Message /\ sent' = m /\ queue' = [queue EXCEPT ![a] = Append(@, m)]
    BY DEF Send
  <2> HIDE DEF m
  <2>2. Append(queue[a], m) \in Seq(Message)
    BY <2>1, AppendProperties DEF TypeOK
  <2>. QED
    BY <2>1, <2>2, TurnsAssumption DEF TypeOK, Message
<1>6. UNCHANGED <<marked, draining, drain, removed, watching, stopped, stale, owed>>
  BY DEF Send, watch, owing
<1>. QED
  BY <1>3, <1>4, <1>5, <1>6 DEF TypeOK, Shape

\* A drain that starts has nothing beneath it.
LEMMA StartDrainShape ==
  ASSUME NEW s \in Seq(Frame), Len(s) = 0
  PROVE  Append(s, DrainFrame) \in Seq(Frame) /\ ShapeOf(Append(s, DrainFrame), 0, TRUE)
<1>1. /\ Append(s, DrainFrame) \in Seq(Frame)
      /\ Len(Append(s, DrainFrame)) = 1
      /\ Append(s, DrainFrame)[1] = DrainFrame
  BY NewFrames, AppendProperties
<1>. QED
  BY <1>1 DEF ShapeOf, DrainFrame, Floor

LEMMA PushInv ==
  ASSUME IInv, NEW c \in Cell, NEW u \in Update, Push(c, u)
  PROVE  IInv'
<1> USE DEF IInv
<1>1. /\ Spent \in Seq(Frame)
      /\ Len(Spent) = Len(stack)
      /\ Len(stack) \in Nat
      /\ \A i \in 1..Len(stack) : Spent[i].kind = stack[i].kind /\ Spent[i].who = stack[i].who
  BY SpentOf DEF Push
<1>2. ShapeOf(Spent, depth, draining)
  BY <1>1, SameFrames DEF Shape, TypeOK
<1>3. /\ stack' \in Seq(Frame)
      /\ draining' \in BOOLEAN
      /\ ShapeOf(stack', depth', draining')
      /\ drain' = drain \/ drain' = FirstRound
  <2>1. CASE depth = 0 /\ ~draining
    <3>1. Len(Spent) = 0
      BY <1>1, <2>1 DEF Shape, ShapeOf
    <3>. QED
      BY <1>1, <2>1, <3>1, StartDrainShape DEF Push, StartDrain
  <2>2. CASE ~(depth = 0 /\ ~draining)
    BY <1>1, <1>2, <2>2 DEF Push, TypeOK
  <2>. QED
    BY <2>1, <2>2
<1>4. marked' \in Seq(Change)
  <2> DEFINE change == [cell |-> c, update |-> IF WatchersOf(c, Observer) = {} THEN Bare ELSE u]
  <2>1. change \in Change
    BY DEF Change
  <2>2. marked' = Append(marked, change) \/ marked' = marked
    BY DEF Push, Mark
  <2> HIDE DEF change
  <2>3. marked \in Seq(Change)
    BY DEF TypeOK
  <2>4. Append(marked, change) \in Seq(Change)
    BY <2>1, <2>3, AppendProperties
  <2>. QED
    BY <2>2, <2>3, <2>4
<1>5. stale' \subseteq Listener \cap watching
  BY DEF Push, WatchersOf, TypeOK
<1>6. owed' \in [Observer -> Seq(Update)]
  <2>1. \A o \in Observer : owed[o] \in Seq(Update) /\ Append(owed[o], u) \in Seq(Update)
    BY AppendProperties DEF TypeOK
  <2>. QED
    BY <2>1 DEF Push
<1>7. UNCHANGED <<queue, processing, sent, depth, removed, watching, stopped>>
  BY DEF Push, mail, watch
<1>. QED
  BY <1>3, <1>4, <1>5, <1>6, <1>7, FirstAndLast DEF TypeOK, Shape

\* What is common to the actions that end a watcher's watching.
LEMMA StopWatchingType ==
  ASSUME TypeOK, NEW ws \in SUBSET watching, StopWatching(ws)
  PROVE  /\ watching' \subseteq Watcher
         /\ stopped' \subseteq Watcher \ watching'
         /\ stale' \subseteq Listener \cap watching'
         /\ owed' \in [Observer -> Seq(Update)]
<1>1. \A o \in Observer : <<>> \in Seq(Update)
  BY EmptySeq
<1>. QED
  BY <1>1 DEF StopWatching, TypeOK

\* Code that runs does something that starts no turn and no drain.
LEMMA SpentInv ==
  ASSUME IInv, NEW e, May(e), stack' = Spent, UNCHANGED <<depth, draining>>
  PROVE  stack' \in Seq(Frame) /\ Shape'
<1>1. /\ Spent \in Seq(Frame)
      /\ Len(Spent) = Len(stack)
      /\ Len(stack) \in Nat
      /\ \A i \in 1..Len(stack) : Spent[i].kind = stack[i].kind /\ Spent[i].who = stack[i].who
  BY SpentOf DEF IInv
<1>2. ShapeOf(Spent, depth, draining)
  BY <1>1, SameFrames DEF IInv, Shape, TypeOK
<1>. QED
  BY <1>1, <1>2 DEF Shape

LEMMA RemoveInv ==
  ASSUME IInv, NEW s \in Scope, Remove(s)
  PROVE  IInv'
<1>1. stack' \in Seq(Frame) /\ Shape'
  BY SpentInv DEF Remove, rounds
<1>2. /\ watching' \subseteq Watcher
      /\ stopped' \subseteq Watcher \ watching'
      /\ stale' \subseteq Listener \cap watching'
      /\ owed' \in [Observer -> Seq(Update)]
  BY StopWatchingType DEF Remove, IInv
<1>. QED
  BY <1>1, <1>2 DEF IInv, TypeOK, Remove, mail, rounds

LEMMA JoinInv ==
  ASSUME IInv, NEW w \in Watcher, Join(w)
  PROVE  IInv'
<1>1. stack' \in Seq(Frame) /\ Shape'
  BY SpentInv DEF Join, rounds
<1>. QED
  BY <1>1 DEF IInv, TypeOK, Join, mail, rounds, owing

LEMMA LeaveInv ==
  ASSUME IInv, NEW w \in Watcher, Leave(w)
  PROVE  IInv'
<1>1. stack' \in Seq(Frame) /\ Shape'
  BY SpentInv DEF Leave, rounds
<1>2. /\ watching' \subseteq Watcher
      /\ stopped' \subseteq Watcher \ watching'
      /\ stale' \subseteq Listener \cap watching'
      /\ owed' \in [Observer -> Seq(Update)]
  BY StopWatchingType DEF Leave, IInv
<1>. QED
  BY <1>1, <1>2 DEF IInv, TypeOK, Leave, mail, rounds

LEMMA ReturnInv ==
  ASSUME IInv, Return
  PROVE  IInv'
<1>1. Beneath \in Seq(Frame) /\ ShapeOf(Beneath, depth, draining)
  BY OneLess DEF Return, IInv, TypeOK
<1>. QED
  BY <1>1 DEF IInv, TypeOK, Shape, Return, mail, rounds, watch, owing

LEMMA HandleInv ==
  ASSUME IInv, Handle
  PROVE  IInv'
<1> DEFINE a == Top.who
           m == Head(queue[a])
           f == Call("handler", a, m)
<1>1. /\ depth > 0
      /\ a \in Actor
      /\ Len(stack) = IF draining THEN 2 * depth + 1 ELSE 2 * depth - 1
  BY TopSays DEF Handle, Running, IInv, TypeOK
<1>2. m \in Message /\ Tail(queue[a]) \in Seq(Message)
  BY <1>1, HeadTailProperties DEF Handle, IInv, TypeOK
<1>3. f \in Frame /\ f.kind = "handler"
  BY <1>1, <1>2, NewFrames DEF Call, Code
<1> HIDE DEF f
<1>4. Append(stack, f) \in Seq(Frame) /\ ShapeOf(Append(stack, f), depth, draining)
  <2>1. stack \in Seq(Frame) /\ depth \in Nat /\ draining \in BOOLEAN /\ ShapeOf(stack, depth, draining)
    BY DEF IInv, TypeOK, Shape
  <2>2. f.kind = "turn" => f.who \in Actor
    BY <1>3
  <2> HIDE DEF a
  <2>. QED
    BY <1>1, <1>3, <2>1, <2>2, OneMore
<1>5. queue' = [queue EXCEPT ![a] = Tail(@)] /\ stack' = Append(stack, f)
  BY DEF Handle, f
<1> HIDE DEF a
<1>6. queue' \in [Actor -> Seq(Message)]
  BY <1>1, <1>2, <1>5 DEF IInv, TypeOK
<1>. QED
  BY <1>4, <1>5, <1>6 DEF IInv, TypeOK, Shape, Handle, rounds, watch, owing

LEMMA CloseTurnInv ==
  ASSUME IInv, CloseTurn
  PROVE  IInv'
<1>1. /\ ~Idle /\ Top.kind = "turn"
      /\ depth > 0
      /\ Len(stack) = IF draining THEN 2 * depth + 1 ELSE 2 * depth - 1
  BY TopSays DEF CloseTurn, Running, IInv, TypeOK
<1>2. depth' = depth - 1 /\ depth' \in Nat
  BY <1>1 DEF CloseTurn, IInv, TypeOK
<1>3. Beneath \in Seq(Frame) /\ ShapeOf(Beneath, depth - 1, draining)
  BY <1>1, <1>2, OneLess DEF IInv, TypeOK
<1>4. Len(Beneath) = Len(stack) - 1
  BY <1>1, BeneathOf DEF IInv, TypeOK
<1>5. /\ stack' \in Seq(Frame)
      /\ draining' \in BOOLEAN
      /\ ShapeOf(stack', depth', draining')
      /\ drain' = drain \/ drain' = FirstRound
  <2>1. CASE depth = 1 /\ ~draining /\ marked # <<>>
    <3>1. Len(Beneath) = 0
      BY <1>1, <1>4, <2>1
    <3>2. Append(Beneath, DrainFrame) \in Seq(Frame) /\ ShapeOf(Append(Beneath, DrainFrame), 0, TRUE)
      BY <1>3, <3>1, StartDrainShape
    <3>3. stack' = Append(Beneath, DrainFrame) /\ draining' = TRUE /\ drain' = FirstRound
      BY <2>1 DEF CloseTurn, StartDrain
    <3>4. depth' = 0
      BY <1>2, <2>1
    <3>. QED
      BY <3>2, <3>3, <3>4, Zenon
  <2>2. CASE ~(depth = 1 /\ ~draining /\ marked # <<>>)
    BY <1>2, <1>3, <2>2 DEF CloseTurn, IInv, TypeOK
  <2>. QED
    BY <2>1, <2>2
<1>6. processing' \in [Actor -> BOOLEAN]
  BY DEF CloseTurn, IInv, TypeOK
<1>. QED
  BY <1>2, <1>5, <1>6, FirstAndLast DEF IInv, TypeOK, Shape, CloseTurn, watch, owing

\* A step of the drain's own loops touches only its locals.
LEMMA LocalsInv ==
  ASSUME IInv, drain' \in Locals, marked' \in Seq(Change),
         UNCHANGED <<mail, depth, draining, stack, removed, watch, owing>>
  PROVE  IInv'
BY DEF IInv, TypeOK, Shape, mail, watch, owing

\* A drain ends with nothing beneath it.
LEMMA EndDrainInv ==
  ASSUME IInv, Running("drain"), EndDrain
  PROVE  /\ stack' \in Seq(Frame)
         /\ draining' \in BOOLEAN
         /\ drain' \in Locals
         /\ ShapeOf(stack', depth, draining')
<1>1. ~Idle /\ draining /\ Len(stack) = 1 /\ depth = 0
  BY TopSays DEF Running, IInv, TypeOK
<1>2. Beneath \in Seq(Frame) /\ Len(Beneath) = 0
  BY <1>1, BeneathOf DEF IInv, TypeOK
<1>3. ShapeOf(Beneath, 0, FALSE)
  BY <1>2 DEF ShapeOf
<1>4. stack' = Beneath /\ draining' = FALSE /\ drain' = NoDrain
  BY DEF EndDrain
<1>. QED
  BY <1>1, <1>2, <1>3, <1>4, FirstAndLast

\* A drain calls an observer or a listener.
LEMMA CallInv ==
  ASSUME IInv, Running("drain"), NEW k \in {"observer", "listener"}, NEW w \in Watcher
  PROVE  /\ Append(stack, Call(k, w, 0)) \in Seq(Frame)
         /\ ShapeOf(Append(stack, Call(k, w, 0)), depth, draining)
<1> DEFINE f == Call(k, w, 0)
<1>1. draining /\ Len(stack) = 1 /\ depth = 0
  BY TopSays DEF Running, IInv, TypeOK
<1>2. f \in Frame /\ f.kind = k
  BY NewFrames DEF Call, Code
<1>3. f.kind = "turn" => f.who \in Actor
  BY <1>2
<1>4. stack \in Seq(Frame) /\ depth \in Nat /\ draining \in BOOLEAN /\ ShapeOf(stack, depth, draining)
  BY DEF IInv, TypeOK, Shape
<1> HIDE DEF f
<1>5. Append(stack, f) \in Seq(Frame) /\ ShapeOf(Append(stack, f), depth, draining)
  BY <1>1, <1>2, <1>3, <1>4, OneMore
<1>. QED
  BY <1>5 DEF f

LEMMA NextRoundInv ==
  ASSUME IInv, NextRound
  PROVE  IInv'
<1>1. drain.round + 1 \in 0..SettleRounds
  BY TurnsAssumption DEF NextRound, IInv, TypeOK, Locals
<1>2. drain' \in Locals
  BY <1>1 DEF NextRound, IInv, TypeOK, Locals
<1>3. marked' \in Seq(Change)
  BY EmptySeq DEF NextRound
<1>. QED
  BY <1>2, <1>3, LocalsInv DEF NextRound

LEMMA GiveUpInv ==
  ASSUME IInv, GiveUp
  PROVE  IInv'
<1>1. /\ stack' \in Seq(Frame)
      /\ draining' \in BOOLEAN
      /\ drain' \in Locals
      /\ ShapeOf(stack', depth, draining')
  BY EndDrainInv DEF GiveUp, Settling
<1>2. marked' \in Seq(Change)
  BY EmptySeq DEF GiveUp
<1>3. owed' \in [Observer -> Seq(Update)]
  <2>1. \A o \in Observer : <<>> \in Seq(Update)
    BY EmptySeq
  <2>. QED
    BY <2>1 DEF GiveUp
<1>. QED
  BY <1>1, <1>2, <1>3 DEF IInv, TypeOK, Shape, GiveUp, mail, watch

LEMMA NextChangeInv ==
  ASSUME IInv, NextChange
  PROVE  IInv'
<1> DEFINE change == Head(drain.batch)
           c == change.cell
           gone == Home[c] \in removed
           seen == \E i \in DOMAIN drain.touched : drain.touched[i] = c
           touched == IF gone \/ seen THEN drain.touched ELSE Append(drain.touched, c)
           calls == IF gone \/ change.update = Bare THEN {}
                    ELSE WatchersOf(c, Observer) \X {change.update}
<1>1. drain \in Locals /\ drain.batch \in Seq(Change) /\ drain.batch # <<>>
  BY DEF NextChange, IInv, TypeOK, Locals
<1>2. change \in Change /\ Tail(drain.batch) \in Seq(Change)
  BY <1>1, HeadTailProperties
<1>3. c \in Cell /\ change.update \in Update \cup {Bare}
  BY <1>2 DEF Change
<1>4. touched \in Seq(Cell)
  <2>1. drain.touched \in Seq(Cell)
    BY <1>1 DEF Locals
  <2>2. Append(drain.touched, c) \in Seq(Cell)
    BY <1>3, <2>1, AppendProperties
  <2>. QED
    BY <2>1, <2>2
<1>5. calls \subseteq Watcher \X (Update \cup {Bare})
  BY <1>3 DEF WatchersOf, Watcher
<1>6. drain' = [drain EXCEPT !.batch = Tail(@), !.touched = touched, !.calls = calls]
  BY DEF NextChange
<1> HIDE DEF touched, calls
<1>7. drain' \in Locals
  BY <1>1, <1>2, <1>4, <1>5, <1>6 DEF Locals
<1>8. marked' \in Seq(Change)
  BY DEF NextChange, IInv, TypeOK
<1>. QED
  BY <1>7, <1>8, LocalsInv DEF NextChange

LEMMA ObserveInv ==
  ASSUME IInv, NEW o \in Observer, NEW u \in Update, Observe(o, u)
  PROVE  IInv'
<1>1. /\ Append(stack, Call("observer", o, 0)) \in Seq(Frame)
      /\ ShapeOf(Append(stack, Call("observer", o, 0)), depth, draining)
  BY CallInv DEF Observe, Watcher
<1>2. stack' = Append(stack, Call("observer", o, 0)) /\ UNCHANGED <<depth, draining>>
  BY DEF Observe
<1>3. drain' \in Locals
  BY DEF Observe, IInv, TypeOK, Locals
<1>4. owed' \in [Observer -> Seq(Update)]
  <2>1. owed[o] \in Seq(Update) /\ (owed[o] # <<>> => Tail(owed[o]) \in Seq(Update))
    BY HeadTailProperties DEF IInv, TypeOK
  <2>. QED
    BY <2>1 DEF Observe, IInv, TypeOK
<1>5. stack' \in Seq(Frame) /\ Shape'
  BY <1>1, <1>2 DEF Shape
<1>. QED
  BY <1>3, <1>4, <1>5 DEF IInv, TypeOK, Observe, mail, watch

LEMMA ListenInv ==
  ASSUME IInv, NEW l \in Listener, Listen(l)
  PROVE  IInv'
<1>1. /\ Append(stack, Call("listener", l, 0)) \in Seq(Frame)
      /\ ShapeOf(Append(stack, Call("listener", l, 0)), depth, draining)
  BY CallInv DEF Listen, Watcher
<1>2. stack' = Append(stack, Call("listener", l, 0)) /\ UNCHANGED <<depth, draining>>
  BY DEF Listen
<1>3. drain' \in Locals
  BY DEF Listen, IInv, TypeOK, Locals
<1>4. stack' \in Seq(Frame) /\ Shape'
  BY <1>1, <1>2 DEF Shape
<1>. QED
  BY <1>3, <1>4 DEF IInv, TypeOK, Listen, mail, watch

LEMMA BeginTellingInv ==
  ASSUME IInv, BeginTelling
  PROVE  IInv'
<1>1. drain' \in Locals /\ marked' \in Seq(Change)
  BY DEF BeginTelling, IInv, TypeOK, Locals
<1>. QED
  BY <1>1, LocalsInv DEF BeginTelling

LEMMA NextCellInv ==
  ASSUME IInv, NextCell
  PROVE  IInv'
<1> DEFINE calls == IF Home[Head(drain.touched)] \in removed THEN {}
                    ELSE WatchersOf(Head(drain.touched), Listener) \X {Bare}
<1>1. drain \in Locals /\ drain.touched \in Seq(Cell) /\ drain.touched # <<>>
  BY DEF NextCell, IInv, TypeOK, Locals
<1>2. Tail(drain.touched) \in Seq(Cell)
  BY <1>1, HeadTailProperties
<1>3. calls \subseteq Watcher \X (Update \cup {Bare})
  BY DEF WatchersOf, Watcher
<1>4. drain' = [drain EXCEPT !.touched = Tail(@), !.calls = calls]
  BY DEF NextCell
<1> HIDE DEF calls
<1>5. drain' \in Locals
  BY <1>1, <1>2, <1>3, <1>4 DEF Locals
<1>6. marked' \in Seq(Change)
  BY DEF NextCell, IInv, TypeOK
<1>. QED
  BY <1>5, <1>6, LocalsInv DEF NextCell

LEMMA EndTellingInv ==
  ASSUME IInv, EndTelling
  PROVE  IInv'
<1>1. CASE marked = <<>>
  <2>1. /\ stack' \in Seq(Frame)
        /\ draining' \in BOOLEAN
        /\ drain' \in Locals
        /\ ShapeOf(stack', depth, draining')
    BY <1>1, EndDrainInv DEF EndTelling, Telling
  <2>. QED
    BY <2>1 DEF IInv, TypeOK, Shape, EndTelling, mail, watch, owing
<1>2. CASE marked # <<>>
  <2>1. drain' \in Locals /\ marked' \in Seq(Change)
    BY <1>2 DEF EndTelling, IInv, TypeOK, Locals
  <2>. QED
    BY <1>2, <2>1, LocalsInv DEF EndTelling
<1>. QED
  BY <1>1, <1>2

LEMMA Inductive == IInv /\ [Next]_vars => IInv'
<1> SUFFICES ASSUME IInv, [Next]_vars PROVE IInv'
  OBVIOUS
<1>1. CASE Handle
  BY <1>1, HandleInv
<1>2. CASE CloseTurn
  BY <1>2, CloseTurnInv
<1>3. CASE Return
  BY <1>3, ReturnInv
<1>4. CASE Drain
  BY <1>4, NextRoundInv, GiveUpInv, NextChangeInv, BeginTellingInv, NextCellInv, EndTellingInv,
     ObserveInv, ListenInv DEF Drain
<1>5. CASE Ask
  BY <1>5, SendInv, PushInv, RemoveInv, JoinInv, LeaveInv DEF Ask
<1>6. CASE UNCHANGED vars
  BY <1>6 DEF IInv, TypeOK, Shape, vars, mail, rounds, watch, owing
<1>. QED
  BY <1>1, <1>2, <1>3, <1>4, <1>5, <1>6 DEF Next, Run

LEMMA Invariance == Spec => []IInv
BY InitInv, Inductive, PTL DEF Spec

-----------------------------------------------------------------------------
(* What follows. *)

\* Mailboxes, marks, the locals of a drain and the stack stay what the code
\* declares them as, and depth never goes below zero - which the saturating
\* subtraction of notify.rs:44 would hide.
THEOREM TurnsTypeCorrect == Spec => []TypeOK
<1>1. IInv => TypeOK
  BY DEF IInv
<1>. QED
  BY <1>1, Invariance, PTL

\* However deep sends, turns and drains are nested, no observer and no
\* listener ever runs over a handler that has not returned.
THEOREM HandlersAreLeftAlone == Spec => []OffTheHandlersStack
<1>1. ASSUME IInv
      PROVE  OffTheHandlersStack
  <2> SUFFICES ASSUME NEW i \in DOMAIN stack, NEW j \in DOMAIN stack,
                      stack[i].kind = "handler",
                      stack[j].kind \in {"observer", "listener"}
               PROVE  j < i
    BY DEF OffTheHandlersStack
  <2>1. Len(stack) \in Nat /\ DOMAIN stack = 1..Len(stack)
    BY <1>1, LenProperties DEF IInv, TypeOK
  <2>2. j <= Floor(draining)
    BY <1>1, <2>1 DEF IInv, Shape, ShapeOf, Floor
  <2>3. draining /\ j \in {1, 2}
    BY <2>1, <2>2 DEF Floor
  <2>4. stack[1].kind = "drain" /\ (Len(stack) > 1 => stack[2].kind \in {"observer", "listener"})
    BY <1>1, <2>3 DEF IInv, Shape, ShapeOf
  <2>5. i # 1 /\ i # 2 /\ j # 1
    BY <2>1, <2>4
  <2>. QED
    BY <2>1, <2>3, <2>5
<1>. QED
  BY <1>1, Invariance, PTL

\* There is one drain at a time, and it has the stack to itself: its rounds
\* are counted once whatever its observers and listeners set off.
THEOREM OneDrain == Spec => []OneDrainAtATime
<1>1. ASSUME IInv
      PROVE  OneDrainAtATime
  <2> SUFFICES ASSUME NEW i \in DOMAIN stack, stack[i].kind = "drain"
               PROVE  i = 1
    BY DEF OneDrainAtATime
  <2>1. Len(stack) \in Nat /\ DOMAIN stack = 1..Len(stack)
    BY <1>1, LenProperties DEF IInv, TypeOK
  <2>2. i <= Floor(draining)
    BY <1>1, <2>1 DEF IInv, Shape, ShapeOf, Floor
  <2>3. draining /\ i \in {1, 2}
    BY <2>1, <2>2 DEF Floor
  <2>4. Len(stack) > 1 => stack[2].kind \in {"observer", "listener"}
    BY <1>1, <2>3 DEF IInv, Shape, ShapeOf
  <2>. QED
    BY <2>1, <2>3, <2>4
<1>. QED
  BY <1>1, Invariance, PTL

\* Both together: what a drain calls lies on the drain, and the drain on
\* nothing.
THEOREM StackStaysInOrder == Spec => []StackInOrder
<1>1. OffTheHandlersStack /\ OneDrainAtATime => StackInOrder
  BY DEF StackInOrder
<1>. QED
  BY <1>1, HandlersAreLeftAlone, OneDrain, PTL

-----------------------------------------------------------------------------
(* Mailboxes.  An actor that is at work has one turn on the stack, and what *)
(* it handles lies on that turn; what has messages is at work.              *)

TurnsOn(pr, st) ==
  /\ \A a \in Actor : pr[a] => \E i \in 1..Len(st) : st[i].kind = "turn" /\ st[i].who = a
  /\ \A i \in 1..Len(st) : st[i].kind = "turn" => st[i].who \in Actor /\ pr[st[i].who]
  /\ \A i, j \in 1..Len(st) :
       st[i].kind = "turn" /\ st[j].kind = "turn" /\ st[i].who = st[j].who => i = j
  /\ \A i \in 1..Len(st) :
       st[i].kind = "handler" =>
         /\ i - 1 \in 1..Len(st)
         /\ st[i - 1].kind = "turn"
         /\ st[i - 1].who = st[i].who
         /\ st[i].message \in Message

Waiting(q, pr) == \A a \in Actor : q[a] # <<>> => pr[a]

MailInv == TurnsOn(processing, stack) /\ Waiting(queue, processing)

\* An actor handles one message at a time.
LEMMA OneHandler ==
  ASSUME NEW pr, NEW st \in Seq(Frame), TurnsOn(pr, st), NEW a, NEW i \in HandlersOn(st, a)
  PROVE  HandledOn(st, a) = st[i].message /\ st[i].message \in Message /\ HandledOn(st, a) # 0
<1>1. Len(st) \in Nat
  BY LenProperties
<1>2. ASSUME NEW j \in HandlersOn(st, a)
      PROVE  j = i
  <2>1. /\ i \in 1..Len(st) /\ j \in 1..Len(st)
        /\ i - 1 \in 1..Len(st) /\ j - 1 \in 1..Len(st)
        /\ st[i - 1].kind = "turn" /\ st[j - 1].kind = "turn"
        /\ st[i - 1].who = st[j - 1].who
    BY <1>2 DEF HandlersOn, TurnsOn
  <2>2. i - 1 = j - 1
    BY <2>1 DEF TurnsOn
  <2>. QED
    BY <1>1, <2>1, <2>2
<1>3. (CHOOSE j \in HandlersOn(st, a) : TRUE) = i
  BY <1>2
<1>4. HandledOn(st, a) = st[i].message
  BY <1>3 DEF HandledOn
<1>5. st[i].message \in Message
  BY DEF HandlersOn, TurnsOn
<1>6. 0 \notin Message
  BY TurnsAssumption DEF Message
<1>. QED
  BY <1>4, <1>5, <1>6

\* Two stacks with the same handlers of an actor show the same of it.
LEMMA SameHandlers ==
  ASSUME NEW pr, NEW qr, NEW s \in Seq(Frame), NEW t \in Seq(Frame), NEW a,
         TurnsOn(pr, s), TurnsOn(qr, t),
         HandlersOn(s, a) = HandlersOn(t, a),
         \A i \in HandlersOn(s, a) : s[i].message = t[i].message
  PROVE  HandledOn(t, a) = HandledOn(s, a)
<1>1. CASE HandlersOn(s, a) = {}
  BY <1>1 DEF HandledOn
<1>2. ASSUME NEW i \in HandlersOn(s, a)
      PROVE  HandledOn(t, a) = HandledOn(s, a)
  <2>1. HandledOn(s, a) = s[i].message
    BY <1>2, OneHandler
  <2>2. HandledOn(t, a) = t[i].message
    BY <1>2, OneHandler
  <2>. QED
    BY <1>2, <2>1, <2>2
<1>. QED
  BY <1>1, <1>2

\* Only what each frame is, whose it is and what it handles counts.
LEMMA MailSame ==
  ASSUME NEW pr, NEW s \in Seq(Frame), NEW t \in Seq(Frame), TurnsOn(pr, s), Len(t) = Len(s),
         \A i \in 1..Len(s) : /\ t[i].kind = s[i].kind
                              /\ t[i].who = s[i].who
                              /\ t[i].message = s[i].message
  PROVE  TurnsOn(pr, t) /\ \A a \in Actor : HandledOn(t, a) = HandledOn(s, a)
<1>1. TurnsOn(pr, t)
  BY DEF TurnsOn
<1>2. ASSUME NEW a \in Actor
      PROVE  HandledOn(t, a) = HandledOn(s, a)
  <2>1. HandlersOn(s, a) = HandlersOn(t, a)
    BY DEF HandlersOn
  <2>2. \A i \in HandlersOn(s, a) : s[i].message = t[i].message
    BY DEF HandlersOn
  <2>. QED
    BY <1>1, <2>1, <2>2, SameHandlers
<1>. QED
  BY <1>1, <1>2

\* Calls of observers and listeners, and drains, are nothing to a mailbox.
LEMMA MailCall ==
  ASSUME NEW pr, NEW s \in Seq(Frame), NEW f \in Frame, TurnsOn(pr, s),
         f.kind \notin {"turn", "handler"}
  PROVE  /\ TurnsOn(pr, Append(s, f))
         /\ \A a \in Actor : HandledOn(Append(s, f), a) = HandledOn(s, a)
<1> DEFINE t == Append(s, f)
           n == Len(s)
<1>1. /\ t \in Seq(Frame)
      /\ n \in Nat
      /\ Len(t) = n + 1
      /\ \A i \in 1..n : t[i] = s[i]
      /\ t[n + 1] = f
  BY AppendProperties, LenProperties
<1> HIDE DEF t
<1>2. \A i \in 1..Len(t) : t[i].kind \in {"turn", "handler"} => i \in 1..n /\ t[i] = s[i]
  BY <1>1
<1>3. \A i \in 1..n : i \in 1..Len(t)
  BY <1>1
<1> HIDE DEF n
<1>4. TurnsOn(pr, t)
  <2>1. \A a \in Actor : pr[a] => \E i \in 1..Len(t) : t[i].kind = "turn" /\ t[i].who = a
    BY <1>1, <1>3 DEF TurnsOn, n
  <2>2. \A i \in 1..Len(t) : t[i].kind = "turn" => t[i].who \in Actor /\ pr[t[i].who]
    BY <1>2 DEF TurnsOn, n
  <2>3. \A i, j \in 1..Len(t) :
          t[i].kind = "turn" /\ t[j].kind = "turn" /\ t[i].who = t[j].who => i = j
    BY <1>2 DEF TurnsOn, n
  <2>4. ASSUME NEW i \in 1..Len(t), t[i].kind = "handler"
        PROVE  /\ i - 1 \in 1..Len(t)
               /\ t[i - 1].kind = "turn"
               /\ t[i - 1].who = t[i].who
               /\ t[i].message \in Message
    <3>1. i \in 1..n /\ t[i] = s[i]
      BY <1>2, <2>4
    <3>2. /\ i - 1 \in 1..n
          /\ s[i - 1].kind = "turn"
          /\ s[i - 1].who = s[i].who
          /\ s[i].message \in Message
      BY <2>4, <3>1 DEF TurnsOn, n
    <3>3. t[i - 1] = s[i - 1] /\ i - 1 \in 1..Len(t)
      BY <1>1, <1>3, <3>2
    <3>. QED
      BY <3>1, <3>2, <3>3
  <2>. QED
    BY <2>1, <2>2, <2>3, <2>4 DEF TurnsOn
<1>5. ASSUME NEW a \in Actor
      PROVE  HandledOn(t, a) = HandledOn(s, a)
  <2>1. HandlersOn(s, a) = HandlersOn(t, a)
    BY <1>1, <1>2, <1>3 DEF HandlersOn, n
  <2>2. \A i \in HandlersOn(s, a) : s[i].message = t[i].message
    BY <1>1 DEF HandlersOn, n
  <2>. QED
    BY <1>1, <1>4, <2>1, <2>2, SameHandlers
<1>. QED
  BY <1>4, <1>5 DEF t

\* A turn begins.
LEMMA MailTurn ==
  ASSUME NEW pr \in [Actor -> BOOLEAN], NEW s \in Seq(Frame), NEW a \in Actor,
         TurnsOn(pr, s), ~pr[a]
  PROVE  /\ TurnsOn([pr EXCEPT ![a] = TRUE], Append(s, TurnOf(a)))
         /\ \A b \in Actor : HandledOn(Append(s, TurnOf(a)), b) = HandledOn(s, b)
<1> DEFINE t == Append(s, TurnOf(a))
           n == Len(s)
           qr == [pr EXCEPT ![a] = TRUE]
<1>1. TurnOf(a) \in Frame /\ TurnOf(a).kind = "turn" /\ TurnOf(a).who = a
  BY NewFrames DEF TurnOf
<1>2. /\ t \in Seq(Frame)
      /\ n \in Nat
      /\ Len(t) = n + 1
      /\ \A i \in 1..n : t[i] = s[i]
      /\ t[n + 1].kind = "turn" /\ t[n + 1].who = a
  BY <1>1, AppendProperties, LenProperties
<1>3. qr[a] /\ \A b \in Actor : pr[b] => qr[b]
  OBVIOUS
<1>4. \A b \in Actor : b # a /\ qr[b] => pr[b]
  OBVIOUS
<1> HIDE DEF t, qr
<1>5. \A i \in 1..Len(t) : i \in 1..n \/ i = n + 1
  BY <1>2
<1>6. (\A i \in 1..n : i \in 1..Len(t)) /\ n + 1 \in 1..Len(t)
  BY <1>2
<1>7. \A i \in 1..n : s[i].kind = "turn" => s[i].who # a
  BY DEF TurnsOn
<1> HIDE DEF n
<1>8. TurnsOn(qr, t)
  <2>1. ASSUME NEW b \in Actor, qr[b]
        PROVE  \E i \in 1..Len(t) : t[i].kind = "turn" /\ t[i].who = b
    <3>1. CASE b = a
      BY <1>2, <1>6, <3>1
    <3>2. CASE b # a
      <4>1. PICK i \in 1..n : s[i].kind = "turn" /\ s[i].who = b
        BY <1>4, <2>1, <3>2 DEF TurnsOn, n
      <4>. QED
        BY <1>2, <1>6, <4>1
    <3>. QED
      BY <3>1, <3>2
  <2>2. ASSUME NEW i \in 1..Len(t), t[i].kind = "turn"
        PROVE  t[i].who \in Actor /\ qr[t[i].who]
    <3>1. CASE i = n + 1
      BY <1>2, <1>3, <3>1
    <3>2. CASE i \in 1..n
      <4>1. t[i] = s[i] /\ s[i] \in Frame
        BY <1>2, <3>2, ElementOfSeq DEF n
      <4>2. t[i].who \in Actor /\ pr[t[i].who]
        BY <2>2, <3>2, <4>1 DEF TurnsOn, n
      <4>. QED
        BY <4>2, <1>3 DEF qr
    <3>. QED
      BY <1>5, <3>1, <3>2
  <2>3. ASSUME NEW i \in 1..Len(t), NEW j \in 1..Len(t),
               t[i].kind = "turn", t[j].kind = "turn", t[i].who = t[j].who
        PROVE  i = j
    <3>1. CASE i \in 1..n /\ j \in 1..n
      BY <1>2, <2>3, <3>1 DEF TurnsOn, n
    <3>2. CASE i = n + 1 \/ j = n + 1
      BY <1>2, <1>5, <1>7, <2>3, <3>2
    <3>. QED
      BY <1>5, <3>1, <3>2
  <2>4. ASSUME NEW i \in 1..Len(t), t[i].kind = "handler"
        PROVE  /\ i - 1 \in 1..Len(t)
               /\ t[i - 1].kind = "turn"
               /\ t[i - 1].who = t[i].who
               /\ t[i].message \in Message
    <3>1. i \in 1..n /\ t[i] = s[i]
      BY <1>2, <1>5, <2>4
    <3>2. /\ i - 1 \in 1..n
          /\ s[i - 1].kind = "turn"
          /\ s[i - 1].who = s[i].who
          /\ s[i].message \in Message
      BY <2>4, <3>1 DEF TurnsOn, n
    <3>3. t[i - 1] = s[i - 1] /\ i - 1 \in 1..Len(t)
      BY <1>2, <1>6, <3>2
    <3>. QED
      BY <3>1, <3>2, <3>3
  <2>. QED
    BY <2>1, <2>2, <2>3, <2>4 DEF TurnsOn
<1>9. ASSUME NEW b \in Actor
      PROVE  HandledOn(t, b) = HandledOn(s, b)
  <2>1. HandlersOn(s, b) = HandlersOn(t, b)
    BY <1>2, <1>5, <1>6 DEF HandlersOn, n
  <2>2. \A i \in HandlersOn(s, b) : s[i].message = t[i].message
    BY <1>2 DEF HandlersOn, n
  <2>. QED
    BY <1>2, <1>8, <2>1, <2>2, SameHandlers
<1>. QED
  BY <1>8, <1>9 DEF t, qr

\* A handler begins on the turn of its actor.
LEMMA MailHandler ==
  ASSUME NEW pr, NEW s \in Seq(Frame), NEW f \in Frame, TurnsOn(pr, s),
         Len(s) > 0, s[Len(s)].kind = "turn", s[Len(s)].who = f.who,
         f.kind = "handler", f.message \in Message
  PROVE  /\ TurnsOn(pr, Append(s, f))
         /\ HandledOn(s, f.who) = 0
         /\ HandledOn(Append(s, f), f.who) = f.message
         /\ \A a \in Actor : a # f.who => HandledOn(Append(s, f), a) = HandledOn(s, a)
<1> DEFINE t == Append(s, f)
           n == Len(s)
<1>1. /\ t \in Seq(Frame)
      /\ n \in Nat
      /\ Len(t) = n + 1
      /\ \A i \in 1..n : t[i] = s[i]
      /\ t[n + 1] = f
  BY AppendProperties, LenProperties
<1> HIDE DEF t
<1>2. \A i \in 1..Len(t) : i \in 1..n \/ i = n + 1
  BY <1>1
<1>3. (\A i \in 1..n : i \in 1..Len(t)) /\ n + 1 \in 1..Len(t) /\ n \in 1..n /\ n + 1 - 1 = n
  BY <1>1
<1> HIDE DEF n
<1>4. s[n].kind = "turn" /\ s[n].who = f.who
  BY DEF n
<1>5. TurnsOn(pr, t)
  <2>1. \A a \in Actor : pr[a] => \E i \in 1..Len(t) : t[i].kind = "turn" /\ t[i].who = a
    BY <1>1, <1>3 DEF TurnsOn, n
  <2>2. \A i \in 1..Len(t) : t[i].kind = "turn" => i \in 1..n /\ t[i] = s[i]
    BY <1>1, <1>2
  <2>3. \A i \in 1..Len(t) : t[i].kind = "turn" => t[i].who \in Actor /\ pr[t[i].who]
    BY <2>2 DEF TurnsOn, n
  <2>4. \A i, j \in 1..Len(t) :
          t[i].kind = "turn" /\ t[j].kind = "turn" /\ t[i].who = t[j].who => i = j
    BY <2>2 DEF TurnsOn, n
  <2>5. ASSUME NEW i \in 1..Len(t), t[i].kind = "handler"
        PROVE  /\ i - 1 \in 1..Len(t)
               /\ t[i - 1].kind = "turn"
               /\ t[i - 1].who = t[i].who
               /\ t[i].message \in Message
    <3>1. CASE i = n + 1
      BY <1>1, <1>3, <1>4, <3>1
    <3>2. CASE i \in 1..n
      <4>1. /\ i - 1 \in 1..n
            /\ s[i - 1].kind = "turn"
            /\ s[i - 1].who = s[i].who
            /\ s[i].message \in Message
        BY <1>1, <2>5, <3>2 DEF TurnsOn, n
      <4>. QED
        BY <1>1, <1>3, <3>2, <4>1
    <3>. QED
      BY <1>2, <3>1, <3>2
  <2>. QED
    BY <2>1, <2>3, <2>4, <2>5 DEF TurnsOn
<1>6. HandledOn(s, f.who) = 0
  <2>1. ASSUME NEW i \in HandlersOn(s, f.who)
        PROVE  FALSE
    <3>1. /\ i \in 1..n
          /\ i - 1 \in 1..n
          /\ s[i - 1].kind = "turn"
          /\ s[i - 1].who = f.who
      BY <2>1 DEF HandlersOn, TurnsOn, n
    <3>2. i - 1 = n
      BY <1>3, <1>4, <3>1 DEF TurnsOn, n
    <3>. QED
      BY <1>1, <3>1, <3>2
  <2>. QED
    BY <2>1 DEF HandledOn
<1>7. HandledOn(t, f.who) = f.message
  <2>1. n + 1 \in HandlersOn(t, f.who)
    BY <1>1, <1>3 DEF HandlersOn
  <2>. QED
    BY <1>1, <1>5, <2>1, OneHandler
<1>8. ASSUME NEW a \in Actor, a # f.who
      PROVE  HandledOn(t, a) = HandledOn(s, a)
  <2>1. HandlersOn(s, a) = HandlersOn(t, a)
    BY <1>1, <1>2, <1>3, <1>8 DEF HandlersOn, n
  <2>2. \A i \in HandlersOn(s, a) : s[i].message = t[i].message
    BY <1>1 DEF HandlersOn, n
  <2>. QED
    BY <1>1, <1>5, <2>1, <2>2, SameHandlers
<1>. QED
  BY <1>5, <1>6, <1>7, <1>8 DEF t

\* What a stack without its last frame says of mailboxes, whatever that frame is.
LEMMA MailLess ==
  ASSUME NEW pr \in [Actor -> BOOLEAN], NEW s \in Seq(Frame), NEW t \in Seq(Frame),
         TurnsOn(pr, s), Len(s) > 0, Len(t) = Len(s) - 1,
         \A i \in 1..(Len(s) - 1) : t[i] = s[i],
         NEW f, f = s[Len(s)],
         NEW qr,
         f.kind = "turn" => qr = [pr EXCEPT ![f.who] = FALSE],
         f.kind # "turn" => qr = pr
  PROVE  /\ TurnsOn(qr, t)
         /\ f.kind = "handler" => HandledOn(s, f.who) # 0 /\ HandledOn(t, f.who) = 0
         /\ \A a \in Actor : f.kind # "handler" \/ a # f.who
              => HandledOn(t, a) = HandledOn(s, a)
<1> DEFINE n == Len(s)
<1>1. n \in Nat \ {0} /\ Len(t) = n - 1 /\ \A i \in 1..Len(t) : i \in 1..n /\ i # n /\ t[i] = s[i]
  BY LenProperties
<1>2. n \in 1..n /\ \A i \in 1..n : i \in 1..Len(t) \/ i = n
  BY <1>1
<1>3. s[n] = f
  OBVIOUS
<1>4. \A a \in Actor : qr[a] => pr[a] /\ (f.kind = "turn" => f.who # a)
  OBVIOUS
<1>5. \A a \in Actor : pr[a] /\ (f.kind = "turn" => f.who # a) => qr[a]
  OBVIOUS
<1> HIDE DEF n
<1>6. TurnsOn(qr, t)
  <2>1. ASSUME NEW a \in Actor, qr[a]
        PROVE  \E i \in 1..Len(t) : t[i].kind = "turn" /\ t[i].who = a
    <3>1. PICK i \in 1..n : s[i].kind = "turn" /\ s[i].who = a
      BY <1>4, <2>1 DEF TurnsOn, n
    <3>2. i # n
      BY <1>3, <1>4, <2>1, <3>1
    <3>. QED
      BY <1>1, <1>2, <3>1, <3>2
  <2>2. ASSUME NEW i \in 1..Len(t), t[i].kind = "turn"
        PROVE  t[i].who \in Actor /\ qr[t[i].who]
    <3>1. i \in 1..n /\ i # n /\ t[i] = s[i]
      BY <1>1
    <3>2. t[i].who \in Actor /\ pr[t[i].who]
      BY <2>2, <3>1 DEF TurnsOn, n
    <3>3. f.kind = "turn" => f.who # t[i].who
      BY <1>2, <1>3, <2>2, <3>1 DEF TurnsOn, n
    <3>. QED
      BY <1>5, <3>2, <3>3
  <2>3. \A i, j \in 1..Len(t) :
          t[i].kind = "turn" /\ t[j].kind = "turn" /\ t[i].who = t[j].who => i = j
    BY <1>1 DEF TurnsOn, n
  <2>4. ASSUME NEW i \in 1..Len(t), t[i].kind = "handler"
        PROVE  /\ i - 1 \in 1..Len(t)
               /\ t[i - 1].kind = "turn"
               /\ t[i - 1].who = t[i].who
               /\ t[i].message \in Message
    <3>1. i \in 1..n /\ t[i] = s[i]
      BY <1>1
    <3>2. /\ i - 1 \in 1..n
          /\ s[i - 1].kind = "turn"
          /\ s[i - 1].who = s[i].who
          /\ s[i].message \in Message
      BY <2>4, <3>1 DEF TurnsOn, n
    <3>3. i - 1 \in 1..Len(t)
      BY <1>1, <3>2
    <3>. QED
      BY <1>1, <3>1, <3>2, <3>3
  <2>. QED
    BY <2>1, <2>2, <2>3, <2>4 DEF TurnsOn
<1>7. ASSUME f.kind = "handler"
      PROVE  HandledOn(s, f.who) # 0 /\ HandledOn(t, f.who) = 0
  <2>1. n \in HandlersOn(s, f.who)
    BY <1>2, <1>3, <1>7 DEF HandlersOn, n
  <2>2. ASSUME NEW i \in HandlersOn(t, f.who)
        PROVE  FALSE
    <3>1. i \in 1..n /\ i # n /\ s[i].kind = "handler" /\ s[i].who = f.who
      BY <1>1 DEF HandlersOn
    <3>2. /\ i - 1 \in 1..n /\ n - 1 \in 1..n
          /\ s[i - 1].kind = "turn" /\ s[n - 1].kind = "turn"
          /\ s[i - 1].who = s[n - 1].who
      BY <1>2, <1>3, <1>7, <3>1 DEF TurnsOn, n
    <3>3. i - 1 = n - 1
      BY <3>2 DEF TurnsOn, n
    <3>. QED
      BY <1>1, <3>1, <3>3
  <2>. QED
    BY <2>1, <2>2, OneHandler DEF HandledOn
<1>8. ASSUME NEW a \in Actor, f.kind # "handler" \/ a # f.who
      PROVE  HandledOn(t, a) = HandledOn(s, a)
  <2>1. HandlersOn(s, a) = HandlersOn(t, a)
    BY <1>1, <1>2, <1>3, <1>8 DEF HandlersOn, n
  <2>2. \A i \in HandlersOn(s, a) : s[i].message = t[i].message
    BY <1>1, <2>1 DEF HandlersOn
  <2>. QED
    BY <1>6, <2>1, <2>2, SameHandlers
<1>. QED
  BY <1>6, <1>7, <1>8

\* What a step of a mailbox may be, of what the step showed.
MailStep == MailInv' /\ [Mail!Next]_(Mail!vars)

\* Nothing was sent, begun or finished.
LEMMA MailStutters ==
  ASSUME IInv, MailInv, stack' \in Seq(Frame), queue' = queue,
         TurnsOn(processing', stack'), Waiting(queue, processing'),
         \A a \in Actor : HandledOn(stack', a) = HandledOn(stack, a)
  PROVE  MailStep
<1>1. \A a \in Actor : HandledOn(stack', a) = HandledOn(stack, a)
  BY DEF IInv, TypeOK
<1>2. [a \in Actor |-> HandledOn(stack', a)] = [a \in Actor |-> HandledOn(stack, a)]
  BY <1>1
<1>. QED
  BY <1>2 DEF MailStep, MailInv, Waiting, Mail!vars

\* What running code does that is no sending.
LEMMA SpentMail ==
  ASSUME IInv, MailInv, NEW e, May(e)
  PROVE  /\ Spent \in Seq(Frame)
         /\ TurnsOn(processing, Spent)
         /\ \A a \in Actor : HandledOn(Spent, a) = HandledOn(stack, a)
  BY SpentOf, MailSame DEF IInv, TypeOK, MailInv

LEMMA SpentStutters ==
  ASSUME IInv, MailInv, NEW e, May(e), stack' = Spent, UNCHANGED <<queue, processing>>
  PROVE  MailStep
  BY SpentMail, MailStutters DEF MailInv

LEMMA PushMail ==
  ASSUME IInv, MailInv, NEW c \in Cell, NEW u \in Update, Push(c, u)
  PROVE  MailStep
<1>1. /\ Spent \in Seq(Frame)
      /\ TurnsOn(processing, Spent)
      /\ \A a \in Actor : HandledOn(Spent, a) = HandledOn(stack, a)
  BY SpentMail DEF Push
<1>2. /\ TurnsOn(processing, Append(Spent, DrainFrame))
      /\ \A a \in Actor : HandledOn(Append(Spent, DrainFrame), a) = HandledOn(Spent, a)
  BY <1>1, NewFrames, MailCall DEF DrainFrame
<1>3. /\ TurnsOn(processing, stack')
      /\ \A a \in Actor : HandledOn(stack', a) = HandledOn(stack, a)
  BY <1>1, <1>2 DEF Push, StartDrain
<1>4. stack' \in Seq(Frame)
  BY PushInv DEF IInv, TypeOK
<1>. QED
  BY <1>3, <1>4, MailStutters DEF Push, mail, MailInv

LEMMA SendMail ==
  ASSUME IInv, MailInv, NEW a \in Actor, Send(a)
  PROVE  MailStep
<1> DEFINE m == IF Idle THEN 1 ELSE sent + 1
<1>1. /\ Spent \in Seq(Frame)
      /\ TurnsOn(processing, Spent)
      /\ \A b \in Actor : HandledOn(Spent, b) = HandledOn(stack, b)
  BY SpentMail DEF Send
<1>2. m \in Message /\ queue' = [queue EXCEPT ![a] = Append(@, m)]
  BY DEF Send
<1> HIDE DEF m
<1>3. processing \in [Actor -> BOOLEAN] /\ stack' \in Seq(Frame)
  BY SendInv DEF IInv, TypeOK
<1>4. /\ TurnsOn(processing', stack')
      /\ \A b \in Actor : HandledOn(stack', b) = HandledOn(stack, b)
      /\ processing' = [processing EXCEPT ![a] = TRUE]
  <2>1. CASE processing[a]
    <3>1. [processing EXCEPT ![a] = TRUE] = processing
      BY <1>3, <2>1
    <3>. QED
      BY <1>1, <2>1, <3>1 DEF Send, ProcessQueue
  <2>2. CASE ~processing[a]
    <3>1. /\ TurnsOn([processing EXCEPT ![a] = TRUE], Append(Spent, TurnOf(a)))
          /\ \A b \in Actor : HandledOn(Append(Spent, TurnOf(a)), b) = HandledOn(Spent, b)
      BY <1>1, <1>3, <2>2, MailTurn
    <3>2. /\ processing' = [processing EXCEPT ![a] = TRUE]
          /\ stack' = Append(Spent, TurnOf(a))
      BY <2>2 DEF Send, ProcessQueue
    <3>. QED
      BY <1>1, <3>1, <3>2
  <2>. QED
    BY <2>1, <2>2
<1>5. Waiting(queue', processing')
  <2>1. \A b \in Actor : b # a => queue'[b] = queue[b] /\ processing'[b] = processing[b]
    BY <1>2, <1>3, <1>4
  <2>2. processing'[a]
    BY <1>3, <1>4
  <2>. QED
    BY <2>1, <2>2 DEF MailInv, Waiting
<1>6. \A b \in Actor : HandledOn(stack', b) = HandledOn(stack, b)
  BY <1>3, <1>4 DEF IInv, TypeOK
<1>7. [b \in Actor |-> HandledOn(stack', b)] = [b \in Actor |-> HandledOn(stack, b)]
  BY <1>6
<1>8. Mail!Post(a, m)
  BY <1>2, <1>7 DEF Mail!Post
<1>. QED
  BY <1>2, <1>4, <1>5, <1>8 DEF MailStep, MailInv, Mail!Next

LEMMA HandleMail ==
  ASSUME IInv, MailInv, Handle
  PROVE  MailStep
<1>. PICK a : a = Top.who
  OBVIOUS
<1> DEFINE m == Head(queue[a])
           f == Call("handler", a, m)
<1>1. /\ ~Idle /\ Top.kind = "turn"
      /\ a \in Actor
      /\ stack \in Seq(Frame)
      /\ Len(stack) \in Nat \ {0}
  BY TopSays, BeneathOf DEF Handle, Running, IInv, TypeOK
<1>2. queue[a] \in Seq(Message) /\ queue[a] # <<>> /\ m \in Message
  BY <1>1, HeadTailProperties DEF Handle, IInv, TypeOK
<1>3. f \in Frame /\ f.kind = "handler" /\ f.who = a /\ f.message = m
  BY <1>1, <1>2, NewFrames DEF Call, Code
<1>4. queue' = [queue EXCEPT ![a] = Tail(@)] /\ stack' = Append(stack, f) /\ processing' = processing
  BY DEF Handle
<1>5. Top = stack[Len(stack)]
  BY DEF Top
<1> HIDE DEF f, m
<1>6. stack[Len(stack)].kind = "turn" /\ stack[Len(stack)].who = a
  BY <1>1, <1>5
<1>7. /\ TurnsOn(processing, Append(stack, f))
      /\ HandledOn(stack, a) = 0
      /\ HandledOn(Append(stack, f), a) = m
      /\ \A b \in Actor : b # a => HandledOn(Append(stack, f), b) = HandledOn(stack, b)
  BY <1>1, <1>2, <1>3, <1>6, MailHandler DEF MailInv
<1>8. stack' \in Seq(Frame)
  BY HandleInv DEF IInv, TypeOK
<1>9. /\ HandledOn(stack, a) = 0 /\ HandledOn(stack', a) = m
      /\ \A b \in Actor : b # a => HandledOn(stack', b) = HandledOn(stack, b)
  BY <1>1, <1>4, <1>7, <1>8
<1>10. Waiting(queue', processing')
  <2>1. \A b \in Actor : b # a => queue'[b] = queue[b]
    BY <1>4 DEF IInv, TypeOK
  <2>. QED
    BY <1>2, <1>4, <2>1 DEF MailInv, Waiting
<1>11. [b \in Actor |-> HandledOn(stack', b)] = [[b \in Actor |-> HandledOn(stack, b)] EXCEPT ![a] = m]
  BY <1>1, <1>9
<1>12. Mail!Begin(a)
  BY <1>1, <1>2, <1>4, <1>9, <1>11 DEF Mail!Begin, m
<1>. QED
  BY <1>1, <1>4, <1>7, <1>10, <1>12 DEF MailStep, MailInv, Mail!Next

\* What a stack says of mailboxes once its last frame is gone.
LEMMA BeneathMail ==
  ASSUME IInv, MailInv, ~Idle,
         NEW qr,
         Top.kind = "turn" => qr = [processing EXCEPT ![Top.who] = FALSE],
         Top.kind # "turn" => qr = processing
  PROVE  /\ Beneath \in Seq(Frame)
         /\ TurnsOn(qr, Beneath)
         /\ Top.kind = "handler" => HandledOn(stack, Top.who) # 0 /\ HandledOn(Beneath, Top.who) = 0
         /\ \A a \in Actor : Top.kind # "handler" \/ a # Top.who
              => HandledOn(Beneath, a) = HandledOn(stack, a)
<1>1. /\ Len(stack) \in Nat \ {0}
      /\ Beneath \in Seq(Frame)
      /\ Len(Beneath) = Len(stack) - 1
      /\ \A i \in 1..(Len(stack) - 1) : Beneath[i] = stack[i]
  BY BeneathOf DEF IInv, TypeOK
<1>2. Len(stack) > 0 /\ processing \in [Actor -> BOOLEAN] /\ stack \in Seq(Frame)
  BY <1>1 DEF IInv, TypeOK
<1>3. Top = stack[Len(stack)] /\ TurnsOn(processing, stack)
  BY DEF MailInv, Top
<1>. QED
  BY <1>1, <1>2, <1>3, MailLess

LEMMA ReturnMail ==
  ASSUME IInv, MailInv, Return
  PROVE  MailStep
<1>1. ~Idle /\ Top.kind \in Code /\ stack' = Beneath /\ UNCHANGED <<queue, processing>>
  BY DEF Return, mail
<1>2. Top.kind # "turn"
  BY <1>1 DEF Code
<1>3. /\ Beneath \in Seq(Frame)
      /\ TurnsOn(processing, Beneath)
      /\ Top.kind = "handler" => HandledOn(stack, Top.who) # 0 /\ HandledOn(Beneath, Top.who) = 0
      /\ \A a \in Actor : Top.kind # "handler" \/ a # Top.who
           => HandledOn(Beneath, a) = HandledOn(stack, a)
  BY <1>1, <1>2, BeneathMail
<1>4. CASE Top.kind # "handler"
  BY <1>1, <1>3, <1>4, MailStutters DEF MailInv
<1>5. CASE Top.kind = "handler"
  <2>. PICK a : a = Top.who
    OBVIOUS
  <2>1. a \in Actor
    <3> DEFINE n == Len(stack)
    <3>1. n \in Nat \ {0} /\ Top = stack[n]
      BY <1>1, BeneathOf DEF IInv, TypeOK, Top
    <3>2. n \in 1..n
      BY <3>1
    <3>3. n - 1 \in 1..n /\ stack[n - 1].kind = "turn" /\ stack[n - 1].who = a
      BY <1>5, <3>1, <3>2 DEF MailInv, TurnsOn
    <3>. QED
      BY <3>3 DEF IInv, Shape, ShapeOf
  <2>2. /\ HandledOn(stack, a) # 0 /\ HandledOn(stack', a) = 0
        /\ \A b \in Actor : b # a => HandledOn(stack', b) = HandledOn(stack, b)
    BY <1>1, <1>3, <1>5, <2>1 DEF IInv, TypeOK
  <2>3. [b \in Actor |-> HandledOn(stack', b)] = [[b \in Actor |-> HandledOn(stack, b)] EXCEPT ![a] = 0]
    BY <2>1, <2>2
  <2>4. Mail!Finish(a)
    BY <1>1, <2>1, <2>2, <2>3 DEF Mail!Finish
  <2>. QED
    BY <1>1, <1>3, <2>1, <2>4 DEF MailStep, MailInv, Waiting, Mail!Next
<1>. QED
  BY <1>4, <1>5

LEMMA CloseTurnMail ==
  ASSUME IInv, MailInv, CloseTurn
  PROVE  MailStep
<1>1. /\ ~Idle /\ Top.kind = "turn" /\ Top.who \in Actor
      /\ queue[Top.who] = <<>> /\ queue' = queue
      /\ processing' = [processing EXCEPT ![Top.who] = FALSE]
  BY TopSays DEF CloseTurn, Running, IInv, TypeOK
<1>2. /\ Beneath \in Seq(Frame)
      /\ TurnsOn(processing', Beneath)
      /\ \A a \in Actor : HandledOn(Beneath, a) = HandledOn(stack, a)
  BY <1>1, BeneathMail
<1>3. /\ TurnsOn(processing', Append(Beneath, DrainFrame))
      /\ \A a \in Actor : HandledOn(Append(Beneath, DrainFrame), a) = HandledOn(Beneath, a)
  BY <1>2, NewFrames, MailCall DEF DrainFrame
<1>4. stack' \in {Beneath, Append(Beneath, DrainFrame)}
  BY DEF CloseTurn, StartDrain
<1>5. stack' \in Seq(Frame)
  BY CloseTurnInv DEF IInv, TypeOK
<1>6. Waiting(queue, processing')
  BY <1>1 DEF MailInv, Waiting, IInv, TypeOK
<1>. QED
  BY <1>1, <1>2, <1>3, <1>4, <1>5, <1>6, MailStutters

\* The drain sends nothing itself: it calls, and it ends.
LEMMA DrainMail ==
  ASSUME IInv, MailInv, Drain
  PROVE  MailStep
<1>1. stack' \in Seq(Frame) /\ UNCHANGED <<queue, processing>>
  BY Inductive DEF IInv, TypeOK, Next, Run, Drain, NextRound, GiveUp, NextChange, BeginTelling,
     NextCell, EndTelling, Observe, Listen, mail
<1>2. CASE UNCHANGED stack
  BY <1>1, <1>2, MailStutters DEF MailInv
<1>3. CASE ~Idle /\ Top.kind = "drain" /\ stack' = Beneath
  <2>1. /\ TurnsOn(processing, Beneath)
        /\ \A a \in Actor : HandledOn(Beneath, a) = HandledOn(stack, a)
    BY <1>3, BeneathMail
  <2>. QED
    BY <1>1, <1>3, <2>1, MailStutters DEF MailInv
<1>4. ASSUME NEW k \in {"observer", "listener"}, NEW w \in Watcher, stack' = Append(stack, Call(k, w, 0))
      PROVE  MailStep
  <2>1. Call(k, w, 0) \in Frame /\ Call(k, w, 0).kind \notin {"turn", "handler"}
    BY NewFrames DEF Call, Code
  <2>2. /\ TurnsOn(processing, stack')
        /\ \A a \in Actor : HandledOn(stack', a) = HandledOn(stack, a)
    BY <1>4, <2>1, MailCall DEF MailInv, IInv, TypeOK
  <2>. QED
    BY <1>1, <2>2, MailStutters DEF MailInv
<1>5. CASE GiveUp \/ EndTelling
  <2>1. ~Idle /\ Top.kind = "drain"
    BY <1>5 DEF GiveUp, EndTelling, Settling, Telling, Running
  <2>2. UNCHANGED stack \/ stack' = Beneath
    BY <1>5 DEF GiveUp, EndTelling, EndDrain
  <2>. QED
    BY <1>2, <1>3, <2>1, <2>2
<1>6. CASE NextRound \/ NextChange \/ BeginTelling \/ NextCell
  <2>1. UNCHANGED stack
    BY <1>6 DEF NextRound, NextChange, BeginTelling, NextCell
  <2>. QED
    BY <1>2, <2>1
<1>7. CASE \E o \in Observer, u \in Update : Observe(o, u)
  BY <1>4, <1>7 DEF Observe, Watcher
<1>8. CASE \E l \in Listener : Listen(l)
  BY <1>4, <1>8 DEF Listen, Watcher
<1>. QED
  BY <1>5, <1>6, <1>7, <1>8 DEF Drain

LEMMA MailInductive ==
  ASSUME IInv, MailInv, [Next]_vars
  PROVE  MailStep
<1>1. CASE Handle
  BY <1>1, HandleMail
<1>2. CASE CloseTurn
  BY <1>2, CloseTurnMail
<1>3. CASE Return
  BY <1>3, ReturnMail
<1>4. CASE Drain
  BY <1>4, DrainMail
<1>5. CASE \E a \in Actor : Send(a)
  BY <1>5, SendMail
<1>6. CASE \E c \in Cell, u \in Update : Push(c, u)
  BY <1>6, PushMail
<1>7. CASE \E s \in Scope : Remove(s)
  BY <1>7, SpentStutters DEF Remove, mail
<1>8. CASE \E w \in Watcher : Join(w) \/ Leave(w)
  BY <1>8, SpentStutters DEF Join, Leave, mail
<1>9. CASE UNCHANGED vars
  BY <1>9, MailStutters DEF vars, mail, IInv, TypeOK, MailInv
<1>. QED
  BY <1>1, <1>2, <1>3, <1>4, <1>5, <1>6, <1>7, <1>8, <1>9 DEF Next, Run, Ask

LEMMA MailInit ==
  ASSUME Init
  PROVE  MailInv /\ Mail!Init
<1>1. stack = <<>> /\ Len(stack) = 0
  BY EmptySeq DEF Init
<1>2. MailInv
  BY <1>1 DEF Init, MailInv, TurnsOn, Waiting
<1>3. \A a \in Actor : HandledOn(stack, a) = 0
  BY <1>1 DEF HandledOn, HandlersOn
<1>4. [a \in Actor |-> HandledOn(stack, a)] = [a \in Actor |-> 0]
  BY <1>3
<1>. QED
  BY <1>2, <1>4 DEF Init, Mail!Init

\* However sends, turns and drains fold into one another, every actor takes
\* its messages one at a time, in the order they were sent and each once.
THEOREM TurnsAreMailboxes == Spec => ImplementsMailboxes
<1>1. Init => MailInv /\ Mail!Init
  BY MailInit
<1>2. IInv /\ MailInv /\ [Next]_vars => MailInv' /\ [Mail!Next]_(Mail!vars)
  BY MailInductive DEF MailStep
<1>. QED
  BY <1>1, <1>2, Invariance, PTL DEF Spec, ImplementsMailboxes, Mail!Spec

LEMMA MailInvariance == Spec => []MailInv
<1>1. Init => MailInv
  BY MailInit
<1>2. IInv /\ MailInv /\ [Next]_vars => MailInv'
  BY MailInductive DEF MailStep
<1>. QED
  BY <1>1, <1>2, Invariance, PTL DEF Spec

-----------------------------------------------------------------------------
(* Updates on their way to an observer.                                     *)

\* A place on the way is 0 or the one of a change ahead.
LEMMA PlaceOnTheWay ==
  ASSUME NEW o, NEW calls, NEW ahead \in Seq(Change), NEW p \in OnTheWay(o, calls, ahead)
  PROVE  /\ p \in Nat
         /\ p = 0 => \E u \in Update : <<o, u>> \in calls
         /\ p # 0 => /\ p \in 1..Len(ahead)
                     /\ ahead[p].cell = Watches[o]
                     /\ ahead[p].update # Bare
<1>1. DOMAIN ahead = 1..Len(ahead) /\ Len(ahead) \in Nat
  BY LenProperties
<1>2. p \in 1..Len(ahead) => p \in Nat /\ p # 0
  BY <1>1
<1>3. CASE p = 0 /\ \E u \in Update : <<o, u>> \in calls
  BY <1>3
<1>4. CASE p \in DOMAIN ahead /\ ahead[p].cell = Watches[o] /\ ahead[p].update # Bare
  BY <1>1, <1>2, <1>4
<1>. QED
  BY <1>3, <1>4 DEF OnTheWay

\* Nothing due is always on the way.
LEMMA NothingDue ==
  ASSUME NEW o, NEW calls, NEW ahead
  PROVE  EndOfTheWay(o, <<>>, calls, ahead)
<1> DEFINE at == [i \in {} |-> 0]
<1>1. DOMAIN <<>> = {}
  OBVIOUS
<1>2. at \in [{} -> OnTheWay(o, calls, ahead)]
  OBVIOUS
<1>3. Meets(at, o, <<>>, calls, ahead)
  BY <1>1 DEF Meets
<1>. QED
  BY <1>1, <1>2, <1>3 DEF EndOfTheWay

\* Nothing is due where nothing is on the way.
LEMMA NothingOnTheWay ==
  ASSUME NEW o, NEW calls, NEW due \in Seq(Update), OnTheWay(o, calls, <<>>) = {},
         EndOfTheWay(o, due, calls, <<>>)
  PROVE  due = <<>>
<1>1. DOMAIN due = 1..Len(due) /\ Len(due) \in Nat
  BY LenProperties
<1>2. DOMAIN due = {}
  BY DEF EndOfTheWay
<1>3. Len(due) = 0
  BY <1>1, <1>2
<1>. QED
  BY <1>3, EmptySeq

\* Only who is called with what counts.
LEMMA SameCalls ==
  ASSUME NEW o, NEW due, NEW calls, NEW others, NEW ahead,
         EndOfTheWay(o, due, calls, ahead),
         \A i \in DOMAIN due : due[i] \in Update,
         \A u \in Update : <<o, u>> \in others <=> <<o, u>> \in calls
  PROVE  EndOfTheWay(o, due, others, ahead)
<1>1. OnTheWay(o, others, ahead) = OnTheWay(o, calls, ahead)
  BY DEF OnTheWay
<1>2. PICK at \in [DOMAIN due -> OnTheWay(o, calls, ahead)] : Meets(at, o, due, calls, ahead)
  BY DEF EndOfTheWay
<1>3. Meets(at, o, due, others, ahead)
  BY <1>1, <1>2 DEF Meets
<1>. QED
  BY <1>1, <1>2, <1>3 DEF EndOfTheWay

\* A change that carries nothing for an observer is marked.
LEMMA NotForIt ==
  ASSUME NEW o, NEW due, NEW calls, NEW ahead \in Seq(Change), NEW change \in Change,
         EndOfTheWay(o, due, calls, ahead),
         change.cell # Watches[o] \/ change.update = Bare
  PROVE  EndOfTheWay(o, due, calls, Append(ahead, change))
<1> DEFINE longer == Append(ahead, change)
<1>1. /\ Len(ahead) \in Nat
      /\ DOMAIN ahead = 1..Len(ahead)
      /\ DOMAIN longer = 1..(Len(ahead) + 1)
      /\ \A p \in 1..Len(ahead) : longer[p] = ahead[p]
      /\ longer[Len(ahead) + 1] = change
  BY AppendProperties, LenProperties
<1>2. \A p : p \in 1..(Len(ahead) + 1) <=> p \in 1..Len(ahead) \/ p = Len(ahead) + 1
  BY <1>1
<1> HIDE DEF longer
<1>3. OnTheWay(o, calls, longer) = OnTheWay(o, calls, ahead)
  BY <1>1, <1>2 DEF OnTheWay
<1>4. PICK at \in [DOMAIN due -> OnTheWay(o, calls, ahead)] : Meets(at, o, due, calls, ahead)
  BY DEF EndOfTheWay
<1>5. \A i \in DOMAIN due : at[i] # 0 => longer[at[i]] = ahead[at[i]]
  BY <1>1, PlaceOnTheWay
<1>6. Meets(at, o, due, calls, longer)
  BY <1>3, <1>4, <1>5 DEF Meets
<1>7. EndOfTheWay(o, due, calls, longer)
  BY <1>3, <1>4, <1>6 DEF EndOfTheWay
<1>. QED
  BY <1>7 DEF longer

\* An update for an observer is marked.
LEMMA OneMoreDue ==
  ASSUME NEW o, NEW due \in Seq(Update), NEW calls, NEW ahead \in Seq(Change),
         NEW change \in Change,
         EndOfTheWay(o, due, calls, ahead),
         change.cell = Watches[o], change.update \in Update
  PROVE  EndOfTheWay(o, Append(due, change.update), calls, Append(ahead, change))
<1> DEFINE longer == Append(ahead, change)
           more == Append(due, change.update)
           n == Len(ahead)
           k == Len(due)
<1>1. /\ n \in Nat
      /\ DOMAIN ahead = 1..n
      /\ DOMAIN longer = 1..(n + 1)
      /\ \A p \in 1..n : longer[p] = ahead[p]
      /\ longer[n + 1] = change
  BY AppendProperties, LenProperties
<1>2. /\ k \in Nat
      /\ DOMAIN due = 1..k
      /\ DOMAIN more = 1..(k + 1)
      /\ \A i \in 1..k : more[i] = due[i]
      /\ more[k + 1] = change.update
  BY AppendProperties, LenProperties
<1> HIDE DEF longer, more, n, k
<1>3. change.update # Bare
  BY TurnsAssumption
<1>4. \A p : p \in 1..(n + 1) <=> p \in 1..n \/ p = n + 1
  BY <1>1
<1>5. OnTheWay(o, calls, longer) = OnTheWay(o, calls, ahead) \cup {n + 1}
  BY <1>1, <1>3, <1>4 DEF OnTheWay
<1>6. \A p \in OnTheWay(o, calls, ahead) : p \in 0..n /\ (p # 0 => longer[p] = ahead[p])
  BY <1>1, PlaceOnTheWay DEF n
<1>7. PICK at \in [DOMAIN due -> OnTheWay(o, calls, ahead)] : Meets(at, o, due, calls, ahead)
  BY DEF EndOfTheWay
<1>8. /\ at \in [1..k -> OnTheWay(o, calls, ahead)]
      /\ \A i, j \in 1..k : i < j => at[i] < at[j]
      /\ \A i \in 1..k : IF at[i] = 0 THEN <<o, due[i]>> \in calls
                         ELSE ahead[at[i]].update = due[i]
      /\ \A i \in 1..k, p \in OnTheWay(o, calls, ahead) :
           at[i] < p => \E j \in 1..k : at[j] = p
  BY <1>2, <1>7 DEF Meets
<1> DEFINE to == [i \in 1..(k + 1) |-> IF i = k + 1 THEN n + 1 ELSE at[i]]
<1>9. \A i \in 1..k : to[i] = at[i] /\ at[i] \in 0..n /\ i \in 1..(k + 1)
  BY <1>2, <1>6, <1>8
<1>10. to[k + 1] = n + 1 /\ k + 1 \in 1..(k + 1)
  BY <1>2
<1>11. \A i \in 1..(k + 1) : i \in 1..k \/ i = k + 1
  BY <1>2
<1>12. to \in [1..(k + 1) -> OnTheWay(o, calls, longer)]
  BY <1>5, <1>8, <1>9, <1>10, <1>11
<1> HIDE DEF to
<1>13. \A i, j \in 1..(k + 1) : i < j => to[i] < to[j]
  <2> SUFFICES ASSUME NEW i \in 1..(k + 1), NEW j \in 1..(k + 1), i < j
               PROVE  to[i] < to[j]
    OBVIOUS
  <2>1. i \in 1..k
    BY <1>2, <1>11
  <2>2. CASE j \in 1..k
    BY <1>8, <1>9, <2>1, <2>2
  <2>3. CASE j = k + 1
    BY <1>1, <1>9, <1>10, <2>1, <2>3
  <2>. QED
    BY <1>11, <2>2, <2>3
<1>14. \A i \in 1..(k + 1) : IF to[i] = 0 THEN <<o, more[i]>> \in calls
                             ELSE longer[to[i]].update = more[i]
  <2> SUFFICES ASSUME NEW i \in 1..(k + 1)
               PROVE  IF to[i] = 0 THEN <<o, more[i]>> \in calls
                      ELSE longer[to[i]].update = more[i]
    OBVIOUS
  <2>1. CASE i = k + 1
    BY <1>1, <1>2, <1>10, <2>1
  <2>2. CASE i \in 1..k
    <3>1. at[i] \in OnTheWay(o, calls, ahead)
      BY <1>8, <2>2
    <3>2. to[i] = at[i] /\ more[i] = due[i]
      BY <1>2, <1>9, <2>2
    <3>3. at[i] # 0 => longer[at[i]] = ahead[at[i]]
      BY <1>6, <3>1
    <3>4. IF at[i] = 0 THEN <<o, due[i]>> \in calls ELSE ahead[at[i]].update = due[i]
      BY <1>8, <2>2
    <3>. QED
      BY <3>2, <3>3, <3>4
  <2>. QED
    BY <1>11, <2>1, <2>2
<1>15. ASSUME NEW i \in 1..(k + 1), NEW p \in OnTheWay(o, calls, longer), to[i] < p
       PROVE  \E j \in 1..(k + 1) : to[j] = p
  <2>1. CASE p = n + 1
    BY <1>10, <2>1
  <2>2. CASE p \in OnTheWay(o, calls, ahead)
    <3>1. i \in 1..k
      <4>1. p \in 0..n
        BY <1>6, <2>2
      <4>2. i # k + 1
        BY <1>1, <1>10, <1>15, <4>1
      <4>. QED
        BY <1>11, <4>2
    <3>2. at[i] < p
      BY <1>9, <1>15, <3>1
    <3>3. \E j \in 1..k : at[j] = p
      BY <1>8, <2>2, <3>1, <3>2
    <3>. QED
      BY <1>9, <3>3
  <2>. QED
    BY <1>5, <2>1, <2>2
<1>16. Meets(to, o, more, calls, longer)
  BY <1>2, <1>13, <1>14, <1>15 DEF Meets
<1>17. EndOfTheWay(o, more, calls, longer)
  BY <1>2, <1>12, <1>16 DEF EndOfTheWay
<1>. QED
  BY <1>17 DEF more, longer

\* The first of the changes ahead is taken: what it carries for an observer
\* becomes a call.
LEMMA OneAheadLess ==
  ASSUME NEW o, NEW due \in Seq(Update), NEW calls, NEW others, NEW ahead \in Seq(Change),
         ahead # <<>>,
         EndOfTheWay(o, due, calls, ahead),
         \A u \in Update : <<o, u>> \notin calls,
         \A u \in Update : <<o, u>> \in others
                             <=> ahead[1].cell = Watches[o] /\ ahead[1].update = u
  PROVE  EndOfTheWay(o, due, others, Tail(ahead))
<1> DEFINE rest == Tail(ahead)
           n == Len(ahead)
<1>1. /\ n \in Nat \ {0}
      /\ DOMAIN ahead = 1..n
      /\ DOMAIN rest = 1..(n - 1)
      /\ \A p \in 1..(n - 1) : rest[p] = ahead[p + 1]
  <2>1. n # 0
    BY EmptySeq
  <2>2. rest \in Seq(Change) /\ Len(rest) = n - 1 /\ \A p \in 1..Len(rest) : rest[p] = ahead[p + 1]
    BY HeadTailProperties
  <2>. QED
    BY <2>1, <2>2, LenProperties
<1>2. ahead[1].update \in Update \cup {Bare}
  <2>1. 1 \in 1..Len(ahead)
    BY <1>1
  <2>2. ahead[1] \in Change
    BY <2>1, ElementOfSeq
  <2>. QED
    BY <2>2 DEF Change
<1> HIDE DEF rest, n
<1>3. \A p \in OnTheWay(o, calls, ahead) : p \in 1..n
  BY PlaceOnTheWay DEF n
<1>4. \A p \in OnTheWay(o, calls, ahead) : p - 1 \in OnTheWay(o, others, rest)
  <2> SUFFICES ASSUME NEW p \in OnTheWay(o, calls, ahead)
               PROVE  p - 1 \in OnTheWay(o, others, rest)
    OBVIOUS
  <2>1. p \in 1..n /\ ahead[p].cell = Watches[o] /\ ahead[p].update # Bare
    BY <1>1, <1>3, PlaceOnTheWay
  <2>2. CASE p = 1
    <3>1. ahead[1].update \in Update
      BY <1>2, <2>1, <2>2
    <3>2. <<o, ahead[1].update>> \in others
      BY <2>1, <2>2, <3>1
    <3>. QED
      BY <2>2, <3>1, <3>2 DEF OnTheWay
  <2>3. CASE p # 1
    <3>1. p - 1 \in 1..(n - 1) /\ p - 1 + 1 = p
      BY <1>1, <2>1, <2>3
    <3>2. rest[p - 1] = ahead[p]
      BY <1>1, <3>1
    <3>. QED
      BY <1>1, <2>1, <3>1, <3>2 DEF OnTheWay
  <2>. QED
    BY <2>2, <2>3
<1>5. \A q \in OnTheWay(o, others, rest) : q \in Nat /\ q + 1 \in OnTheWay(o, calls, ahead)
  <2> SUFFICES ASSUME NEW q \in OnTheWay(o, others, rest)
               PROVE  q \in Nat /\ q + 1 \in OnTheWay(o, calls, ahead)
    OBVIOUS
  <2>1. CASE q = 0 /\ \E u \in Update : <<o, u>> \in others
    <3>1. ahead[1].cell = Watches[o] /\ ahead[1].update # Bare
      BY <2>1, TurnsAssumption
    <3>2. 1 \in DOMAIN ahead
      BY <1>1
    <3>. QED
      BY <2>1, <3>1, <3>2 DEF OnTheWay
  <2>2. CASE q \in 1..(n - 1) /\ rest[q].cell = Watches[o] /\ rest[q].update # Bare
    <3>1. q + 1 \in 1..n /\ q \in Nat
      BY <1>1, <2>2
    <3>2. ahead[q + 1] = rest[q]
      BY <1>1, <2>2
    <3>. QED
      BY <1>1, <2>2, <3>1, <3>2 DEF OnTheWay
  <2>. QED
    BY <1>1, <2>1, <2>2 DEF OnTheWay
<1>6. PICK at \in [DOMAIN due -> OnTheWay(o, calls, ahead)] : Meets(at, o, due, calls, ahead)
  BY DEF EndOfTheWay
<1> DEFINE to == [i \in DOMAIN due |-> at[i] - 1]
<1>7. \A i \in DOMAIN due : to[i] = at[i] - 1 /\ at[i] \in 1..n /\ due[i] \in Update
                            /\ at[i] \in OnTheWay(o, calls, ahead)
  BY <1>3, <1>6, LenProperties, ElementOfSeq
<1>8. to \in [DOMAIN due -> OnTheWay(o, others, rest)]
  BY <1>4, <1>6
<1> HIDE DEF to
<1>9. \A i, j \in DOMAIN due : i < j => to[i] < to[j]
  <2> SUFFICES ASSUME NEW i \in DOMAIN due, NEW j \in DOMAIN due, i < j
               PROVE  to[i] < to[j]
    OBVIOUS
  <2>1. at[i] < at[j]
    BY <1>6 DEF Meets
  <2>. QED
    BY <1>1, <1>7, <2>1
<1>10. ASSUME NEW i \in DOMAIN due
       PROVE  IF to[i] = 0 THEN <<o, due[i]>> \in others
              ELSE rest[to[i]].update = due[i]
  <2>1. at[i] # 0 /\ at[i] \in OnTheWay(o, calls, ahead)
    BY <1>1, <1>7
  <2>2. ahead[at[i]].cell = Watches[o]
    BY <2>1, PlaceOnTheWay
  <2>3. ahead[at[i]].update = due[i]
    BY <1>6, <2>1 DEF Meets
  <2>4. CASE at[i] = 1
    BY <1>7, <2>4, <2>2, <2>3
  <2>5. CASE at[i] # 1
    <3>1. to[i] \in 1..(n - 1) /\ to[i] + 1 = at[i] /\ to[i] # 0
      BY <1>1, <1>7, <2>5
    <3>2. rest[to[i]] = ahead[at[i]]
      BY <1>1, <3>1
    <3>. QED
      BY <2>3, <3>1, <3>2
  <2>. QED
    BY <2>4, <2>5
<1>11. ASSUME NEW i \in DOMAIN due, NEW q \in OnTheWay(o, others, rest), to[i] < q
       PROVE  \E j \in DOMAIN due : to[j] = q
  <2>1. q \in Nat /\ q + 1 \in OnTheWay(o, calls, ahead)
    BY <1>5
  <2>2. at[i] < q + 1
    BY <1>1, <1>7, <1>11, <2>1
  <2>3. PICK j \in DOMAIN due : at[j] = q + 1
    BY <1>6, <2>1, <2>2 DEF Meets
  <2>4. to[j] = q
    BY <1>7, <2>1, <2>3
  <2>. QED
    BY <2>4
<1>12. Meets(to, o, due, others, rest)
  BY <1>9, <1>10, <1>11 DEF Meets
<1>13. EndOfTheWay(o, due, others, rest)
  BY <1>8, <1>12 DEF EndOfTheWay
<1>. QED
  BY <1>13 DEF rest

\* An observer is called with an update: it is handed what was first due, if
\* that was due at all.
LEMMA OneCalled ==
  ASSUME NEW o, NEW u \in Update, NEW due \in Seq(Update), NEW calls, NEW ahead \in Seq(Change),
         EndOfTheWay(o, due, calls, ahead),
         \A v \in Update : <<o, v>> \in calls <=> v = u
  PROVE  EndOfTheWay(o, IF due # <<>> /\ Head(due) = u THEN Tail(due) ELSE due,
                     calls \ {<<o, u>>}, ahead)
<1> DEFINE others == calls \ {<<o, u>>}
           k == Len(due)
<1>1. k \in Nat /\ DOMAIN due = 1..k
  BY LenProperties
<1> HIDE DEF k
<1>2. OnTheWay(o, others, ahead) = OnTheWay(o, calls, ahead) \ {0}
  <2>1. \A v \in Update : <<o, v>> \notin others
    OBVIOUS
  <2>2. 0 \notin DOMAIN ahead
    BY LenProperties
  <2> HIDE DEF others
  <2>. QED
    BY <2>1, <2>2 DEF OnTheWay
<1>3. \A p \in OnTheWay(o, calls, ahead) : p \in Nat
  BY PlaceOnTheWay
<1>4. PICK at \in [DOMAIN due -> OnTheWay(o, calls, ahead)] : Meets(at, o, due, calls, ahead)
  BY DEF EndOfTheWay
<1>5. /\ at \in [1..k -> OnTheWay(o, calls, ahead)]
      /\ \A i, j \in 1..k : i < j => at[i] < at[j]
      /\ \A i \in 1..k : IF at[i] = 0 THEN <<o, due[i]>> \in calls
                         ELSE ahead[at[i]].update = due[i]
      /\ \A i \in 1..k, p \in OnTheWay(o, calls, ahead) :
           at[i] < p => \E j \in 1..k : at[j] = p
  BY <1>1, <1>4 DEF Meets
<1> HIDE DEF others
<1>6. \A i \in 1..k : due[i] \in Update
  BY ElementOfSeq DEF k
<1>7. CASE due = <<>>
  <2>1. EndOfTheWay(o, <<>>, others, ahead)
    BY NothingDue
  <2>. QED
    BY <1>7, <2>1 DEF others
<1>8. CASE due # <<>> /\ Head(due) # u
  <2>1. k > 0 /\ Head(due) = due[1]
    BY <1>1, <1>8, EmptySeq DEF k
  <2>2. 1 \in 1..k
    BY <1>1, <2>1
  <2>3. at[1] # 0
    BY <1>5, <1>6, <1>8, <2>1, <2>2
  <2>4. \A i \in 1..k : at[i] # 0
    <3> SUFFICES ASSUME NEW i \in 1..k PROVE at[i] # 0
      OBVIOUS
    <3>1. i = 1 \/ 1 < i
      BY <1>1
    <3>2. at[1] \in Nat /\ at[i] \in Nat
      BY <1>3, <1>5, <2>2
    <3>3. i = 1 \/ at[1] < at[i]
      BY <1>5, <2>2, <3>1
    <3>. QED
      BY <2>3, <3>2, <3>3
  <2>5. at \in [1..k -> OnTheWay(o, others, ahead)]
    BY <1>2, <1>5, <2>4
  <2>6. Meets(at, o, due, others, ahead)
    BY <1>1, <1>2, <1>5, <2>4 DEF Meets
  <2>7. EndOfTheWay(o, due, others, ahead)
    BY <1>1, <2>5, <2>6 DEF EndOfTheWay
  <2>. QED
    BY <1>8, <2>7 DEF others
<1>9. CASE due # <<>> /\ Head(due) = u
  <2> DEFINE rest == Tail(due)
             to == [i \in 1..(k - 1) |-> at[i + 1]]
  <2>1. k > 0
    BY <1>1, <1>9, EmptySeq DEF k
  <2>2. DOMAIN rest = 1..(k - 1) /\ \A i \in 1..(k - 1) : rest[i] = due[i + 1]
    <3>1. rest \in Seq(Update) /\ Len(rest) = k - 1 /\ \A i \in 1..Len(rest) : rest[i] = due[i + 1]
      BY <1>9, HeadTailProperties DEF k
    <3>. QED
      BY <3>1, LenProperties
  <2> HIDE DEF rest
  <2>3. \A i \in 1..(k - 1) : i + 1 \in 1..k /\ 1 \in 1..k /\ 1 < i + 1
    BY <1>1, <2>1
  <2>4. \A i \in 1..(k - 1) : to[i] = at[i + 1] /\ at[i + 1] \in OnTheWay(o, calls, ahead) \ {0}
    <3> SUFFICES ASSUME NEW i \in 1..(k - 1)
                 PROVE  at[i + 1] \in OnTheWay(o, calls, ahead) \ {0}
      OBVIOUS
    <3>1. at[1] \in Nat /\ at[i + 1] \in Nat /\ at[1] < at[i + 1]
      BY <1>3, <1>5, <2>3
    <3>2. at[i + 1] \in OnTheWay(o, calls, ahead)
      BY <1>5, <2>3
    <3>. QED
      BY <3>1, <3>2
  <2>5. to \in [1..(k - 1) -> OnTheWay(o, others, ahead)]
    BY <1>2, <2>4
  <2> HIDE DEF to
  <2>6. \A i, j \in 1..(k - 1) : i < j => to[i] < to[j]
    <3> SUFFICES ASSUME NEW i \in 1..(k - 1), NEW j \in 1..(k - 1), i < j
                 PROVE  to[i] < to[j]
      OBVIOUS
    <3>1. i + 1 < j + 1
      BY <1>1
    <3>. QED
      BY <1>5, <2>3, <2>4, <3>1
  <2>7. \A i \in 1..(k - 1) : IF to[i] = 0 THEN <<o, rest[i]>> \in others
                              ELSE ahead[to[i]].update = rest[i]
    BY <1>5, <2>2, <2>3, <2>4
  <2>8. ASSUME NEW i \in 1..(k - 1), NEW p \in OnTheWay(o, others, ahead), to[i] < p
        PROVE  \E j \in 1..(k - 1) : to[j] = p
    <3>1. p \in OnTheWay(o, calls, ahead) /\ i + 1 \in 1..k /\ at[i + 1] < p
      BY <1>2, <2>3, <2>4, <2>8
    <3>2. PICK j \in 1..k : at[j] = p
      BY <1>5, <3>1
    <3>3. j # 1
      <4>1. at[1] \in Nat /\ at[i + 1] \in Nat /\ at[1] < at[i + 1] /\ p \in Nat
        BY <1>3, <1>5, <2>3, <3>1
      <4>. QED
        BY <3>1, <3>2, <4>1
    <3>4. j - 1 \in 1..(k - 1) /\ j - 1 + 1 = j
      BY <1>1, <3>3
    <3>5. to[j - 1] = p
      BY <2>4, <3>2, <3>4
    <3>. QED
      BY <3>4, <3>5
  <2>9. Meets(to, o, rest, others, ahead)
    BY <2>2, <2>6, <2>7, <2>8 DEF Meets
  <2>10. EndOfTheWay(o, rest, others, ahead)
    BY <2>2, <2>5, <2>9 DEF EndOfTheWay
  <2>. QED
    BY <1>9, <2>10 DEF others, rest
<1>. QED
  BY <1>7, <1>8, <1>9

-----------------------------------------------------------------------------
(* What is to be told.                                                      *)

\* A mark waits for a turn or a drain to end.
MarksInv == marked # <<>> => depth > 0 \/ draining

\* Where a drain is, and whom it calls there.
DrainInv ==
  /\ ~draining => drain = NoDrain
  /\ draining => drain.phase \in {"settle", "tell"}
  /\ drain.phase = "settle" => drain.calls \subseteq Observer \X Update
  /\ drain.phase = "tell" => drain.batch = <<>> /\ drain.calls \subseteq Listener \X {Bare}

\* Cells that are watched are there, and who does not watch is owed nothing.
WatchInv ==
  /\ \A w \in watching : Home[Watches[w]] \notin removed
  /\ \A o \in Observer \ watching : owed[o] = <<>>

\* An observer is called with one update at a time.
OneCall == \A o \in Observer, u, v \in Update :
             <<o, u>> \in drain.calls /\ <<o, v>> \in drain.calls => u = v

TellInv ==
  /\ MarksInv
  /\ DrainInv
  /\ OneCall
  /\ WatchInv
  /\ EveryUpdateIsHanded
  /\ EveryChangeIsTold

LEMMA TellInit ==
  ASSUME Init
  PROVE  TellInv
<1>1. DrainInv /\ MarksInv /\ OneCall
  BY DEF Init, DrainInv, MarksInv, OneCall, NoDrain
<1>2. WatchInv /\ EveryChangeIsTold
  BY DEF Init, WatchInv, EveryChangeIsTold
<1>3. EveryUpdateIsHanded
  BY NothingDue DEF Init, EveryUpdateIsHanded
<1>. QED
  BY <1>1, <1>2, <1>3 DEF TellInv

\* What is said of the drain and of what is owed depends on nothing but them.
LEMMA TellSame ==
  ASSUME TellInv, MarksInv', UNCHANGED <<marked, draining, drain, removed, watching, owing>>
  PROVE  TellInv'
<1>1. DrainInv' /\ OneCall' /\ WatchInv'
  BY DEF TellInv, DrainInv, OneCall, WatchInv, owing
<1>2. EveryUpdateIsHanded'
  BY DEF TellInv, EveryUpdateIsHanded, owing
<1>3. EveryChangeIsTold'
  BY DEF TellInv, EveryChangeIsTold, IsMarked, owing
<1>. QED
  BY <1>1, <1>2, <1>3 DEF TellInv

\* A drain that starts has touched nothing and calls nobody.
LEMMA TellStarts ==
  ASSUME TellInv, ~draining, draining' = TRUE, drain' = FirstRound,
         UNCHANGED <<marked, removed, watching, owing>>
  PROVE  TellInv'
<1>1. /\ drain = NoDrain
      /\ drain'.batch = <<>> /\ drain'.touched = <<>> /\ drain'.calls = {} /\ drain'.phase = "settle"
      /\ drain.batch = <<>> /\ drain.touched = <<>> /\ drain.calls = {}
  BY DEF TellInv, DrainInv, FirstRound, NoDrain
<1>2. DrainInv' /\ OneCall' /\ MarksInv'
  BY <1>1 DEF DrainInv, OneCall, MarksInv
<1>3. WatchInv'
  BY DEF TellInv, WatchInv, owing
<1>4. EveryUpdateIsHanded'
  BY <1>1 DEF TellInv, EveryUpdateIsHanded, owing
<1>5. EveryChangeIsTold'
  BY <1>1 DEF TellInv, EveryChangeIsTold, IsMarked, owing
<1>. QED
  BY <1>2, <1>3, <1>4, <1>5 DEF TellInv

\* What is ahead grows at its end and shrinks at its front.
LEMMA AheadGrows ==
  ASSUME NEW s \in Seq(Change), NEW t \in Seq(Change), NEW change \in Change
  PROVE  s \o t \in Seq(Change) /\ Append(s \o t, change) = s \o Append(t, change)
<1>1. s \o t \in Seq(Change)
  BY ConcatProperties
<1>2. <<change>> \in Seq(Change)
  OBVIOUS
<1>3. Append(s \o t, change) = (s \o t) \o <<change>>
  BY <1>1, AppendIsConcat
<1>4. Append(t, change) = t \o <<change>>
  BY AppendIsConcat
<1>5. (s \o t) \o <<change>> = s \o (t \o <<change>>)
  BY <1>2, ConcatAssociative
<1>. QED
  BY <1>1, <1>3, <1>4, <1>5

LEMMA AheadShrinks ==
  ASSUME NEW s \in Seq(Change), NEW t \in Seq(Change), s # <<>>
  PROVE  /\ s \o t \in Seq(Change)
         /\ s \o t # <<>>
         /\ (s \o t)[1] = Head(s)
         /\ Tail(s \o t) = Tail(s) \o t
<1>1. /\ s \o t \in Seq(Change)
      /\ Len(s \o t) = Len(s) + Len(t)
      /\ \A i \in 1..(Len(s) + Len(t)) :
           (s \o t)[i] = IF i <= Len(s) THEN s[i] ELSE t[i - Len(s)]
      /\ Len(s) \in Nat \ {0} /\ Len(t) \in Nat
  BY ConcatProperties, EmptySeq, LenProperties
<1>2. s \o t # <<>>
  BY <1>1, EmptySeq
<1>3. (s \o t)[1] = Head(s)
  <2>1. 1 \in 1..(Len(s) + Len(t)) /\ 1 <= Len(s)
    BY <1>1
  <2>. QED
    BY <1>1, <2>1
<1>4. /\ Tail(s) \in Seq(Change)
      /\ Len(Tail(s)) = Len(s) - 1
      /\ \A i \in 1..Len(Tail(s)) : Tail(s)[i] = s[i + 1]
  BY HeadTailProperties
<1>5. /\ Tail(s \o t) \in Seq(Change)
      /\ Len(Tail(s \o t)) = Len(s \o t) - 1
      /\ \A i \in 1..Len(Tail(s \o t)) : Tail(s \o t)[i] = (s \o t)[i + 1]
  BY <1>1, <1>2, HeadTailProperties
<1>6. /\ Tail(s) \o t \in Seq(Change)
      /\ Len(Tail(s) \o t) = Len(Tail(s)) + Len(t)
      /\ \A i \in 1..(Len(Tail(s)) + Len(t)) :
           (Tail(s) \o t)[i] = IF i <= Len(Tail(s)) THEN Tail(s)[i] ELSE t[i - Len(Tail(s))]
  BY <1>4, ConcatProperties
<1>7. Len(Tail(s \o t)) = Len(Tail(s) \o t)
  BY <1>1, <1>4, <1>5, <1>6
<1>8. ASSUME NEW i \in 1..Len(Tail(s \o t))
      PROVE  Tail(s \o t)[i] = (Tail(s) \o t)[i]
  <2>1. /\ i + 1 \in 1..(Len(s) + Len(t))
        /\ i \in 1..(Len(Tail(s)) + Len(t))
        /\ i \in Nat
    BY <1>1, <1>4, <1>5, <1>8
  <2>2. Tail(s \o t)[i] = (s \o t)[i + 1]
    BY <1>5
  <2>3. CASE i <= Len(s) - 1
    <3>1. i + 1 <= Len(s) /\ i <= Len(Tail(s)) /\ i \in 1..Len(Tail(s))
      BY <1>1, <1>4, <2>1, <2>3
    <3>2. (s \o t)[i + 1] = s[i + 1]
      BY <1>1, <2>1, <3>1
    <3>3. (Tail(s) \o t)[i] = Tail(s)[i] /\ Tail(s)[i] = s[i + 1]
      BY <1>4, <1>6, <2>1, <3>1
    <3>. QED
      BY <2>2, <3>2, <3>3
  <2>4. CASE ~(i <= Len(s) - 1)
    <3>1. /\ ~(i + 1 <= Len(s)) /\ ~(i <= Len(Tail(s)))
          /\ i + 1 - Len(s) = i - Len(Tail(s))
      BY <1>1, <1>4, <2>1, <2>4
    <3>2. (s \o t)[i + 1] = t[i + 1 - Len(s)]
      BY <1>1, <2>1, <3>1
    <3>3. (Tail(s) \o t)[i] = t[i - Len(Tail(s))]
      BY <1>6, <2>1, <3>1
    <3>. QED
      BY <2>2, <3>1, <3>2, <3>3
  <2>. QED
    BY <2>3, <2>4
<1>9. Tail(s \o t) = Tail(s) \o t
  BY <1>5, <1>6, <1>7, <1>8, SeqEqual
<1>. QED
  BY <1>1, <1>2, <1>3, <1>9

LEMMA PushTell ==
  ASSUME IInv, TellInv, NEW c \in Cell, NEW u \in Update, Push(c, u)
  PROVE  TellInv'
<1> DEFINE change == [cell |-> c, update |-> IF WatchersOf(c, Observer) = {} THEN Bare ELSE u]
<1>1. /\ change \in Change
      /\ change.cell = c
      /\ change.update = IF WatchersOf(c, Observer) = {} THEN Bare ELSE u
  BY DEF Change
<1>2. marked' = IF change.update # Bare \/ ~IsMarked(c) THEN Append(marked, change) ELSE marked
  BY DEF Push, Mark
<1>3. /\ marked \in Seq(Change)
      /\ drain.batch \in Seq(Change)
      /\ owed \in [Observer -> Seq(Update)]
      /\ depth \in Nat
      /\ depth' = depth /\ removed' = removed /\ watching' = watching
      /\ Home[c] \notin removed
      /\ stale' = stale \cup WatchersOf(c, Listener)
      /\ owed' = [o \in Observer |->
                    IF o \in WatchersOf(c, Observer) THEN Append(owed[o], u) ELSE owed[o]]
  BY DEF Push, watch, IInv, TypeOK, Locals
<1> HIDE DEF change
<1>4. \/ /\ draining' = TRUE /\ ~draining /\ drain' = FirstRound
         /\ depth = 0
      \/ /\ UNCHANGED <<draining, drain>>
         /\ depth > 0 \/ draining
  BY <1>3 DEF Push, StartDrain, IInv, TypeOK
<1>5. /\ drain'.batch = drain.batch /\ drain'.touched = drain.touched /\ drain'.calls = drain.calls
      /\ drain'.phase = "settle" \/ drain'.phase = drain.phase
      /\ drain'.phase = "settle" \/ drain' = drain
  BY <1>4 DEF TellInv, DrainInv, FirstRound, NoDrain
<1>6. MarksInv'
  BY <1>3, <1>4 DEF MarksInv
<1>7. DrainInv' /\ OneCall'
  BY <1>4, <1>5 DEF TellInv, DrainInv, OneCall, FirstRound, NoDrain
<1>8. WatchInv'
  BY <1>3 DEF TellInv, WatchInv, WatchersOf
<1>9. EveryChangeIsTold'
  <2>1. marked' = marked \/ marked' = Append(marked, change)
    BY <1>2
  <2>2. \A d \in Cell : IsMarked(d) => IsMarked(d)'
    <3>1. /\ DOMAIN Append(marked, change) = 1..(Len(marked) + 1)
          /\ DOMAIN marked = 1..Len(marked)
          /\ \A i \in 1..Len(marked) : i \in 1..(Len(marked) + 1)
                                       /\ Append(marked, change)[i] = marked[i]
      BY <1>1, <1>3, AppendProperties, LenProperties
    <3>. QED
      BY <2>1, <3>1 DEF IsMarked
  <2>3. IsMarked(c)'
    <3>1. CASE marked' = marked
      <4>1. IsMarked(c) \/ marked = Append(marked, change)
        BY <1>2, <3>1
      <4>2. Len(Append(marked, change)) = Len(marked) + 1 /\ Len(marked) \in Nat
        BY <1>1, <1>3, AppendProperties, LenProperties
      <4>3. marked # Append(marked, change)
        BY <4>2
      <4>. QED
        BY <3>1, <4>1, <4>3 DEF IsMarked
    <3>2. CASE marked' = Append(marked, change)
      <4>1. /\ Len(marked) + 1 \in DOMAIN Append(marked, change)
            /\ Append(marked, change)[Len(marked) + 1] = change
        BY <1>1, <1>3, AppendProperties, LenProperties
      <4>. QED
        BY <1>1, <3>2, <4>1 DEF IsMarked
    <3>. QED
      BY <2>1, <3>1, <3>2
  <2>4. \A l \in stale : Watches[l] \in Cell
    BY TurnsAssumption DEF IInv, TypeOK
  <2>. QED
    BY <1>3, <1>5, <2>2, <2>3, <2>4 DEF TellInv, EveryChangeIsTold, WatchersOf
<1>10. EveryUpdateIsHanded'
  <2> DEFINE ahead == drain.batch \o marked
  <2>1. ahead \in Seq(Change) /\ Append(ahead, change) = drain.batch \o Append(marked, change)
    BY <1>1, <1>3, AheadGrows
  <2>2. SUFFICES ASSUME NEW o \in Observer \cap watching
                 PROVE  EndOfTheWay(o, owed'[o], drain.calls, drain.batch \o marked')
    BY <1>3, <1>5 DEF EveryUpdateIsHanded
  <2>3. EndOfTheWay(o, owed[o], drain.calls, ahead) /\ owed[o] \in Seq(Update)
    BY <1>3 DEF TellInv, EveryUpdateIsHanded
  <2> HIDE DEF ahead
  <2>4. CASE Watches[o] = c
    <3>1. o \in WatchersOf(c, Observer)
      BY <2>4 DEF WatchersOf
    <3>2. change.update = u /\ u # Bare
      BY <1>1, <3>1, TurnsAssumption
    <3>3. owed'[o] = Append(owed[o], change.update) /\ marked' = Append(marked, change)
      BY <1>2, <1>3, <3>1, <3>2
    <3>4. EndOfTheWay(o, Append(owed[o], change.update), drain.calls, Append(ahead, change))
      BY <1>1, <2>1, <2>3, <2>4, <3>2, OneMoreDue
    <3>. QED
      BY <2>1, <3>3, <3>4
  <2>5. CASE Watches[o] # c
    <3>1. owed'[o] = owed[o]
      BY <1>3, <2>5 DEF WatchersOf
    <3>2. EndOfTheWay(o, owed[o], drain.calls, Append(ahead, change))
      BY <1>1, <2>1, <2>3, <2>5, NotForIt
    <3>3. marked' = marked \/ marked' = Append(marked, change)
      BY <1>2
    <3>. QED
      BY <2>1, <2>3, <3>1, <3>2, <3>3 DEF ahead
  <2>. QED
    BY <2>4, <2>5
<1>. QED
  BY <1>6, <1>7, <1>8, <1>9, <1>10 DEF TellInv

\* Watchers that are gone are owed nothing; nothing changes for the others.
LEMMA StopWatchingTell ==
  ASSUME IInv, TellInv, NEW ws \in SUBSET watching, StopWatching(ws), UNCHANGED rounds, UNCHANGED depth,
         \A w \in watching \ ws : Home[Watches[w]] \notin removed'
  PROVE  TellInv'
<1>1. /\ watching' = watching \ ws
      /\ stale' = stale \ ws
      /\ owed' = [o \in Observer |-> IF o \in ws THEN <<>> ELSE owed[o]]
      /\ marked' = marked /\ draining' = draining /\ drain' = drain
  BY DEF StopWatching, rounds
<1>2. MarksInv' /\ DrainInv' /\ OneCall'
  BY <1>1 DEF TellInv, MarksInv, DrainInv, OneCall
<1>3. WatchInv'
  BY <1>1 DEF TellInv, WatchInv
<1>4. EveryUpdateIsHanded'
  BY <1>1 DEF TellInv, EveryUpdateIsHanded
<1>5. EveryChangeIsTold'
  BY <1>1 DEF TellInv, EveryChangeIsTold, IsMarked
<1>. QED
  BY <1>2, <1>3, <1>4, <1>5 DEF TellInv

LEMMA RemoveTell ==
  ASSUME IInv, TellInv, NEW s \in Scope, Remove(s)
  PROVE  TellInv'
<1> DEFINE ws == {w \in watching : Home[Watches[w]] = s}
<1>1. ws \in SUBSET watching /\ StopWatching(ws) /\ UNCHANGED rounds /\ UNCHANGED depth
  BY DEF Remove
<1>2. \A w \in watching \ ws : Home[Watches[w]] \notin removed'
  BY DEF Remove, TellInv, WatchInv
<1>. QED
  BY <1>1, <1>2, StopWatchingTell

LEMMA LeaveTell ==
  ASSUME IInv, TellInv, NEW w \in Watcher, Leave(w)
  PROVE  TellInv'
<1>1. {w} \in SUBSET watching /\ StopWatching({w}) /\ UNCHANGED rounds /\ UNCHANGED depth
  BY DEF Leave
<1>2. \A v \in watching \ {w} : Home[Watches[v]] \notin removed'
  BY DEF Leave, TellInv, WatchInv
<1>. QED
  BY <1>1, <1>2, StopWatchingTell

LEMMA JoinTell ==
  ASSUME IInv, TellInv, NEW w \in Watcher, Join(w)
  PROVE  TellInv'
<1>1. /\ watching' = watching \cup {w} /\ w \notin watching
      /\ Home[Watches[w]] \notin removed
      /\ UNCHANGED <<marked, draining, drain, removed, depth, stale, owed>>
  BY DEF Join, rounds, owing
<1>2. MarksInv' /\ DrainInv' /\ OneCall'
  BY <1>1 DEF TellInv, MarksInv, DrainInv, OneCall
<1>3. WatchInv'
  BY <1>1 DEF TellInv, WatchInv
<1>4. EveryUpdateIsHanded'
  <2> SUFFICES ASSUME NEW o \in Observer \cap watching'
               PROVE  EndOfTheWay(o, owed[o], drain.calls, drain.batch \o marked)
    BY <1>1 DEF EveryUpdateIsHanded
  <2>1. CASE o \in watching
    BY <2>1 DEF TellInv, EveryUpdateIsHanded
  <2>2. CASE o \notin watching
    <3>1. owed[o] = <<>>
      BY <2>2 DEF TellInv, WatchInv
    <3>. QED
      BY <3>1, NothingDue
  <2>. QED
    BY <2>1, <2>2
<1>5. EveryChangeIsTold'
  BY <1>1 DEF TellInv, EveryChangeIsTold, IsMarked
<1>. QED
  BY <1>2, <1>3, <1>4, <1>5 DEF TellInv

\* A turn ends, and with the outermost one the waiting of what was marked.
LEMMA CloseTurnTell ==
  ASSUME IInv, TellInv, CloseTurn
  PROVE  TellInv'
<1>1. depth \in Nat \ {0} /\ depth' = depth - 1
  BY TopSays DEF CloseTurn, Running, IInv, TypeOK
<1>2. UNCHANGED <<marked, removed, watching, owing>>
  BY DEF CloseTurn, watch
<1>3. CASE depth = 1 /\ ~draining /\ marked # <<>>
  <2>1. draining' = TRUE /\ drain' = FirstRound
    BY <1>3 DEF CloseTurn, StartDrain
  <2>. QED
    BY <1>2, <1>3, <2>1, TellStarts
<1>4. CASE ~(depth = 1 /\ ~draining /\ marked # <<>>)
  <2>1. UNCHANGED <<draining, drain>>
    BY <1>4 DEF CloseTurn
  <2>2. MarksInv'
    BY <1>1, <1>2, <1>4, <2>1 DEF MarksInv
  <2>. QED
    BY <1>2, <2>1, <2>2, TellSame
<1>. QED
  BY <1>3, <1>4

LEMMA NextRoundTell ==
  ASSUME IInv, TellInv, NextRound
  PROVE  TellInv'
<1>1. /\ drain \in Locals /\ marked \in Seq(Change)
      /\ drain.batch = <<>> /\ drain.calls = {} /\ drain.phase = "settle"
      /\ drain' = [drain EXCEPT !.round = @ + 1, !.batch = marked]
      /\ marked' = <<>>
      /\ UNCHANGED <<draining, removed, watching, stale, owed>>
  BY DEF NextRound, Settling, watch, owing, IInv, TypeOK
<1>2. /\ drain'.batch = marked /\ drain'.touched = drain.touched
      /\ drain'.calls = {} /\ drain'.phase = "settle"
  BY <1>1 DEF Locals
<1>3. MarksInv' /\ OneCall'
  BY <1>1, <1>2 DEF MarksInv, OneCall
<1>4. draining
  BY TopSays DEF NextRound, Settling, Running, IInv, TypeOK
<1>5. DrainInv' /\ WatchInv'
  BY <1>1, <1>2, <1>4 DEF TellInv, DrainInv, WatchInv
<1>6. EveryUpdateIsHanded'
  <2>1. drain.batch \o marked = marked /\ marked \o <<>> = marked
    BY <1>1, ConcatEmptySeq
  <2>. QED
    BY <1>1, <1>2, <2>1 DEF TellInv, EveryUpdateIsHanded
<1>7. EveryChangeIsTold'
  <2> SUFFICES ASSUME NEW l \in stale
               PROVE  \/ \E i \in DOMAIN marked : marked[i].cell = Watches[l]
                      \/ \E i \in DOMAIN drain.touched : drain.touched[i] = Watches[l]
    BY <1>1, <1>2 DEF EveryChangeIsTold
  <2>1. DOMAIN drain.batch = {}
    BY <1>1
  <2>. QED
    BY <1>1, <2>1 DEF TellInv, EveryChangeIsTold, IsMarked
<1>. QED
  BY <1>3, <1>5, <1>6, <1>7 DEF TellInv

LEMMA GiveUpTell ==
  ASSUME IInv, TellInv, GiveUp
  PROVE  TellInv'
<1>1. /\ marked' = <<>> /\ draining' = FALSE /\ drain' = NoDrain
      /\ stale' = {} /\ owed' = [o \in Observer |-> <<>>]
      /\ UNCHANGED <<removed, watching>>
  BY DEF GiveUp, EndDrain, watch
<1>2. MarksInv' /\ DrainInv' /\ OneCall' /\ WatchInv' /\ EveryChangeIsTold'
  BY <1>1 DEF TellInv, MarksInv, DrainInv, OneCall, WatchInv, EveryChangeIsTold, NoDrain
<1>3. EveryUpdateIsHanded'
  BY <1>1, NothingDue DEF EveryUpdateIsHanded
<1>. QED
  BY <1>2, <1>3 DEF TellInv

LEMMA NextChangeTell ==
  ASSUME IInv, TellInv, NextChange
  PROVE  TellInv'
<1> DEFINE change == Head(drain.batch)
           c == change.cell
           gone == Home[c] \in removed
           seen == \E i \in DOMAIN drain.touched : drain.touched[i] = c
           touched == IF gone \/ seen THEN drain.touched ELSE Append(drain.touched, c)
           calls == IF gone \/ change.update = Bare THEN {}
                    ELSE WatchersOf(c, Observer) \X {change.update}
<1>1. /\ drain \in Locals /\ marked \in Seq(Change)
      /\ drain.batch \in Seq(Change) /\ drain.touched \in Seq(Cell)
      /\ drain.batch # <<>> /\ drain.calls = {} /\ drain.phase = "settle"
      /\ owed \in [Observer -> Seq(Update)]
      /\ UNCHANGED <<marked, draining, removed, watching, stale, owed>>
  BY DEF NextChange, Settling, watch, owing, IInv, TypeOK, Locals
<1>2. change \in Change /\ c \in Cell /\ change.update \in Update \cup {Bare}
  <2>1. change \in Change
    BY <1>1, HeadTailProperties
  <2> HIDE DEF change
  <2>. QED
    BY <2>1 DEF Change
<1>3. drain' = [drain EXCEPT !.batch = Tail(@), !.touched = touched, !.calls = calls]
  BY DEF NextChange
<1> HIDE DEF touched, calls
<1>4. /\ drain'.batch = Tail(drain.batch) /\ drain'.touched = touched
      /\ drain'.calls = calls /\ drain'.phase = "settle"
  BY <1>1, <1>3 DEF Locals
<1>5. calls \subseteq Observer \X Update /\ \A k \in calls : k[2] = change.update
  BY <1>2 DEF calls, WatchersOf
<1>6. draining
  BY TopSays DEF NextChange, Settling, Running, IInv, TypeOK
<1>7. MarksInv' /\ DrainInv' /\ OneCall' /\ WatchInv'
  <2>1. MarksInv' /\ WatchInv'
    BY <1>1, <1>6 DEF TellInv, MarksInv, WatchInv
  <2>2. DrainInv'
    BY <1>1, <1>4, <1>5, <1>6 DEF DrainInv
  <2>3. OneCall'
    BY <1>4, <1>5 DEF OneCall
  <2>. QED
    BY <2>1, <2>2, <2>3
<1>8. EveryUpdateIsHanded'
  <2> DEFINE ahead == drain.batch \o marked
  <2> SUFFICES ASSUME NEW o \in Observer \cap watching
               PROVE  EndOfTheWay(o, owed[o], calls, Tail(drain.batch) \o marked)
    BY <1>1, <1>4 DEF EveryUpdateIsHanded
  <2>1. /\ ahead \in Seq(Change) /\ ahead # <<>> /\ ahead[1] = change
        /\ Tail(ahead) = Tail(drain.batch) \o marked
    BY <1>1, AheadShrinks
  <2>2. EndOfTheWay(o, owed[o], {}, ahead) /\ owed[o] \in Seq(Update)
    BY <1>1 DEF TellInv, EveryUpdateIsHanded
  <2> HIDE DEF ahead
  <2>3. Watches[o] = c => ~gone
    BY DEF TellInv, WatchInv
  <2>4. ASSUME NEW u \in Update
        PROVE  <<o, u>> \in calls <=> ahead[1].cell = Watches[o] /\ ahead[1].update = u
    <3>1. u # Bare
      BY TurnsAssumption
    <3>2. <<o, u>> \in calls <=> ~gone /\ change.update # Bare /\ Watches[o] = c /\ u = change.update
      BY DEF calls, WatchersOf
    <3>. QED
      BY <2>1, <2>3, <3>1, <3>2
  <2>5. EndOfTheWay(o, owed[o], calls, Tail(ahead))
    <3>1. ASSUME NEW due \in Seq(Update), NEW all \in Seq(Change), NEW others,
                 all # <<>>, EndOfTheWay(o, due, {}, all),
                 \A u \in Update : <<o, u>> \in others
                                     <=> all[1].cell = Watches[o] /\ all[1].update = u
          PROVE  EndOfTheWay(o, due, others, Tail(all))
      <4>1. \A u \in Update : <<o, u>> \notin {}
        OBVIOUS
      <4>. QED
        BY <3>1, <4>1, OneAheadLess
    <3>. QED
      BY <2>1, <2>2, <2>4, <3>1
  <2>. QED
    BY <2>1, <2>5
<1>9. EveryChangeIsTold'
  <2> SUFFICES ASSUME NEW l \in stale
               PROVE  \/ IsMarked(Watches[l])
                      \/ \E i \in DOMAIN Tail(drain.batch) : Tail(drain.batch)[i].cell = Watches[l]
                      \/ \E i \in DOMAIN touched : touched[i] = Watches[l]
    BY <1>1, <1>4 DEF EveryChangeIsTold, IsMarked
  <2>1. l \in watching
    BY DEF IInv, TypeOK
  <2>2. \A i \in DOMAIN drain.touched : i \in DOMAIN touched /\ touched[i] = drain.touched[i]
    BY <1>1, <1>2, AppendProperties, LenProperties DEF touched
  <2>3. ASSUME Watches[l] = c
        PROVE  \E i \in DOMAIN touched : touched[i] = c
    <3>1. ~gone
      BY <2>1, <2>3 DEF TellInv, WatchInv
    <3>2. CASE seen
      BY <2>2, <3>2
    <3>3. CASE ~seen
      <4>1. touched = Append(drain.touched, c)
        BY <3>1, <3>3 DEF touched
      <4>2. /\ Len(drain.touched) + 1 \in DOMAIN Append(drain.touched, c)
            /\ Append(drain.touched, c)[Len(drain.touched) + 1] = c
        BY <1>1, <1>2, AppendProperties, LenProperties
      <4>. QED
        BY <4>1, <4>2
    <3>. QED
      BY <3>2, <3>3
  <2>4. ASSUME NEW i \in DOMAIN drain.batch, drain.batch[i].cell = Watches[l], Watches[l] # c
        PROVE  \E j \in DOMAIN Tail(drain.batch) : Tail(drain.batch)[j].cell = Watches[l]
    <3>1. /\ DOMAIN drain.batch = 1..Len(drain.batch) /\ Len(drain.batch) \in Nat
          /\ Tail(drain.batch) \in Seq(Change)
          /\ Len(Tail(drain.batch)) = Len(drain.batch) - 1
          /\ \A j \in 1..Len(Tail(drain.batch)) : Tail(drain.batch)[j] = drain.batch[j + 1]
      BY <1>1, HeadTailProperties, LenProperties
    <3>2. DOMAIN Tail(drain.batch) = 1..(Len(drain.batch) - 1)
      BY <3>1, LenProperties
    <3>3. i # 1
      BY <1>1, <2>4
    <3>4. i - 1 \in 1..(Len(drain.batch) - 1) /\ i - 1 + 1 = i
      BY <2>4, <3>1, <3>3
    <3>5. Tail(drain.batch)[i - 1] = drain.batch[i]
      BY <3>1, <3>4
    <3>. QED
      BY <2>4, <3>2, <3>4, <3>5
  <2>5. \/ IsMarked(Watches[l])
        \/ \E i \in DOMAIN drain.batch : drain.batch[i].cell = Watches[l]
        \/ \E i \in DOMAIN drain.touched : drain.touched[i] = Watches[l]
    BY <1>1 DEF TellInv, EveryChangeIsTold
  <2>. QED
    BY <2>2, <2>3, <2>4, <2>5
<1>. QED
  BY <1>7, <1>8, <1>9 DEF TellInv

LEMMA ObserveTell ==
  ASSUME IInv, TellInv, NEW o \in Observer, NEW u \in Update, Observe(o, u)
  PROVE  TellInv'
<1>1. /\ drain \in Locals /\ marked \in Seq(Change) /\ drain.batch \in Seq(Change)
      /\ drain.phase = "settle" /\ <<o, u>> \in drain.calls
      /\ owed \in [Observer -> Seq(Update)]
      /\ drain' = [drain EXCEPT !.calls = @ \ {<<o, u>>}]
      /\ owed' = [owed EXCEPT ![o] = IF @ # <<>> /\ Head(@) = u THEN Tail(@) ELSE @]
      /\ UNCHANGED <<depth, marked, draining, removed, watching, stale>>
  BY DEF Observe, watch, IInv, TypeOK, Locals
<1>2. /\ drain'.batch = drain.batch /\ drain'.touched = drain.touched
      /\ drain'.calls = drain.calls \ {<<o, u>>} /\ drain'.phase = "settle"
  BY <1>1 DEF Locals
<1>3. draining
  BY TopSays DEF Observe, Running, IInv, TypeOK
<1>4. MarksInv' /\ DrainInv' /\ OneCall'
  BY <1>1, <1>2, <1>3 DEF TellInv, MarksInv, DrainInv, OneCall
<1>5. WatchInv'
  <2>1. owed[o] = <<>> => owed'[o] = <<>>
    BY <1>1
  <2>2. \A p \in Observer : p # o => owed'[p] = owed[p]
    BY <1>1
  <2>. QED
    BY <1>1, <2>1, <2>2 DEF TellInv, WatchInv
<1>6. EveryChangeIsTold'
  <2>1. Bare # u
    BY TurnsAssumption
  <2>2. \A l \in stale : <<l, Bare>> \in drain.calls => <<l, Bare>> \in drain'.calls
    BY <1>2, <2>1
  <2>. QED
    BY <1>1, <1>2, <2>2 DEF TellInv, EveryChangeIsTold, IsMarked
<1>7. EveryUpdateIsHanded'
  <2> DEFINE ahead == drain.batch \o marked
  <2> SUFFICES ASSUME NEW p \in Observer \cap watching
               PROVE  EndOfTheWay(p, owed'[p], drain.calls \ {<<o, u>>}, ahead)
    BY <1>1, <1>2 DEF EveryUpdateIsHanded
  <2>1. ahead \in Seq(Change)
    BY <1>1, ConcatProperties
  <2>2. EndOfTheWay(p, owed[p], drain.calls, ahead) /\ owed[p] \in Seq(Update)
    BY <1>1 DEF TellInv, EveryUpdateIsHanded
  <2> HIDE DEF ahead
  <2>3. CASE p = o
    <3>1. \A v \in Update : <<o, v>> \in drain.calls <=> v = u
      BY <1>1 DEF TellInv, OneCall
    <3>2. EndOfTheWay(o, IF owed[o] # <<>> /\ Head(owed[o]) = u THEN Tail(owed[o]) ELSE owed[o],
                      drain.calls \ {<<o, u>>}, ahead)
      BY <2>1, <2>2, <2>3, <3>1, OneCalled
    <3>. QED
      BY <1>1, <2>3, <3>2
  <2>4. CASE p # o
    <3>1. owed'[p] = owed[p]
      BY <1>1, <2>4
    <3>2. \A v \in Update : <<p, v>> \in drain.calls \ {<<o, u>>} <=> <<p, v>> \in drain.calls
      BY <2>4
    <3>3. \A i \in DOMAIN owed[p] : owed[p][i] \in Update
      BY <2>2, LenProperties, ElementOfSeq
    <3>. QED
      BY <2>2, <3>1, <3>2, <3>3, SameCalls
  <2>. QED
    BY <2>3, <2>4
<1>. QED
  BY <1>4, <1>5, <1>6, <1>7 DEF TellInv

\* When the settling is over nothing is on its way to an observer.
LEMMA NothingIsOwed ==
  ASSUME IInv, TellInv, BeginTelling
  PROVE  \A o \in Observer : owed[o] = <<>>
<1>1. /\ drain.batch = <<>> /\ marked = <<>> /\ drain.calls = {}
      /\ owed \in [Observer -> Seq(Update)]
  BY DEF BeginTelling, Settling, IInv, TypeOK
<1>2. ASSUME NEW o \in Observer \cap watching
      PROVE  owed[o] = <<>>
  <2>1. <<>> \in Seq(Change) /\ <<>> \o <<>> = <<>>
    BY EmptySeq, ConcatEmptySeq
  <2>2. EndOfTheWay(o, owed[o], {}, <<>>)
    BY <1>1, <2>1 DEF TellInv, EveryUpdateIsHanded
  <2>3. OnTheWay(o, {}, <<>>) = {}
    BY DEF OnTheWay
  <2>. QED
    BY <1>1, <2>2, <2>3, NothingOnTheWay
<1>. QED
  BY <1>2 DEF TellInv, WatchInv

LEMMA BeginTellingTell ==
  ASSUME IInv, TellInv, BeginTelling
  PROVE  TellInv'
<1>1. /\ drain \in Locals
      /\ drain.batch = <<>> /\ marked = <<>> /\ drain.calls = {}
      /\ drain' = [drain EXCEPT !.phase = "tell"]
      /\ UNCHANGED <<depth, marked, draining, removed, watching, stale, owed>>
  BY DEF BeginTelling, Settling, watch, owing, IInv, TypeOK
<1>2. /\ drain'.batch = <<>> /\ drain'.touched = drain.touched
      /\ drain'.calls = {} /\ drain'.phase = "tell"
  BY <1>1 DEF Locals
<1>3. draining
  BY TopSays DEF BeginTelling, Settling, Running, IInv, TypeOK
<1>4. MarksInv' /\ DrainInv' /\ OneCall' /\ WatchInv'
  BY <1>1, <1>2, <1>3 DEF TellInv, MarksInv, DrainInv, OneCall, WatchInv
<1>5. EveryUpdateIsHanded'
  BY <1>1, NothingIsOwed, NothingDue DEF EveryUpdateIsHanded
<1>6. EveryChangeIsTold'
  BY <1>1, <1>2 DEF TellInv, EveryChangeIsTold, IsMarked
<1>. QED
  BY <1>4, <1>5, <1>6 DEF TellInv

LEMMA NextCellTell ==
  ASSUME IInv, TellInv, NextCell
  PROVE  TellInv'
<1> DEFINE c == Head(drain.touched)
           calls == IF Home[c] \in removed THEN {} ELSE WatchersOf(c, Listener) \X {Bare}
<1>1. /\ drain \in Locals /\ drain.touched \in Seq(Cell) /\ drain.touched # <<>>
      /\ drain.calls = {} /\ drain.phase = "tell"
      /\ UNCHANGED <<depth, marked, draining, removed, watching, stale, owed>>
  BY DEF NextCell, Telling, watch, owing, IInv, TypeOK, Locals
<1>2. drain' = [drain EXCEPT !.touched = Tail(@), !.calls = calls]
  BY DEF NextCell
<1>3. calls \subseteq Listener \X {Bare}
  BY DEF WatchersOf
<1> HIDE DEF calls
<1>4. /\ drain'.batch = drain.batch /\ drain'.touched = Tail(drain.touched)
      /\ drain'.calls = calls /\ drain'.phase = "tell"
  BY <1>1, <1>2 DEF Locals
<1>5. draining
  BY TopSays DEF NextCell, Telling, Running, IInv, TypeOK
<1>6. \A o, u : u \in Update => <<o, u>> \notin calls
  BY <1>3, TurnsAssumption
<1>7. MarksInv' /\ DrainInv' /\ OneCall' /\ WatchInv'
  <2>1. MarksInv' /\ WatchInv'
    BY <1>1 DEF TellInv, MarksInv, WatchInv
  <2>2. DrainInv'
    BY <1>1, <1>3, <1>4, <1>5 DEF TellInv, DrainInv
  <2>3. OneCall'
    BY <1>4, <1>6 DEF OneCall
  <2>. QED
    BY <2>1, <2>2, <2>3
<1>8. EveryUpdateIsHanded'
  <2> DEFINE ahead == drain.batch \o marked
  <2> SUFFICES ASSUME NEW o \in Observer \cap watching
               PROVE  EndOfTheWay(o, owed[o], calls, ahead)
    BY <1>1, <1>4 DEF EveryUpdateIsHanded
  <2>1. EndOfTheWay(o, owed[o], {}, ahead)
    BY <1>1 DEF TellInv, EveryUpdateIsHanded
  <2>2. owed[o] \in Seq(Update)
    BY DEF IInv, TypeOK
  <2>3. \A i \in DOMAIN owed[o] : owed[o][i] \in Update
    BY <2>2, LenProperties, ElementOfSeq
  <2> HIDE DEF ahead
  <2>. QED
    BY <1>6, <2>1, <2>3, SameCalls
<1>9. EveryChangeIsTold'
  <2> SUFFICES ASSUME NEW l \in stale
               PROVE  \/ IsMarked(Watches[l])
                      \/ \E i \in DOMAIN drain.batch : drain.batch[i].cell = Watches[l]
                      \/ \E i \in DOMAIN Tail(drain.touched) : Tail(drain.touched)[i] = Watches[l]
                      \/ <<l, Bare>> \in calls
    BY <1>1, <1>4 DEF EveryChangeIsTold, IsMarked
  <2>1. l \in watching \cap Listener
    BY DEF IInv, TypeOK
  <2>2. ASSUME Watches[l] = c
        PROVE  <<l, Bare>> \in calls
    <3>1. Home[c] \notin removed
      BY <2>1, <2>2 DEF TellInv, WatchInv
    <3>. QED
      BY <2>1, <2>2, <3>1 DEF calls, WatchersOf
  <2>3. ASSUME NEW i \in DOMAIN drain.touched, drain.touched[i] = Watches[l], Watches[l] # c
        PROVE  \E j \in DOMAIN Tail(drain.touched) : Tail(drain.touched)[j] = Watches[l]
    <3>1. /\ DOMAIN drain.touched = 1..Len(drain.touched) /\ Len(drain.touched) \in Nat
          /\ Tail(drain.touched) \in Seq(Cell)
          /\ Len(Tail(drain.touched)) = Len(drain.touched) - 1
          /\ \A j \in 1..Len(Tail(drain.touched)) : Tail(drain.touched)[j] = drain.touched[j + 1]
      BY <1>1, HeadTailProperties, LenProperties
    <3>2. DOMAIN Tail(drain.touched) = 1..(Len(drain.touched) - 1)
      BY <3>1, LenProperties
    <3>3. i # 1
      BY <1>1, <2>3
    <3>4. i - 1 \in 1..(Len(drain.touched) - 1) /\ i - 1 + 1 = i
      BY <2>3, <3>1, <3>3
    <3>5. Tail(drain.touched)[i - 1] = drain.touched[i]
      BY <3>1, <3>4
    <3>. QED
      BY <2>3, <3>2, <3>4, <3>5
  <2>4. \/ IsMarked(Watches[l])
        \/ \E i \in DOMAIN drain.batch : drain.batch[i].cell = Watches[l]
        \/ \E i \in DOMAIN drain.touched : drain.touched[i] = Watches[l]
    BY <1>1 DEF TellInv, EveryChangeIsTold
  <2>. QED
    BY <2>2, <2>3, <2>4
<1>. QED
  BY <1>7, <1>8, <1>9 DEF TellInv

LEMMA ListenTell ==
  ASSUME IInv, TellInv, NEW l \in Listener, Listen(l)
  PROVE  TellInv'
<1>1. /\ drain \in Locals /\ drain.phase = "tell"
      /\ drain' = [drain EXCEPT !.calls = @ \ {<<l, Bare>>}]
      /\ stale' = stale \ {l}
      /\ UNCHANGED <<depth, marked, draining, removed, watching, owed>>
  BY DEF Listen, watch, IInv, TypeOK
<1>2. /\ drain'.batch = drain.batch /\ drain'.touched = drain.touched
      /\ drain'.calls = drain.calls \ {<<l, Bare>>} /\ drain'.phase = "tell"
  BY <1>1 DEF Locals
<1>3. draining
  BY TopSays DEF Listen, Running, IInv, TypeOK
<1>4. MarksInv' /\ DrainInv' /\ OneCall' /\ WatchInv'
  BY <1>1, <1>2, <1>3 DEF TellInv, MarksInv, DrainInv, OneCall, WatchInv
<1>5. EveryUpdateIsHanded'
  <2> DEFINE ahead == drain.batch \o marked
  <2> SUFFICES ASSUME NEW o \in Observer \cap watching
               PROVE  EndOfTheWay(o, owed[o], drain.calls \ {<<l, Bare>>}, ahead)
    BY <1>1, <1>2 DEF EveryUpdateIsHanded
  <2>1. EndOfTheWay(o, owed[o], drain.calls, ahead)
    BY DEF TellInv, EveryUpdateIsHanded
  <2>2. owed[o] \in Seq(Update)
    BY DEF IInv, TypeOK
  <2>3. \A i \in DOMAIN owed[o] : owed[o][i] \in Update
    BY <2>2, LenProperties, ElementOfSeq
  <2>4. \A u \in Update : <<o, u>> \in drain.calls \ {<<l, Bare>>} <=> <<o, u>> \in drain.calls
    BY TurnsAssumption
  <2> HIDE DEF ahead
  <2>. QED
    BY <2>1, <2>3, <2>4, SameCalls
<1>6. EveryChangeIsTold'
  BY <1>1, <1>2 DEF TellInv, EveryChangeIsTold, IsMarked
<1>. QED
  BY <1>4, <1>5, <1>6 DEF TellInv

LEMMA EndTellingTell ==
  ASSUME IInv, TellInv, EndTelling
  PROVE  TellInv'
<1>1. /\ drain \in Locals /\ drain.touched = <<>>
      /\ drain.calls = {} /\ drain.phase = "tell" /\ drain.batch = <<>>
      /\ UNCHANGED <<depth, marked, removed, watching, stale, owed>>
  BY DEF EndTelling, Telling, watch, owing, IInv, TypeOK, TellInv, DrainInv
<1>2. CASE marked = <<>>
  <2>1. draining' = FALSE /\ drain' = NoDrain
    BY <1>2 DEF EndTelling, EndDrain
  <2>2. drain'.batch = <<>> /\ drain'.touched = <<>> /\ drain'.calls = {} /\ drain'.phase = "none"
    BY <2>1 DEF NoDrain
  <2>3. MarksInv' /\ DrainInv' /\ OneCall' /\ WatchInv'
    BY <1>1, <1>2, <2>1, <2>2 DEF TellInv, MarksInv, DrainInv, OneCall, WatchInv
  <2>4. EveryUpdateIsHanded' /\ EveryChangeIsTold'
    BY <1>1, <2>2 DEF TellInv, EveryUpdateIsHanded, EveryChangeIsTold, IsMarked
  <2>. QED
    BY <2>3, <2>4 DEF TellInv
<1>3. CASE marked # <<>>
  <2>1. draining' = draining /\ drain' = [drain EXCEPT !.phase = "settle"]
    BY <1>3 DEF EndTelling
  <2>2. drain'.batch = <<>> /\ drain'.touched = <<>> /\ drain'.calls = {} /\ drain'.phase = "settle"
    BY <1>1, <2>1 DEF Locals
  <2>3. draining
    BY TopSays DEF EndTelling, Telling, Running, IInv, TypeOK
  <2>4. MarksInv' /\ DrainInv' /\ OneCall' /\ WatchInv'
    BY <1>1, <2>1, <2>2, <2>3 DEF TellInv, MarksInv, DrainInv, OneCall, WatchInv
  <2>5. EveryUpdateIsHanded' /\ EveryChangeIsTold'
    BY <1>1, <2>2 DEF TellInv, EveryUpdateIsHanded, EveryChangeIsTold, IsMarked
  <2>. QED
    BY <2>4, <2>5 DEF TellInv
<1>. QED
  BY <1>2, <1>3

LEMMA TellInductive ==
  ASSUME IInv, TellInv, [Next]_vars
  PROVE  TellInv'
<1>1. CASE Handle
  <2>1. UNCHANGED <<depth, marked, draining, drain, removed, watching, owing>>
    BY <1>1 DEF Handle, rounds, watch
  <2>2. MarksInv'
    BY <2>1 DEF TellInv, MarksInv
  <2>. QED
    BY <2>1, <2>2, TellSame
<1>2. CASE CloseTurn
  BY <1>2, CloseTurnTell
<1>3. CASE Return
  <2>1. UNCHANGED <<depth, marked, draining, drain, removed, watching, owing>>
    BY <1>3 DEF Return, rounds, watch
  <2>2. MarksInv'
    BY <2>1 DEF TellInv, MarksInv
  <2>. QED
    BY <2>1, <2>2, TellSame
<1>4. CASE Drain
  BY <1>4, NextRoundTell, GiveUpTell, NextChangeTell, BeginTellingTell, NextCellTell, EndTellingTell,
     ObserveTell, ListenTell DEF Drain
<1>5. ASSUME NEW a \in Actor, Send(a)
      PROVE  TellInv'
  <2>1. UNCHANGED <<marked, draining, drain, removed, watching, owing>>
    BY <1>5 DEF Send, watch
  <2>2. depth' = depth \/ depth' = depth + 1
    BY <1>5 DEF Send, ProcessQueue
  <2>3. MarksInv'
    BY <2>1, <2>2 DEF TellInv, MarksInv, IInv, TypeOK
  <2>. QED
    BY <2>1, <2>3, TellSame
<1>6. CASE Ask
  BY <1>5, <1>6, PushTell, RemoveTell, JoinTell, LeaveTell DEF Ask
<1>7. CASE UNCHANGED vars
  <2>1. UNCHANGED <<depth, marked, draining, drain, removed, watching, owing>>
    BY <1>7 DEF vars, rounds, watch
  <2>2. MarksInv'
    BY <2>1 DEF TellInv, MarksInv
  <2>. QED
    BY <2>1, <2>2, TellSame
<1>. QED
  BY <1>1, <1>2, <1>3, <1>4, <1>6, <1>7 DEF Next, Run

LEMMA TellInvariance == Spec => []TellInv
<1>1. Init => TellInv
  BY TellInit
<1>2. IInv /\ TellInv /\ [Next]_vars => TellInv'
  BY TellInductive
<1>. QED
  BY <1>1, <1>2, Invariance, PTL DEF Spec

-----------------------------------------------------------------------------
(* What follows of mailboxes and of what is told.                           *)

\* When nothing runs, nothing waits: whoever returned early - because an actor
\* was at work, a turn open or a drain running - left what it had to somebody
\* who went on.  Every update is handed to those who observed the cell when it
\* was pushed, in order and once, and every change is told.
THEOREM NothingIsEverMissed == Spec => []NothingIsMissed
<1>1. ASSUME IInv, MailInv, TellInv
      PROVE  NothingIsMissed
  <2>1. ASSUME Idle
        PROVE  NothingLeftBehind
    <3>1. Len(stack) = 0 /\ stack = <<>>
      BY <2>1, EmptySeq DEF Idle
    <3>2. ~draining /\ depth = 0
      BY <1>1, <3>1 DEF IInv, Shape, ShapeOf, TypeOK
    <3>3. marked = <<>>
      BY <1>1, <3>2 DEF TellInv, MarksInv
    <3>4. \A i : i \notin 1..Len(stack)
      BY <3>1
    <3>5. \A a \in Actor : ~processing[a]
      BY <1>1, <3>4 DEF MailInv, TurnsOn
    <3>6. \A a \in Actor : queue[a] = <<>>
      BY <1>1, <3>5 DEF MailInv, Waiting
    <3>. QED
      BY <3>2, <3>3, <3>5, <3>6 DEF NothingLeftBehind
  <2>2. NothingLeftBehind
    BY <2>1 DEF NothingLeftBehind
  <2>. QED
    BY <1>1, <2>2 DEF TellInv, NothingIsMissed
<1>. QED
  BY <1>1, Invariance, MailInvariance, TellInvariance, PTL

\* When a drain turns from settling to telling, every observer has been handed
\* every update.
THEOREM TellingWaits == Spec => SettledBeforeTelling
<1>1. ASSUME IInv, TellInv, [Next]_vars
      PROVE  [drain.phase = "settle" /\ drain'.phase = "tell" => \A o \in Observer : owed[o] = <<>>]_vars
  <2> SUFFICES ASSUME Next, drain.phase = "settle", drain'.phase = "tell"
               PROVE  \A o \in Observer : owed[o] = <<>>
    BY <1>1
  <2>1. drain \in Locals
    BY <1>1 DEF IInv, TypeOK
  <2>2. drain' # drain
    OBVIOUS
  <2>3. drain' # FirstRound /\ drain' # NoDrain
    BY DEF FirstRound, NoDrain
  <2>4. Drain
    BY <2>2, <2>3 DEF Next, Run, Ask, Handle, CloseTurn, Return, Send, Push, Remove, Join, Leave,
       StartDrain, rounds
  <2>5. ~NextRound /\ ~NextChange
    BY <2>1 DEF NextRound, NextChange, Locals
  <2>6. ~GiveUp /\ ~NextCell /\ ~EndTelling
    BY <2>3 DEF GiveUp, EndDrain, NextCell, EndTelling, Telling
  <2>7. \A o \in Observer, u \in Update : ~Observe(o, u)
    BY <2>1 DEF Observe, Locals
  <2>8. \A l \in Listener : ~Listen(l)
    BY DEF Listen
  <2>9. BeginTelling
    BY <2>4, <2>5, <2>6, <2>7, <2>8 DEF Drain
  <2>. QED
    BY <1>1, <2>9, NothingIsOwed
<1>. QED
  BY <1>1, Invariance, TellInvariance, PTL DEF Spec, SettledBeforeTelling

=============================================================================

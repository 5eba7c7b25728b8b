-------------------------- MODULE ApplicationProofs --------------------------
(***************************************************************************)
(* What holds of an application of any units, however their bodies install *)
(* one another and wherever they fail, and of the routes any declaration   *)
(* gives it.                                                               *)
(***************************************************************************)
EXTENDS Application, Routes, SequenceTheorems, WellFoundedInduction, TLAPS

-----------------------------------------------------------------------------
(* Sequences. *)

\* What is left of a sequence without its last element.
LEMMA FrontLast ==
  ASSUME NEW S, NEW s \in Seq(S), s # <<>>
  PROVE  /\ Front(s) \in Seq(S)
         /\ Last(s) \in S
         /\ Len(s) \in Nat \ {0}
         /\ Last(s) = s[Len(s)]
         /\ Len(Front(s)) = Len(s) - 1
         /\ \A k \in 1..(Len(s) - 1) : Front(s)[k] = s[k]
<1> DEFINE n == Len(s)
<1>1. n \in Nat \ {0}
  BY EmptySeq
<1>2. \A k \in 1..n : s[k] \in S
  BY ElementOfSeq
<1>3. Front(s) = SubSeq(s, 1, n - 1) /\ Last(s) = s[n]
  BY DEF Front, Last
<1> HIDE DEF n
<1>4. \A k \in 1..(n - 1) : s[k] \in S
  BY <1>1, <1>2
<1>5. /\ SubSeq(s, 1, n - 1) \in Seq(S)
      /\ Len(SubSeq(s, 1, n - 1)) = IF 1 <= n - 1 THEN n - 1 - 1 + 1 ELSE 0
      /\ \A k \in 1..(n - 1 - 1 + 1) : SubSeq(s, 1, n - 1)[k] = s[1 + k - 1]
  <2>1. 1 \in Int /\ n - 1 \in Int
    BY <1>1
  <2>. QED
    BY <1>4, <2>1, SubSeqProperties
<1>6. Len(SubSeq(s, 1, n - 1)) = n - 1
  BY <1>1, <1>5
<1>7. \A k \in 1..(n - 1) : SubSeq(s, 1, n - 1)[k] = s[k]
  <2> SUFFICES ASSUME NEW k \in 1..(n - 1)
               PROVE  SubSeq(s, 1, n - 1)[k] = s[k]
    OBVIOUS
  <2>1. k \in 1..(n - 1 - 1 + 1) /\ 1 + k - 1 = k
    BY <1>1
  <2>. QED
    BY <1>5, <2>1
<1>8. s[n] \in S
  BY <1>1, <1>2
<1>. QED
  BY <1>1, <1>3, <1>5, <1>6, <1>7, <1>8 DEF n

\* The last one goes.
LEMMA RemoveLast ==
  ASSUME NEW S, NEW s \in Seq(S), s # <<>>
  PROVE  RemoveAt(s, Len(s)) = Front(s)
<1>1. Len(s) \in Nat \ {0} /\ Front(s) \in Seq(S)
  BY FrontLast
<1>2. SubSeq(s, Len(s) + 1, Len(s)) = <<>>
  BY <1>1, SubSeqEmpty
<1>3. Front(s) \o <<>> = Front(s)
  BY <1>1, ConcatEmptySeq
<1>. QED
  BY <1>2, <1>3 DEF RemoveAt, Front

-----------------------------------------------------------------------------
(* Bodies. *)

KindOf(n) == bodies[n].kind

\* The bodies under way are each there once and have not ended; an application
\* under way installs no segments, a page nothing else.
Shape ==
  /\ phase \in {"building", "ready", "running", "ending", "over"}
  /\ bodies \in Seq(Unit)
  /\ built \subseteq 1..Len(bodies)
  /\ stack \in Seq(Nat)
  /\ \A k \in DOMAIN stack : stack[k] \in 1..Len(bodies) /\ stack[k] \notin built
  /\ \A j, k \in DOMAIN stack : stack[j] = stack[k] => j = k
  /\ \A k \in DOMAIN stack : KindOf(stack[k]) = "segment" <=> phase = "running"
  /\ phase \in {"ending", "over"} => stack = <<>>

\* The plugins that are there are what was built, and what is under way is not
\* there and shares its id with nothing else under way.
OneOfAnId ==
  /\ plugins = {bodies[n] : n \in {m \in built : KindOf(m) = "plugin"}}
  /\ \A k \in DOMAIN stack : KindOf(stack[k]) = "plugin" =>
       \A p \in plugins : p.id # bodies[stack[k]].id
  /\ \A j, k \in DOMAIN stack :
       /\ KindOf(stack[j]) = "plugin" /\ KindOf(stack[k]) = "plugin"
       /\ bodies[stack[j]].id = bodies[stack[k]].id
       => j = k

PluginInv == Shape /\ OneOfAnId /\ BuiltOnce

LEMMA Kinds ==
  /\ \A u \in Unit : u.kind \in {"plugin", "feature", "segment"}
  /\ \A u \in Unit : u.kind = "segment" => u \in Segments /\ Exports[u] \subseteq Reducer
BY ApplicationAssumption DEF Unit

\* The body under way.
LEMMA TheBody ==
  ASSUME Shape, stack # <<>>
  PROVE  /\ Len(stack) \in Nat \ {0} /\ DOMAIN stack = 1..Len(stack)
         /\ Body = stack[Len(stack)] /\ Body \in 1..Len(bodies) /\ Body \notin built
         /\ bodies[Body] \in Unit
         /\ Front(stack) \in Seq(Nat)
         /\ DOMAIN Front(stack) = 1..(Len(stack) - 1)
         /\ \A k \in 1..(Len(stack) - 1) : Front(stack)[k] = stack[k] /\ stack[k] # Body
<1>1. /\ Len(stack) \in Nat \ {0} /\ Last(stack) = stack[Len(stack)]
      /\ Front(stack) \in Seq(Nat) /\ Len(Front(stack)) = Len(stack) - 1
      /\ \A k \in 1..(Len(stack) - 1) : Front(stack)[k] = stack[k]
  BY FrontLast DEF Shape
<1>2. DOMAIN stack = 1..Len(stack) /\ DOMAIN Front(stack) = 1..(Len(stack) - 1)
  BY <1>1, LenProperties DEF Shape
<1>3. Body = stack[Len(stack)] /\ Len(stack) \in DOMAIN stack
  BY <1>1, <1>2 DEF Body
<1>4. Body \in 1..Len(bodies) /\ Body \notin built
  BY <1>3 DEF Shape
<1>5. bodies[Body] \in Unit
  BY <1>4, ElementOfSeq DEF Shape
<1>6. ASSUME NEW k \in 1..(Len(stack) - 1)
      PROVE  stack[k] # Body
  <2>1. k \in DOMAIN stack /\ k # Len(stack)
    BY <1>1, <1>2
  <2>. QED
    BY <1>3, <2>1 DEF Shape
<1>. QED
  BY <1>1, <1>2, <1>3, <1>4, <1>5, <1>6

\* A body begins: it is the last of them, and the innermost.
LEMMA ABodyBegins ==
  ASSUME Shape, NEW u \in Unit, Begin(u)
  PROVE  /\ Len(bodies) \in Nat
         /\ bodies' \in Seq(Unit) /\ Len(bodies') = Len(bodies) + 1
         /\ bodies'[Len(bodies) + 1] = u
         /\ \A n \in 1..Len(bodies) : bodies'[n] = bodies[n]
         /\ Len(stack) \in Nat /\ DOMAIN stack = 1..Len(stack)
         /\ stack' \in Seq(Nat) /\ DOMAIN stack' = 1..(Len(stack) + 1)
         /\ stack'[Len(stack) + 1] = Len(bodies) + 1
         /\ \A k \in 1..Len(stack) : stack'[k] = stack[k]
<1>1. /\ bodies' \in Seq(Unit) /\ Len(bodies') = Len(bodies) + 1
      /\ bodies'[Len(bodies) + 1] = u
      /\ \A n \in 1..Len(bodies) : bodies'[n] = bodies[n]
  BY AppendProperties DEF Begin, Shape
<1>2. Len(bodies) \in Nat /\ Len(bodies') \in Nat /\ Len(stack) \in Nat
  BY <1>1, LenProperties DEF Shape
<1>3. /\ stack' \in Seq(Nat) /\ Len(stack') = Len(stack) + 1
      /\ stack'[Len(stack) + 1] = Len(bodies')
      /\ \A k \in 1..Len(stack) : stack'[k] = stack[k]
  BY <1>2, AppendProperties DEF Begin, Shape
<1>4. DOMAIN stack = 1..Len(stack) /\ DOMAIN stack' = 1..(Len(stack) + 1)
  BY <1>3, LenProperties DEF Shape
<1>. QED
  BY <1>1, <1>2, <1>3, <1>4

LEMMA BeginKeepsPlugins ==
  ASSUME PluginInv, NEW u \in Unit, Begin(u)
  PROVE  PluginInv'
<1> DEFINE new == Len(bodies) + 1
           top == Len(stack) + 1
<1>0. Shape
  BY DEF PluginInv
<1>1. /\ Len(bodies) \in Nat /\ Len(stack) \in Nat
      /\ bodies' \in Seq(Unit) /\ Len(bodies') = new /\ bodies'[new] = u
      /\ \A n \in 1..Len(bodies) : bodies'[n] = bodies[n]
      /\ DOMAIN stack = 1..Len(stack) /\ DOMAIN stack' = 1..top
      /\ stack' \in Seq(Nat) /\ stack'[top] = new
      /\ \A k \in 1..Len(stack) : stack'[k] = stack[k]
  BY <1>0, ABodyBegins
<1>2. /\ phase' = phase /\ built' = built /\ plugins' = plugins
      /\ phase \in {"building", "ready", "running"} /\ Admit(u)
  BY DEF Begin
<1>3. /\ u.kind = "segment" <=> phase = "running"
      /\ u.kind = "plugin" => AdmitPlugin(u)
  BY <1>2, Kinds DEF Admit
<1> HIDE DEF new, top
<1>4. /\ new \notin 1..Len(bodies) /\ new \in 1..new /\ 1..Len(bodies) \subseteq 1..new
      /\ \A k \in 1..top : k \in 1..Len(stack) \/ k = top
      /\ top \notin 1..Len(stack)
  BY <1>1 DEF new, top
<1>5. ASSUME NEW k \in 1..Len(stack)
       PROVE  /\ stack[k] \in 1..Len(bodies) /\ stack[k] \notin built /\ stack[k] # new
              /\ stack'[k] = stack[k] /\ bodies'[stack'[k]] = bodies[stack[k]]
              /\ bodies[stack[k]].kind = "segment" <=> phase = "running"
  BY <1>0, <1>1, <1>4 DEF Shape, KindOf
<1>6. new \notin built
  BY <1>0, <1>4 DEF Shape
<1>7. Shape'
  <2>1. \A k \in 1..top : stack'[k] \in 1..new /\ stack'[k] \notin built
    BY <1>1, <1>4, <1>5, <1>6
  <2>2. ASSUME NEW j \in 1..top, NEW k \in 1..top, stack'[j] = stack'[k]
        PROVE  j = k
    <3>1. CASE j \in 1..Len(stack) /\ k \in 1..Len(stack)
      BY <1>0, <1>1, <1>5, <2>2, <3>1 DEF Shape
    <3>2. CASE j = top \/ k = top
      BY <1>1, <1>4, <1>5, <2>2, <3>2
    <3>. QED
      BY <1>4, <3>1, <3>2
  <2>3. \A k \in 1..top : bodies'[stack'[k]].kind = "segment" <=> phase = "running"
    BY <1>1, <1>3, <1>4, <1>5
  <2>4. built \subseteq 1..new
    BY <1>0, <1>4 DEF Shape
  <2>. QED
    BY <1>0, <1>1, <1>2, <2>1, <2>2, <2>3, <2>4 DEF Shape, KindOf
<1>8. \A n \in built : bodies'[n] = bodies[n]
  BY <1>0, <1>1 DEF Shape
<1>9. OneOfAnId'
  <2>1. plugins' = {bodies'[n] : n \in {m \in built' : bodies'[m].kind = "plugin"}}
    BY <1>2, <1>8 DEF PluginInv, OneOfAnId, KindOf
  <2>2. ASSUME NEW k \in 1..top, bodies'[stack'[k]].kind = "plugin"
        PROVE  \A p \in plugins' : p.id # bodies'[stack'[k]].id
    <3>1. CASE k = top
      BY <1>1, <1>2, <1>3, <2>2, <3>1 DEF AdmitPlugin
    <3>2. CASE k \in 1..Len(stack)
      <4>1. k \in DOMAIN stack /\ KindOf(stack[k]) = "plugin"
        BY <1>1, <1>5, <2>2, <3>2 DEF KindOf
      <4>2. \A p \in plugins : p.id # bodies[stack[k]].id
        BY <4>1 DEF PluginInv, OneOfAnId
      <4>. QED
        BY <1>2, <1>5, <3>2, <4>2
    <3>. QED
      BY <1>4, <3>1, <3>2
  <2>3. ASSUME NEW k \in 1..Len(stack), bodies[stack[k]].kind = "plugin", u.kind = "plugin"
        PROVE  bodies[stack[k]].id # u.id
    <3>1. stack[k] \in ToSet(stack)
      BY <1>1 DEF ToSet
    <3>. QED
      BY <1>3, <2>3, <3>1 DEF AdmitPlugin
  <2>4. ASSUME NEW j \in 1..top, NEW k \in 1..top,
               bodies'[stack'[j]].kind = "plugin", bodies'[stack'[k]].kind = "plugin",
               bodies'[stack'[j]].id = bodies'[stack'[k]].id
        PROVE  j = k
    <3>1. CASE j \in 1..Len(stack) /\ k \in 1..Len(stack)
      <4>1. /\ bodies[stack[j]].kind = "plugin" /\ bodies[stack[k]].kind = "plugin"
            /\ bodies[stack[j]].id = bodies[stack[k]].id
        BY <1>1, <1>5, <2>4, <3>1
      <4>. QED
        BY <3>1, <4>1 DEF PluginInv, OneOfAnId, KindOf
    <3>2. CASE j = top /\ k \in 1..Len(stack)
      BY <1>1, <1>5, <2>3, <2>4, <3>2
    <3>3. CASE j \in 1..Len(stack) /\ k = top
      BY <1>1, <1>5, <2>3, <2>4, <3>3
    <3>. QED
      BY <1>4, <3>1, <3>2, <3>3
  <2>. QED
    BY <1>1, <2>1, <2>2, <2>4 DEF OneOfAnId, KindOf
<1>10. BuiltOnce'
  BY <1>2, <1>8 DEF PluginInv, BuiltOnce
<1>. QED
  BY <1>7, <1>9, <1>10 DEF PluginInv

LEMMA FinishKeepsPlugins ==
  ASSUME PluginInv, NEW ok \in BOOLEAN, Finish(ok)
  PROVE  PluginInv'
<1> DEFINE u == bodies[Body]
           top == Len(stack)
<1>0. Shape /\ stack # <<>>
  BY DEF PluginInv, Finish
<1>1. /\ top \in Nat \ {0} /\ DOMAIN stack = 1..top
      /\ Body = stack[top] /\ Body \in 1..Len(bodies) /\ Body \notin built /\ u \in Unit
      /\ Front(stack) \in Seq(Nat) /\ DOMAIN Front(stack) = 1..(top - 1)
      /\ \A k \in 1..(top - 1) : Front(stack)[k] = stack[k] /\ stack[k] # Body
  BY <1>0, TheBody
<1>2. /\ phase' = phase /\ bodies' = bodies /\ stack' = Front(stack)
      /\ built' = IF ok THEN built \cup {Body} ELSE built
      /\ plugins' = IF ok /\ u.kind = "plugin" THEN plugins \cup {u} ELSE plugins
  BY DEF Finish
<1> HIDE DEF top
<1>3. 1..(top - 1) \subseteq 1..top /\ top \in 1..top /\ top \notin 1..(top - 1)
  BY <1>1
<1>4. \A k \in 1..(top - 1) : stack'[k] = stack[k] /\ stack[k] # Body /\ k \in DOMAIN stack
  BY <1>1, <1>2, <1>3
<1>5. Shape'
  <2>1. \A k \in 1..(top - 1) : stack'[k] \in 1..Len(bodies) /\ stack'[k] \notin built'
    BY <1>0, <1>2, <1>4 DEF Shape
  <2>2. \A j, k \in 1..(top - 1) : stack'[j] = stack'[k] => j = k
    BY <1>0, <1>4 DEF Shape
  <2>3. ASSUME NEW k \in 1..(top - 1)
        PROVE  bodies[stack'[k]].kind = "segment" <=> phase = "running"
    <3>1. bodies[stack[k]].kind = "segment" <=> phase = "running"
      BY <1>0, <1>4 DEF Shape, KindOf
    <3>. QED
      BY <1>4, <3>1
  <2>4. phase' \notin {"ending", "over"}
    BY <1>0, <1>2 DEF Shape
  <2>5. built' \subseteq 1..Len(bodies)
    BY <1>0, <1>1, <1>2 DEF Shape
  <2>. QED
    BY <1>0, <1>1, <1>2, <2>1, <2>2, <2>3, <2>4, <2>5 DEF Shape, KindOf
<1>6. /\ u.kind = "plugin" => \A p \in plugins : p.id # u.id
      /\ u.kind = "plugin" => \A k \in 1..(top - 1) : KindOf(stack[k]) = "plugin" => bodies[stack[k]].id # u.id
  BY <1>1, <1>3 DEF PluginInv, OneOfAnId, KindOf
<1>7. OneOfAnId'
  <2>1. plugins' = {bodies[n] : n \in {m \in built' : bodies[m].kind = "plugin"}}
    BY <1>2 DEF PluginInv, OneOfAnId, KindOf
  <2>2. ASSUME NEW k \in 1..(top - 1), bodies[stack'[k]].kind = "plugin"
        PROVE  \A p \in plugins' : p.id # bodies[stack'[k]].id
    BY <1>2, <1>6, <1>4, <2>2 DEF PluginInv, OneOfAnId, KindOf
  <2>3. ASSUME NEW j \in 1..(top - 1), NEW k \in 1..(top - 1),
               bodies[stack'[j]].kind = "plugin", bodies[stack'[k]].kind = "plugin",
               bodies[stack'[j]].id = bodies[stack'[k]].id
        PROVE  j = k
    BY <1>4, <2>3 DEF PluginInv, OneOfAnId, KindOf
  <2>. QED
    BY <1>1, <1>2, <2>1, <2>2, <2>3 DEF OneOfAnId, KindOf
<1>8. BuiltOnce'
  <2>1. \A n \in built : bodies[n].kind = "plugin" => bodies[n] \in plugins
    BY DEF PluginInv, OneOfAnId, KindOf
  <2>. QED
    BY <1>2, <1>6, <2>1 DEF PluginInv, BuiltOnce
<1>. QED
  BY <1>5, <1>7, <1>8 DEF PluginInv

\* The other steps begin and end no body, and the application goes on to its
\* next phase only when none is under way.
LEMMA PluginsUntouched ==
  ASSUME PluginInv, UNCHANGED <<stack, bodies, built, plugins>>,
         \/ phase' = phase
         \/ stack = <<>> /\ phase' \in {"ready", "running", "ending", "over"}
  PROVE  PluginInv'
<1>1. Shape'
  BY EmptySeq DEF PluginInv, Shape, KindOf
<1>2. OneOfAnId' /\ BuiltOnce'
  BY DEF PluginInv, OneOfAnId, BuiltOnce, KindOf
<1>. QED
  BY <1>1, <1>2 DEF PluginInv

LEMMA PluginInductive == PluginInv /\ [Next]_vars => PluginInv'
<1> SUFFICES ASSUME PluginInv, [Next]_vars
             PROVE  PluginInv'
  OBVIOUS
<1>1. ASSUME NEW r \in Reducer, Claim(r) \/ Export(r)
      PROVE  PluginInv'
  BY <1>1, PluginsUntouched DEF Claim, Export
<1>2. ASSUME NEW m \in Action, Answer(m)
      PROVE  PluginInv'
  BY <1>2, PluginsUntouched DEF Answer
<1>3. CASE OnCleanup
  BY <1>3, PluginsUntouched DEF OnCleanup
<1>4. ASSUME NEW u \in Unit, Begin(u)
      PROVE  PluginInv'
  BY <1>4, BeginKeepsPlugins
<1>5. ASSUME NEW ok \in BOOLEAN, Finish(ok)
      PROVE  PluginInv'
  BY <1>5, FinishKeepsPlugins
<1>6. CASE Installed
  BY <1>6, PluginsUntouched DEF Installed
<1>7. CASE Run
  BY <1>7, PluginsUntouched DEF Run
<1>8. CASE LeavePage
  BY <1>8, PluginsUntouched DEF LeavePage
<1>9. CASE TearDown
  BY <1>9, PluginsUntouched DEF TearDown
<1>10. CASE Clean
  BY <1>10, PluginsUntouched DEF Clean
<1>11. CASE End
  <2>1. stack = <<>>
    BY <1>11 DEF PluginInv, Shape, End
  <2>. QED
    BY <1>11, <2>1, PluginsUntouched DEF End
<1>12. CASE UNCHANGED vars
  BY <1>12, PluginsUntouched DEF vars
<1>13. ASSUME NEW u \in Plugins, Collide(u)
       PROVE  PluginInv'
  BY <1>13, PluginsUntouched DEF Collide
<1>. QED
  BY <1>1, <1>2, <1>3, <1>4, <1>5, <1>6, <1>7, <1>8, <1>9, <1>10, <1>11, <1>12, <1>13 DEF Next

LEMMA PluginInit == Init => PluginInv
<1> SUFFICES ASSUME Init
             PROVE  PluginInv
  OBVIOUS
<1>1. \A S : <<>> \in Seq(S)
  BY EmptySeq
<1>. QED
  BY <1>1 DEF Init, PluginInv, Shape, OneOfAnId, BuiltOnce, KindOf

\* However often and however deep a plugin is asked for, and whatever fails in
\* between, it is built once, and no two are built under one id.
THEOREM PluginsAreBuiltOnce == Spec => []BuiltOnce
<1>1. Spec => []PluginInv
  BY PluginInit, PluginInductive, PTL DEF Spec
<1>2. PluginInv => BuiltOnce
  BY DEF PluginInv
<1>. QED
  BY <1>1, <1>2, PTL

-----------------------------------------------------------------------------
(* Cleanups. *)

\* One sequence begins another when it is no longer and agrees with it.
LEMMA PrefixAgrees ==
  ASSUME NEW S, NEW s \in Seq(S), NEW t \in Seq(S)
  PROVE  IsPrefix(s, t) <=> Len(s) <= Len(t) /\ \A k \in 1..Len(s) : s[k] = t[k]
<1>1. Len(s) \in Nat /\ Len(t) \in Nat /\ SubSeq(s, 1, Len(s)) = s
  BY LenProperties, SubSeqFull
<1>2. ASSUME Len(s) <= Len(t)
      PROVE  /\ SubSeq(t, 1, Len(s)) \in Seq(S)
             /\ Len(SubSeq(t, 1, Len(s))) = Len(s)
             /\ \A k \in 1..Len(s) : SubSeq(t, 1, Len(s))[k] = t[k]
  <2> DEFINE n == Len(s)
  <2>1. \A k \in 1..n : t[k] \in S
    BY <1>1, <1>2, ElementOfSeq
  <2>2. n \in Nat /\ 1 \in Int /\ n \in Int
    BY <1>1
  <2> HIDE DEF n
  <2>3. /\ SubSeq(t, 1, n) \in Seq(S)
        /\ Len(SubSeq(t, 1, n)) = IF 1 <= n THEN n - 1 + 1 ELSE 0
        /\ \A k \in 1..(n - 1 + 1) : SubSeq(t, 1, n)[k] = t[1 + k - 1]
    BY <2>1, <2>2, SubSeqProperties
  <2>4. Len(SubSeq(t, 1, n)) = n
    BY <2>2, <2>3
  <2>5. ASSUME NEW k \in 1..n
        PROVE  SubSeq(t, 1, n)[k] = t[k]
    <3>1. k \in 1..(n - 1 + 1) /\ 1 + k - 1 = k
      BY <2>2
    <3>. QED
      BY <2>3, <3>1
  <2>. QED
    BY <2>3, <2>4, <2>5 DEF n
<1>3. ASSUME Len(s) <= Len(t), \A k \in 1..Len(s) : s[k] = t[k]
      PROVE  SubSeq(s, 1, Len(s)) = SubSeq(t, 1, Len(s))
  BY <1>1, <1>2, <1>3, SeqEqual
<1>4. ASSUME Len(s) <= Len(t), SubSeq(s, 1, Len(s)) = SubSeq(t, 1, Len(s))
      PROVE  \A k \in 1..Len(s) : s[k] = t[k]
  BY <1>1, <1>2, <1>4
<1>. QED
  BY <1>3, <1>4 DEF IsPrefix

\* One cleanup a time was asked for by a body, or by a hook.
Cleanup == [by : Nat, nth : Nat]

\* What was asked for is what is still to be run with, from its end backwards,
\* what ran; and until the application goes nothing did.
CleanupInv ==
  /\ Shape
  /\ cleanups \in Seq(Cleanup) /\ order \in Seq(Cleanup) /\ ran \in Seq(Cleanup)
  /\ Len(cleanups) + Len(ran) = Len(order)
  /\ \A k \in 1..Len(cleanups) : cleanups[k] = order[k]
  /\ \A k \in 1..Len(ran) : ran[k] = order[Len(order) + 1 - k]
  /\ phase \in {"building", "ready", "running"} => ran = <<>>
  /\ phase = "over" => cleanups = <<>>

LEMMA Reversed ==
  ASSUME NEW S, NEW s \in Seq(S)
  PROVE  /\ Reverse(s) \in Seq(S) /\ Len(Reverse(s)) = Len(s)
         /\ \A k \in 1..Len(s) : Reverse(s)[k] = s[Len(s) + 1 - k]
<1>1. Len(s) \in Nat /\ \A k \in 1..Len(s) : s[k] \in S
  BY LenProperties, ElementOfSeq
<1> DEFINE n == Len(s)
           t == [k \in 1..n |-> s[n - k + 1]]
<1>2. Reverse(s) = t
  BY DEF Reverse
<1>3. \A k \in 1..n : n - k + 1 \in 1..n /\ n - k + 1 = n + 1 - k
  BY <1>1
<1>4. t \in [1..n -> S]
  <2> HIDE DEF n
  <2>. QED
    BY <1>1, <1>3 DEF n
<1>5. t \in Seq(S) /\ Len(t) = n
  <2>1. n \in Nat
    BY <1>1
  <2> HIDE DEF n, t
  <2>. QED
    BY <1>4, <2>1, SeqDef, LenProperties
<1>6. \A k \in 1..n : t[k] = s[n + 1 - k]
  BY <1>3
<1>. QED
  BY <1>2, <1>5, <1>6

\* What ran and what was asked for, as the property says it.
LEMMA RanBackwards == CleanupInv => LastSetUpGoesFirst
<1> SUFFICES ASSUME CleanupInv
             PROVE  LastSetUpGoesFirst
  OBVIOUS
<1>1. /\ Reverse(order) \in Seq(Cleanup) /\ Len(Reverse(order)) = Len(order)
      /\ \A k \in 1..Len(order) : Reverse(order)[k] = order[Len(order) + 1 - k]
  BY Reversed DEF CleanupInv
<1>2. Len(order) \in Nat /\ Len(ran) \in Nat /\ Len(cleanups) \in Nat
  BY LenProperties DEF CleanupInv
<1>3. Len(ran) <= Len(order) /\ \A k \in 1..Len(ran) : ran[k] = Reverse(order)[k]
  <2>1. Len(cleanups) + Len(ran) = Len(order) /\ \A k \in 1..Len(ran) : ran[k] = order[Len(order) + 1 - k]
    BY DEF CleanupInv
  <2>2. Len(ran) <= Len(order) /\ \A k \in 1..Len(ran) : k \in 1..Len(order)
    BY <1>2, <2>1
  <2>. QED
    BY <1>1, <2>1, <2>2
<1>4. IsPrefix(ran, Reverse(order))
  BY <1>1, <1>3, PrefixAgrees DEF CleanupInv
<1>5. ran # <<>> => phase \in {"ending", "over"}
  BY DEF CleanupInv, Shape
<1>6. ASSUME phase = "over"
      PROVE  ran = Reverse(order)
  <2>1. Len(cleanups) = 0
    BY <1>6, EmptySeq DEF CleanupInv
  <2>2. Len(ran) = Len(order)
    BY <1>2, <2>1 DEF CleanupInv
  <2>. QED
    BY <1>1, <1>3, <2>2, SeqEqual DEF CleanupInv
<1>. QED
  BY <1>4, <1>5, <1>6 DEF LastSetUpGoesFirst

\* One more is asked for.
LEMMA AskKeepsCleanups ==
  ASSUME CleanupInv, OnCleanup, Shape'
  PROVE  CleanupInv'
<1> DEFINE c == [by |-> Body, nth |-> Len(order) + 1]
<1>1. /\ cleanups' = Append(cleanups, c) /\ order' = Append(order, c) /\ ran' = ran /\ phase' = phase
      /\ phase \in {"building", "ready", "running"}
  BY DEF OnCleanup, Speaks
<1>2. Len(order) \in Nat /\ Len(cleanups) \in Nat
  BY LenProperties DEF CleanupInv
<1>3. ran = <<>> /\ Len(ran) = 0 /\ Len(cleanups) = Len(order)
  <2>1. ran = <<>> /\ Len(cleanups) + Len(ran) = Len(order)
    BY <1>1 DEF CleanupInv
  <2>2. Len(ran) = 0
    BY <2>1, EmptySeq
  <2>. QED
    BY <1>2, <2>1, <2>2
<1>4. Body \in Nat
  <2>1. CASE stack = <<>>
    BY <2>1 DEF Body
  <2>2. CASE stack # <<>>
    <3>1. Shape
      BY DEF CleanupInv
    <3>. QED
      BY <2>2, <3>1, TheBody
  <2>. QED
    BY <2>1, <2>2
<1>5. c \in Cleanup
  BY <1>2, <1>4 DEF Cleanup
<1> HIDE DEF c
<1>6. /\ cleanups' \in Seq(Cleanup) /\ Len(cleanups') = Len(cleanups) + 1
      /\ \A k \in 1..Len(cleanups) : cleanups'[k] = cleanups[k] /\ cleanups'[Len(cleanups) + 1] = c
      /\ order' \in Seq(Cleanup) /\ Len(order') = Len(order) + 1
      /\ \A k \in 1..Len(order) : order'[k] = order[k]
      /\ cleanups'[Len(cleanups) + 1] = c /\ order'[Len(order) + 1] = c
  BY <1>1, <1>5, AppendProperties DEF CleanupInv
<1>7. \A k \in 1..Len(cleanups') : cleanups'[k] = order'[k]
  <2>1. \A k \in 1..Len(cleanups) : cleanups[k] = order[k]
    BY DEF CleanupInv
  <2>2. \A k \in 1..Len(cleanups') : k \in 1..Len(cleanups) \/ k = Len(cleanups) + 1
    BY <1>2, <1>6
  <2>. QED
    BY <1>3, <1>6, <2>1, <2>2
<1>8. ran' \in Seq(Cleanup) /\ ran' = <<>> /\ Len(ran') = 0
  BY <1>1, <1>3 DEF CleanupInv
<1>9. Len(cleanups') + Len(ran') = Len(order') /\ \A k \in 1..Len(ran') : ran'[k] = order'[Len(order') + 1 - k]
  BY <1>2, <1>3, <1>6, <1>8
<1>. QED
  BY <1>1, <1>6, <1>7, <1>8, <1>9 DEF CleanupInv

\* The last one runs.
LEMMA CleanKeepsCleanups ==
  ASSUME CleanupInv, Clean, Shape'
  PROVE  CleanupInv'
<1> DEFINE n == Len(cleanups)
           c == cleanups[n]
<1>1. /\ cleanups' = Front(cleanups) /\ cleanups # <<>> /\ ran' = Append(ran, c)
      /\ phase = "ending" /\ phase' = phase /\ order' = order
      /\ cleanups \in Seq(Cleanup) /\ order \in Seq(Cleanup) /\ ran \in Seq(Cleanup)
  BY RemoveLast DEF Clean, NextCleanup, CleanupInv
<1>2. /\ n \in Nat \ {0} /\ cleanups' \in Seq(Cleanup) /\ Len(cleanups') = n - 1 /\ c \in Cleanup
      /\ \A k \in 1..(n - 1) : cleanups'[k] = cleanups[k]
  BY <1>1, FrontLast
<1>3. Len(order) \in Nat /\ Len(ran) \in Nat
  BY <1>1, LenProperties
<1>4. /\ n + Len(ran) = Len(order) /\ \A k \in 1..n : cleanups[k] = order[k]
      /\ \A k \in 1..Len(ran) : ran[k] = order[Len(order) + 1 - k]
  BY DEF CleanupInv
<1>5. c = order[n]
  BY <1>2, <1>4
<1> HIDE DEF n, c
<1>6. /\ ran' \in Seq(Cleanup) /\ Len(ran') = Len(ran) + 1 /\ ran'[Len(ran) + 1] = c
      /\ \A k \in 1..Len(ran) : ran'[k] = ran[k]
  BY <1>1, <1>2, AppendProperties
<1>7. Len(order) + 1 - (Len(ran) + 1) = n
  BY <1>2, <1>3, <1>4
<1>8. \A k \in 1..Len(ran') : ran'[k] = order[Len(order) + 1 - k]
  <2>1. \A k \in 1..Len(ran') : k \in 1..Len(ran) \/ k = Len(ran) + 1
    BY <1>3, <1>6
  <2>. QED
    BY <1>4, <1>5, <1>6, <1>7, <2>1
<1>9. Len(cleanups') + Len(ran') = Len(order) /\ \A k \in 1..Len(cleanups') : cleanups'[k] = order[k]
  <2>1. Len(cleanups') + Len(ran') = Len(order)
    <3>1. Len(cleanups') = n - 1 /\ Len(ran') = Len(ran) + 1 /\ n + Len(ran) = Len(order) /\ n \in Nat
      BY <1>2, <1>4, <1>6
    <3>2. \A a, b \in Nat : (a - 1) + (b + 1) = a + b
      OBVIOUS
    <3>. QED
      BY <1>3, <3>1, <3>2
  <2>2. \A k \in 1..(n - 1) : k \in 1..n
    BY <1>2
  <2>. QED
    BY <1>2, <1>4, <2>1, <2>2
<1>. QED
  BY <1>1, <1>2, <1>6, <1>8, <1>9 DEF CleanupInv

LEMMA CleanupInductive == PluginInv /\ CleanupInv /\ [Next]_vars => CleanupInv'
<1> SUFFICES ASSUME PluginInv, CleanupInv, [Next]_vars
             PROVE  CleanupInv'
  OBVIOUS
<1>1. Shape'
  BY PluginInductive DEF PluginInv
<1>3. ASSUME UNCHANGED <<cleanups, order, ran>>,
             \/ phase' = phase
             \/ phase \in {"building", "ready", "running"} /\ phase' \in {"ready", "running", "ending"}
      PROVE  CleanupInv'
  BY <1>1, <1>3 DEF CleanupInv
<1>4. ASSUME NEW r \in Reducer, Claim(r) \/ Export(r)
      PROVE  CleanupInv'
  BY <1>3, <1>4 DEF Claim, Export, history
<1>5. ASSUME NEW m \in Action, Answer(m)
      PROVE  CleanupInv'
  BY <1>3, <1>5 DEF Answer
<1>6. CASE OnCleanup
  BY <1>1, <1>6, AskKeepsCleanups
<1>7. ASSUME NEW u \in Unit, Begin(u)
      PROVE  CleanupInv'
  BY <1>3, <1>7 DEF Begin, history
<1>8. ASSUME NEW ok \in BOOLEAN, Finish(ok)
      PROVE  CleanupInv'
  BY <1>3, <1>8 DEF Finish, history
<1>9. CASE Installed
  BY <1>3, <1>9 DEF Installed, history
<1>10. CASE Run
  BY <1>3, <1>10 DEF Run, history
<1>11. CASE LeavePage
  BY <1>3, <1>11 DEF LeavePage
<1>12. CASE TearDown
  BY <1>3, <1>12 DEF TearDown, history
<1>13. CASE Clean
  BY <1>1, <1>13, CleanKeepsCleanups
<1>14. CASE End
  BY <1>1, <1>14 DEF End, CleanupInv, history
<1>15. CASE UNCHANGED vars
  BY <1>3, <1>15 DEF vars, history
<1>16. ASSUME NEW u \in Plugins, Collide(u)
       PROVE  CleanupInv'
  BY <1>3, <1>16 DEF Collide, history
<1>. QED
  BY <1>4, <1>5, <1>6, <1>7, <1>8, <1>9, <1>10, <1>11, <1>12, <1>13, <1>14, <1>15, <1>16 DEF Next

\* Whatever units asked for, built or failed, is run: each cleanup once, none
\* before the application goes, the last first.
THEOREM CleanupsRunBackwards == Spec => []LastSetUpGoesFirst
<1>1. Init => CleanupInv
  <2> SUFFICES ASSUME Init
               PROVE  CleanupInv
    OBVIOUS
  <2>1. <<>> \in Seq(Cleanup) /\ Len(<<>>) = 0
    BY EmptySeq
  <2>. QED
    BY <2>1, PluginInit DEF Init, CleanupInv, PluginInv
<1>2. Spec => [](PluginInv /\ CleanupInv)
  BY <1>1, PluginInit, PluginInductive, CleanupInductive, PTL DEF Spec
<1>. QED
  BY <1>2, RanBackwards, PTL

-----------------------------------------------------------------------------
(* Scopes and their sections. *)

Noted == UNION {[D -> Nat] : D \in SUBSET Reducer}

ScopeType ==
  [sections : Nat, installing : Seq(Nat), marked : SUBSET Segments, owners : Noted,
   claimants : Noted, answers : SUBSET (Nat \X Action), exports : SUBSET Reducer]

\* Whoever notes, notes both who claimed and where.
Noting(sc) == sc \in ScopeType /\ DOMAIN sc.claimants = DOMAIN sc.owners

\* The bodies under way are the sections that are open, in the scope they are
\* installed in; a page has nothing before the application runs.
ScopesInv ==
  /\ Shape
  /\ scope \in [{"app", "page"} -> ScopeType]
  /\ \A s \in {"app", "page"} : Noting(scope[s])
  /\ claims \subseteq (0..Len(bodies)) \X Reducer
  /\ answers \subseteq (0..Len(bodies)) \X Action
  /\ Len(scope[Here].installing) = Len(stack)
  /\ phase # "running" => scope["page"] = EmptyScope
  /\ phase = "running" => scope["app"].installing = <<>>

LEMMA EmptyIsAScope == EmptyScope \in ScopeType /\ Noting(EmptyScope)
<1>1. <<>> \in Seq(Nat) /\ DOMAIN <<>> = {}
  BY EmptySeq
<1>2. <<>> \in [{} -> Nat]
  BY <1>1
<1>3. <<>> \in Noted
  BY <1>2 DEF Noted
<1>. QED
  BY <1>1, <1>3 DEF EmptyScope, ScopeType, Noting

\* The section a claim is noted under.
LEMMA CurrentSectionType ==
  ASSUME NEW sc \in ScopeType
  PROVE  /\ CurrentSection(sc) \in Nat
         /\ sc.installing # <<>> => CurrentSection(sc) = sc.installing[Len(sc.installing)]
<1>1. sc.installing \in Seq(Nat)
  BY DEF ScopeType
<1>2. CASE sc.installing = <<>>
  BY <1>2 DEF CurrentSection
<1>3. CASE sc.installing # <<>>
  BY <1>1, <1>3, FrontLast DEF CurrentSection
<1>. QED
  BY <1>2, <1>3

\* The first claim of a reducer is kept, and the others change nothing.
LEMMA NoteOwnerKeeps ==
  ASSUME NEW sc, Noting(sc), NEW r \in Reducer, Body \in Nat, NEW next, next = NoteOwner(sc, r)
  PROVE  /\ Noting(next)
         /\ DOMAIN next.owners = DOMAIN sc.owners \cup {r}
         /\ \A q \in DOMAIN sc.owners : next.owners[q] = sc.owners[q] /\ next.claimants[q] = sc.claimants[q]
         /\ r \notin DOMAIN sc.owners => next.owners[r] = CurrentSection(sc) /\ next.claimants[r] = Body
         /\ next.installing = sc.installing /\ next.sections = sc.sections
         /\ next.marked = sc.marked /\ next.answers = sc.answers /\ next.exports = sc.exports
<1> DEFINE known == DOMAIN sc.owners
<1>1. sc \in ScopeType /\ DOMAIN sc.claimants = known
  BY DEF Noting
<1>2. CurrentSection(sc) \in Nat
  BY <1>1, CurrentSectionType
<1>3. CASE r \in known
  <2>1. next = sc
    BY <1>3 DEF NoteOwner
  <2>. QED
    BY <1>3, <2>1
<1>4. CASE r \notin known
  <2> DEFINE owners == [q \in known \cup {r} |-> IF q = r THEN CurrentSection(sc) ELSE sc.owners[q]]
             claimants == [q \in known \cup {r} |-> IF q = r THEN Body ELSE sc.claimants[q]]
  <2>1. next = [sc EXCEPT !.owners = owners, !.claimants = claimants]
    BY <1>4 DEF NoteOwner
  <2>2. /\ sc.owners \in [known -> Nat] /\ known \subseteq Reducer
        /\ sc.claimants \in [known -> Nat]
    <3>1. PICK D \in SUBSET Reducer : sc.owners \in [D -> Nat]
      BY <1>1 DEF ScopeType, Noted
    <3>2. PICK E \in SUBSET Reducer : sc.claimants \in [E -> Nat]
      BY <1>1 DEF ScopeType, Noted
    <3>. QED
      BY <1>1, <3>1, <3>2
  <2>3. owners \in [known \cup {r} -> Nat] /\ claimants \in [known \cup {r} -> Nat]
    BY <1>2, <2>2
  <2>4. owners \in Noted /\ claimants \in Noted
    <3>1. known \cup {r} \in SUBSET Reducer
      BY <2>2
    <3>. QED
      BY <2>3, <3>1 DEF Noted
  <2>5. DOMAIN owners = known \cup {r} /\ DOMAIN claimants = known \cup {r}
    OBVIOUS
  <2>6. \A q \in known : q # r
    BY <1>4
  <2>7. /\ \A q \in known : owners[q] = sc.owners[q] /\ claimants[q] = sc.claimants[q]
        /\ owners[r] = CurrentSection(sc) /\ claimants[r] = Body
    BY <2>6
  <2> HIDE DEF owners, claimants
  <2>8. /\ next \in ScopeType
        /\ next.owners = owners /\ next.claimants = claimants
        /\ next.installing = sc.installing /\ next.sections = sc.sections
        /\ next.marked = sc.marked /\ next.answers = sc.answers /\ next.exports = sc.exports
    BY <1>1, <2>1, <2>4 DEF ScopeType
  <2>. QED
    BY <1>4, <2>5, <2>7, <2>8 DEF Noting
<1>. QED
  BY <1>3, <1>4

LEMMA OpenSectionKeeps ==
  ASSUME NEW sc, Noting(sc), NEW next, next = OpenSection(sc)
  PROVE  /\ Noting(next)
         /\ Len(next.installing) = Len(sc.installing) + 1
         /\ \A k \in 1..Len(sc.installing) : next.installing[k] = sc.installing[k]
         /\ next.installing[Len(sc.installing) + 1] = sc.sections + 1
         /\ next.owners = sc.owners /\ next.claimants = sc.claimants
         /\ next.marked = sc.marked /\ next.answers = sc.answers /\ next.exports = sc.exports
<1>1. sc \in ScopeType /\ sc.installing \in Seq(Nat) /\ sc.sections + 1 \in Nat
  BY DEF Noting, ScopeType
<1>2. next = [sc EXCEPT !.sections = @ + 1, !.installing = Append(@, sc.sections + 1)]
  BY DEF OpenSection
<1>3. /\ next \in ScopeType /\ next.installing = Append(sc.installing, sc.sections + 1)
      /\ next.owners = sc.owners /\ next.claimants = sc.claimants
      /\ next.marked = sc.marked /\ next.answers = sc.answers /\ next.exports = sc.exports
  <2>1. Append(sc.installing, sc.sections + 1) \in Seq(Nat)
    BY <1>1, AppendProperties
  <2>. QED
    BY <1>1, <1>2, <2>1 DEF ScopeType
<1>4. /\ Len(Append(sc.installing, sc.sections + 1)) = Len(sc.installing) + 1
      /\ \A k \in 1..Len(sc.installing) : Append(sc.installing, sc.sections + 1)[k] = sc.installing[k]
      /\ Append(sc.installing, sc.sections + 1)[Len(sc.installing) + 1] = sc.sections + 1
  BY <1>1, AppendProperties
<1>. QED
  BY <1>3, <1>4 DEF Noting

LEMMA CloseSectionKeeps ==
  ASSUME NEW sc, Noting(sc), sc.installing # <<>>, NEW ok, NEW next, next = CloseSection(sc, ok)
  PROVE  /\ Noting(next)
         /\ Len(next.installing) = Len(sc.installing) - 1
         /\ \A k \in 1..(Len(sc.installing) - 1) : next.installing[k] = sc.installing[k]
         /\ next.owners = sc.owners /\ next.claimants = sc.claimants
         /\ next.marked = sc.marked /\ next.answers = sc.answers /\ next.exports = sc.exports
<1>1. sc \in ScopeType /\ sc.installing \in Seq(Nat)
  BY DEF Noting, ScopeType
<1>2. next = [sc EXCEPT !.installing = Front(@)]
  BY DEF CloseSection
<1>3. /\ Front(sc.installing) \in Seq(Nat)
      /\ Len(Front(sc.installing)) = Len(sc.installing) - 1
      /\ \A k \in 1..(Len(sc.installing) - 1) : Front(sc.installing)[k] = sc.installing[k]
  BY <1>1, FrontLast
<1>4. /\ next \in ScopeType /\ next.installing = Front(sc.installing)
      /\ next.owners = sc.owners /\ next.claimants = sc.claimants
      /\ next.marked = sc.marked /\ next.answers = sc.answers /\ next.exports = sc.exports
  BY <1>1, <1>2, <1>3 DEF ScopeType
<1>. QED
  BY <1>3, <1>4 DEF Noting

\* Who has the floor, and where.
LEMMA TheFloor ==
  ASSUME ScopesInv
  PROVE  /\ Here \in {"app", "page"} /\ Body \in 0..Len(bodies) /\ Body \in Nat
         /\ Len(bodies) \in Nat /\ Len(stack) \in Nat
         /\ Noting(scope[Here])
         /\ \A s : s \in {"app", "page"} => Noting(scope[s]) /\ scope[s] \in ScopeType
         /\ DOMAIN scope = {"app", "page"}
<1>1. Here \in {"app", "page"}
  BY DEF Here
<1>2. Len(bodies) \in Nat /\ Len(stack) \in Nat
  BY LenProperties DEF ScopesInv, Shape
<1>3. Body \in 0..Len(bodies)
  <2>1. CASE stack = <<>>
    BY <1>2, <2>1 DEF Body
  <2>2. CASE stack # <<>>
    BY <1>2, <2>2, TheBody DEF ScopesInv
  <2>. QED
    BY <2>1, <2>2
<1>. QED
  BY <1>1, <1>2, <1>3 DEF ScopesInv

\* A step of whoever has the floor changes the scope it is in, and neither the
\* sections that are open nor the bodies.
LEMMA FloorKeepsScopes ==
  ASSUME ScopesInv, Shape', UNCHANGED <<phase, stack, bodies>>,
         phase \in {"building", "ready", "running"},
         NEW next, scope' = [scope EXCEPT ![Here] = next],
         Noting(next), next.installing = scope[Here].installing,
         claims' \subseteq (0..Len(bodies)) \X Reducer,
         answers' \subseteq (0..Len(bodies)) \X Action
  PROVE  ScopesInv'
<1>1. Here' = Here /\ Here \in {"app", "page"} /\ (Here = "page" <=> phase = "running")
  BY DEF Here
<1>2. /\ scope \in [{"app", "page"} -> ScopeType] /\ next \in ScopeType
      /\ \A s \in {"app", "page"} : Noting(scope[s])
  BY DEF ScopesInv, Noting
<1>3. \A s \in {"app", "page"} : scope'[s] = IF s = Here THEN next ELSE scope[s]
  BY <1>1, <1>2
<1>4. scope' \in [{"app", "page"} -> ScopeType] /\ \A s \in {"app", "page"} : Noting(scope'[s])
  BY <1>1, <1>2, <1>3
<1>5. Len(scope'[Here].installing) = Len(stack)
  BY <1>1, <1>3 DEF ScopesInv
<1>6. /\ phase # "running" => scope'["page"] = EmptyScope
      /\ phase = "running" => scope'["app"].installing = <<>>
  BY <1>1, <1>3 DEF ScopesInv
<1>. QED
  BY <1>1, <1>4, <1>5, <1>6 DEF ScopesInv, Noting

LEMMA ClaimKeepsScopes ==
  ASSUME ScopesInv, Shape', NEW r \in Reducer, Claim(r)
  PROVE  ScopesInv'
<1> DEFINE next == NoteOwner(scope[Here], r)
<1>1. Body \in 0..Len(bodies) /\ Body \in Nat /\ Noting(scope[Here]) /\ DOMAIN scope = {"app", "page"}
  BY TheFloor
<1>2. Noting(next) /\ next.installing = scope[Here].installing
  BY <1>1, NoteOwnerKeeps
<1>3. /\ scope' = [scope EXCEPT ![Here] = next]
      /\ UNCHANGED <<phase, stack, bodies, answers>>
      /\ phase \in {"building", "ready", "running"}
      /\ claims' = claims \cup {<<Body, r>>}
  <2>1. Here \in DOMAIN scope
    BY <1>1 DEF Here
  <2>. QED
    BY <2>1 DEF Claim, Speaks
<1> HIDE DEF next
<1>4. /\ claims' \subseteq (0..Len(bodies)) \X Reducer
      /\ answers' \subseteq (0..Len(bodies)) \X Action
  BY <1>1, <1>3 DEF ScopesInv
<1>. QED
  BY <1>2, <1>3, <1>4, FloorKeepsScopes

LEMMA AnswerKeepsScopes ==
  ASSUME ScopesInv, Shape', NEW m \in Action, Answer(m)
  PROVE  ScopesInv'
<1> DEFINE sc == scope[Here]
           next == [sc EXCEPT !.answers = @ \cup {<<CurrentSection(sc), m>>}]
<1>1. Body \in 0..Len(bodies) /\ Noting(sc) /\ sc \in ScopeType /\ DOMAIN scope = {"app", "page"}
  BY TheFloor DEF Noting
<1>2. CurrentSection(sc) \in Nat
  BY <1>1, CurrentSectionType
<1>3. /\ scope' = [scope EXCEPT ![Here] = next]
      /\ UNCHANGED <<phase, stack, bodies, claims>>
      /\ phase \in {"building", "ready", "running"}
      /\ answers' = answers \cup {<<Body, m>>}
  <2>1. Here \in DOMAIN scope
    BY <1>1 DEF Here
  <2>. QED
    BY <2>1 DEF Answer, Speaks
<1>4. next \in ScopeType /\ next.installing = sc.installing /\ Noting(next)
  <2>1. sc.answers \cup {<<CurrentSection(sc), m>>} \in SUBSET (Nat \X Action)
    BY <1>1, <1>2 DEF ScopeType
  <2>. QED
    BY <1>1, <2>1 DEF ScopeType, Noting
<1>5. /\ claims' \subseteq (0..Len(bodies)) \X Reducer
      /\ answers' \subseteq (0..Len(bodies)) \X Action
  BY <1>1, <1>3 DEF ScopesInv
<1> HIDE DEF next
<1>. QED
  BY <1>3, <1>4, <1>5, FloorKeepsScopes

LEMMA ExportKeepsScopes ==
  ASSUME ScopesInv, Shape', NEW r \in Reducer, Export(r)
  PROVE  ScopesInv'
<1> DEFINE sc == scope[Here]
           next == [sc EXCEPT !.exports = @ \cup {r}]
<1>1. Noting(sc) /\ sc \in ScopeType /\ DOMAIN scope = {"app", "page"}
  BY TheFloor DEF Noting
<1>2. /\ scope' = [scope EXCEPT ![Here] = next]
      /\ UNCHANGED <<phase, stack, bodies, claims, answers>>
      /\ phase \in {"building", "ready", "running"}
  BY <1>1 DEF Export, Speaks, history
<1>3. next \in ScopeType /\ next.installing = sc.installing /\ Noting(next)
  BY <1>1 DEF ScopeType, Noting
<1>4. /\ claims' \subseteq (0..Len(bodies)) \X Reducer
      /\ answers' \subseteq (0..Len(bodies)) \X Action
  BY <1>2 DEF ScopesInv
<1> HIDE DEF next
<1>. QED
  BY <1>2, <1>3, <1>4, FloorKeepsScopes

\* Where a unit is installed is where its body speaks.
LEMMA InstalledWhereItSpeaks ==
  ASSUME Shape, NEW u \in Unit, Begin(u) \/ (stack # <<>> /\ u = bodies[Body])
  PROVE  Where(u) = Here /\ (u.kind = "segment" <=> phase = "running")
<1>1. u.kind = "segment" <=> phase = "running"
  <2>1. CASE Begin(u)
    BY <2>1, Kinds DEF Begin, Admit
  <2>2. CASE stack # <<>> /\ u = bodies[Body]
    BY <2>2, TheBody DEF Shape, KindOf
  <2>. QED
    BY <2>1, <2>2
<1>. QED
  BY <1>1 DEF Where, Here

\* A body begins in a section of its own; a page notes whose it is and what it
\* is to export.
LEMMA BeginOpensASection ==
  ASSUME ScopesInv, NEW u \in Unit, Begin(u)
  PROVE  /\ Here' = Here /\ Here \in {"app", "page"}
         /\ \A s \in {"app", "page"} : s # Here => scope'[s] = scope[s]
         /\ Noting(scope'[Here])
         /\ scope'[Here].owners = scope[Here].owners
         /\ scope'[Here].claimants = scope[Here].claimants
         /\ scope'[Here].answers = scope[Here].answers
         /\ scope'[Here].marked = IF u.kind = "segment" THEN scope[Here].marked \cup {u} ELSE scope[Here].marked
         /\ scope'[Here].exports = IF u.kind = "segment" THEN scope[Here].exports \cup Exports[u] ELSE scope[Here].exports
         /\ Len(scope'[Here].installing) = Len(stack) + 1
         /\ \A k \in 1..Len(stack) : scope'[Here].installing[k] = scope[Here].installing[k]
         /\ scope'[Here].installing[Len(stack) + 1] = scope[Here].sections + 1
         /\ scope'["app"] \in ScopeType /\ scope'["page"] \in ScopeType
         /\ scope' \in [{"app", "page"} -> ScopeType]
<1> DEFINE sc == scope[Here]
           told == Mark(sc, u)
           next == OpenSection(told)
<1>1. /\ Here \in {"app", "page"} /\ Noting(sc) /\ sc \in ScopeType
      /\ scope \in [{"app", "page"} -> ScopeType] /\ \A s \in {"app", "page"} : Noting(scope[s])
      /\ Len(sc.installing) = Len(stack)
  BY TheFloor DEF ScopesInv, Noting
<1>2. Where(u) = Here
  BY InstalledWhereItSpeaks DEF ScopesInv
<1>3. scope' = [scope EXCEPT ![Here] = next] /\ Here' = Here
  <2>1. scope' = [scope EXCEPT ![Where(u)] = OpenSection(Mark(@, u))]
    BY DEF Begin
  <2>2. Here' = Here
    BY DEF Begin, Here
  <2>. QED
    BY <1>1, <1>2, <2>1, <2>2
<1>4. /\ told \in ScopeType /\ Noting(told)
      /\ told.owners = sc.owners /\ told.claimants = sc.claimants /\ told.answers = sc.answers
      /\ told.installing = sc.installing /\ told.sections = sc.sections
      /\ told.marked = IF u.kind = "segment" THEN sc.marked \cup {u} ELSE sc.marked
      /\ told.exports = IF u.kind = "segment" THEN sc.exports \cup Exports[u] ELSE sc.exports
  <2>1. CASE u.kind = "segment"
    <3>1. u \in Segments /\ Exports[u] \subseteq Reducer
      BY <2>1, Kinds
    <3>. QED
      BY <1>1, <2>1, <3>1 DEF Mark, ScopeType, Noting
  <2>2. CASE u.kind # "segment"
    BY <1>1, <2>2 DEF Mark
  <2>. QED
    BY <2>1, <2>2
<1> HIDE DEF told
<1>5. /\ Noting(next)
      /\ Len(next.installing) = Len(told.installing) + 1
      /\ \A k \in 1..Len(told.installing) : next.installing[k] = told.installing[k]
      /\ next.installing[Len(told.installing) + 1] = told.sections + 1
      /\ next.owners = told.owners /\ next.claimants = told.claimants
      /\ next.marked = told.marked /\ next.answers = told.answers /\ next.exports = told.exports
  BY <1>4, OpenSectionKeeps
<1> HIDE DEF next
<1>6. \A s \in {"app", "page"} : scope'[s] = IF s = Here THEN next ELSE scope[s]
  BY <1>1, <1>3
<1>7. scope' \in [{"app", "page"} -> ScopeType]
  <2>1. next \in ScopeType
    BY <1>5 DEF Noting
  <2>. QED
    BY <1>1, <1>3, <2>1
<1>8. scope'[Here] = next
  BY <1>1, <1>6
<1>. QED
  BY <1>1, <1>3, <1>4, <1>5, <1>6, <1>7, <1>8

\* The section of a body is closed when the body ends, however it ends.
LEMMA FinishClosesItsSection ==
  ASSUME ScopesInv, NEW ok \in BOOLEAN, Finish(ok)
  PROVE  /\ Here' = Here /\ Here \in {"app", "page"}
         /\ \A s \in {"app", "page"} : s # Here => scope'[s] = scope[s]
         /\ Noting(scope'[Here])
         /\ scope'[Here].owners = scope[Here].owners
         /\ scope'[Here].claimants = scope[Here].claimants
         /\ scope'[Here].answers = scope[Here].answers
         /\ scope'[Here].marked = scope[Here].marked
         /\ scope'[Here].exports = scope[Here].exports
         /\ Len(scope'[Here].installing) = Len(stack) - 1
         /\ \A k \in 1..(Len(stack) - 1) : scope'[Here].installing[k] = scope[Here].installing[k]
         /\ scope' \in [{"app", "page"} -> ScopeType]
<1> DEFINE sc == scope[Here]
           next == CloseSection(sc, ok)
<1>1. /\ Here \in {"app", "page"} /\ Noting(sc) /\ sc \in ScopeType
      /\ scope \in [{"app", "page"} -> ScopeType] /\ \A s \in {"app", "page"} : Noting(scope[s])
      /\ Len(sc.installing) = Len(stack)
  BY TheFloor DEF ScopesInv, Noting
<1>2. stack # <<>> /\ bodies[Body] \in Unit /\ Len(stack) \in Nat \ {0}
  BY TheBody DEF Finish, ScopesInv
<1>3. Where(bodies[Body]) = Here
  BY <1>2, InstalledWhereItSpeaks DEF ScopesInv
<1>4. scope' = [scope EXCEPT ![Here] = next] /\ Here' = Here
  <2>1. scope' = [scope EXCEPT ![Where(bodies[Body])] = CloseSection(@, ok)] /\ phase' = phase
    BY DEF Finish
  <2>. QED
    BY <1>1, <1>3, <2>1 DEF Here
<1>5. sc.installing # <<>>
  BY <1>1, <1>2, EmptySeq
<1>6. /\ Noting(next)
      /\ Len(next.installing) = Len(sc.installing) - 1
      /\ \A k \in 1..(Len(sc.installing) - 1) : next.installing[k] = sc.installing[k]
      /\ next.owners = sc.owners /\ next.claimants = sc.claimants
      /\ next.marked = sc.marked /\ next.answers = sc.answers /\ next.exports = sc.exports
  BY <1>1, <1>5, CloseSectionKeeps
<1> HIDE DEF next
<1>7. \A s \in {"app", "page"} : scope'[s] = IF s = Here THEN next ELSE scope[s]
  BY <1>1, <1>4
<1>8. scope' \in [{"app", "page"} -> ScopeType]
  <2>1. next \in ScopeType
    BY <1>6 DEF Noting
  <2>. QED
    BY <1>1, <1>4, <2>1
<1>9. scope'[Here] = next
  BY <1>1, <1>7
<1>. QED
  BY <1>1, <1>4, <1>6, <1>7, <1>8, <1>9

LEMMA BeginKeepsScopes ==
  ASSUME ScopesInv, Shape', NEW u \in Unit, Begin(u)
  PROVE  ScopesInv'
<1>1. /\ Here' = Here /\ Here \in {"app", "page"}
      /\ \A s \in {"app", "page"} : s # Here => scope'[s] = scope[s]
      /\ Noting(scope'[Here])
      /\ Len(scope'[Here].installing) = Len(stack) + 1
      /\ scope' \in [{"app", "page"} -> ScopeType]
  BY BeginOpensASection
<1>2. /\ Len(bodies) \in Nat /\ Len(bodies') = Len(bodies) + 1
      /\ Len(stack) \in Nat /\ stack' \in Seq(Nat) /\ DOMAIN stack' = 1..(Len(stack) + 1)
  BY ABodyBegins DEF ScopesInv
<1>3. Len(stack') = Len(stack) + 1
  BY <1>2, LenProperties
<1>4. /\ claims' \subseteq (0..Len(bodies')) \X Reducer
      /\ answers' \subseteq (0..Len(bodies')) \X Action
  <2>1. claims' = claims /\ answers' = answers
    BY DEF Begin, history
  <2>2. 0..Len(bodies) \subseteq 0..Len(bodies')
    BY <1>2
  <2>. QED
    BY <2>1, <2>2 DEF ScopesInv
<1>5. phase' = phase /\ (Here = "page" <=> phase = "running")
  BY DEF Begin, Here
<1>6. /\ phase # "running" => scope'["page"] = EmptyScope
      /\ phase = "running" => scope'["app"].installing = <<>>
  BY <1>1, <1>5 DEF ScopesInv
<1>7. \A s \in {"app", "page"} : Noting(scope'[s])
  BY <1>1 DEF ScopesInv, Noting
<1>. QED
  BY <1>1, <1>3, <1>4, <1>5, <1>6, <1>7 DEF ScopesInv, Noting

LEMMA FinishKeepsScopes ==
  ASSUME ScopesInv, Shape', NEW ok \in BOOLEAN, Finish(ok)
  PROVE  ScopesInv'
<1>1. /\ Here' = Here /\ Here \in {"app", "page"}
      /\ \A s \in {"app", "page"} : s # Here => scope'[s] = scope[s]
      /\ Noting(scope'[Here])
      /\ Len(scope'[Here].installing) = Len(stack) - 1
      /\ scope' \in [{"app", "page"} -> ScopeType]
  BY FinishClosesItsSection
<1>2. Len(stack') = Len(stack) - 1
  BY FrontLast DEF ScopesInv, Shape, Finish
<1>3. UNCHANGED <<phase, bodies, claims, answers>> /\ (Here = "page" <=> phase = "running")
  BY DEF Finish, Here, history
<1>4. /\ phase # "running" => scope'["page"] = EmptyScope
      /\ phase = "running" => scope'["app"].installing = <<>>
  BY <1>1, <1>3 DEF ScopesInv
<1>5. \A s \in {"app", "page"} : Noting(scope'[s])
  BY <1>1 DEF ScopesInv, Noting
<1>. QED
  BY <1>1, <1>2, <1>3, <1>4, <1>5 DEF ScopesInv, Noting

\* A scope that is emptied, and an application that goes on.
LEMMA EmptiedScopes ==
  ASSUME ScopesInv, Shape', stack = <<>>, UNCHANGED <<stack, bodies>>,
         claims' \subseteq claims, answers' \subseteq answers,
         \/ phase' = phase /\ phase = "running" /\ scope' = [scope EXCEPT !["page"] = EmptyScope]
         \/ phase \in {"building", "ready", "running"} /\ phase' \in {"ready", "running"} /\ phase # "running" /\ scope' = scope
         \/ phase' = "ending" /\ scope' = [s \in DOMAIN scope |-> EmptyScope]
         \/ phase = "ending" /\ phase' = "over" /\ scope' = scope
  PROVE  ScopesInv'
<1>1. /\ scope \in [{"app", "page"} -> ScopeType] /\ Len(scope[Here].installing) = 0
      /\ \A s \in {"app", "page"} : Noting(scope[s])
      /\ EmptyScope \in ScopeType /\ Noting(EmptyScope) /\ EmptyScope.installing = <<>> /\ Len(<<>>) = 0
      /\ phase # "running" => scope["page"] = EmptyScope
      /\ phase = "running" => scope["app"].installing = <<>>
  BY EmptyIsAScope, EmptySeq DEF ScopesInv, EmptyScope
<1>2. \A s \in {"app", "page"} : scope'[s] \in {scope[s], EmptyScope}
  BY <1>1
<1>3. /\ scope' \in [{"app", "page"} -> ScopeType]
      /\ \A s \in {"app", "page"} : Noting(scope'[s])
  <2>1. DOMAIN scope' = {"app", "page"} /\ scope' = [s \in {"app", "page"} |-> scope'[s]]
    BY <1>1
  <2>2. \A s \in {"app", "page"} : scope'[s] \in ScopeType /\ Noting(scope'[s])
    BY <1>1, <1>2
  <2>. QED
    BY <2>1, <2>2
<1>4. scope["app"].installing = <<>>
  <2>1. CASE phase = "running"
    BY <1>1, <2>1
  <2>2. CASE phase # "running"
    <3>1. Here = "app" /\ scope["app"].installing \in Seq(Nat)
      BY <1>1, <2>2 DEF Here, ScopeType
    <3>. QED
      BY <1>1, <3>1, EmptySeq
  <2>. QED
    BY <2>1, <2>2
<1>5. scope'["app"].installing = <<>>
  BY <1>1, <1>2, <1>4
<1>6. /\ Len(scope'[Here'].installing) = 0
      /\ phase' # "running" => scope'["page"] = EmptyScope
  BY <1>1, <1>5 DEF Here
<1>7. Len(stack') = 0
  BY <1>1
<1>8. /\ claims' \subseteq (0..Len(bodies)) \X Reducer
      /\ answers' \subseteq (0..Len(bodies)) \X Action
  BY DEF ScopesInv
<1>. QED
  BY <1>3, <1>5, <1>6, <1>7, <1>8 DEF ScopesInv, Noting

LEMMA ScopesInductive == PluginInv /\ ScopesInv /\ [Next]_vars => ScopesInv'
<1> SUFFICES ASSUME PluginInv, ScopesInv, [Next]_vars
             PROVE  ScopesInv'
  OBVIOUS
<1>1. Shape'
  BY PluginInductive DEF PluginInv
<1>2. ASSUME NEW r \in Reducer, Claim(r) \/ Export(r)
      PROVE  ScopesInv'
  BY <1>1, <1>2, ClaimKeepsScopes, ExportKeepsScopes
<1>3. ASSUME NEW m \in Action, Answer(m)
      PROVE  ScopesInv'
  BY <1>1, <1>3, AnswerKeepsScopes
<1>4. ASSUME UNCHANGED <<phase, stack, bodies, scope, claims, answers>>
      PROVE  ScopesInv'
  BY <1>1, <1>4 DEF ScopesInv, Here, Noting
<1>5. CASE OnCleanup
  BY <1>4, <1>5 DEF OnCleanup
<1>6. ASSUME NEW u \in Unit, Begin(u)
      PROVE  ScopesInv'
  BY <1>1, <1>6, BeginKeepsScopes
<1>7. ASSUME NEW ok \in BOOLEAN, Finish(ok)
      PROVE  ScopesInv'
  BY <1>1, <1>7, FinishKeepsScopes
<1>8. CASE Installed
  BY <1>1, <1>8, EmptiedScopes DEF Installed, history
<1>9. CASE Run
  BY <1>1, <1>9, EmptiedScopes DEF Run, history
<1>10. CASE LeavePage
  BY <1>1, <1>10, EmptiedScopes DEF LeavePage
<1>11. CASE TearDown
  BY <1>1, <1>11, EmptiedScopes DEF TearDown, history
<1>12. CASE Clean
  BY <1>4, <1>12 DEF Clean, history
<1>13. CASE End
  <2>1. stack = <<>>
    BY <1>13 DEF ScopesInv, Shape, End
  <2>. QED
    BY <1>1, <1>13, <2>1, EmptiedScopes DEF End, history
<1>14. CASE UNCHANGED vars
  BY <1>4, <1>14 DEF vars, history
<1>15. ASSUME NEW u \in Plugins, Collide(u)
       PROVE  ScopesInv'
  BY <1>4, <1>15 DEF Collide, history
<1>. QED
  BY <1>2, <1>3, <1>5, <1>6, <1>7, <1>8, <1>9, <1>10, <1>11, <1>12, <1>13, <1>14, <1>15 DEF Next

LEMMA ScopesInit == Init => ScopesInv
<1> SUFFICES ASSUME Init
             PROVE  ScopesInv
  OBVIOUS
<1>1. Shape /\ Here = "app"
  BY PluginInit DEF PluginInv, Init, Here
<1>2. EmptyScope \in ScopeType /\ Noting(EmptyScope) /\ EmptyScope.installing = <<>> /\ Len(<<>>) = 0
  BY EmptyIsAScope, EmptySeq DEF EmptyScope
<1>. QED
  BY <1>1, <1>2 DEF Init, ScopesInv

\* A claim: the first is noted with its section, and another notes nothing.
LEMMA ClaimNotes ==
  ASSUME ScopesInv, NEW r \in Reducer, Claim(r)
  PROVE  /\ Here \in {"app", "page"}
         /\ \A s \in {"app", "page"} : s # Here => scope'[s] = scope[s]
         /\ scope'[Here].exports = scope[Here].exports
         /\ scope'[Here].answers = scope[Here].answers
         /\ scope'[Here].marked = scope[Here].marked
         /\ scope'[Here].installing = scope[Here].installing
         /\ DOMAIN scope'[Here].owners = DOMAIN scope[Here].owners \cup {r}
         /\ \A q \in DOMAIN scope[Here].owners :
              /\ scope'[Here].owners[q] = scope[Here].owners[q]
              /\ scope'[Here].claimants[q] = scope[Here].claimants[q]
         /\ r \notin DOMAIN scope[Here].owners =>
              /\ scope'[Here].owners[r] = CurrentSection(scope[Here])
              /\ scope'[Here].claimants[r] = Body
<1> DEFINE next == NoteOwner(scope[Here], r)
<1>1. Body \in Nat /\ Noting(scope[Here]) /\ DOMAIN scope = {"app", "page"} /\ Here \in {"app", "page"}
  BY TheFloor
<1>2. /\ DOMAIN next.owners = DOMAIN scope[Here].owners \cup {r}
      /\ \A q \in DOMAIN scope[Here].owners :
           next.owners[q] = scope[Here].owners[q] /\ next.claimants[q] = scope[Here].claimants[q]
      /\ r \notin DOMAIN scope[Here].owners =>
           next.owners[r] = CurrentSection(scope[Here]) /\ next.claimants[r] = Body
      /\ next.installing = scope[Here].installing /\ next.marked = scope[Here].marked
      /\ next.answers = scope[Here].answers /\ next.exports = scope[Here].exports
  BY <1>1, NoteOwnerKeeps
<1>3. scope' = [scope EXCEPT ![Here] = next]
  BY <1>1 DEF Claim
<1> HIDE DEF next
<1>4. scope'[Here] = next /\ \A s \in {"app", "page"} : s # Here => scope'[s] = scope[s]
  BY <1>1, <1>3
<1>. QED
  BY <1>1, <1>2, <1>4

\* What an application exports somebody claimed; what a page exports somebody
\* claimed, unless the body that is to claim it has not ended yet.
ExportsInv ==
  /\ scope["app"].exports \subseteq DOMAIN scope["app"].owners
  /\ phase = "running" /\ ~failing =>
       \A r \in scope["page"].exports :
         r \in DOMAIN scope["page"].owners \/ \E k \in DOMAIN stack : r \in Exports[bodies[stack[k]]]

LEMMA BeginKeepsExports ==
  ASSUME ScopesInv, ExportsInv, NEW u \in Unit, Begin(u)
  PROVE  ExportsInv'
<1>1. /\ Here \in {"app", "page"}
      /\ \A s \in {"app", "page"} : s # Here => scope'[s] = scope[s]
      /\ scope'[Here].owners = scope[Here].owners
      /\ scope'[Here].exports = IF u.kind = "segment" THEN scope[Here].exports \cup Exports[u] ELSE scope[Here].exports
  BY BeginOpensASection
<1>2. /\ bodies'[Len(bodies) + 1] = u
      /\ \A n \in 1..Len(bodies) : bodies'[n] = bodies[n]
      /\ Len(stack) \in Nat /\ DOMAIN stack = 1..Len(stack) /\ DOMAIN stack' = 1..(Len(stack) + 1)
      /\ stack'[Len(stack) + 1] = Len(bodies) + 1
      /\ \A k \in 1..Len(stack) : stack'[k] = stack[k]
  BY ABodyBegins DEF ScopesInv
<1>3. /\ phase' = phase /\ ~failing /\ ~failing'
      /\ u.kind = "segment" <=> Here = "page"
      /\ Here = "page" <=> phase = "running"
  BY InstalledWhereItSpeaks DEF Begin, Here, ScopesInv
<1>4. scope'["app"].exports \subseteq DOMAIN scope'["app"].owners
  BY <1>1, <1>3 DEF ExportsInv
<1>5. ASSUME phase = "running", NEW r \in scope'["page"].exports
      PROVE  r \in DOMAIN scope'["page"].owners \/ \E k \in DOMAIN stack' : r \in Exports[bodies'[stack'[k]]]
  <2>1. CASE r \in Exports[u]
    <3>1. Len(stack) + 1 \in DOMAIN stack' /\ bodies'[stack'[Len(stack) + 1]] = u
      BY <1>2
    <3>. QED
      BY <2>1, <3>1
  <2>2. CASE r \in scope["page"].exports /\ r \in DOMAIN scope["page"].owners
    BY <1>1, <1>3, <1>5, <2>2
  <2>3. CASE r \in scope["page"].exports /\ r \notin DOMAIN scope["page"].owners
    <3>1. PICK k \in DOMAIN stack : r \in Exports[bodies[stack[k]]]
      BY <1>3, <1>5, <2>3 DEF ExportsInv
    <3>2. stack[k] \in 1..Len(bodies)
      BY DEF ScopesInv, Shape
    <3>3. k \in DOMAIN stack' /\ bodies'[stack'[k]] = bodies[stack[k]]
      BY <1>2, <3>2
    <3>. QED
      BY <3>1, <3>3
  <2>. QED
    BY <1>1, <1>3, <1>5, <2>1, <2>2, <2>3
<1>. QED
  BY <1>3, <1>4, <1>5 DEF ExportsInv

LEMMA FinishKeepsExports ==
  ASSUME ~Swallow, ScopesInv, ExportsInv, NEW ok \in BOOLEAN, Finish(ok)
  PROVE  ExportsInv'
<1>1. /\ Here \in {"app", "page"}
      /\ \A s \in {"app", "page"} : s # Here => scope'[s] = scope[s]
      /\ scope'[Here].owners = scope[Here].owners
      /\ scope'[Here].exports = scope[Here].exports
  BY FinishClosesItsSection
<1>2. /\ stack # <<>> /\ bodies[Body] \in Unit
      /\ Len(stack) \in Nat \ {0} /\ DOMAIN stack = 1..Len(stack)
      /\ DOMAIN Front(stack) = 1..(Len(stack) - 1)
      /\ Body = stack[Len(stack)]
      /\ \A k \in 1..(Len(stack) - 1) : Front(stack)[k] = stack[k]
  BY TheBody DEF Finish, ScopesInv
<1>3. /\ phase' = phase /\ bodies' = bodies /\ stack' = Front(stack)
      /\ failing => ~ok
      /\ ok => Unclaimed(bodies[Body]) = {}
  BY DEF Finish
<1>4. scope'["app"].exports \subseteq DOMAIN scope'["app"].owners
  BY <1>1 DEF ExportsInv
<1>5. ASSUME phase = "running", ~failing'
      PROVE  ok /\ ~failing /\ Exports[bodies[Body]] \subseteq DOMAIN scope["page"].owners
  <2>1. bodies[Body].kind = "segment"
    BY <1>2, <1>5, InstalledWhereItSpeaks DEF ScopesInv
  <2>2. ok
    BY <1>5, <2>1 DEF Finish
  <2>. QED
    BY <1>3, <2>1, <2>2 DEF Unclaimed
<1>6. ASSUME phase = "running", ~failing', NEW r \in scope'["page"].exports
      PROVE  r \in DOMAIN scope'["page"].owners \/ \E k \in DOMAIN stack' : r \in Exports[bodies'[stack'[k]]]
  <2>1. r \in scope["page"].exports /\ scope'["page"].owners = scope["page"].owners
    BY <1>1, <1>6
  <2>2. CASE r \in DOMAIN scope["page"].owners
    BY <2>1, <2>2
  <2>3. CASE r \notin DOMAIN scope["page"].owners
    <3>1. PICK k \in DOMAIN stack : r \in Exports[bodies[stack[k]]]
      BY <1>5, <1>6, <2>1, <2>3 DEF ExportsInv
    <3>2. k # Len(stack)
      BY <1>2, <1>5, <1>6, <2>3, <3>1
    <3>3. k \in DOMAIN stack' /\ stack'[k] = stack[k]
      BY <1>2, <1>3, <3>2
    <3>. QED
      BY <1>3, <3>1, <3>3
  <2>. QED
    BY <2>2, <2>3
<1>. QED
  BY <1>3, <1>4, <1>6 DEF ExportsInv

LEMMA ExportsInductive ==
  ASSUME ~Swallow, ScopesInv, ExportsInv, [Next]_vars
  PROVE  ExportsInv'
<1>0. DOMAIN scope = {"app", "page"} /\ EmptyScope.exports = {} /\ (phase # "running" => scope["page"].exports = {})
  BY TheFloor DEF EmptyScope, ScopesInv
<1>1. ASSUME NEW r \in Reducer, Claim(r)
      PROVE  ExportsInv'
  <2>1. UNCHANGED <<phase, failing, stack, bodies>>
    BY <1>1 DEF Claim
  <2>2. \A s \in {"app", "page"} :
          scope'[s].exports = scope[s].exports /\ DOMAIN scope[s].owners \subseteq DOMAIN scope'[s].owners
    BY <1>1, ClaimNotes
  <2>. QED
    BY <2>1, <2>2 DEF ExportsInv
<1>2. ASSUME NEW r \in Reducer, Export(r)
      PROVE  ExportsInv'
  <2>1. UNCHANGED <<phase, failing, stack, bodies>>
    BY <1>2 DEF Export
  <2>2. scope'["page"] = scope["page"]
    BY <1>0, <1>2 DEF Export
  <2>3. scope'["app"].exports = scope["app"].exports \cup {r} /\ scope'["app"].owners = scope["app"].owners
    <3>1. scope["app"] \in ScopeType
      BY TheFloor
    <3>. QED
      BY <1>0, <1>2, <3>1 DEF Export, ScopeType
  <2>4. r \in DOMAIN scope["app"].owners
    BY <1>2 DEF Export
  <2>. QED
    BY <2>1, <2>2, <2>3, <2>4 DEF ExportsInv
<1>3. ASSUME NEW m \in Action, Answer(m)
      PROVE  ExportsInv'
  <2>1. UNCHANGED <<phase, failing, stack, bodies>>
    BY <1>3 DEF Answer
  <2>2. Here \in {"app", "page"} /\ \A s \in {"app", "page"} : scope[s] \in ScopeType
    BY TheFloor
  <2>3. \A s \in {"app", "page"} : scope'[s].exports = scope[s].exports /\ scope'[s].owners = scope[s].owners
    <3>1. scope' = [scope EXCEPT ![Here].answers = @ \cup {<<CurrentSection(scope[Here]), m>>}]
      BY <1>3 DEF Answer
    <3>. QED
      BY <1>0, <2>2, <3>1 DEF ScopeType
  <2>. QED
    BY <2>1, <2>3 DEF ExportsInv
<1>4. ASSUME UNCHANGED <<phase, failing, stack, bodies, scope>>
      PROVE  ExportsInv'
  BY <1>4 DEF ExportsInv
<1>5. CASE OnCleanup
  BY <1>4, <1>5 DEF OnCleanup
<1>6. ASSUME NEW u \in Unit, Begin(u)
      PROVE  ExportsInv'
  BY <1>6, BeginKeepsExports
<1>7. ASSUME NEW ok \in BOOLEAN, Finish(ok)
      PROVE  ExportsInv'
  BY <1>7, FinishKeepsExports
<1>8. CASE Installed
  BY <1>8 DEF Installed, ExportsInv
<1>9. CASE Run
  BY <1>0, <1>9 DEF Run, ExportsInv
<1>10. CASE LeavePage
  <2>1. scope'["page"].exports = {} /\ scope'["app"] = scope["app"]
    BY <1>0, <1>10 DEF LeavePage
  <2>. QED
    BY <2>1 DEF ExportsInv
<1>11. CASE TearDown
  BY <1>0, <1>11 DEF TearDown, ExportsInv
<1>12. CASE Clean
  BY <1>4, <1>12 DEF Clean
<1>13. CASE End
  BY <1>13 DEF End, ExportsInv
<1>14. CASE UNCHANGED vars
  BY <1>4, <1>14 DEF vars
<1>15. ASSUME NEW u \in Plugins, Collide(u)
       PROVE  ExportsInv'
  BY <1>15 DEF Collide, ExportsInv
<1>. QED
  BY <1>1, <1>2, <1>3, <1>5, <1>6, <1>7, <1>8, <1>9, <1>10, <1>11, <1>12, <1>13, <1>14, <1>15 DEF Next

\* Where no page goes on after a feature of its failed, what can be read from
\* below was claimed by somebody.
THEOREM ExportsStayClaimed == ~Swallow => (Spec => []ExportsAreClaimed)
<1>. SUFFICES ASSUME ~Swallow
              PROVE  Spec => []ExportsAreClaimed
  OBVIOUS
<1>1. Init => PluginInv /\ ScopesInv /\ ExportsInv
  <2>1. Init => ExportsInv
    BY DEF Init, ExportsInv, EmptyScope
  <2>. QED
    BY <2>1, PluginInit, ScopesInit
<1>2. PluginInv /\ ScopesInv /\ ExportsInv /\ [Next]_vars => (PluginInv /\ ScopesInv /\ ExportsInv)'
  BY PluginInductive, ScopesInductive, ExportsInductive
<1>3. ScopesInv /\ ExportsInv => ExportsAreClaimed
  <2> SUFFICES ASSUME ScopesInv, ExportsInv, NEW s \in DOMAIN scope,
                      phase = "running", stack = <<>>, ~failing
               PROVE  scope[s].exports \subseteq DOMAIN scope[s].owners
    BY DEF ExportsAreClaimed
  <2>1. s \in {"app", "page"} /\ DOMAIN stack = {}
    BY TheFloor
  <2>. QED
    BY <2>1 DEF ExportsInv
<1>. QED
  BY <1>1, <1>2, <1>3, PTL DEF Spec

-----------------------------------------------------------------------------
(* Readers. *)

\* A claim is noted in the scope of the body that made it, under the section
\* that has what that body answers: its own, while it is under way.
ClaimsInv ==
  \A s \in {"app", "page"}, n \in Nat \ {0} : \A r \in DOMAIN scope[s].claimants :
    scope[s].claimants[r] = n =>
      /\ <<n, r>> \in claims /\ Where(bodies[n]) = s
      /\ \A m \in Action : <<n, m>> \in answers => <<scope[s].owners[r], m>> \in scope[s].answers
      /\ \A k \in DOMAIN stack : stack[k] = n => scope[s].owners[r] = scope[s].installing[k]

\* What a body under way answers, its section does.
AnswersInv ==
  \A k \in DOMAIN stack, m \in Action :
    <<stack[k], m>> \in answers => <<scope[Here].installing[k], m>> \in scope[Here].answers

\* A body of the page that is open, as far as it has to do with readers.
OnThePage(n) ==
  /\ n \in DOMAIN bodies /\ KindOf(n) = "segment"
  /\ (\E k \in DOMAIN stack : stack[k] = n) \/ (\E r \in Reducer : <<n, r>> \in claims)

Goes == phase \in {"building", "ready", "running"}

\* No unit of the application has two bodies, and none of a page within it.
OnceInv ==
  /\ features = {bodies[n] : n \in {m \in built : KindOf(m) = "feature"}}
  /\ \A i, j \in DOMAIN bodies : bodies[i] = bodies[j] /\ KindOf(i) # "segment" => i = j
  /\ Goes => \A i : OnThePage(i) => bodies[i] \in scope["page"].marked
  /\ Goes => \A i, j : OnThePage(i) /\ OnThePage(j) /\ bodies[i] = bodies[j] => i = j

\* The body that speaks has the section its claims and answers go to.
LEMMA TheSection ==
  ASSUME ScopesInv, stack # <<>>
  PROVE  /\ Len(stack) \in DOMAIN stack /\ stack[Len(stack)] = Body /\ Body \in DOMAIN bodies
         /\ CurrentSection(scope[Here]) = scope[Here].installing[Len(stack)]
         /\ \A k \in DOMAIN stack : stack[k] = Body => k = Len(stack)
         /\ Where(bodies[Body]) = Here
<1>1. /\ Len(stack) \in Nat \ {0} /\ DOMAIN stack = 1..Len(stack)
      /\ Body = stack[Len(stack)] /\ Body \in 1..Len(bodies) /\ bodies[Body] \in Unit
  BY TheBody DEF ScopesInv
<1>2. scope[Here] \in ScopeType /\ Len(scope[Here].installing) = Len(stack)
  BY TheFloor DEF ScopesInv
<1>3. scope[Here].installing # <<>>
  BY <1>1, <1>2, EmptySeq
<1>4. CurrentSection(scope[Here]) = scope[Here].installing[Len(stack)]
  BY <1>2, <1>3, CurrentSectionType
<1>5. Where(bodies[Body]) = Here
  BY <1>1, InstalledWhereItSpeaks DEF ScopesInv
<1>6. DOMAIN bodies = 1..Len(bodies)
  BY LenProperties DEF ScopesInv, Shape
<1>7. \A j, k \in DOMAIN stack : stack[j] = stack[k] => j = k
  BY DEF ScopesInv, Shape
<1>. QED
  BY <1>1, <1>4, <1>5, <1>6, <1>7

\* An answer goes under the section that is open.
LEMMA AnswerNotes ==
  ASSUME ScopesInv, NEW m \in Action, Answer(m)
  PROVE  /\ Here \in {"app", "page"} /\ Here' = Here
         /\ \A s \in {"app", "page"} :
              /\ s # Here => scope'[s] = scope[s]
              /\ scope'[s].owners = scope[s].owners /\ scope'[s].claimants = scope[s].claimants
              /\ scope'[s].installing = scope[s].installing /\ scope'[s].marked = scope[s].marked
         /\ scope'[Here].answers = scope[Here].answers \cup {<<CurrentSection(scope[Here]), m>>}
<1>1. /\ Here \in {"app", "page"} /\ DOMAIN scope = {"app", "page"}
      /\ \A s \in {"app", "page"} : scope[s] \in ScopeType
  BY TheFloor
<1>2. scope' = [scope EXCEPT ![Here].answers = @ \cup {<<CurrentSection(scope[Here]), m>>}] /\ phase' = phase
  BY DEF Answer
<1>. QED
  BY <1>1, <1>2 DEF ScopeType, Here

\* A body that is noted has begun.
LEMMA ClaimantsBegan ==
  ASSUME ScopesInv, ClaimsInv,
         NEW s \in {"app", "page"}, NEW n \in Nat \ {0}, NEW r \in DOMAIN scope[s].claimants,
         scope[s].claimants[r] = n
  PROVE  n \in 1..Len(bodies) /\ r \in Reducer /\ r \in DOMAIN scope[s].owners
<1>1. <<n, r>> \in claims
  BY DEF ClaimsInv
<1>2. Len(bodies) \in Nat
  BY TheFloor
<1>. QED
  BY <1>1, <1>2 DEF ScopesInv, Noting

LEMMA ClaimKeepsClaims ==
  ASSUME ScopesInv, ClaimsInv, AnswersInv, NEW r \in Reducer, Claim(r)
  PROVE  ClaimsInv' /\ AnswersInv'
<1>1. /\ UNCHANGED <<phase, stack, bodies, answers>> /\ claims' = claims \cup {<<Body, r>>}
      /\ Here' = Here
  BY DEF Claim, Here
<1>2. /\ Here \in {"app", "page"}
      /\ \A s \in {"app", "page"} : s # Here => scope'[s] = scope[s]
      /\ scope'[Here].answers = scope[Here].answers
      /\ scope'[Here].installing = scope[Here].installing
      /\ DOMAIN scope'[Here].owners = DOMAIN scope[Here].owners \cup {r}
      /\ \A q \in DOMAIN scope[Here].owners :
           /\ scope'[Here].owners[q] = scope[Here].owners[q]
           /\ scope'[Here].claimants[q] = scope[Here].claimants[q]
      /\ r \notin DOMAIN scope[Here].owners =>
           /\ scope'[Here].owners[r] = CurrentSection(scope[Here])
           /\ scope'[Here].claimants[r] = Body
  BY ClaimNotes
<1>3. AnswersInv'
  BY <1>1, <1>2 DEF AnswersInv
<1>4. /\ \A s \in {"app", "page"} : DOMAIN scope[s].claimants = DOMAIN scope[s].owners
      /\ DOMAIN scope'[Here].claimants = DOMAIN scope'[Here].owners
  <2>1. Body \in Nat /\ Noting(scope[Here]) /\ DOMAIN scope = {"app", "page"}
    BY TheFloor
  <2>2. Noting(NoteOwner(scope[Here], r))
    BY <2>1, NoteOwnerKeeps
  <2>3. scope'[Here] = NoteOwner(scope[Here], r)
    BY <1>2, <2>1 DEF Claim
  <2>. QED
    BY <2>2, <2>3 DEF ScopesInv, Noting
<1>5. SUFFICES ASSUME NEW s \in {"app", "page"}, NEW n \in Nat \ {0}, NEW q \in DOMAIN scope'[s].claimants,
                      scope'[s].claimants[q] = n
               PROVE  /\ <<n, q>> \in claims' /\ Where(bodies[n]) = s
                      /\ \A m \in Action : <<n, m>> \in answers => <<scope'[s].owners[q], m>> \in scope'[s].answers
                      /\ \A k \in DOMAIN stack : stack[k] = n => scope'[s].owners[q] = scope'[s].installing[k]
  BY <1>1, <1>3 DEF ClaimsInv, Where
<1>6. CASE s # Here \/ q \in DOMAIN scope[Here].owners
  <2>1. /\ q \in DOMAIN scope[s].claimants /\ scope[s].claimants[q] = n
        /\ scope'[s].owners[q] = scope[s].owners[q]
        /\ scope'[s].answers = scope[s].answers /\ scope'[s].installing = scope[s].installing
    BY <1>2, <1>4, <1>5, <1>6
  <2>. QED
    BY <1>1, <2>1 DEF ClaimsInv
<1>7. CASE s = Here /\ q \notin DOMAIN scope[Here].owners
  <2>1. /\ q = r /\ n = Body /\ scope'[s].owners[q] = CurrentSection(scope[Here])
        /\ scope'[s].answers = scope[Here].answers /\ scope'[s].installing = scope[Here].installing
    BY <1>2, <1>4, <1>5, <1>7
  <2>2. stack # <<>>
    BY <2>1 DEF Body
  <2>3. /\ Len(stack) \in DOMAIN stack /\ stack[Len(stack)] = Body
        /\ CurrentSection(scope[Here]) = scope[Here].installing[Len(stack)]
        /\ \A k \in DOMAIN stack : stack[k] = Body => k = Len(stack)
        /\ Where(bodies[Body]) = Here
    BY <2>2, TheSection
  <2>. QED
    BY <1>1, <1>7, <2>1, <2>3 DEF AnswersInv
<1>. QED
  BY <1>6, <1>7

LEMMA AnswerKeepsClaims ==
  ASSUME ScopesInv, ClaimsInv, AnswersInv, NEW a \in Action, Answer(a)
  PROVE  ClaimsInv' /\ AnswersInv'
<1>1. UNCHANGED <<phase, stack, bodies, claims>> /\ answers' = answers \cup {<<Body, a>>}
  BY DEF Answer
<1>2. /\ Here \in {"app", "page"} /\ Here' = Here
      /\ \A s \in {"app", "page"} :
           /\ s # Here => scope'[s] = scope[s]
           /\ scope'[s].owners = scope[s].owners /\ scope'[s].claimants = scope[s].claimants
           /\ scope'[s].installing = scope[s].installing
      /\ scope'[Here].answers = scope[Here].answers \cup {<<CurrentSection(scope[Here]), a>>}
  BY AnswerNotes
<1>3. ASSUME NEW n \in Nat \ {0}, n = Body
      PROVE  /\ Len(stack) \in DOMAIN stack /\ stack[Len(stack)] = Body
             /\ CurrentSection(scope[Here]) = scope[Here].installing[Len(stack)]
             /\ \A k \in DOMAIN stack : stack[k] = Body => k = Len(stack)
             /\ Where(bodies[Body]) = Here
  <2>1. stack # <<>>
    BY <1>3 DEF Body
  <2>. QED
    BY <2>1, TheSection
<1>4. AnswersInv'
  <2> SUFFICES ASSUME NEW k \in DOMAIN stack, NEW m \in Action, <<stack[k], m>> \in answers'
               PROVE  <<scope'[Here].installing[k], m>> \in scope'[Here].answers
    BY <1>1, <1>2 DEF AnswersInv
  <2>1. CASE <<stack[k], m>> \in answers
    BY <1>2, <2>1 DEF AnswersInv
  <2>2. CASE stack[k] = Body /\ m = a
    <3>1. stack # <<>>
      BY EmptySeq
    <3>2. k = Len(stack) /\ CurrentSection(scope[Here]) = scope[Here].installing[Len(stack)]
      BY <2>2, <3>1, TheSection
    <3>. QED
      BY <1>2, <2>2, <3>2
  <2>. QED
    BY <1>1, <2>1, <2>2
<1>5. SUFFICES ASSUME NEW s \in {"app", "page"}, NEW n \in Nat \ {0}, NEW q \in DOMAIN scope'[s].claimants,
                      scope'[s].claimants[q] = n
               PROVE  /\ <<n, q>> \in claims /\ Where(bodies[n]) = s
                      /\ \A m \in Action : <<n, m>> \in answers' => <<scope[s].owners[q], m>> \in scope'[s].answers
                      /\ \A k \in DOMAIN stack : stack[k] = n => scope[s].owners[q] = scope[s].installing[k]
  <2>1. ASSUME NEW s \in {"app", "page"}
        PROVE  scope'[s].owners = scope[s].owners /\ scope'[s].installing = scope[s].installing
    BY <1>2
  <2>. QED
    BY <1>1, <1>4, <2>1 DEF ClaimsInv, Where
<1>6. /\ <<n, q>> \in claims /\ Where(bodies[n]) = s
      /\ \A m \in Action : <<n, m>> \in answers => <<scope[s].owners[q], m>> \in scope[s].answers
      /\ \A k \in DOMAIN stack : stack[k] = n => scope[s].owners[q] = scope[s].installing[k]
  BY <1>2, <1>5 DEF ClaimsInv
<1>7. ASSUME NEW m \in Action, <<n, m>> \in answers'
      PROVE  <<scope[s].owners[q], m>> \in scope'[s].answers
  <2>1. CASE <<n, m>> \in answers
    <3>1. scope[s].answers \subseteq scope'[s].answers
      BY <1>2
    <3>. QED
      BY <1>6, <2>1, <3>1
  <2>2. CASE n = Body /\ m = a
    BY <1>2, <1>3, <1>6, <2>2
  <2>. QED
    BY <1>1, <1>7, <2>1, <2>2
<1>. QED
  BY <1>6, <1>7

LEMMA BeginKeepsClaims ==
  ASSUME ScopesInv, ClaimsInv, AnswersInv, NEW u \in Unit, Begin(u)
  PROVE  ClaimsInv' /\ AnswersInv'
<1> DEFINE new == Len(bodies) + 1
           top == Len(stack) + 1
<1>1. /\ Here' = Here /\ Here \in {"app", "page"}
      /\ \A s \in {"app", "page"} : s # Here => scope'[s] = scope[s]
      /\ scope'[Here].owners = scope[Here].owners
      /\ scope'[Here].claimants = scope[Here].claimants
      /\ scope'[Here].answers = scope[Here].answers
      /\ \A k \in 1..Len(stack) : scope'[Here].installing[k] = scope[Here].installing[k]
  BY BeginOpensASection
<1>2. /\ Len(bodies) \in Nat /\ \A n \in 1..Len(bodies) : bodies'[n] = bodies[n]
      /\ Len(stack) \in Nat /\ DOMAIN stack = 1..Len(stack) /\ DOMAIN stack' = 1..top
      /\ stack'[top] = new /\ \A k \in 1..Len(stack) : stack'[k] = stack[k]
  BY ABodyBegins DEF ScopesInv
<1>3. claims' = claims /\ answers' = answers
  BY DEF Begin, history
<1>4. \A m : <<new, m>> \notin answers
  BY <1>2 DEF ScopesInv
<1>5. ASSUME NEW s \in {"app", "page"}
      PROVE  /\ scope'[s].owners = scope[s].owners /\ scope'[s].claimants = scope[s].claimants
             /\ scope'[s].answers = scope[s].answers
             /\ \A k \in 1..Len(stack) : scope'[s].installing[k] = scope[s].installing[k]
  BY <1>1
<1> HIDE DEF new, top
<1>6. AnswersInv'
  <2> SUFFICES ASSUME NEW k \in 1..top, NEW m \in Action, <<stack'[k], m>> \in answers
               PROVE  <<scope'[Here].installing[k], m>> \in scope[Here].answers
    BY <1>1, <1>2, <1>3 DEF AnswersInv
  <2>1. k # top
    BY <1>2, <1>4
  <2>2. k \in 1..Len(stack)
    BY <1>2, <2>1 DEF top
  <2>. QED
    BY <1>1, <1>2, <2>2 DEF AnswersInv
<1>7. SUFFICES ASSUME NEW s \in {"app", "page"}, NEW n \in Nat \ {0}, NEW r \in DOMAIN scope'[s].claimants,
                      scope'[s].claimants[r] = n
               PROVE  /\ <<n, r>> \in claims /\ Where(bodies'[n]) = s
                      /\ \A m \in Action : <<n, m>> \in answers => <<scope'[s].owners[r], m>> \in scope'[s].answers
                      /\ \A k \in 1..top : stack'[k] = n => scope'[s].owners[r] = scope'[s].installing[k]
  BY <1>2, <1>3, <1>6 DEF ClaimsInv, Where
<1>8. r \in DOMAIN scope[s].claimants /\ scope[s].claimants[r] = n
  BY <1>5, <1>7
<1>9. /\ <<n, r>> \in claims /\ Where(bodies[n]) = s
      /\ \A m \in Action : <<n, m>> \in answers => <<scope[s].owners[r], m>> \in scope[s].answers
      /\ \A k \in DOMAIN stack : stack[k] = n => scope[s].owners[r] = scope[s].installing[k]
  BY <1>8 DEF ClaimsInv
<1>10. n \in 1..Len(bodies)
  BY <1>8, ClaimantsBegan
<1>11. ASSUME NEW k \in 1..top, stack'[k] = n
       PROVE  scope'[s].owners[r] = scope'[s].installing[k]
  <2>1. k # top
    BY <1>2, <1>10, <1>11 DEF new
  <2>2. k \in 1..Len(stack)
    BY <1>2, <2>1 DEF top
  <2>. QED
    BY <1>2, <1>5, <1>9, <1>11, <2>2
<1>. QED
  BY <1>2, <1>5, <1>9, <1>10, <1>11

LEMMA FinishKeepsClaims ==
  ASSUME ScopesInv, ClaimsInv, AnswersInv, NEW ok \in BOOLEAN, Finish(ok)
  PROVE  ClaimsInv' /\ AnswersInv'
<1> DEFINE low == Len(stack) - 1
<1>1. /\ Here' = Here /\ Here \in {"app", "page"}
      /\ \A s \in {"app", "page"} : s # Here => scope'[s] = scope[s]
      /\ scope'[Here].owners = scope[Here].owners
      /\ scope'[Here].claimants = scope[Here].claimants
      /\ scope'[Here].answers = scope[Here].answers
      /\ \A k \in 1..low : scope'[Here].installing[k] = scope[Here].installing[k]
  BY FinishClosesItsSection
<1>2. UNCHANGED <<bodies, claims, answers>> /\ stack' = Front(stack) /\ stack # <<>>
  BY DEF Finish, history
<1>3. /\ Len(stack) \in Nat \ {0} /\ DOMAIN stack = 1..Len(stack)
      /\ DOMAIN stack' = 1..low /\ \A k \in 1..low : stack'[k] = stack[k] /\ k \in DOMAIN stack
  BY <1>2, TheBody DEF ScopesInv
<1>4. ASSUME NEW s \in {"app", "page"}
      PROVE  /\ scope'[s].owners = scope[s].owners /\ scope'[s].claimants = scope[s].claimants
             /\ scope'[s].answers = scope[s].answers
             /\ \A k \in 1..low : scope'[s].installing[k] = scope[s].installing[k]
  BY <1>1
<1> HIDE DEF low
<1>5. AnswersInv'
  BY <1>1, <1>2, <1>3 DEF AnswersInv
<1>6. SUFFICES ASSUME NEW s \in {"app", "page"}, NEW n \in Nat \ {0}, NEW r \in DOMAIN scope'[s].claimants,
                      scope'[s].claimants[r] = n
               PROVE  /\ <<n, r>> \in claims /\ Where(bodies[n]) = s
                      /\ \A m \in Action : <<n, m>> \in answers => <<scope'[s].owners[r], m>> \in scope'[s].answers
                      /\ \A k \in 1..low : stack'[k] = n => scope'[s].owners[r] = scope'[s].installing[k]
  BY <1>2, <1>3, <1>5 DEF ClaimsInv, Where
<1>7. r \in DOMAIN scope[s].claimants /\ scope[s].claimants[r] = n
  BY <1>4, <1>6
<1>8. /\ <<n, r>> \in claims /\ Where(bodies[n]) = s
      /\ \A m \in Action : <<n, m>> \in answers => <<scope[s].owners[r], m>> \in scope[s].answers
      /\ \A k \in DOMAIN stack : stack[k] = n => scope[s].owners[r] = scope[s].installing[k]
  BY <1>7 DEF ClaimsInv
<1>. QED
  BY <1>3, <1>4, <1>8

\* Nothing is under way, and a scope is as it was or emptied.
LEMMA EmptiedClaims ==
  ASSUME ClaimsInv, UNCHANGED <<stack, bodies>>, stack = <<>>, answers' \subseteq answers,
         \A s \in {"app", "page"} : scope'[s] \in {scope[s], EmptyScope},
         \/ claims' = claims
         \/ scope'["page"] = EmptyScope /\ claims' = {c \in claims : c[1] # 0 /\ bodies[c[1]].kind # "segment"}
  PROVE  ClaimsInv' /\ AnswersInv'
<1>1. DOMAIN stack = {} /\ DOMAIN EmptyScope.claimants = {}
  BY EmptySeq DEF EmptyScope
<1>2. AnswersInv'
  BY <1>1 DEF AnswersInv
<1>3. SUFFICES ASSUME NEW s \in {"app", "page"}, NEW n \in Nat \ {0}, NEW r \in DOMAIN scope'[s].claimants,
                      scope'[s].claimants[r] = n
               PROVE  /\ <<n, r>> \in claims' /\ Where(bodies[n]) = s
                      /\ \A m \in Action : <<n, m>> \in answers' => <<scope'[s].owners[r], m>> \in scope'[s].answers
  BY <1>1, <1>2 DEF ClaimsInv, Where
<1>4. scope'[s] = scope[s] /\ r \in DOMAIN scope[s].claimants /\ scope[s].claimants[r] = n
  BY <1>1, <1>3
<1>5. /\ <<n, r>> \in claims /\ Where(bodies[n]) = s
      /\ \A m \in Action : <<n, m>> \in answers => <<scope[s].owners[r], m>> \in scope[s].answers
  BY <1>4 DEF ClaimsInv
<1>6. <<n, r>> \in claims'
  <2>1. CASE claims' = claims
    BY <1>5, <2>1
  <2>2. CASE scope'["page"] = EmptyScope /\ claims' = {c \in claims : c[1] # 0 /\ bodies[c[1]].kind # "segment"}
    <3>1. s = "app"
      BY <1>1, <1>3, <2>2
    <3>2. bodies[n].kind # "segment" /\ <<n, r>>[1] = n
      BY <1>5, <3>1 DEF Where
    <3>. QED
      BY <1>5, <2>2, <3>2
  <2>. QED
    BY <2>1, <2>2
<1>. QED
  BY <1>4, <1>5, <1>6

LEMMA ClaimsInductive ==
  ASSUME ScopesInv, ClaimsInv, AnswersInv, [Next]_vars
  PROVE  ClaimsInv' /\ AnswersInv'
<1>1. ASSUME NEW r \in Reducer, Claim(r)
      PROVE  ClaimsInv' /\ AnswersInv'
  BY <1>1, ClaimKeepsClaims
<1>2. ASSUME UNCHANGED <<phase, stack, bodies, claims, answers>>,
             \A s \in {"app", "page"} :
               /\ scope'[s].owners = scope[s].owners /\ scope'[s].claimants = scope[s].claimants
               /\ scope'[s].answers = scope[s].answers /\ scope'[s].installing = scope[s].installing
      PROVE  ClaimsInv' /\ AnswersInv'
  <2>1. Here' = Here /\ Here \in {"app", "page"}
    BY <1>2 DEF Here
  <2>2. AnswersInv'
    BY <1>2, <2>1 DEF AnswersInv
  <2>3. SUFFICES ASSUME NEW s \in {"app", "page"}, NEW n \in Nat \ {0}, NEW r \in DOMAIN scope'[s].claimants,
                        scope'[s].claimants[r] = n
                 PROVE  /\ <<n, r>> \in claims /\ Where(bodies[n]) = s
                        /\ \A m \in Action : <<n, m>> \in answers => <<scope'[s].owners[r], m>> \in scope'[s].answers
                        /\ \A k \in DOMAIN stack : stack[k] = n => scope'[s].owners[r] = scope'[s].installing[k]
    BY <1>2, <2>2 DEF ClaimsInv, Where
  <2>. QED
    BY <1>2, <2>3 DEF ClaimsInv
<1>3. ASSUME NEW r \in Reducer, Export(r)
      PROVE  ClaimsInv' /\ AnswersInv'
  <2>1. UNCHANGED <<phase, stack, bodies, claims, answers>>
    BY <1>3 DEF Export, history
  <2>2. \A s \in {"app", "page"} : scope[s] \in ScopeType
    BY TheFloor
  <2>3. scope' = [scope EXCEPT !["app"].exports = @ \cup {r}]
    BY <1>3 DEF Export
  <2>4. \A s \in {"app", "page"} :
          /\ scope'[s].owners = scope[s].owners /\ scope'[s].claimants = scope[s].claimants
          /\ scope'[s].answers = scope[s].answers /\ scope'[s].installing = scope[s].installing
    BY <2>2, <2>3, TheFloor DEF ScopeType
  <2>. QED
    BY <1>2, <2>1, <2>4
<1>4. ASSUME NEW m \in Action, Answer(m)
      PROVE  ClaimsInv' /\ AnswersInv'
  BY <1>4, AnswerKeepsClaims
<1>5. CASE OnCleanup
  BY <1>2, <1>5 DEF OnCleanup
<1>6. ASSUME NEW u \in Unit, Begin(u)
      PROVE  ClaimsInv' /\ AnswersInv'
  BY <1>6, BeginKeepsClaims
<1>7. ASSUME NEW ok \in BOOLEAN, Finish(ok)
      PROVE  ClaimsInv' /\ AnswersInv'
  BY <1>7, FinishKeepsClaims
<1>8. DOMAIN scope = {"app", "page"}
  BY TheFloor
<1>9. CASE Installed
  BY <1>9, EmptiedClaims DEF Installed, history
<1>10. CASE Run
  BY <1>10, EmptiedClaims DEF Run, history
<1>11. CASE LeavePage
  <2>1. \A s \in {"app", "page"} : scope'[s] \in {scope[s], EmptyScope}
    BY <1>8, <1>11 DEF LeavePage
  <2>2. scope'["page"] = EmptyScope
    BY <1>8, <1>11 DEF LeavePage
  <2>. QED
    BY <1>11, <2>1, <2>2, EmptiedClaims DEF LeavePage
<1>12. CASE TearDown
  <2>1. \A s \in {"app", "page"} : scope'[s] \in {scope[s], EmptyScope}
    BY <1>8, <1>12 DEF TearDown
  <2>. QED
    BY <1>12, <2>1, EmptiedClaims DEF TearDown, history
<1>13. CASE Clean
  BY <1>2, <1>13 DEF Clean, history
<1>14. CASE End
  <2>1. stack = <<>>
    BY <1>14 DEF ScopesInv, Shape, End
  <2>. QED
    BY <1>14, <2>1, EmptiedClaims DEF End, history
<1>15. CASE UNCHANGED vars
  BY <1>2, <1>15 DEF vars, history
<1>16. ASSUME NEW u \in Plugins, Collide(u)
       PROVE  ClaimsInv' /\ AnswersInv'
  BY <1>2, <1>16 DEF Collide, history
<1>. QED
  BY <1>1, <1>3, <1>4, <1>5, <1>6, <1>7, <1>9, <1>10, <1>11, <1>12, <1>13, <1>14, <1>15, <1>16 DEF Next

\* No two bodies of one unit, step by step: what a page's bodies are grows
\* with a body only.
LEMMA OnceKept ==
  ASSUME OnceInv, UNCHANGED <<bodies, features, built>>, scope'["page"].marked = scope["page"].marked,
         Goes' => Goes, \A n : OnThePage(n)' => OnThePage(n)
  PROVE  OnceInv'
<1>1. /\ features' = {bodies'[n] : n \in {m \in built' : KindOf(m)' = "feature"}}
      /\ \A i, j \in DOMAIN bodies' : bodies'[i] = bodies'[j] /\ KindOf(i)' # "segment" => i = j
  BY DEF OnceInv, KindOf
<1>2. Goes' => \A i : OnThePage(i)' => bodies'[i] \in scope'["page"].marked
  BY DEF OnceInv
<1>3. Goes' => \A i, j : OnThePage(i)' /\ OnThePage(j)' /\ bodies'[i] = bodies'[j] => i = j
  BY DEF OnceInv
<1>. QED
  BY <1>1, <1>2, <1>3 DEF OnceInv

\* A unit of the application that has a body does not get another.
LEMMA BegunBefore ==
  ASSUME ~Retry, ~Nest, Shape, OneOfAnId, OnceInv, NEW u \in Unit, Begin(u), u.kind # "segment",
         NEW n \in 1..Len(bodies)
  PROVE  bodies[n] # u
<1> SUFFICES ASSUME bodies[n] = u
             PROVE  FALSE
  OBVIOUS
<1>1. u.kind \in {"plugin", "feature"}
  BY Kinds
<1>2. DOMAIN bodies = 1..Len(bodies)
  BY LenProperties DEF Shape
<1>3. CASE n \in built
  <2>1. CASE u.kind = "plugin"
    <3>1. u \in plugins
      BY <1>3, <2>1 DEF OneOfAnId, KindOf
    <3>. QED
      BY <2>1, <3>1 DEF Begin, Admit, AdmitPlugin
  <2>2. CASE u.kind = "feature"
    <3>1. u \in features
      BY <1>3, <2>2 DEF OnceInv, KindOf
    <3>. QED
      BY <2>2, <3>1 DEF Begin, Admit
  <2>. QED
    BY <1>1, <2>1, <2>2
<1>4. CASE n \notin built
  <2>1. n \in ToSet(stack) /\ u.kind = "plugin"
    BY <1>1, <1>2, <1>4 DEF Begin
  <2>2. \A k \in ToSet(stack) : bodies[k].kind = "plugin" => bodies[k].id # u.id
    BY <2>1 DEF Begin, Admit, AdmitPlugin
  <2>. QED
    BY <2>1, <2>2
<1>. QED
  BY <1>3, <1>4

LEMMA BeginKeepsOnce ==
  ASSUME ~Retry, ~Nest, ScopesInv, OneOfAnId, OnceInv, NEW u \in Unit, Begin(u)
  PROVE  OnceInv'
<1> DEFINE new == Len(bodies) + 1
           top == Len(stack) + 1
<1>1. /\ Len(bodies) \in Nat /\ bodies' \in Seq(Unit) /\ Len(bodies') = new /\ bodies'[new] = u
      /\ \A n \in 1..Len(bodies) : bodies'[n] = bodies[n]
      /\ Len(stack) \in Nat /\ DOMAIN stack = 1..Len(stack) /\ DOMAIN stack' = 1..top
      /\ stack'[top] = new /\ \A k \in 1..Len(stack) : stack'[k] = stack[k]
  BY ABodyBegins DEF ScopesInv
<1>2. DOMAIN bodies = 1..Len(bodies) /\ DOMAIN bodies' = 1..new
  BY <1>1, LenProperties DEF ScopesInv, Shape
<1>3. UNCHANGED <<phase, built, features, claims>> /\ Goes
  BY DEF Begin, history, Goes
<1>4. built \subseteq 1..Len(bodies) /\ claims \subseteq (0..Len(bodies)) \X Reducer
  BY DEF ScopesInv, Shape
<1>5. /\ u.kind # "segment" => scope'["page"].marked = scope["page"].marked
      /\ u.kind = "segment" => /\ scope'["page"].marked = scope["page"].marked \cup {u}
                              /\ u \notin scope["page"].marked
  <2>1. /\ Here \in {"app", "page"} /\ \A s \in {"app", "page"} : s # Here => scope'[s] = scope[s]
        /\ scope'[Here].marked = IF u.kind = "segment" THEN scope[Here].marked \cup {u} ELSE scope[Here].marked
    BY BeginOpensASection
  <2>2. u.kind = "segment" <=> phase = "running"
    BY InstalledWhereItSpeaks DEF ScopesInv
  <2>3. u.kind = "segment" => u \notin scope["page"].marked
    BY DEF Begin, Admit
  <2>. QED
    BY <2>1, <2>2, <2>3 DEF Here
<1> HIDE DEF new, top
<1>6. new \notin 1..Len(bodies) /\ 1..new = 1..Len(bodies) \cup {new} /\ 1..top = 1..Len(stack) \cup {top}
  BY <1>1 DEF new, top
<1>7. features' = {bodies'[n] : n \in {m \in built' : KindOf(m)' = "feature"}}
  BY <1>1, <1>3, <1>4 DEF OnceInv, KindOf
<1>8. ASSUME NEW i \in 1..new, NEW j \in 1..new, bodies'[i] = bodies'[j], bodies'[i].kind # "segment"
      PROVE  i = j
  <2>1. \A n \in 1..Len(bodies) : u.kind # "segment" => bodies[n] # u
    BY BegunBefore DEF ScopesInv
  <2>. QED
    BY <1>1, <1>2, <1>6, <1>8, <2>1 DEF OnceInv, KindOf
<1>9. ASSUME NEW n, OnThePage(n)'
      PROVE  \/ OnThePage(n) /\ n \in 1..Len(bodies)
             \/ n = new /\ u.kind = "segment"
  <2>1. n \in 1..new /\ bodies'[n].kind = "segment"
    BY <1>2, <1>9 DEF OnThePage, KindOf
  <2>2. (\E k \in 1..top : stack'[k] = n) \/ (\E r \in Reducer : <<n, r>> \in claims)
    BY <1>1, <1>3, <1>9 DEF OnThePage
  <2>3. CASE n = new
    BY <1>1, <2>1, <2>3
  <2>4. CASE n # new
    <3>1. n \in 1..Len(bodies)
      BY <1>6, <2>1, <2>4
    <3>2. (\E k \in 1..Len(stack) : stack[k] = n) \/ (\E r \in Reducer : <<n, r>> \in claims)
      BY <1>1, <1>6, <2>2, <2>4
    <3>. QED
      BY <1>1, <1>2, <2>1, <3>1, <3>2 DEF OnThePage, KindOf
  <2>. QED
    BY <2>3, <2>4
<1>10. ASSUME NEW i, OnThePage(i)'
       PROVE  bodies'[i] \in scope'["page"].marked
  BY <1>1, <1>3, <1>5, <1>9, <1>10 DEF OnceInv
<1>11. ASSUME NEW i, NEW j, OnThePage(i)', OnThePage(j)', bodies'[i] = bodies'[j]
       PROVE  i = j
  <2>1. ASSUME NEW n, OnThePage(n), n \in 1..Len(bodies), u.kind = "segment"
        PROVE  bodies'[n] # u
    BY <1>1, <1>3, <1>5, <2>1 DEF OnceInv
  <2>. QED
    BY <1>1, <1>3, <1>9, <1>11, <2>1 DEF OnceInv
<1>. QED
  BY <1>2, <1>7, <1>8, <1>10, <1>11 DEF OnceInv, KindOf

LEMMA FinishKeepsOnce ==
  ASSUME ScopesInv, OnceInv, NEW ok \in BOOLEAN, Finish(ok)
  PROVE  OnceInv'
<1> DEFINE u == bodies[Body]
<1>1. /\ UNCHANGED <<phase, bodies, claims>> /\ stack # <<>> /\ stack' = Front(stack)
      /\ built' = IF ok THEN built \cup {Body} ELSE built
      /\ features' = IF ok /\ u.kind = "feature" THEN features \cup {u} ELSE features
  BY DEF Finish, history
<1>2. features' = {bodies[n] : n \in {m \in built' : bodies[m].kind = "feature"}}
  BY <1>1 DEF OnceInv, KindOf
<1>3. \A s \in {"app", "page"} : scope'[s].marked = scope[s].marked
  BY FinishClosesItsSection
<1>4. DOMAIN stack' = 1..(Len(stack) - 1) /\ \A k \in DOMAIN stack' : k \in DOMAIN stack /\ stack'[k] = stack[k]
  BY <1>1, TheBody DEF ScopesInv
<1>5. ASSUME NEW n, OnThePage(n)'
      PROVE  OnThePage(n)
  BY <1>1, <1>4, <1>5 DEF OnThePage, KindOf
<1>6. \A i, j \in DOMAIN bodies' : bodies'[i] = bodies'[j] /\ KindOf(i)' # "segment" => i = j
  BY <1>1 DEF OnceInv, KindOf
<1>7. Goes' => Goes
  BY <1>1 DEF Goes
<1>8. Goes' => \A i : OnThePage(i)' => bodies'[i] \in scope'["page"].marked
  BY <1>1, <1>3, <1>5, <1>7 DEF OnceInv
<1>9. Goes' => \A i, j : OnThePage(i)' /\ OnThePage(j)' /\ bodies'[i] = bodies'[j] => i = j
  BY <1>1, <1>5, <1>7 DEF OnceInv
<1>. QED
  BY <1>1, <1>2, <1>6, <1>8, <1>9 DEF OnceInv, KindOf

LEMMA OnceInductive ==
  ASSUME ~Retry, ~Nest, PluginInv, ScopesInv, OnceInv, [Next]_vars
  PROVE  OnceInv'
<1>0. DOMAIN scope = {"app", "page"} /\ Here \in {"app", "page"} /\ \A s \in {"app", "page"} : scope[s] \in ScopeType
  BY TheFloor
<1>1. ASSUME NEW r \in Reducer, Claim(r)
      PROVE  OnceInv'
  <2>1. /\ UNCHANGED <<phase, stack, bodies, features, built>> /\ claims' = claims \cup {<<Body, r>>}
    BY <1>1 DEF Claim
  <2>2. scope'["page"].marked = scope["page"].marked
    BY <1>1, ClaimNotes
  <2>3. ASSUME NEW n, OnThePage(n)'
        PROVE  OnThePage(n)
    <3>1. CASE n = Body
      <4>1. DOMAIN bodies = 1..Len(bodies) /\ n # 0
        BY <2>1, <2>3, LenProperties DEF OnThePage, ScopesInv, Shape
      <4>2. stack # <<>>
        BY <3>1, <4>1 DEF Body
      <4>3. Len(stack) \in DOMAIN stack /\ stack[Len(stack)] = Body
        BY <4>2, TheSection
      <4>. QED
        BY <2>1, <2>3, <3>1, <4>3 DEF OnThePage, KindOf
    <3>2. CASE n # Body
      BY <2>1, <2>3, <3>2 DEF OnThePage, KindOf
    <3>. QED
      BY <3>1, <3>2
  <2>. QED
    BY <2>1, <2>2, <2>3, OnceKept DEF Goes
<1>2. ASSUME UNCHANGED <<stack, bodies, features, built, claims>>, Goes' => Goes,
             scope'["page"].marked = scope["page"].marked
      PROVE  OnceInv'
  BY <1>2, OnceKept DEF OnThePage, KindOf
<1>3. ASSUME NEW r \in Reducer, Export(r)
      PROVE  OnceInv'
  <2>1. scope' = [scope EXCEPT !["app"].exports = @ \cup {r}]
    BY <1>3 DEF Export
  <2>. QED
    BY <1>0, <1>2, <1>3, <2>1 DEF Export, history, Goes
<1>4. ASSUME NEW m \in Action, Answer(m)
      PROVE  OnceInv'
  BY <1>2, <1>4, AnswerNotes DEF Answer, Goes
<1>5. CASE OnCleanup
  BY <1>2, <1>5 DEF OnCleanup, Goes
<1>6. ASSUME NEW u \in Unit, Begin(u)
      PROVE  OnceInv'
  BY <1>6, BeginKeepsOnce DEF PluginInv
<1>7. ASSUME NEW ok \in BOOLEAN, Finish(ok)
      PROVE  OnceInv'
  BY <1>7, FinishKeepsOnce
<1>8. CASE Installed \/ Run
  BY <1>2, <1>8 DEF Installed, Run, history, Goes
<1>9. CASE LeavePage
  <2>1. /\ UNCHANGED <<phase, stack, bodies, features, built>> /\ DOMAIN stack = {}
        /\ claims' = {c \in claims : c[1] # 0 /\ bodies[c[1]].kind # "segment"}
    BY <1>9, EmptySeq DEF LeavePage
  <2>2. ASSUME NEW n, OnThePage(n)'
        PROVE  FALSE
    <3>1. PICK r \in Reducer : <<n, r>> \in claims'
      BY <2>1, <2>2 DEF OnThePage
    <3>2. bodies[n].kind # "segment"
      BY <2>1, <3>1
    <3>. QED
      BY <2>1, <2>2, <3>2 DEF OnThePage, KindOf
  <2>3. /\ features' = {bodies'[n] : n \in {m \in built' : KindOf(m)' = "feature"}}
        /\ \A i, j \in DOMAIN bodies' : bodies'[i] = bodies'[j] /\ KindOf(i)' # "segment" => i = j
    BY <2>1 DEF OnceInv, KindOf
  <2>. QED
    BY <2>2, <2>3 DEF OnceInv
<1>10. ASSUME ~Goes', UNCHANGED <<bodies, features, built>>
       PROVE  OnceInv'
  BY <1>10 DEF OnceInv, KindOf
<1>11. CASE TearDown \/ Clean \/ End
  BY <1>10, <1>11 DEF TearDown, Clean, End, Goes
<1>12. CASE UNCHANGED vars
  BY <1>2, <1>12 DEF vars, history, Goes
<1>13. ASSUME NEW u \in Plugins, Collide(u)
       PROVE  OnceInv'
  BY <1>2, <1>13 DEF Collide, history, Goes
<1>. QED
  BY <1>1, <1>3, <1>4, <1>5, <1>6, <1>7, <1>8, <1>9, <1>11, <1>12, <1>13 DEF Next

\* Who claimed a reducer and ended well is the one body of its unit, so that
\* what it answers is what a reader is answered.
LEMMA ReadersHaveTheirs ==
  ASSUME ScopesInv, ClaimsInv, OnceInv
  PROVE  ReadersAreAnswered
<1> SUFFICES ASSUME phase \in {"ready", "running"}, NEW n \in built, NEW r \in Reducer, NEW m \in Action,
                    <<n, r>> \in claims, <<n, m>> \in answers,
                    NEW s, s = Where(bodies[n]), r \in DOMAIN scope[s].claimants,
                    NEW c, c = scope[s].claimants[r], c # 0, bodies[c] = bodies[n]
             PROVE  <<scope[s].owners[r], m>> \in scope[s].answers
  BY DEF ReadersAreAnswered
<1>1. s \in {"app", "page"}
  BY DEF Where
<1>2. c \in Nat \ {0}
  <2>1. scope[s].claimants \in [DOMAIN scope[s].claimants -> Nat]
    BY <1>1, TheFloor DEF ScopeType, Noted
  <2>. QED
    BY <2>1
<1>3. /\ c \in 1..Len(bodies) /\ <<c, r>> \in claims
      /\ \A k \in Action : <<c, k>> \in answers => <<scope[s].owners[r], k>> \in scope[s].answers
  BY <1>1, <1>2, ClaimantsBegan DEF ClaimsInv
<1>4. n \in 1..Len(bodies) /\ DOMAIN bodies = 1..Len(bodies)
  BY LenProperties DEF ScopesInv, Shape
<1>5. n = c
  <2>1. CASE bodies[n].kind # "segment"
    BY <1>3, <1>4, <2>1 DEF OnceInv, KindOf
  <2>2. CASE bodies[n].kind = "segment"
    <3>1. OnThePage(n) /\ OnThePage(c)
      BY <1>3, <1>4, <2>2 DEF OnThePage, KindOf
    <3>2. Goes
      BY DEF Goes
    <3>. QED
      BY <3>1, <3>2 DEF OnceInv
  <2>. QED
    BY <2>1, <2>2
<1>6. <<c, m>> \in answers
  BY <1>5, Zenon
<1>. QED
  BY <1>3, <1>6

\* Where a unit that failed is not installed again, and none inside itself,
\* whoever reads a reducer is answered by what its claimant answers, whatever
\* failed or was installed in between.
THEOREM ReadersStayAnswered == ~Retry /\ ~Nest => (Spec => []ReadersAreAnswered)
<1>. SUFFICES ASSUME ~Retry, ~Nest
              PROVE  Spec => []ReadersAreAnswered
  OBVIOUS
<1> DEFINE ReadersInv == PluginInv /\ ScopesInv /\ ClaimsInv /\ AnswersInv /\ OnceInv
<1>1. Init => ReadersInv
  <2> SUFFICES ASSUME Init
               PROVE  ReadersInv
    OBVIOUS
  <2>1. PluginInv /\ ScopesInv
    BY PluginInit, ScopesInit
  <2>2. /\ stack = <<>> /\ bodies = <<>> /\ built = {} /\ features = {} /\ DOMAIN <<>> = {}
        /\ \A s \in {"app", "page"} : DOMAIN scope[s].claimants = {}
    BY EmptySeq DEF Init, EmptyScope
  <2>3. ClaimsInv /\ AnswersInv
    BY <2>2 DEF ClaimsInv, AnswersInv
  <2>4. OnceInv
    BY <2>2 DEF OnceInv, OnThePage
  <2>. QED
    BY <2>1, <2>3, <2>4
<1>2. ReadersInv /\ [Next]_vars => ReadersInv'
  BY PluginInductive, ScopesInductive, ClaimsInductive, OnceInductive
<1>3. ReadersInv => ReadersAreAnswered
  BY ReadersHaveTheirs
<1>. QED
  BY <1>1, <1>2, <1>3, PTL DEF Spec

-----------------------------------------------------------------------------
(* Declarations.  Each node stands in a layout that was declared before it. *)

Field == [name : STRING, ty : DOMAIN ValuesOf, identity : BOOLEAN]
Form == LayoutForm \cup PageForm
Placed == {With(form, up) : form \in Form, up \in Nat}

Nested(d) ==
  \A i \in DOMAIN d : d[i].up \in 0..(i - 1) /\ (d[i].up # 0 => ~IsPage(d[d[i].up]))

\* What was written is of each field what some value is saved as.
WrittenWhole(text) ==
  \A name \in DOMAIN text.fields : \E ty \in DOMAIN ValuesOf : \E v \in ValuesOf[ty] : text.fields[name] = ToValue[v]

LEMMA PlacedForms ==
  ASSUME NEW n \in Placed
  PROVE  /\ n.ty \in STRING /\ n.adds \in Seq(STRING) /\ n.drops \subseteq STRING /\ n.up \in Nat
         /\ n.restorable \in BOOLEAN
         /\ IsPage(n) => /\ n.fields \in Seq(Field)
                         /\ \A f, g \in ToSet(n.fields) : f.name = g.name => f = g
<1>1. PICK form \in Form, up \in Nat : n = With(form, up)
  BY DEF Placed
<1>2. DOMAIN n = DOMAIN form \cup {"up"} /\ n.up = up
  BY <1>1 DEF With
<1>3. \A name \in DOMAIN form : name # "up" => n[name] = form[name]
  BY <1>1 DEF With
<1>4. CASE form \in LayoutForm
  <2>1. DOMAIN form = {"ty", "adds", "drops", "keep", "restorable"} /\ Declares(form)
    BY <1>4, RoutesAssumption
  <2>2. ~IsPage(n)
    BY <1>2, <2>1 DEF IsPage
  <2>3. n.ty = form.ty /\ n.adds = form.adds /\ n.drops = form.drops /\ n.restorable = form.restorable
    BY <1>3, <2>1
  <2>. QED
    BY <1>2, <2>1, <2>2, <2>3 DEF Declares
<1>5. CASE form \in PageForm
  <2>1. /\ DOMAIN form = {"ty", "adds", "drops", "keep", "restorable", "link", "fields"}
        /\ Declares(form)
        /\ form.fields \in Seq(Field)
        /\ \A f, g \in ToSet(form.fields) : f.name = g.name => f = g
    BY <1>5, RoutesAssumption DEF Field
  <2>2. n.ty = form.ty /\ n.adds = form.adds /\ n.drops = form.drops /\ n.restorable = form.restorable /\ n.fields = form.fields
    BY <1>3, <2>1
  <2>. QED
    BY <1>2, <2>1, <2>2 DEF Declares
<1>. QED
  BY <1>1, <1>4, <1>5 DEF Form

-----------------------------------------------------------------------------
(* Text. *)

\* A field reads back what its own type wrote, and a value of its type out of
\* whatever was written.
LEMMA FieldsRead ==
  ASSUME NEW n \in Placed, IsPage(n), NEW f \in ToSet(n.fields)
  PROVE  /\ f.ty \in DOMAIN ValuesOf
         /\ \A v \in ValuesOf[f.ty] : FromValue[f.ty][ToValue[v]] = <<v>>
         /\ \A ty \in DOMAIN ValuesOf : \A v \in ValuesOf[ty] :
              FromValue[f.ty][ToValue[v]] \in {<<>>} \cup {<<w>> : w \in ValuesOf[f.ty]}
<1>1. n.fields \in Seq(Field)
  BY PlacedForms
<1>2. f \in Field
  <2>1. PICK k \in 1..Len(n.fields) : f = n.fields[k]
    BY <1>1, LenProperties DEF ToSet
  <2>. QED
    BY <1>1, <2>1, ElementOfSeq
<1>3. f.ty \in DOMAIN ValuesOf
  BY <1>2 DEF Field
<1>. QED
  BY <1>3, RoutesAssumption

\* What a route is written to comes back as that route.
LEMMA SavedRouteComesBack ==
  ASSUME NEW d \in Seq(Placed), PagesAreDistinct(d), NEW r \in RoutesOf(d), Restorable(d, r.page)
  PROVE  Restore(d, Save(d, r)[1]) = <<r>>
<1> DEFINE text == [route |-> d[r.page].ty, fields |-> [name \in FieldNames(d[r.page]) |-> ToValue[r.values[name]]]]
           page == {h \in Leaves(d) : /\ d[h].ty = text.route
                                      /\ Restorable(d, h)
                                      /\ \A f \in ToSet(d[h].fields) : Reads(f, text) # <<>>}
<1>1. Save(d, r)[1] = text
  BY DEF Save
<1>2. PICK i \in Leaves(d) : \E v \in [FieldNames(d[i]) -> UNION {ValuesOf[f.ty] : f \in ToSet(d[i].fields)}] :
        /\ r = [page |-> i, values |-> v]
        /\ \A f \in ToSet(d[i].fields) : v[f.name] \in ValuesOf[f.ty]
  BY DEF RoutesOf
<1> DEFINE v == r.values
<1>3. /\ r = [page |-> i, values |-> v] /\ r.page = i /\ v = [name \in FieldNames(d[i]) |-> v[name]]
      /\ \A f \in ToSet(d[i].fields) : v[f.name] \in ValuesOf[f.ty]
  BY <1>2
<1>4. d[i] \in Placed /\ IsPage(d[i]) /\ \A f, g \in ToSet(d[i].fields) : f.name = g.name => f = g
  <2>1. d[i] \in Placed /\ IsPage(d[i])
    BY <1>2 DEF Leaves
  <2>. QED
    BY <2>1, PlacedForms
<1>5. ASSUME NEW f \in ToSet(d[i].fields)
      PROVE  Reads(f, text) = <<v[f.name]>>
  <2>1. f.name \in FieldNames(d[i])
    BY DEF FieldNames
  <2>2. f.name \in DOMAIN text.fields /\ text.fields[f.name] = ToValue[v[f.name]]
    BY <1>3, <2>1
  <2>3. FromValue[f.ty][ToValue[v[f.name]]] = <<v[f.name]>>
    BY <1>3, <1>4, FieldsRead
  <2> HIDE DEF text
  <2>. QED
    BY <2>2, <2>3 DEF Reads
<1>6. page = {i}
  <2>1. i \in page
    <3>1. text.route = d[i].ty /\ Restorable(d, i)
      BY <1>3
    <3>2. \A f \in ToSet(d[i].fields) : Reads(f, text) # <<>>
      <4>1. \A f \in ToSet(d[i].fields) : \E value : Reads(f, text) = <<value>>
        BY <1>5
      <4>2. \A value : <<value>> # <<>>
        OBVIOUS
      <4> HIDE DEF text, v
      <4>. QED
        BY <4>1, <4>2, Zenon
    <3> HIDE DEF text
    <3>. QED
      BY <1>2, <3>1, <3>2
  <2>2. \A j \in page : j = i
    BY <1>2, <1>3 DEF PagesAreDistinct
  <2>. QED
    BY <2>1, <2>2
<1>7. (CHOOSE j \in page : TRUE) = i
  BY <1>6
<1>8. Restore(d, text) = <<[page |-> i, values |-> [name \in FieldNames(d[i]) |-> Reads(FieldOf(d[i], name), text)[1]]]>>
  <2> HIDE DEF text
  <2>. QED
    BY <1>6, <1>7 DEF Restore
<1>9. ASSUME NEW name \in FieldNames(d[i])
      PROVE  Reads(FieldOf(d[i], name), text)[1] = v[name]
  <2>1. FieldOf(d[i], name) \in ToSet(d[i].fields) /\ FieldOf(d[i], name).name = name
    BY DEF FieldNames, FieldOf
  <2> HIDE DEF text, v
  <2>2. Reads(FieldOf(d[i], name), text) = <<v[name]>>
    BY <1>5, <2>1
  <2>. QED
    BY <2>2
<1>10. [name \in FieldNames(d[i]) |-> Reads(FieldOf(d[i], name), text)[1]] = v
  <2> HIDE DEF text, v
  <2>. QED
    BY <1>3, <1>9
<1>. QED
  BY <1>1, <1>3, <1>8, <1>10

\* A route that is written is written whole.
LEMMA SavedWhole ==
  ASSUME NEW d \in Seq(Placed), NEW r \in RoutesOf(d), Save(d, r) # <<>>
  PROVE  \E text : Save(d, r) = <<text>> /\ WrittenWhole(text)
<1>1. PICK i \in Leaves(d) : \E v \in [FieldNames(d[i]) -> UNION {ValuesOf[f.ty] : f \in ToSet(d[i].fields)}] :
        /\ r = [page |-> i, values |-> v]
        /\ \A f \in ToSet(d[i].fields) : v[f.name] \in ValuesOf[f.ty]
  BY DEF RoutesOf
<1> DEFINE v == r.values
<1>2. r.page = i /\ \A f \in ToSet(d[i].fields) : v[f.name] \in ValuesOf[f.ty]
  BY <1>1
<1> DEFINE fields == [name \in FieldNames(d[i]) |-> ToValue[v[name]]]
           text == [route |-> d[i].ty, fields |-> fields]
<1>3. Save(d, r) = <<text>>
  BY <1>2 DEF Save
<1>4. \A name \in FieldNames(d[i]) : FieldOf(d[i], name) \in ToSet(d[i].fields) /\ FieldOf(d[i], name).name = name
  BY DEF FieldNames, FieldOf
<1>5. d[i] \in Placed /\ IsPage(d[i])
  BY <1>1 DEF Leaves
<1>6. WrittenWhole(text)
  <2>1. text.fields = fields /\ DOMAIN fields = FieldNames(d[i])
    OBVIOUS
  <2>2. ASSUME NEW name \in FieldNames(d[i])
        PROVE  \E ty \in DOMAIN ValuesOf : \E w \in ValuesOf[ty] : fields[name] = ToValue[w]
    <3> DEFINE f == FieldOf(d[i], name)
    <3>1. f \in ToSet(d[i].fields) /\ f.name = name /\ fields[name] = ToValue[v[name]]
      BY <1>4
    <3> HIDE DEF f, v, fields
    <3>2. f.ty \in DOMAIN ValuesOf /\ v[name] \in ValuesOf[f.ty]
      BY <1>2, <1>5, <3>1, FieldsRead
    <3>. QED
      BY <3>1, <3>2
  <2> HIDE DEF text, fields
  <2>. QED
    BY <2>1, <2>2 DEF WrittenWhole
<1>. QED
  BY <1>3, <1>6

\* What comes back is a route, whole and as its fields read what was written.
LEMMA RestoredIsWhole ==
  ASSUME NEW d \in Seq(Placed), NEW text, WrittenWhole(text), Restore(d, text) # <<>>
  PROVE  LET r == Restore(d, text)[1]
         IN /\ r \in RoutesOf(d)
            /\ d[r.page].ty = text.route
            /\ DOMAIN r.values \subseteq DOMAIN text.fields
            /\ \A name \in DOMAIN r.values :
                 <<r.values[name]>> = FromValue[FieldOf(d[r.page], name).ty][text.fields[name]]
<1> DEFINE page == {h \in Leaves(d) : /\ d[h].ty = text.route
                                      /\ Restorable(d, h)
                                      /\ \A f \in ToSet(d[h].fields) : Reads(f, text) # <<>>}
           i == CHOOSE h \in page : TRUE
           v == [name \in FieldNames(d[i]) |-> Reads(FieldOf(d[i], name), text)[1]]
           r == [page |-> i, values |-> v]
<1>1. page # {} /\ Restore(d, text) = <<r>>
  BY DEF Restore
<1>2. i \in Leaves(d) /\ d[i].ty = text.route /\ \A f \in ToSet(d[i].fields) : Reads(f, text) # <<>>
  BY <1>1
<1> HIDE DEF page, i
<1>3. d[i] \in Placed /\ IsPage(d[i])
  BY <1>2 DEF Leaves
<1>4. \A f, g \in ToSet(d[i].fields) : f.name = g.name => f = g
  BY <1>3, PlacedForms
<1>5. ASSUME NEW f \in ToSet(d[i].fields)
      PROVE  /\ f.name \in DOMAIN text.fields
             /\ \E w \in ValuesOf[f.ty] : FromValue[f.ty][text.fields[f.name]] = <<w>> /\ Reads(f, text) = <<w>>
  <2>1. f.name \in DOMAIN text.fields /\ FromValue[f.ty][text.fields[f.name]] # <<>> /\ Reads(f, text) = FromValue[f.ty][text.fields[f.name]]
    BY <1>2 DEF Reads
  <2>2. PICK ty \in DOMAIN ValuesOf : \E u \in ValuesOf[ty] : text.fields[f.name] = ToValue[u]
    BY <2>1 DEF WrittenWhole
  <2>3. FromValue[f.ty][text.fields[f.name]] \in {<<>>} \cup {<<w>> : w \in ValuesOf[f.ty]}
    BY <1>3, <2>2, FieldsRead
  <2>. QED
    BY <2>1, <2>3
<1>6. ASSUME NEW name \in FieldNames(d[i])
      PROVE  /\ FieldOf(d[i], name) \in ToSet(d[i].fields) /\ FieldOf(d[i], name).name = name
             /\ name \in DOMAIN text.fields
             /\ v[name] \in ValuesOf[FieldOf(d[i], name).ty]
             /\ <<v[name]>> = FromValue[FieldOf(d[i], name).ty][text.fields[name]]
  <2> DEFINE f == FieldOf(d[i], name)
  <2>1. f \in ToSet(d[i].fields) /\ f.name = name
    BY DEF FieldNames, FieldOf
  <2>2. v[name] = Reads(f, text)[1]
    OBVIOUS
  <2> HIDE DEF f, v
  <2>3. PICK w \in ValuesOf[f.ty] : FromValue[f.ty][text.fields[name]] = <<w>> /\ Reads(f, text) = <<w>>
    BY <1>5, <2>1
  <2>4. v[name] = w
    BY <2>2, <2>3
  <2>5. name \in DOMAIN text.fields
    BY <1>5, <2>1
  <2>. QED
    BY <2>1, <2>3, <2>4, <2>5 DEF f
<1>7. DOMAIN v = FieldNames(d[i])
  OBVIOUS
<1>8. \A f \in ToSet(d[i].fields) : f.name \in FieldNames(d[i]) /\ FieldOf(d[i], f.name) = f
  BY <1>4 DEF FieldNames, FieldOf
<1>9. v \in [FieldNames(d[i]) -> UNION {ValuesOf[f.ty] : f \in ToSet(d[i].fields)}]
  <2>1. ASSUME NEW name \in FieldNames(d[i])
        PROVE  v[name] \in UNION {ValuesOf[f.ty] : f \in ToSet(d[i].fields)}
    <3> HIDE DEF v
    <3>. QED
      BY <1>6
  <2>. QED
    BY <2>1
<1> HIDE DEF v
<1>10. r \in RoutesOf(d)
  <2>1. \A f \in ToSet(d[i].fields) : v[f.name] \in ValuesOf[f.ty]
    BY <1>6, <1>8
  <2> DEFINE Of(h) == {[page |-> h, values |-> w] :
                         w \in {w \in [FieldNames(d[h]) -> UNION {ValuesOf[f.ty] : f \in ToSet(d[h].fields)}] :
                                  \A f \in ToSet(d[h].fields) : w[f.name] \in ValuesOf[f.ty]}}
  <2>2. RoutesOf(d) = UNION {Of(h) : h \in Leaves(d)}
    BY DEF RoutesOf
  <2>3. r \in Of(i)
    BY <1>9, <2>1
  <2> HIDE DEF Of
  <2>. QED
    BY <1>2, <2>2, <2>3
<1>11. Restore(d, text)[1] = r /\ r.page = i /\ r.values = v
  BY <1>1
<1> HIDE DEF r
<1>. QED
  BY <1>2, <1>6, <1>7, <1>10, <1>11

-----------------------------------------------------------------------------
(* What is computed from a node and the layout it stands in. *)

LEMMA FirstNumber ==
  ASSUME NEW S, S \subseteq Nat, S # {}
  PROVE  \E n \in S : \A m \in S : n <= m
<1>1. PICK n \in S : \A m \in S : <<m, n>> \notin OpToRel(<, Nat)
  BY WFMin, NatLessThanWellFounded
<1>2. \A m \in S : ~(m < n)
  BY <1>1 DEF OpToRel
<1>3. \A m \in S : m \in Nat /\ n \in Nat
  OBVIOUS
<1>. QED
  BY <1>2, <1>3

\* What holds of a number if it holds of all before it holds of all numbers.
LEMMA Onwards ==
  ASSUME NEW n \in Nat, NEW S, \A m \in 0..n : (\A k \in 0..n : k < m => k \in S) => m \in S
  PROVE  \A m \in 0..n : m \in S
<1> DEFINE Not == {m \in 0..n : m \notin S}
<1> SUFFICES ASSUME Not # {}
             PROVE  FALSE
  OBVIOUS
<1>1. Not \subseteq Nat
  OBVIOUS
<1>2. PICK m \in Not : \A k \in Not : m <= k
  <2> HIDE DEF Not
  <2>. QED
    BY <1>1, FirstNumber
<1>3. ASSUME NEW k \in 0..n, k < m
      PROVE  k \in S
  <2>1. k \in Nat /\ m \in Nat /\ ~(m <= k)
    BY <1>1, <1>3
  <2>. QED
    BY <1>2, <2>1
<1>. QED
  BY <1>2, <1>3

\* f is computed along a row: from what it is at `up` of a place, a step makes
\* what it is there.
Along(V, n, up, step) ==
  /\ \A j \in 1..n : up[j] \in 0..(j - 1)
  /\ \A j \in 1..n : \A v \in V : step[j][v] \in V

IsComputed(f, V, base, n, up, step) ==
  f \in [0..n -> V] /\ f[0] = base /\ \A j \in 1..n : f[j] = step[j][f[up[j]]]

LEMMA Computed ==
  ASSUME NEW V, NEW base \in V, NEW n \in Nat, NEW up, NEW step, Along(V, n, up, step)
  PROVE  \E f : IsComputed(f, V, base, n, up, step)
<1>0. /\ \A j \in 1..n : up[j] \in 0..(j - 1)
      /\ \A j \in 1..n : \A v \in V : step[j][v] \in V
  BY DEF Along
<1> DEFINE To(m) == \E f \in [0..m -> V] : f[0] = base /\ \A j \in 1..m : f[j] = step[j][f[up[j]]]
           S == {m \in 0..n : To(m)}
<1>1. To(0)
  <2> DEFINE f == [j \in 0..0 |-> base]
  <2>1. f \in [0..0 -> V] /\ f[0] = base
    OBVIOUS
  <2>2. \A j \in 1..0 : f[j] = step[j][f[up[j]]]
    OBVIOUS
  <2> HIDE DEF f
  <2>. QED
    BY <2>1, <2>2
<1>2. ASSUME NEW m \in 1..n, To(m - 1)
      PROVE  To(m)
  <2>1. PICK f \in [0..(m - 1) -> V] : f[0] = base /\ \A j \in 1..(m - 1) : f[j] = step[j][f[up[j]]]
    BY <1>2
  <2>2. up[m] \in 0..(m - 1) /\ step[m][f[up[m]]] \in V
    BY <1>0, <2>1
  <2> DEFINE g == [j \in 0..m |-> IF j = m THEN step[m][f[up[m]]] ELSE f[j]]
  <2>3. m \in 0..m /\ 0 \in 0..(m - 1) /\ \A j \in 0..(m - 1) : j \in 0..m /\ j # m
    OBVIOUS
  <2>4. \A j \in 0..m : j = m \/ j \in 0..(m - 1)
    OBVIOUS
  <2>5. g \in [0..m -> V]
    BY <2>1, <2>2, <2>4
  <2>6. g[m] = step[m][f[up[m]]] /\ \A j \in 0..(m - 1) : g[j] = f[j]
    BY <2>3
  <2>7. ASSUME NEW j \in 1..m
        PROVE  g[j] = step[j][g[up[j]]]
    <3>1. up[j] \in 0..(m - 1)
      <4>1. up[j] \in 0..(j - 1) /\ j - 1 <= m - 1
        BY <1>0
      <4>. QED
        BY <4>1
    <3>2. CASE j = m
      BY <2>6, <3>1, <3>2
    <3>3. CASE j # m
      <4>1. j \in 1..(m - 1) /\ j \in 0..(m - 1)
        BY <3>3
      <4>. QED
        BY <2>1, <2>6, <3>1, <4>1
    <3>. QED
      BY <3>2, <3>3
  <2> HIDE DEF g
  <2>. QED
    BY <2>1, <2>3, <2>5, <2>6, <2>7
<1>3. \A m \in 0..n : m \in S
  <2> HIDE DEF To
  <2>1. ASSUME NEW m \in 0..n, \A k \in 0..n : k < m => k \in S
        PROVE  m \in S
    <3>1. CASE m = 0
      BY <1>1, <3>1
    <3>2. CASE m # 0
      <4>1. m \in 1..n /\ m - 1 \in 0..n /\ m - 1 < m
        BY <3>2
      <4>. QED
        BY <1>2, <2>1, <4>1
    <3>. QED
      BY <3>1, <3>2
  <2> HIDE DEF S
  <2>. QED
    BY <2>1, Onwards
<1>4. n \in 0..n
  OBVIOUS
<1>5. To(n)
  <2> HIDE DEF To
  <2>. QED
    BY <1>3, <1>4
<1>. QED
  BY <1>5 DEF IsComputed

\* The layouts around a node, from the outermost to the node.
LEMMA LineGrows ==
  ASSUME NEW d \in Seq(Placed), Nested(d)
  PROVE  /\ Line(d, 0) = <<>>
         /\ \A i \in DOMAIN d : Line(d, i) = Append(Line(d, d[i].up), i)
         /\ \A i \in 0..Len(d) : Line(d, i) \in Seq(Nat)
<1> DEFINE n == Len(d)
           up == [j \in 1..n |-> d[j].up]
           V == Seq(Nat)
           step == [j \in 1..n |-> [v \in V |-> Append(v, j)]]
           Is(f) == f = [j \in 0..n |-> IF j = 0 THEN <<>> ELSE Append(f[d[j].up], j)]
           line == CHOOSE f : Is(f)
<1>1. n \in Nat /\ DOMAIN d = 1..n
  BY LenProperties
<1>2. \A j \in 1..n : up[j] = d[j].up /\ up[j] \in 0..(j - 1)
  BY <1>1 DEF Nested
<1>3. <<>> \in V /\ \A j \in 1..n : \A v \in V : step[j][v] = Append(v, j) /\ Append(v, j) \in V
  OBVIOUS
<1>4. \E f : IsComputed(f, V, <<>>, n, up, step)
  <2>1. Along(V, n, up, step)
    BY <1>2, <1>3 DEF Along
  <2> HIDE DEF V, up, step, n
  <2>. QED
    BY <1>1, <1>3, <2>1, Computed
<1>5. \E f : Is(f)
  <2>1. PICK f \in [0..n -> V] : f[0] = <<>> /\ \A j \in 1..n : f[j] = step[j][f[up[j]]]
    BY <1>4 DEF IsComputed
  <2>2. ASSUME NEW j \in 1..n
        PROVE  f[j] = Append(f[d[j].up], j)
    <3>1. up[j] \in 0..n
      BY <1>1, <1>2
    <3>2. f[up[j]] \in V
      BY <2>1, <3>1
    <3>. QED
      BY <1>2, <1>3, <2>1, <3>2
  <2>3. \A j \in 0..n : j = 0 \/ j \in 1..n
    BY <1>1
  <2> HIDE DEF V, up, step, n
  <2>4. Is(f)
    BY <2>1, <2>2, <2>3
  <2>. QED
    BY <2>4
<1>6. Is(line)
  BY <1>5
<1>7. \A i : Line(d, i) = line[i]
  BY DEF Line
<1>8. line[0] = <<>> /\ \A j \in 1..n : line[j] = Append(line[d[j].up], j)
  <2>1. 0 \in 0..n /\ \A j \in 1..n : j \in 0..n /\ j # 0
    BY <1>1
  <2> HIDE DEF line
  <2>. QED
    BY <1>6, <2>1
<1> HIDE DEF line
<1>9. \A i \in 0..n : line[i] \in V
  <2> HIDE DEF V, step, up, n
  <2> DEFINE S == {i \in 0..n : line[i] \in V}
  <2>1. ASSUME NEW i \in 0..n, \A k \in 0..n : k < i => k \in S
        PROVE  i \in S
    <3>1. CASE i = 0
      BY <1>3, <1>8, <3>1
    <3>2. CASE i # 0
      <4>1. i \in 1..n
        BY <1>1, <3>2
      <4>2. d[i].up \in 0..n /\ d[i].up < i
        <5>1. d[i].up \in 0..(i - 1)
          BY <1>2, <4>1
        <5>. QED
          BY <1>1, <4>1, <5>1
      <4>3. line[d[i].up] \in V
        BY <2>1, <4>2
      <4>4. line[i] = Append(line[d[i].up], i) /\ i \in Nat
        BY <1>1, <1>8, <4>1
      <4>. QED
        BY <1>3, <4>1, <4>3, <4>4
    <3>. QED
      BY <3>1, <3>2
  <2> HIDE DEF S
  <2>2. \A i \in 0..n : i \in S
    BY <1>1, <2>1, Onwards
  <2>. QED
    BY <2>2 DEF S
<1>. QED
  BY <1>1, <1>7, <1>8, <1>9


\* Every node on the way to a node stands on its own way there, and all but
\* the node are layouts.
LEMMA LineOfLines ==
  ASSUME NEW d \in Seq(Placed), Nested(d), NEW i \in DOMAIN d
  PROVE  /\ Line(d, i) \in Seq(Nat) /\ Len(Line(d, i)) \in Nat \ {0}
         /\ Line(d, i)[Len(Line(d, i))] = i
         /\ \A k \in 1..Len(Line(d, i)) :
              LET h == Line(d, i)[k]
              IN /\ h \in DOMAIN d /\ h <= i
                 /\ Len(Line(d, h)) = k
                 /\ \A l \in 1..k : Line(d, h)[l] = Line(d, i)[l]
                 /\ k < Len(Line(d, i)) => ~IsPage(d[h])
<1> DEFINE n == Len(d)
           Fine(j, k) == LET h == Line(d, j)[k]
                         IN /\ h \in 1..n /\ h <= j
                            /\ Len(Line(d, h)) = k
                            /\ \A l \in 1..k : Line(d, h)[l] = Line(d, j)[l]
                            /\ k < Len(Line(d, j)) => ~IsPage(d[h])
           Known(j) == /\ Len(Line(d, j)) \in Nat \ {0} /\ Line(d, j)[Len(Line(d, j))] = j
                       /\ \A k \in 1..Len(Line(d, j)) : Fine(j, k)
           S == {j \in 0..n : j # 0 => Known(j)}
<1>1. n \in Nat /\ DOMAIN d = 1..n
  BY LenProperties
<1>2. /\ Line(d, 0) = <<>>
      /\ \A j \in 1..n : Line(d, j) = Append(Line(d, d[j].up), j)
      /\ \A j \in 0..n : Line(d, j) \in Seq(Nat)
  BY <1>1, LineGrows
<1>3. ASSUME NEW j \in 1..n, \A k \in 0..n : k < j => k \in S
      PROVE  Known(j)
  <2> DEFINE u == d[j].up
  <2>1. u \in 0..(j - 1) /\ u \in 0..n /\ u < j /\ (u # 0 => ~IsPage(d[u]))
    <3>1. u \in 0..(j - 1) /\ (u # 0 => ~IsPage(d[u]))
      BY <1>1 DEF Nested
    <3>. QED
      BY <1>1, <3>1
  <2> HIDE DEF u
  <2>2. Line(d, j) = Append(Line(d, u), j) /\ Line(d, u) \in Seq(Nat)
    BY <1>2, <2>1 DEF u
  <2>3. /\ Len(Line(d, u)) \in Nat /\ Len(Line(d, j)) = Len(Line(d, u)) + 1
        /\ Line(d, j)[Len(Line(d, u)) + 1] = j
        /\ \A k \in 1..Len(Line(d, u)) : Line(d, j)[k] = Line(d, u)[k]
    <3>1. j \in Nat
      BY <1>1
    <3>. QED
      BY <2>2, <3>1, AppendProperties, LenProperties
  <2>4. u # 0 => Known(u)
    BY <1>3, <2>1
  <2>5. u = 0 => Len(Line(d, u)) = 0
    BY <1>2
  <2>6. ASSUME NEW k \in 1..Len(Line(d, j))
        PROVE  Fine(j, k)
    <3>1. CASE k = Len(Line(d, j))
      <4>1. Line(d, j)[k] = j /\ j \in 1..n /\ j <= j
        BY <1>1, <2>3, <3>1
      <4>. QED
        BY <3>1, <4>1
    <3>2. CASE k # Len(Line(d, j))
      <4>1. k \in 1..Len(Line(d, u)) /\ u # 0
        BY <2>3, <2>5, <3>2
      <4>2. Fine(u, k) /\ Line(d, u)[Len(Line(d, u))] = u
        BY <2>4, <4>1
      <4>3. Line(d, j)[k] = Line(d, u)[k] /\ \A l \in 1..k : Line(d, j)[l] = Line(d, u)[l]
        <5>1. \A l \in 1..k : l \in 1..Len(Line(d, u))
          BY <2>3, <4>1
        <5>. QED
          BY <2>3, <4>1, <5>1
      <4>4. ~IsPage(d[Line(d, u)[k]])
        <5>1. CASE k = Len(Line(d, u))
          BY <2>1, <4>1, <4>2, <5>1
        <5>2. CASE k # Len(Line(d, u))
          <6>1. k < Len(Line(d, u))
            BY <2>3, <4>1, <5>2
          <6>. QED
            BY <4>2, <6>1
        <5>. QED
          BY <5>1, <5>2
      <4>5. Line(d, u)[k] <= j
        BY <1>1, <2>1, <4>2
      <4>. QED
        BY <4>2, <4>3, <4>4, <4>5
    <3>. QED
      BY <3>1, <3>2
  <2> HIDE DEF Fine
  <2>. QED
    BY <2>3, <2>6
<1>4. \A j \in 0..n : j \in S
  <2>1. ASSUME NEW j \in 0..n, \A k \in 0..n : k < j => k \in S
        PROVE  j \in S
    <3>1. CASE j = 0
      BY <3>1
    <3>2. CASE j # 0
      <4>1. j \in 1..n
        BY <1>1, <3>2
      <4>2. Known(j)
        <5> HIDE DEF Known
        <5>. QED
          BY <1>3, <2>1, <4>1
      <4>. QED
        BY <4>2
    <3>. QED
      BY <3>1, <3>2
  <2> HIDE DEF S, n
  <2>. QED
    BY <1>1, <2>1, Onwards
<1>5. i \in 0..n /\ i # 0 /\ i \in 1..n
  BY <1>1
<1>6. Known(i)
  <2> HIDE DEF Known
  <2>. QED
    BY <1>4, <1>5
<1>. QED
  BY <1>1, <1>2, <1>5, <1>6


LEMMA AboveOnTheLine ==
  ASSUME NEW d \in Seq(Placed), Nested(d), NEW i \in DOMAIN d
  PROVE  /\ Above(d, i) \in Seq(STRING) /\ DOMAIN Above(d, i) = 1..(Len(Line(d, i)) - 1)
         /\ \A k \in DOMAIN Above(d, i) :
              LET h == Line(d, i)[k]
              IN h \in LayoutsOf(d) /\ d[h].ty = Above(d, i)[k] /\ Above(d, h) = SubSeq(Above(d, i), 1, k - 1)
<1> DEFINE L(j) == Line(d, j)
           TypesTo(j) == [k \in 1..(Len(L(j)) - 1) |-> d[L(j)[k]].ty]
<1>1. \A j : Above(d, j) = TypesTo(j)
  BY DEF Above
<1>2. ASSUME NEW j \in DOMAIN d
      PROVE  /\ Len(L(j)) \in Nat \ {0}
             /\ \A k \in 1..Len(L(j)) :
                  /\ L(j)[k] \in DOMAIN d /\ Len(L(L(j)[k])) = k
                  /\ \A l \in 1..k : L(L(j)[k])[l] = L(j)[l]
                  /\ k < Len(L(j)) => ~IsPage(d[L(j)[k]])
  BY LineOfLines
<1>3. \A j \in DOMAIN d : d[j] \in Placed /\ d[j].ty \in STRING
  BY PlacedForms
<1> HIDE DEF L
<1>4. TypesTo(i) \in Seq(STRING) /\ DOMAIN TypesTo(i) = 1..(Len(L(i)) - 1) /\ Len(TypesTo(i)) = Len(L(i)) - 1
  <2>1. Len(L(i)) - 1 \in Nat /\ \A k \in 1..(Len(L(i)) - 1) : k \in 1..Len(L(i))
    BY <1>2
  <2>2. \A k \in 1..(Len(L(i)) - 1) : d[L(i)[k]].ty \in STRING
    BY <1>2, <1>3, <2>1
  <2>. QED
    BY <2>1, <2>2, IsASeq
<1>5. ASSUME NEW k \in 1..(Len(L(i)) - 1)
      PROVE  L(i)[k] \in LayoutsOf(d) /\ TypesTo(L(i)[k]) = SubSeq(TypesTo(i), 1, k - 1)
  <2>1. k \in 1..Len(L(i)) /\ k < Len(L(i)) /\ k - 1 \in 0..Len(TypesTo(i)) /\ k \in Nat
    <3>1. Len(L(i)) \in Nat \ {0}
      BY <1>2
    <3>. QED
      BY <1>4, <3>1
  <2>2. L(i)[k] \in LayoutsOf(d)
    BY <1>2, <2>1 DEF LayoutsOf, Leaves
  <2>3. Len(L(L(i)[k])) = k /\ \A l \in 1..k : L(L(i)[k])[l] = L(i)[l]
    BY <1>2, <2>1
  <2>4. TypesTo(L(i)[k]) = [l \in 1..(k - 1) |-> TypesTo(i)[l]]
    <3>1. \A l \in 1..(k - 1) : l \in 1..k /\ l \in 1..(Len(L(i)) - 1)
      BY <1>2, <2>1
    <3>. QED
      BY <2>3, <3>1
  <2>5. /\ Len(SubSeq(TypesTo(i), 1, k - 1)) = k - 1
        /\ SubSeq(TypesTo(i), 1, k - 1) = [l \in 1..(k - 1) |-> TypesTo(i)[l]]
    <3> HIDE DEF TypesTo
    <3>. QED
      BY <1>4, <2>1, SubSeqProperties
  <2>. QED
    BY <2>2, <2>4, <2>5
<1>6. \A k \in 1..(Len(L(i)) - 1) : TypesTo(i)[k] = d[L(i)[k]].ty
  OBVIOUS
<1> HIDE DEF TypesTo
<1>7. /\ Above(d, i) = TypesTo(i) /\ L(i) = Line(d, i)
      /\ \A k \in 1..(Len(L(i)) - 1) : Above(d, L(i)[k]) = TypesTo(L(i)[k])
  BY <1>1 DEF L
<1>. QED
  BY <1>4, <1>5, <1>6, <1>7

\* A layout stands under the same layouts wherever it appears.
LEMMA LayoutsStandAlike ==
  ASSUME NEW d \in Seq(Placed), LayoutsAgree(d),
         NEW i \in LayoutsOf(d), NEW j \in LayoutsOf(d), d[i].ty = d[j].ty
  PROVE  Above(d, i) = Above(d, j)
<1> DEFINE Same == {h \in LayoutsOf(d) : d[h].ty = d[i].ty}
<1>1. Same \subseteq Nat /\ i \in Same /\ j \in Same
  BY LenProperties DEF LayoutsOf
<1>2. PICK first \in Same : \A h \in Same : first <= h
  <2> HIDE DEF Same
  <2>. QED
    BY <1>1, FirstNumber
<1>3. ASSUME NEW h \in Same
      PROVE  Above(d, first) = Above(d, h)
  <2>1. CASE h = first
    BY <2>1
  <2>2. CASE h # first
    <3>1. first < h /\ \A g \in Same : ~(g < first)
      BY <1>1, <1>2, <2>2
    <3>. QED
      BY <1>2, <3>1 DEF LayoutsAgree
  <2>. QED
    BY <2>1, <2>2
<1>. QED
  BY <1>1, <1>3

LEMMA ForemostIs ==
  ASSUME NEW S, S \subseteq Nat, S # {}
  PROVE  Foremost(S) \in S /\ \A l \in S : Foremost(S) <= l
<1>1. \E k \in S : \A l \in S : k <= l
  BY FirstNumber
<1>. QED
  BY <1>1 DEF Foremost

LEMMA LayoutHolds ==
  ASSUME NEW d \in Seq(Placed), Nested(d), LayoutsAgree(d),
         NEW i \in Leaves(d), NEW k \in DOMAIN Above(d, i)
  PROVE  /\ StandsUnder(d, Above(d, i)[k]) = SubSeq(Above(d, i), 1, k - 1)
         /\ LayoutParams(d, Above(d, i)[k]) \subseteq {f \in ToSet(d[i].fields) : f.identity}
<1> DEFINE ty == Above(d, i)[k]
           first == Foremost(Under(d, ty))
           line == Above(d, first)
           at == Foremost({l \in DOMAIN line : line[l] = ty})
<1>1. i \in DOMAIN d /\ i \in Under(d, ty)
  BY DEF Under, Leaves, ToSet
<1>2. first \in Under(d, ty)
  <2>1. Under(d, ty) \subseteq Nat
    BY LenProperties DEF Under, Leaves
  <2>. QED
    BY <1>1, <2>1, ForemostIs
<1>3. first \in DOMAIN d /\ \E l \in DOMAIN line : line[l] = ty
  <2> HIDE DEF first
  <2>. QED
    BY <1>2 DEF Under, Leaves, ToSet
<1> HIDE DEF first
<1>4. at \in DOMAIN line /\ line[at] = ty
  <2>1. DOMAIN line \subseteq Nat
    BY <1>3, AboveOnTheLine, LenProperties
  <2> HIDE DEF line
  <2>2. {l \in DOMAIN line : line[l] = ty} # {} /\ {l \in DOMAIN line : line[l] = ty} \subseteq Nat
    BY <1>3, <2>1
  <2>. QED
    BY <2>2, ForemostIs
<1>5. StandsUnder(d, ty) = SubSeq(line, 1, at - 1)
  BY DEF StandsUnder, first
<1> HIDE DEF at
<1>6. /\ Line(d, first)[at] \in LayoutsOf(d) /\ d[Line(d, first)[at]].ty = ty
      /\ Above(d, Line(d, first)[at]) = SubSeq(line, 1, at - 1)
  BY <1>3, <1>4, AboveOnTheLine
<1>7. /\ Line(d, i)[k] \in LayoutsOf(d) /\ d[Line(d, i)[k]].ty = ty
      /\ Above(d, Line(d, i)[k]) = SubSeq(Above(d, i), 1, k - 1)
  BY <1>1, AboveOnTheLine
<1>8. Above(d, Line(d, first)[at]) = Above(d, Line(d, i)[k])
  BY <1>6, <1>7, LayoutsStandAlike
<1>9. LayoutParams(d, ty) \subseteq {f \in ToSet(d[i].fields) : f.identity}
  BY <1>1 DEF LayoutParams
<1>. QED
  BY <1>5, <1>6, <1>7, <1>8, <1>9

-----------------------------------------------------------------------------
(* Guards. *)

LEMMA AppendedOnce ==
  ASSUME NEW S, NEW s \in Seq(S), NEW e \in S
  PROVE  /\ Append(s, e) \in Seq(S) /\ ToSet(Append(s, e)) = ToSet(s) \cup {e}
         /\ IsInjective(s) /\ e \notin ToSet(s) => IsInjective(Append(s, e))
<1> DEFINE t == Append(s, e)
<1>1. /\ t \in Seq(S) /\ DOMAIN s = 1..Len(s) /\ DOMAIN t = 1..(Len(s) + 1) /\ Len(s) \in Nat
      /\ t[Len(s) + 1] = e /\ \A k \in 1..Len(s) : t[k] = s[k]
  BY AppendProperties, LenProperties
<1> HIDE DEF t
<1>2. DOMAIN t = DOMAIN s \cup {Len(s) + 1} /\ \A k \in DOMAIN s : t[k] = s[k]
  BY <1>1
<1>3. ToSet(t) = ToSet(s) \cup {e}
  BY <1>1, <1>2 DEF ToSet
<1>4. ASSUME IsInjective(s), e \notin ToSet(s)
      PROVE  IsInjective(t)
  BY <1>1, <1>2, <1>4 DEF IsInjective, ToSet
<1>. QED
  BY <1>1, <1>3, <1>4 DEF t

LEMMA Dropped ==
  ASSUME NEW s \in Seq(STRING), NEW drops
  PROVE  /\ Dropping(s, drops) \in Seq(STRING)
         /\ ToSet(Dropping(s, drops)) = ToSet(s) \ drops
         /\ IsInjective(s) => IsInjective(Dropping(s, drops))
<1> DEFINE n == Len(s)
           V == Seq(STRING)
           up == [j \in 1..n |-> j - 1]
           step == [j \in 1..n |-> [v \in V |-> IF s[j] \in drops THEN v ELSE Append(v, s[j])]]
           Is(f) == f = [k \in 0..n |-> IF k = 0 THEN <<>> ELSE IF s[k] \in drops THEN f[k - 1] ELSE Append(f[k - 1], s[k])]
           left == CHOOSE f : Is(f)
<1>1. n \in Nat /\ DOMAIN s = 1..n /\ \A j \in 1..n : s[j] \in STRING
  BY LenProperties
<1>2. \A j \in 1..n : \A v \in V :
        step[j][v] \in V /\ step[j][v] = IF s[j] \in drops THEN v ELSE Append(v, s[j])
  <2>1. ASSUME NEW j \in 1..n, NEW v \in V
        PROVE  step[j][v] = IF s[j] \in drops THEN v ELSE Append(v, s[j])
    <3> HIDE DEF V, n
    <3>. QED
      OBVIOUS
  <2>2. ASSUME NEW j \in 1..n, NEW v \in V
        PROVE  Append(v, s[j]) \in V
    BY <1>1
  <2> HIDE DEF V, step, n
  <2>. QED
    BY <2>1, <2>2
<1>3. \A j \in 1..n : up[j] = j - 1 /\ up[j] \in 0..(j - 1) /\ up[j] \in 0..n
  BY <1>1
<1>4. PICK f : IsComputed(f, V, <<>>, n, up, step)
  <2>1. <<>> \in V /\ Along(V, n, up, step)
    BY <1>2, <1>3 DEF Along
  <2> HIDE DEF V, up, step, n
  <2>. QED
    BY <1>1, <2>1, Computed
<1>5. f \in [0..n -> V] /\ f[0] = <<>> /\ \A j \in 1..n : f[j] = step[j][f[up[j]]]
  BY <1>4 DEF IsComputed
<1>6. Is(f)
  <2>1. \A j \in 1..n : f[j] = IF s[j] \in drops THEN f[j - 1] ELSE Append(f[j - 1], s[j])
    <3> HIDE DEF V, up, step, n
    <3>. QED
      BY <1>2, <1>3, <1>5
  <2>2. \A j \in 0..n : j = 0 \/ j \in 1..n
    BY <1>1
  <2> HIDE DEF V, up, step, n
  <2>. QED
    BY <1>5, <2>1, <2>2
<1>7. Is(left) /\ Dropping(s, drops) = left[n]
  BY <1>6 DEF Dropping
<1> HIDE DEF left
<1>8. left[0] = <<>> /\ \A j \in 1..n : left[j] = IF s[j] \in drops THEN left[j - 1] ELSE Append(left[j - 1], s[j])
  <2>1. 0 \in 0..n /\ \A j \in 1..n : j \in 0..n /\ j # 0
    BY <1>1
  <2>. QED
    BY <1>7, <2>1
<1> DEFINE First(k) == {s[l] : l \in 1..k}
           Fine(k) == /\ left[k] \in V /\ ToSet(left[k]) = First(k) \ drops
                      /\ IsInjective(s) => IsInjective(left[k])
           S == {k \in 0..n : Fine(k)}
<1>9. \A k \in 0..n : k \in S
  <2>1. Fine(0)
    BY <1>8 DEF ToSet, IsInjective
  <2>2. ASSUME NEW j \in 1..n, Fine(j - 1)
        PROVE  Fine(j)
    <3>1. First(j) = First(j - 1) \cup {s[j]}
      <4>1. 1..j = 1..(j - 1) \cup {j}
        BY <1>1
      <4>. QED
        BY <4>1
    <3>2. CASE s[j] \in drops
      BY <1>8, <2>2, <3>1, <3>2
    <3>3. CASE s[j] \notin drops
      <4>1. left[j] = Append(left[j - 1], s[j])
        BY <1>8, <3>3
      <4>2. IsInjective(s) => s[j] \notin First(j - 1)
        <5>1. \A l \in 1..(j - 1) : l \in 1..n /\ l # j
          BY <1>1
        <5>. QED
          BY <1>1, <5>1 DEF IsInjective
      <4> HIDE DEF First, V
      <4>3. left[j - 1] \in Seq(STRING) /\ s[j] \in STRING
        BY <1>1, <2>2 DEF V
      <4>4. left[j] \in V /\ ToSet(left[j]) = ToSet(left[j - 1]) \cup {s[j]}
        BY <4>1, <4>3, AppendedOnce DEF V
      <4>5. ToSet(left[j]) = First(j) \ drops
        BY <2>2, <3>1, <3>3, <4>4
      <4>6. IsInjective(s) => IsInjective(left[j])
        BY <2>2, <4>1, <4>2, <4>3, AppendedOnce
      <4>. QED
        BY <4>4, <4>5, <4>6
    <3>. QED
      BY <3>2, <3>3
  <2> HIDE DEF Fine
  <2>3. ASSUME NEW k \in 0..n, \A m \in 0..n : m < k => m \in S
        PROVE  k \in S
    <3>1. CASE k = 0
      BY <2>1, <3>1
    <3>2. CASE k # 0
      <4>1. k \in 1..n /\ k - 1 \in 0..n /\ k - 1 < k
        BY <1>1, <3>2
      <4>. QED
        BY <2>2, <2>3, <4>1
    <3>. QED
      BY <3>1, <3>2
  <2> HIDE DEF S, n
  <2>. QED
    BY <1>1, <2>3, Onwards
<1>10. Fine(n)
  <2>1. n \in 0..n
    BY <1>1
  <2> HIDE DEF Fine
  <2>. QED
    BY <1>9, <2>1
<1>11. First(n) = ToSet(s)
  BY <1>1 DEF ToSet
<1>. QED
  BY <1>7, <1>10, <1>11

LEMMA Joined ==
  ASSUME NEW s \in Seq(STRING), NEW more \in Seq(STRING)
  PROVE  /\ Joining(s, more) \in Seq(STRING)
         /\ ToSet(Joining(s, more)) = ToSet(s) \cup ToSet(more)
         /\ IsInjective(s) => IsInjective(Joining(s, more))
<1> DEFINE n == Len(more)
           V == Seq(STRING)
           up == [j \in 1..n |-> j - 1]
           step == [j \in 1..n |-> [v \in V |-> IF more[j] \in ToSet(v) THEN v ELSE Append(v, more[j])]]
           Is(f) == f = [k \in 0..n |-> IF k = 0 THEN s ELSE IF more[k] \in ToSet(f[k - 1]) THEN f[k - 1] ELSE Append(f[k - 1], more[k])]
           all == CHOOSE f : Is(f)
<1>1. n \in Nat /\ DOMAIN more = 1..n /\ \A j \in 1..n : more[j] \in STRING
  BY LenProperties
<1>2. \A j \in 1..n : \A v \in V :
        step[j][v] \in V /\ step[j][v] = IF more[j] \in ToSet(v) THEN v ELSE Append(v, more[j])
  <2>1. ASSUME NEW j \in 1..n, NEW v \in V
        PROVE  step[j][v] = IF more[j] \in ToSet(v) THEN v ELSE Append(v, more[j])
    <3> HIDE DEF V, n
    <3>. QED
      OBVIOUS
  <2>2. ASSUME NEW j \in 1..n, NEW v \in V
        PROVE  Append(v, more[j]) \in V
    BY <1>1
  <2> HIDE DEF V, step, n
  <2>. QED
    BY <2>1, <2>2
<1>3. \A j \in 1..n : up[j] = j - 1 /\ up[j] \in 0..(j - 1) /\ up[j] \in 0..n
  BY <1>1
<1>4. PICK f : IsComputed(f, V, s, n, up, step)
  <2>1. s \in V /\ Along(V, n, up, step)
    BY <1>2, <1>3 DEF Along
  <2> HIDE DEF V, up, step, n
  <2>. QED
    BY <1>1, <2>1, Computed
<1>5. f \in [0..n -> V] /\ f[0] = s /\ \A j \in 1..n : f[j] = step[j][f[up[j]]]
  BY <1>4 DEF IsComputed
<1>6. Is(f)
  <2>1. \A j \in 1..n : f[j] = IF more[j] \in ToSet(f[j - 1]) THEN f[j - 1] ELSE Append(f[j - 1], more[j])
    <3> HIDE DEF V, up, step, n
    <3>. QED
      BY <1>2, <1>3, <1>5
  <2>2. \A j \in 0..n : j = 0 \/ j \in 1..n
    BY <1>1
  <2> HIDE DEF V, up, step, n
  <2>. QED
    BY <1>5, <2>1, <2>2
<1>7. Is(all) /\ Joining(s, more) = all[n]
  BY <1>6 DEF Joining
<1> HIDE DEF all
<1>8. all[0] = s /\ \A j \in 1..n : all[j] = IF more[j] \in ToSet(all[j - 1]) THEN all[j - 1] ELSE Append(all[j - 1], more[j])
  <2>1. 0 \in 0..n /\ \A j \in 1..n : j \in 0..n /\ j # 0
    BY <1>1
  <2>. QED
    BY <1>7, <2>1
<1> DEFINE First(k) == {more[l] : l \in 1..k}
           Fine(k) == /\ all[k] \in V /\ ToSet(all[k]) = ToSet(s) \cup First(k)
                      /\ IsInjective(s) => IsInjective(all[k])
           S == {k \in 0..n : Fine(k)}
<1>9. \A k \in 0..n : k \in S
  <2>1. Fine(0)
    BY <1>8
  <2>2. ASSUME NEW j \in 1..n, Fine(j - 1)
        PROVE  Fine(j)
    <3>1. First(j) = First(j - 1) \cup {more[j]}
      <4>1. 1..j = 1..(j - 1) \cup {j}
        BY <1>1
      <4>. QED
        BY <4>1
    <3>2. CASE more[j] \in ToSet(all[j - 1])
      BY <1>8, <2>2, <3>1, <3>2
    <3>3. CASE more[j] \notin ToSet(all[j - 1])
      <4>1. all[j] = Append(all[j - 1], more[j])
        BY <1>8, <3>3
      <4> HIDE DEF First, V
      <4>2. all[j - 1] \in Seq(STRING) /\ more[j] \in STRING
        BY <1>1, <2>2 DEF V
      <4>3. all[j] \in V /\ ToSet(all[j]) = ToSet(all[j - 1]) \cup {more[j]}
        BY <4>1, <4>2, AppendedOnce DEF V
      <4>4. ToSet(all[j]) = ToSet(s) \cup First(j)
        BY <2>2, <3>1, <4>3
      <4>5. IsInjective(s) => IsInjective(all[j])
        BY <2>2, <3>3, <4>1, <4>2, AppendedOnce
      <4>. QED
        BY <4>3, <4>4, <4>5
    <3>. QED
      BY <3>2, <3>3
  <2> HIDE DEF Fine
  <2>3. ASSUME NEW k \in 0..n, \A m \in 0..n : m < k => m \in S
        PROVE  k \in S
    <3>1. CASE k = 0
      BY <2>1, <3>1
    <3>2. CASE k # 0
      <4>1. k \in 1..n /\ k - 1 \in 0..n /\ k - 1 < k
        BY <1>1, <3>2
      <4>. QED
        BY <2>2, <2>3, <4>1
    <3>. QED
      BY <3>1, <3>2
  <2> HIDE DEF S, n
  <2>. QED
    BY <1>1, <2>3, Onwards
<1>10. Fine(n)
  <2>1. n \in 0..n
    BY <1>1
  <2> HIDE DEF Fine
  <2>. QED
    BY <1>9, <2>1
<1>11. First(n) = ToSet(more)
  BY <1>1 DEF ToSet
<1>. QED
  BY <1>7, <1>10, <1>11

\* What stands in front of a node is folded into what stands in front of the
\* layout around it.
LEMMA Folded ==
  ASSUME NEW node \in Placed, NEW inherited \in Seq(STRING)
  PROVE  /\ FoldInto(node, inherited) \in Seq(STRING)
         /\ ToSet(FoldInto(node, inherited)) = (ToSet(inherited) \ node.drops) \cup ToSet(node.adds)
         /\ IsInjective(inherited) => IsInjective(FoldInto(node, inherited))
<1>1. node.adds \in Seq(STRING)
  BY PlacedForms
<1>2. Dropping(inherited, node.drops) \in Seq(STRING)
  BY Dropped
<1>. QED
  BY <1>1, <1>2, Dropped, Joined DEF FoldInto

LEMMA GuardsGrow ==
  ASSUME NEW d \in Seq(Placed), Nested(d)
  PROVE  Guards(d, 0) = <<>> /\ \A i \in DOMAIN d : Guards(d, i) = FoldInto(d[i], Guards(d, d[i].up))
<1> DEFINE n == Len(d)
           up == [j \in 1..n |-> d[j].up]
           V == Seq(STRING)
           step == [j \in 1..n |-> [v \in V |-> FoldInto(d[j], v)]]
           Is(f) == f = [j \in 0..n |-> IF j = 0 THEN <<>> ELSE FoldInto(d[j], f[d[j].up])]
           inside == CHOOSE f : Is(f)
<1>1. n \in Nat /\ DOMAIN d = 1..n /\ \A j \in 1..n : d[j] \in Placed
  BY LenProperties
<1>2. \A j \in 1..n : up[j] = d[j].up /\ up[j] \in 0..(j - 1) /\ up[j] \in 0..n
  BY <1>1 DEF Nested
<1>3. \A j \in 1..n : \A v \in V : step[j][v] = FoldInto(d[j], v) /\ FoldInto(d[j], v) \in V
  BY <1>1, Folded
<1>4. PICK f : IsComputed(f, V, <<>>, n, up, step)
  <2>1. <<>> \in V /\ Along(V, n, up, step)
    BY <1>2, <1>3 DEF Along
  <2> HIDE DEF V, up, step, n
  <2>. QED
    BY <1>1, <2>1, Computed
<1>5. f \in [0..n -> V] /\ f[0] = <<>> /\ \A j \in 1..n : f[j] = step[j][f[up[j]]]
  BY <1>4 DEF IsComputed
<1>6. Is(f)
  <2>1. \A j \in 1..n : f[j] = FoldInto(d[j], f[d[j].up])
    <3> HIDE DEF V, up, step, n
    <3>. QED
      BY <1>2, <1>3, <1>5
  <2>2. \A j \in 0..n : j = 0 \/ j \in 1..n
    BY <1>1
  <2> HIDE DEF V, up, step, n
  <2>. QED
    BY <1>5, <2>1, <2>2
<1>7. Is(inside) /\ \A i : Guards(d, i) = inside[i]
  BY <1>6 DEF Guards
<1> HIDE DEF inside
<1>8. inside[0] = <<>> /\ \A j \in 1..n : inside[j] = FoldInto(d[j], inside[d[j].up])
  <2>1. 0 \in 0..n /\ \A j \in 1..n : j \in 0..n /\ j # 0
    BY <1>1
  <2>. QED
    BY <1>7, <2>1
<1>. QED
  BY <1>1, <1>7, <1>8

\* What stands at the end of a line by what its nodes say.
Standing(d, line) ==
  {g \in UNION {ToSet(d[j].adds) : j \in ToSet(line)} :
     \E k \in DOMAIN line : /\ g \in ToSet(d[line[k]].adds)
                            /\ \A l \in (k + 1)..Len(line) : g \notin d[line[l]].drops}

LEMMA StandingIs ==
  ASSUME NEW d, NEW line \in Seq(Nat), NEW g
  PROVE  g \in Standing(d, line) <=>
           \E k \in 1..Len(line) : g \in ToSet(d[line[k]].adds) /\ \A l \in (k + 1)..Len(line) : g \notin d[line[l]].drops
<1>1. DOMAIN line = 1..Len(line)
  BY LenProperties
<1>2. ASSUME NEW k \in 1..Len(line), g \in ToSet(d[line[k]].adds)
      PROVE  g \in UNION {ToSet(d[j].adds) : j \in ToSet(line)}
  BY <1>1, <1>2 DEF ToSet
<1>. QED
  BY <1>1, <1>2 DEF Standing

LEMMA StandingGrows ==
  ASSUME NEW d, NEW line \in Seq(Nat), NEW i \in Nat
  PROVE  Standing(d, Append(line, i)) = (Standing(d, line) \ d[i].drops) \cup ToSet(d[i].adds)
<1> DEFINE longer == Append(line, i)
           Held(s, k, g) == g \in ToSet(d[s[k]].adds) /\ \A l \in (k + 1)..Len(s) : g \notin d[s[l]].drops
           n == Len(line)
<1>1. /\ n \in Nat /\ DOMAIN line = 1..n /\ DOMAIN longer = 1..(n + 1) /\ Len(longer) = n + 1
      /\ longer[n + 1] = i /\ \A k \in 1..n : longer[k] = line[k]
  BY AppendProperties, LenProperties
<1>2. \A g : g \in Standing(d, line) <=> \E k \in 1..n : Held(line, k, g)
  BY StandingIs
<1>3. \A g : g \in Standing(d, longer) <=> \E k \in 1..(n + 1) : Held(longer, k, g)
  <2>1. longer \in Seq(Nat)
    BY AppendProperties
  <2> HIDE DEF longer
  <2>. QED
    BY <1>1, <2>1, StandingIs
<1> HIDE DEF longer
<1>4. \A g : Held(longer, n + 1, g) <=> g \in ToSet(d[i].adds)
  <2>1. ((n + 1) + 1)..(n + 1) = {}
    BY <1>1
  <2>. QED
    BY <1>1, <2>1
<1>5. ASSUME NEW k \in 1..n, NEW g
      PROVE  Held(longer, k, g) <=> Held(line, k, g) /\ g \notin d[i].drops
  <2>1. (k + 1)..(n + 1) = ((k + 1)..n) \cup {n + 1} /\ \A l \in (k + 1)..n : l \in 1..n
    BY <1>1
  <2>. QED
    BY <1>1, <2>1
<1>6. 1..(n + 1) = 1..n \cup {n + 1}
  BY <1>1
<1> HIDE DEF Held, n
<1>7. \A g : g \in Standing(d, longer) <=> (g \in Standing(d, line) /\ g \notin d[i].drops) \/ g \in ToSet(d[i].adds)
  BY <1>2, <1>3, <1>4, <1>5, <1>6
<1>. QED
  BY <1>7 DEF longer

LEMMA GuardsStand ==
  ASSUME NEW d \in Seq(Placed), Nested(d), NEW i \in DOMAIN d
  PROVE  IsInjective(Guards(d, i)) /\ ToSet(Guards(d, i)) = Standing(d, Line(d, i))
<1> DEFINE n == Len(d)
           Fine(j) == /\ Guards(d, j) \in Seq(STRING) /\ IsInjective(Guards(d, j))
                      /\ ToSet(Guards(d, j)) = Standing(d, Line(d, j))
           S == {j \in 0..n : Fine(j)}
<1>1. n \in Nat /\ DOMAIN d = 1..n /\ \A j \in 1..n : d[j] \in Placed
  BY LenProperties
<1>2. Fine(0)
  <2>1. Guards(d, 0) = <<>> /\ Line(d, 0) = <<>>
    BY GuardsGrow, LineGrows
  <2>2. ToSet(<<>>) = {} /\ IsInjective(<<>>) /\ <<>> \in Seq(STRING)
    BY DEF ToSet, IsInjective
  <2>3. Standing(d, <<>>) = {}
    BY <2>2 DEF Standing
  <2>. QED
    BY <2>1, <2>2, <2>3
<1>3. ASSUME NEW j \in 1..n, \A k \in 0..n : k < j => k \in S
      PROVE  Fine(j)
  <2>1. d[j].up \in 0..n /\ d[j].up < j
    <3>1. d[j].up \in 0..(j - 1)
      BY <1>1 DEF Nested
    <3>. QED
      BY <1>1, <3>1
  <2>2. Fine(d[j].up)
    <3> HIDE DEF Fine
    <3>. QED
      BY <1>3, <2>1
  <2>3. Guards(d, j) = FoldInto(d[j], Guards(d, d[j].up))
    BY <1>1, GuardsGrow
  <2>4. Line(d, j) = Append(Line(d, d[j].up), j) /\ Line(d, d[j].up) \in Seq(Nat) /\ j \in Nat
    <3>1. j \in Nat /\ j \in DOMAIN d
      BY <1>1
    <3>2. /\ \A h \in DOMAIN d : Line(d, h) = Append(Line(d, d[h].up), h)
          /\ \A h \in 0..n : Line(d, h) \in Seq(Nat)
      BY LineGrows
    <3>. QED
      BY <2>1, <3>1, <3>2
  <2>5. Standing(d, Line(d, j)) = (Standing(d, Line(d, d[j].up)) \ d[j].drops) \cup ToSet(d[j].adds)
    BY <2>4, StandingGrows
  <2>6. /\ Guards(d, j) \in Seq(STRING) /\ IsInjective(Guards(d, j))
        /\ ToSet(Guards(d, j)) = (ToSet(Guards(d, d[j].up)) \ d[j].drops) \cup ToSet(d[j].adds)
    BY <1>1, <2>2, <2>3, Folded
  <2>. QED
    BY <2>2, <2>5, <2>6
<1>4. \A j \in 0..n : j \in S
  <2> HIDE DEF Fine
  <2>1. ASSUME NEW j \in 0..n, \A k \in 0..n : k < j => k \in S
        PROVE  j \in S
    <3>1. CASE j = 0
      BY <1>2, <3>1
    <3>2. CASE j # 0
      <4>1. j \in 1..n
        BY <1>1, <3>2
      <4>. QED
        BY <1>3, <2>1, <4>1
    <3>. QED
      BY <3>1, <3>2
  <2> HIDE DEF S, n
  <2>. QED
    BY <1>1, <2>1, Onwards
<1>5. i \in 0..n
  BY <1>1
<1>6. Fine(i)
  <2> HIDE DEF Fine
  <2>. QED
    BY <1>4, <1>5
<1>. QED
  BY <1>6

-----------------------------------------------------------------------------
(* The builds. *)

RoutesInv ==
  /\ nodes \in Seq(Placed)
  /\ Nested(nodes)
  /\ kept = <<>> \/ \E text : kept = <<text>> /\ WrittenWhole(text)

LEMMA PageForms ==
  ASSUME NEW form \in PageForm, NEW up \in Nat
  PROVE  With(form, up) \in Placed /\ With(form, up).up = up /\ IsPage(With(form, up))
<1>1. DOMAIN form = {"ty", "adds", "drops", "keep", "restorable", "link", "fields"}
  BY RoutesAssumption
<1>. QED
  BY <1>1 DEF Placed, Form, With, IsPage

LEMMA RoutesInvInit == RoutesInit => RoutesInv
  BY DEF RoutesInit, RoutesInv, Nested

LEMMA DeclareKeepsRoutes ==
  ASSUME RoutesInv, NEW form \in Form, Declare(form)
  PROVE  RoutesInv'
<1>1. PICK up \in {0} \cup (IF nodes = <<>> THEN {} ELSE ToSet(Line(nodes, Len(nodes)))) :
        (up # 0 => ~IsPage(nodes[up])) /\ nodes' = Append(nodes, With(form, up))
  BY DEF Declare
<1>2. nodes \in Seq(Placed) /\ Nested(nodes) /\ kept' = kept
  BY DEF RoutesInv, Declare
<1>3. Len(nodes) \in Nat /\ DOMAIN nodes = 1..Len(nodes)
  BY <1>2, LenProperties
<1>4. up \in 0..Len(nodes)
  <2>1. CASE up = 0
    BY <1>3, <2>1
  <2>2. CASE up # 0
    <3>1. nodes # <<>> /\ up \in ToSet(Line(nodes, Len(nodes)))
      BY <1>1, <2>2
    <3>2. Len(nodes) \in DOMAIN nodes
      BY <1>2, <1>3, <3>1, EmptySeq
    <3>3. PICK k \in DOMAIN Line(nodes, Len(nodes)) : up = Line(nodes, Len(nodes))[k]
      BY <3>1 DEF ToSet
    <3>4. k \in 1..Len(Line(nodes, Len(nodes)))
      BY <1>2, <3>2, <3>3, LineOfLines, LenProperties
    <3>5. up \in DOMAIN nodes
      BY <1>2, <3>2, <3>3, <3>4, LineOfLines
    <3>. QED
      BY <1>3, <3>5
  <2>. QED
    BY <2>1, <2>2
<1>5. With(form, up) \in Placed /\ With(form, up).up = up
  <2>1. up \in Nat
    BY <1>3, <1>4
  <2>. QED
    BY <2>1 DEF Placed, With
<1>6. /\ nodes' \in Seq(Placed) /\ DOMAIN nodes' = 1..(Len(nodes) + 1)
      /\ nodes'[Len(nodes) + 1] = With(form, up)
      /\ \A j \in 1..Len(nodes) : nodes'[j] = nodes[j]
  BY <1>1, <1>2, <1>3, <1>5, AppendProperties, LenProperties
<1>7. ASSUME NEW j \in DOMAIN nodes'
      PROVE  nodes'[j].up \in 0..(j - 1) /\ (nodes'[j].up # 0 => ~IsPage(nodes'[nodes'[j].up]))
  <2>1. CASE j = Len(nodes) + 1
    <3>1. nodes'[j].up = up /\ up \in 0..(j - 1)
      BY <1>3, <1>4, <1>5, <1>6, <2>1
    <3>2. up # 0 => nodes'[up] = nodes[up]
      BY <1>3, <1>4, <1>6
    <3>. QED
      BY <1>1, <3>1, <3>2
  <2>2. CASE j # Len(nodes) + 1
    <3>1. j \in 1..Len(nodes) /\ nodes'[j] = nodes[j]
      BY <1>3, <1>6, <2>2
    <3>2. nodes[j].up \in 0..(j - 1) /\ (nodes[j].up # 0 => ~IsPage(nodes[nodes[j].up]))
      BY <1>2, <1>3, <3>1 DEF Nested
    <3>3. nodes[j].up # 0 => nodes'[nodes[j].up] = nodes[nodes[j].up]
      <4>1. nodes[j].up # 0 => nodes[j].up \in 1..Len(nodes)
        BY <1>3, <3>1, <3>2
      <4>. QED
        BY <1>6, <4>1
    <3>. QED
      BY <3>1, <3>2, <3>3
  <2>. QED
    BY <2>1, <2>2
<1>. QED
  BY <1>2, <1>6, <1>7 DEF RoutesInv, Nested

LEMMA RedeclareKeepsRoutes ==
  ASSUME RoutesInv, NEW i \in DOMAIN nodes, NEW form \in PageForm, Redeclare(i, form)
  PROVE  RoutesInv'
<1>1. nodes \in Seq(Placed) /\ Nested(nodes) /\ kept' = kept /\ nodes[i] \in Placed /\ nodes[i].up \in Nat
  BY PlacedForms DEF RoutesInv, Redeclare
<1> DEFINE new == With(form, nodes[i].up)
<1>2. nodes' = [nodes EXCEPT ![i] = new] /\ IsPage(nodes[i])
  BY DEF Redeclare
<1>3. new \in Placed /\ new.up = nodes[i].up /\ IsPage(new)
  BY <1>1, PageForms
<1> HIDE DEF new
<1>4. /\ nodes' \in Seq(Placed) /\ DOMAIN nodes' = DOMAIN nodes
      /\ \A j \in DOMAIN nodes : nodes'[j] = IF j = i THEN new ELSE nodes[j]
  BY <1>1, <1>2, <1>3, ExceptSeq
<1>5. \A j \in DOMAIN nodes : nodes'[j].up = nodes[j].up /\ (IsPage(nodes'[j]) <=> IsPage(nodes[j]))
  BY <1>2, <1>3, <1>4
<1>6. \A j \in DOMAIN nodes : nodes[j].up # 0 => nodes[j].up \in DOMAIN nodes
  <2>1. DOMAIN nodes = 1..Len(nodes) /\ Len(nodes) \in Nat
    BY <1>1, LenProperties
  <2>2. \A j \in DOMAIN nodes : nodes[j].up \in 0..(j - 1)
    BY <1>1 DEF Nested
  <2>. QED
    BY <2>1, <2>2
<1>7. Nested(nodes')
  BY <1>1, <1>4, <1>5, <1>6 DEF Nested
<1>. QED
  BY <1>1, <1>4, <1>7 DEF RoutesInv

LEMMA MoveKeepsRoutes ==
  ASSUME RoutesInv, NEW i \in DOMAIN nodes, Move(i)
  PROVE  RoutesInv'
<1>1. /\ nodes \in Seq(Placed) /\ Nested(nodes) /\ kept' = kept
      /\ i + 1 \in DOMAIN nodes /\ IsPage(nodes[i]) /\ IsPage(nodes[i + 1])
      /\ nodes[i].up = nodes[i + 1].up
      /\ nodes' = [nodes EXCEPT ![i] = nodes[i + 1], ![i + 1] = nodes[i]]
  BY DEF RoutesInv, Move
<1>2. DOMAIN nodes = 1..Len(nodes) /\ Len(nodes) \in Nat
  BY <1>1, LenProperties
<1>3. nodes[i] \in Placed /\ nodes[i + 1] \in Placed
  BY <1>1
<1>4. /\ nodes' \in Seq(Placed) /\ DOMAIN nodes' = DOMAIN nodes
      /\ \A j \in DOMAIN nodes : nodes'[j] = IF j = i + 1 THEN nodes[i] ELSE IF j = i THEN nodes[i + 1] ELSE nodes[j]
  <2> DEFINE one == [nodes EXCEPT ![i] = nodes[i + 1]]
  <2>1. one \in Seq(Placed) /\ DOMAIN one = DOMAIN nodes
    BY <1>1, <1>3, ExceptSeq
  <2>2. \A j \in DOMAIN nodes : one[j] = IF j = i THEN nodes[i + 1] ELSE nodes[j]
    OBVIOUS
  <2>3. nodes' = [one EXCEPT ![i + 1] = nodes[i]]
    BY <1>1
  <2> HIDE DEF one
  <2>4. nodes' \in Seq(Placed) /\ DOMAIN nodes' = DOMAIN nodes
    BY <1>1, <1>3, <2>1, <2>3, ExceptSeq
  <2>. QED
    BY <2>1, <2>2, <2>3, <2>4
<1>5. \A j \in DOMAIN nodes : nodes'[j].up = nodes[j].up /\ (IsPage(nodes'[j]) <=> IsPage(nodes[j]))
  BY <1>1, <1>4
<1>6. \A j \in DOMAIN nodes : nodes[j].up \in 0..(j - 1) /\ (nodes[j].up # 0 => nodes[j].up \in DOMAIN nodes)
  <2>1. \A j \in DOMAIN nodes : nodes[j].up \in 0..(j - 1)
    BY <1>1 DEF Nested
  <2>. QED
    BY <1>2, <2>1
<1>7. Nested(nodes')
  BY <1>1, <1>4, <1>5, <1>6 DEF Nested
<1>. QED
  BY <1>1, <1>4, <1>7 DEF RoutesInv

LEMMA LeaveKeepsRoutes ==
  ASSUME RoutesInv, NEW r \in RoutesOf(nodes), Leave(r)
  PROVE  RoutesInv'
<1>1. nodes' = nodes /\ kept' = Save(nodes, r) /\ kept' # <<>>
  BY DEF Leave
<1>2. \E text : kept' = <<text>> /\ WrittenWhole(text)
  BY <1>1, SavedWhole DEF RoutesInv
<1>. QED
  BY <1>1, <1>2 DEF RoutesInv

LEMMA RoutesInvNext == RoutesInv /\ [RoutesNext]_routesVars => RoutesInv'
<1> SUFFICES ASSUME RoutesInv, [RoutesNext]_routesVars
             PROVE  RoutesInv'
  OBVIOUS
<1>1. ASSUME NEW form \in LayoutForm \cup PageForm, Declare(form)
      PROVE  RoutesInv'
  BY <1>1, DeclareKeepsRoutes DEF Form
<1>2. ASSUME NEW i \in DOMAIN nodes, Move(i)
      PROVE  RoutesInv'
  BY <1>2, MoveKeepsRoutes
<1>3. ASSUME NEW i \in DOMAIN nodes, NEW form \in PageForm, Redeclare(i, form)
      PROVE  RoutesInv'
  BY <1>3, RedeclareKeepsRoutes
<1>4. ASSUME NEW r \in RoutesOf(nodes), Leave(r)
      PROVE  RoutesInv'
  BY <1>4, LeaveKeepsRoutes
<1>5. CASE UNCHANGED routesVars
  BY <1>5 DEF RoutesInv, routesVars
<1>. QED
  BY <1>1, <1>2, <1>3, <1>4, <1>5 DEF RoutesNext

LEMMA RoutesInvariant == RoutesSpec => []RoutesInv
<1>. QED
  BY RoutesInvInit, RoutesInvNext, PTL DEF RoutesSpec

THEOREM SavedComeBack == RoutesSpec => []SavedRoutesComeBack
<1>1. ASSUME RoutesInv
      PROVE  SavedRoutesComeBack
  <2>1. nodes \in Seq(Placed)
    BY <1>1 DEF RoutesInv
  <2>2. ASSUME Accepted(nodes), NEW r \in RoutesOf(nodes), Restorable(nodes, r.page)
        PROVE  Restore(nodes, Save(nodes, r)[1]) = <<r>>
    BY <2>1, <2>2, SavedRouteComesBack DEF Accepted
  <2>3. ASSUME kept # <<>>, Restore(nodes, kept[1]) # <<>>
        PROVE  LET r == Restore(nodes, kept[1])[1]
               IN /\ r \in RoutesOf(nodes)
                  /\ nodes[r.page].ty = kept[1].route
                  /\ DOMAIN r.values \subseteq DOMAIN kept[1].fields
                  /\ \A name \in DOMAIN r.values :
                       <<r.values[name]>> = FromValue[FieldOf(nodes[r.page], name).ty][kept[1].fields[name]]
    <3>1. WrittenWhole(kept[1])
      BY <1>1, <2>3 DEF RoutesInv
    <3>. QED
      BY <2>1, <2>3, <3>1, RestoredIsWhole
  <2>. QED
    BY <2>2, <2>3 DEF SavedRoutesComeBack
<1>. QED
  BY <1>1, RoutesInvariant, PTL

THEOREM LayoutsHold == RoutesSpec => []LayoutsHoldEverywhere
<1>1. ASSUME RoutesInv
      PROVE  LayoutsHoldEverywhere
  <2>1. nodes \in Seq(Placed) /\ Nested(nodes)
    BY <1>1 DEF RoutesInv
  <2>2. ASSUME Accepted(nodes), NEW i \in Leaves(nodes), NEW k \in DOMAIN Above(nodes, i)
        PROVE  /\ StandsUnder(nodes, Above(nodes, i)[k]) = SubSeq(Above(nodes, i), 1, k - 1)
               /\ LayoutParams(nodes, Above(nodes, i)[k]) \subseteq {f \in ToSet(nodes[i].fields) : f.identity}
    BY <2>1, <2>2, LayoutHolds DEF Accepted
  <2>. QED
    BY <2>2 DEF LayoutsHoldEverywhere
<1>. QED
  BY <1>1, RoutesInvariant, PTL

THEOREM GuardsStandAsDeclared == RoutesSpec => []GuardsAsDeclared
<1>1. ASSUME RoutesInv
      PROVE  GuardsAsDeclared
  <2>1. nodes \in Seq(Placed) /\ Nested(nodes)
    BY <1>1 DEF RoutesInv
  <2>2. ASSUME NEW i \in Leaves(nodes)
        PROVE  IsInjective(Guards(nodes, i)) /\ ToSet(Guards(nodes, i)) = Standing(nodes, Line(nodes, i))
    BY <2>1, GuardsStand DEF Leaves
  <2>. QED
    BY <2>2 DEF GuardsAsDeclared, Standing
<1>. QED
  BY <1>1, RoutesInvariant, PTL
=============================================================================

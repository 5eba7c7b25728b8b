---------------------------- MODULE RouterProofs ----------------------------
(***************************************************************************)
(* What holds of a router for any routes, any chains and any cache, however *)
(* many navigations there are.                                             *)
(***************************************************************************)
EXTENDS Router, FiniteSetTheorems, SequenceTheorems, TLAPS

(***************************************************************************)
(* What the state is made of                                               *)
(***************************************************************************)
SegmentType == [seg : STRING, param : Nat]
Chains == {Chain[r] : r \in Route} \cup {<<>>}

StoodType == [chain : Chains, scopes : Seq(ScopeId), again : BOOLEAN]
FrameType ==
  [nav : Call,
   at : {"enter", "leave", "commit", "leaving", "building", "waking", "woken", "telling"},
   ok : BOOLEAN, scopes : Seq(ScopeId), floor : Nat, old : StoodType, next : Nat]
CallType ==
  [route : Route, step : {"start", "to", "back", "forward", "activate"},
   leaving : Route \cup {Nowhere}, shared : Nat, asked : SUBSET ScopeId]
ScopeType == [line : Seq(ScopeId), made : Segments, states : SUBSET Segments, awake : BOOLEAN]
AsleepType == [scope : ScopeId, param : Nat]
EntryType == [place : Places, param : Nat, from : Segments]

\* A function from some of S to T.
Partial(f, S, T) == DOMAIN f \subseteq S /\ f \in [DOMAIN f -> T]

ChainTypes ==
  /\ active \in StoodType
  /\ prevRoute \in Route \cup {Nowhere} /\ told \in Route \cup {Nowhere}
ScopeTypes ==
  /\ Partial(scope, ScopeId, ScopeType)
  /\ Partial(sleeping, Places, AsleepType)
CacheTypes == cache \in Seq(EntryType) /\ Len(cache) <= MaxCached
CallTypes ==
  /\ Partial(calls, Call, CallType)
  /\ generation \in 0..MaxNavigations
  /\ pending \in 0..MaxNavigations /\ held \in 0..MaxNavigations
  /\ asking \subseteq 0..MaxNavigations /\ drawing \in BOOLEAN
HistTypes == hist \in [back : Seq(Route), forward : Seq(Route)]
StackTypes == stack \in Seq(FrameType)
Types == ChainTypes /\ ScopeTypes /\ CacheTypes /\ CallTypes /\ HistTypes /\ StackTypes

\* A frame's chain and scopes go together, as far as it has come.
Shaped(f, n) ==
  /\ Len(f.old.scopes) = Len(f.old.chain)
  /\ f.at = "leaving" => Len(f.scopes) = Len(f.old.chain)
  /\ f.at \in {"leaving", "building"} =>
       /\ f.floor <= Len(f.scopes)
       /\ f.floor <= Len(f.old.chain)
       /\ f.floor <= n
  /\ f.at = "building" => Len(f.scopes) <= IF f.ok THEN n ELSE Len(f.old.chain)
RouteLen(n) == Len(Chain[calls[n].route])
Shapes ==
  /\ Len(active.scopes) = Len(active.chain)
  /\ \A f \in DOMAIN stack, n \in DOMAIN calls : stack[f].nav = n => Shaped(stack[f], RouteLen(n))
  /\ \A n \in DOMAIN calls : calls[n].shared <= RouteLen(n)

\* No two of what is under way, parked and held are one navigation.
Apart ==
  /\ \A f, g \in DOMAIN stack : f # g => stack[f].nav # stack[g].nav
  /\ \A f \in DOMAIN stack : stack[f].nav \in DOMAIN calls /\ stack[f].nav \notin {pending, held}
  /\ pending # NoCall => pending \in DOMAIN calls /\ pending # held
  /\ held # NoCall => held \in DOMAIN calls
  /\ DOMAIN calls \subseteq 1..generation \cup {Activation}
  /\ \A f \in DOMAIN stack : stack[f].at \in {"enter", "leave"} => stack[f].nav # Activation

BaseInv == Types /\ Shapes /\ Apart

(***************************************************************************)
(* Sequences and sets                                                      *)
(***************************************************************************)

\* A set of numbers that has with each all below is that of the first so many.
LEMMA InitialSegment ==
  ASSUME NEW n \in Nat, NEW S \in SUBSET (1..n), \A i \in S : 1..i \subseteq S
  PROVE  Cardinality(S) \in 0..n /\ S = 1..Cardinality(S)
<1>1. IsFiniteSet(1..n) /\ Cardinality(1..n) = n
  BY FS_Interval
<1>2. IsFiniteSet(S) /\ Cardinality(S) <= n /\ Cardinality(S) \in Nat
  BY <1>1, FS_Subset, FS_CardinalityType
<1>3. \E k \in 0..n : S = 1..k
  <2> DEFINE P == {m \in Nat : m + 1 \notin S}
  <2>1. n \in P
    BY SMT
  <2>2. \E m \in P : \A l \in P : ~(<<l, m>> \in OpToRel(<, Nat))
    BY <2>1, WFMin, NatLessThanWellFounded
  <2>3. PICK m \in P : \A l \in P : ~(l < m)
    BY <2>2 DEF OpToRel
  <2>4. \A l \in 0..(m - 1) : l + 1 \in S
    BY <2>3
  <2>5. 1..m \subseteq S
    <3>1. SUFFICES ASSUME NEW i \in 1..m PROVE i \in S
      OBVIOUS
    <3>2. (i - 1) + 1 \in S
      BY <2>4
    <3> QED
      BY <3>2
  <2>6. S \subseteq 1..m
    <3>1. SUFFICES ASSUME NEW i \in S, i > m PROVE FALSE
      BY SMT
    <3>2. m + 1 \in 1..i
      BY <3>1
    <3> QED
      BY <3>1, <3>2
  <2>7. m <= n
    BY <2>3, <2>1
  <2>8. S = 1..m /\ m \in 0..n
    <3>1. S = 1..m
      BY <2>5, <2>6
    <3>2. m \in 0..n
      BY <2>7
    <3> QED
      BY <3>1, <3>2
  <2> QED
    BY <2>8
<1>4. PICK k \in 0..n : S = 1..k
  BY <1>3
<1>5. Cardinality(1..k) = k
  BY FS_Interval
<1> QED
  BY <1>2, <1>4, <1>5

\* The first n of a sequence.
LEMMA Beginning ==
  ASSUME NEW T, NEW s \in Seq(T), NEW n \in 0..Len(s)
  PROVE  /\ SubSeq(s, 1, n) \in Seq(T) /\ Len(SubSeq(s, 1, n)) = n
         /\ \A i \in 1..n : SubSeq(s, 1, n)[i] = s[i]
<1>1. n \in Nat /\ \A i \in 1..n : s[i] \in T
  OBVIOUS
<1>2. /\ SubSeq(s, 1, n) \in Seq(T)
      /\ Len(SubSeq(s, 1, n)) = IF 1 <= n THEN n - 1 + 1 ELSE 0
      /\ \A i \in 1..(n - 1 + 1) : SubSeq(s, 1, n)[i] = s[1 + i - 1]
  BY <1>1, SubSeqProperties
<1>3. \A i \in 1..n : i \in 1..(n - 1 + 1) /\ 1 + i - 1 = i
  BY <1>1
<1>4. n = IF 1 <= n THEN n - 1 + 1 ELSE 0
  BY <1>1
<1> QED
  BY <1>2, <1>3, <1>4

LEMMA ChainsAreSequences ==
  ASSUME NEW c \in Chains
  PROVE  c \in Seq(SegmentType)
<1>1. CASE c = <<>>
  BY <1>1
<1>2. CASE \E r \in Route : c = Chain[r]
  BY <1>2, RouterAssumption DEF SegmentType
<1> QED
  BY <1>1, <1>2 DEF Chains

LEMMA RoutesHaveChains ==
  ASSUME NEW r \in Route
  PROVE  Chain[r] \in Chains /\ Chain[r] \in Seq(SegmentType) /\ Chain[r] # <<>>
BY RouterAssumption DEF Chains, SegmentType

\* What a navigation keeps of the chain that stands is the same in both.
LEMMA SharedIsCommon ==
  ASSUME ChainTypes, NEW c \in Chains
  PROVE  /\ SharedLen(c) \in Nat /\ SharedLen(c) <= Len(c) /\ SharedLen(c) <= Len(active.chain)
         /\ \A i \in 1..SharedLen(c) : active.chain[i] = c[i]
<1> DEFINE S == {i \in DOMAIN c : \A j \in 1..i : j \in DOMAIN active.chain /\ active.chain[j] = c[j]}
<1>1. c \in Seq(SegmentType) /\ active.chain \in Seq(SegmentType)
  BY ChainsAreSequences DEF ChainTypes, StoodType
<1>2. S \in SUBSET (1..Len(c)) /\ \A i \in S : 1..i \subseteq S
  BY <1>1
<1>3. Cardinality(S) \in 0..Len(c) /\ S = 1..Cardinality(S)
  BY <1>1, <1>2, InitialSegment
<1>4. SharedLen(c) = Cardinality(S)
  BY DEF SharedLen
<1>5. \A i \in 1..Cardinality(S) : i \in DOMAIN active.chain /\ active.chain[i] = c[i]
  <2>1. SUFFICES ASSUME NEW i \in 1..Cardinality(S) PROVE i \in DOMAIN active.chain /\ active.chain[i] = c[i]
    OBVIOUS
  <2>2. i \in S
    BY <1>3
  <2>3. i \in 1..i
    BY <1>1, <2>2
  <2> QED
    BY <2>2, <2>3
<1>6. Cardinality(S) <= Len(active.chain)
  <2>1. CASE Cardinality(S) = 0
    BY <1>1, <2>1
  <2>2. CASE Cardinality(S) # 0
    <3>1. Cardinality(S) \in 1..Cardinality(S)
      BY <1>1, <1>3, <2>2
    <3>2. Cardinality(S) \in DOMAIN active.chain
      BY <1>5, <3>1
    <3> HIDE DEF S
    <3> QED
      BY <1>1, <3>2
  <2> QED
    BY <2>1, <2>2
<1> HIDE DEF S
<1> QED
  BY <1>1, <1>3, <1>4, <1>5, <1>6

LEMMA KeptIsNatural ==
  ASSUME NEW c \in Chains, NEW n \in Nat
  PROVE  KeptUntil(c, n) \in Nat /\ KeptUntil(c, n) >= n
<1> DEFINE S == {i \in DOMAIN c : i > n /\ \A j \in (n + 1)..i : c[j].seg \in Keep}
<1>1. S \in SUBSET (1..Len(c)) /\ Len(c) \in Nat
  BY ChainsAreSequences
<1>2. IsFiniteSet(1..Len(c))
  BY <1>1, FS_Interval
<1>3. Cardinality(S) \in Nat
  BY <1>1, <1>2, FS_Subset, FS_CardinalityType
<1> HIDE DEF S
<1>4. KeptUntil(c, n) = n + Cardinality(S)
  BY DEF KeptUntil, S
<1> QED
  BY <1>3, <1>4

(***************************************************************************)
(* The stack                                                               *)
(***************************************************************************)
LEMMA FrontOf ==
  ASSUME NEW T, NEW s \in Seq(T), s # <<>>
  PROVE  /\ Len(s) \in Nat \ {0}
         /\ Front(s) \in Seq(T) /\ Len(Front(s)) = Len(s) - 1
         /\ \A i \in 1..(Len(s) - 1) : Front(s)[i] = s[i]
<1>1. Len(s) \in Nat \ {0}
  OBVIOUS
<1>2. Len(s) - 1 \in 0..Len(s)
  BY <1>1
<1> QED
  BY <1>1, <1>2, Beginning DEF Front

LEMMA TheRunning ==
  ASSUME StackTypes, ~Idle
  PROVE  /\ Len(stack) \in Nat \ {0} /\ Len(stack) \in DOMAIN stack
         /\ Running = stack[Len(stack)] /\ Running \in FrameType
BY DEF StackTypes, Idle, Running, Last

LEMMA GoingOn ==
  ASSUME StackTypes, ~Idle, NEW g \in FrameType, Goes(g)
  PROVE  /\ StackTypes' /\ ~Idle' /\ Running' = g
         /\ DOMAIN stack' = DOMAIN stack /\ Len(stack') = Len(stack)
         /\ stack' = [stack EXCEPT ![Len(stack)] = g]
<1>1. stack \in Seq(FrameType) /\ stack # <<>> /\ Len(stack) \in Nat \ {0}
  BY TheRunning DEF StackTypes, Idle
<1>2. Callers \in Seq(FrameType) /\ Len(Callers) = Len(stack) - 1
      /\ \A i \in 1..(Len(stack) - 1) : Callers[i] = stack[i]
  BY <1>1, FrontOf DEF Callers
<1>3. stack' = Append(Callers, g)
  BY DEF Goes
<1>4. stack' \in Seq(FrameType) /\ Len(stack') = Len(stack) /\ stack'[Len(stack)] = g
      /\ \A i \in 1..(Len(stack) - 1) : stack'[i] = stack[i]
  BY <1>1, <1>2, <1>3
<1>5. stack' = [stack EXCEPT ![Len(stack)] = g]
  <2>1. DOMAIN stack' = 1..Len(stack) /\ DOMAIN stack = 1..Len(stack)
    BY <1>1, <1>4
  <2>2. \A i \in 1..Len(stack) : stack'[i] = IF i = Len(stack) THEN g ELSE stack[i]
    BY <1>1, <1>4
  <2>3. stack' = [i \in 1..Len(stack) |-> stack'[i]] /\ stack = [i \in 1..Len(stack) |-> stack[i]]
    BY <1>1, <1>4
  <2> QED
    BY <2>1, <2>2, <2>3
<1>6. ~Idle' /\ Running' = g
  BY <1>1, <1>4 DEF Idle, Running, Last
<1> QED
  BY <1>1, <1>4, <1>5, <1>6 DEF StackTypes

LEMMA GoingBack ==
  ASSUME StackTypes, ~Idle, Returns
  PROVE  /\ StackTypes' /\ Len(stack') = Len(stack) - 1
         /\ DOMAIN stack' = DOMAIN stack \ {Len(stack)}
         /\ \A i \in DOMAIN stack' : stack'[i] = stack[i]
<1>1. stack \in Seq(FrameType) /\ stack # <<>> /\ Len(stack) \in Nat \ {0}
  BY TheRunning DEF StackTypes, Idle
<1>2. stack' \in Seq(FrameType) /\ Len(stack') = Len(stack) - 1
      /\ \A i \in 1..(Len(stack) - 1) : stack'[i] = stack[i]
  BY <1>1, FrontOf DEF Returns, Callers
<1>3. DOMAIN stack' = 1..(Len(stack) - 1) /\ DOMAIN stack = 1..Len(stack)
  BY <1>1, <1>2
<1> QED
  BY <1>1, <1>2, <1>3 DEF StackTypes

LEMMA GoingIn ==
  ASSUME StackTypes, NEW g \in FrameType, stack' = Append(stack, g)
  PROVE  /\ StackTypes' /\ ~Idle' /\ Running' = g
         /\ Len(stack') = Len(stack) + 1 /\ Len(stack) \in Nat
         /\ DOMAIN stack' = DOMAIN stack \cup {Len(stack')}
         /\ \A i \in DOMAIN stack : i # Len(stack') /\ stack'[i] = stack[i]
         /\ stack'[Len(stack')] = g
<1>1. stack \in Seq(FrameType) /\ Len(stack) \in Nat
  BY DEF StackTypes
<1>2. stack' \in Seq(FrameType) /\ Len(stack') = Len(stack) + 1 /\ stack'[Len(stack')] = g
      /\ \A i \in 1..Len(stack) : stack'[i] = stack[i]
  BY <1>1
<1>3. DOMAIN stack' = 1..(Len(stack) + 1) /\ DOMAIN stack = 1..Len(stack)
  BY <1>1, <1>2
<1>4. ~Idle' /\ Running' = g
  BY <1>1, <1>2 DEF Idle, Running, Last
<1> QED
  BY <1>1, <1>2, <1>3, <1>4 DEF StackTypes

(***************************************************************************)
(* What the running call is about                                          *)
(***************************************************************************)
LEMMA SegmentsOf ==
  ASSUME NEW c \in Chains, NEW i \in DOMAIN c
  PROVE  /\ Segment(c, i) \in Segments /\ Place(c, i) \in Places /\ c[i].param \in Nat
         /\ Segment(c, i).place = Place(c, i) /\ Segment(c, i).param = c[i].param
<1>1. PICK r \in Route : c = Chain[r]
  BY DEF Chains
<1>2. Segment(c, i) \in Segments
  BY <1>1 DEF Segments
<1>3. Segment(c, i).place = Place(c, i) /\ Segment(c, i).param = c[i].param
  BY DEF Segment
<1>4. Place(c, i) \in Places
  BY <1>2, <1>3 DEF Places
<1>5. c[i] \in SegmentType
  BY ChainsAreSequences
<1> QED
  BY <1>2, <1>3, <1>4, <1>5 DEF SegmentType

LEMMA TheCall ==
  ASSUME BaseInv, ~Idle
  PROVE  /\ Running \in FrameType
         /\ Running.nav \in DOMAIN calls /\ calls[Running.nav] \in CallType
         /\ Running.nav # pending /\ Running.nav # held
         /\ Running.nav \in 1..generation \cup {Activation}
         /\ Running.at \in {"enter", "leave"} => Running.nav \in 1..generation
         /\ Shared(Running.nav) \in Nat
         /\ Shaped(Running, RouteLen(Running.nav))
         /\ calls[Running.nav].shared <= RouteLen(Running.nav)
<1>1. /\ Running = stack[Len(stack)] /\ Len(stack) \in DOMAIN stack /\ Running \in FrameType
  BY TheRunning DEF BaseInv, Types
<1>2. /\ Running.nav \in DOMAIN calls /\ Running.nav \notin {pending, held}
      /\ Running.nav \in 1..generation \cup {Activation}
      /\ Running.at \in {"enter", "leave"} => Running.nav # Activation
      /\ Shaped(Running, RouteLen(Running.nav))
      /\ calls[Running.nav].shared <= RouteLen(Running.nav)
  BY <1>1 DEF BaseInv, Apart, Shapes
<1>3. calls[Running.nav] \in CallType
  BY <1>2 DEF BaseInv, Types, CallTypes, Partial
<1>4. Shared(Running.nav) \in Nat
  BY <1>3 DEF Shared, CallType
<1> QED
  BY <1>1, <1>2, <1>3, <1>4

LEMMA TheTarget ==
  ASSUME BaseInv, ~Idle
  PROVE  /\ Target(Running) \in Chains
         /\ Len(Target(Running)) = IF Running.ok THEN RouteLen(Running.nav) ELSE Len(Running.old.chain)
<1>1. Running \in FrameType /\ calls[Running.nav] \in CallType
  BY TheCall
<1>2. calls[Running.nav].route \in Route /\ Running.old \in StoodType
  BY <1>1 DEF CallType, FrameType
<1>3. Chain[calls[Running.nav].route] \in Chains /\ Running.old.chain \in Chains
  BY <1>2, RoutesHaveChains DEF StoodType
<1> QED
  BY <1>3 DEF Target, RouteLen

\* What is built next, and where.
LEMMA TheNext ==
  ASSUME BaseInv, Building
  PROVE  /\ ~Idle /\ Running.at = "building"
         /\ NextIndex \in Nat \ {0} /\ NextIndex = Len(Running.scopes) + 1
         /\ NextIndex <= Len(Target(Running)) /\ NextIndex \in DOMAIN Target(Running)
         /\ Segment(Target(Running), NextIndex) \in Segments
         /\ Segment(Target(Running), NextIndex) = [place |-> NextPlace, param |-> Target(Running)[NextIndex].param]
         /\ NextPlace \in Places /\ NextPlace = Place(Target(Running), NextIndex)
         /\ Target(Running)[NextIndex].param \in Nat
<1>1. Running \in FrameType /\ Target(Running) \in Chains /\ ~Idle /\ Running.at = "building"
      /\ NextIndex \in DOMAIN Target(Running)
  BY TheCall, TheTarget DEF Building
<1>2. NextIndex = Len(Running.scopes) + 1 /\ Len(Running.scopes) \in Nat
  BY <1>1 DEF NextIndex, FrameType
<1>3. NextIndex <= Len(Target(Running))
  BY <1>1, <1>2, ChainsAreSequences
<1>4. /\ Segment(Target(Running), NextIndex) \in Segments
      /\ Place(Target(Running), NextIndex) \in Places
      /\ Target(Running)[NextIndex].param \in Nat
  BY <1>1, SegmentsOf
<1> QED
  BY <1>1, <1>2, <1>3, <1>4 DEF NextPlace, Segment

\* Who sleeps there, if anybody.
LEMMA TheSleeper ==
  ASSUME BaseInv, Building
  PROVE  /\ Sleeper \subseteq ScopeId
         /\ Sleeper # {} => /\ NextPlace \in DOMAIN sleeping /\ sleeping[NextPlace] \in AsleepType
                            /\ Sleeper = {sleeping[NextPlace].scope}
         /\ Sleeper = {} => NextPlace \notin DOMAIN sleeping
<1>1. \A k \in DOMAIN sleeping : sleeping[k] \in AsleepType
  BY DEF BaseInv, Types, ScopeTypes, Partial
<1>2. CASE NextPlace \in DOMAIN sleeping
  <2>1. Sleeper = {sleeping[NextPlace].scope}
    BY <1>2 DEF Sleeper
  <2> QED
    BY <1>1, <1>2, <2>1 DEF AsleepType
<1>3. CASE NextPlace \notin DOMAIN sleeping
  <2>1. Sleeper = {}
    BY <1>3 DEF Sleeper
  <2> QED
    BY <1>3, <2>1
<1> QED
  BY <1>2, <1>3

LEMMA Unused ==
  ASSUME ScopeId \ Named # {}
  PROVE  /\ FreshScope \in ScopeId /\ FreshScope \notin DOMAIN scope
         /\ FreshScope \notin ToSet(active.scopes)
         /\ \A f \in DOMAIN stack : FreshScope \notin ToSet(stack[f].scopes)
         /\ \A k \in DOMAIN sleeping : sleeping[k].scope # FreshScope
<1>1. \E s \in ScopeId : s \notin Named
  OBVIOUS
<1>2. FreshScope \in ScopeId /\ FreshScope \notin Named
  BY <1>1 DEF FreshScope
<1>3. /\ DOMAIN scope \subseteq Named /\ ToSet(active.scopes) \subseteq Named
      /\ \A f \in DOMAIN stack : ToSet(stack[f].scopes) \subseteq Named
      /\ \A k \in DOMAIN sleeping : sleeping[k].scope \in Named
  BY DEF Named
<1> QED
  BY <1>2, <1>3

LEMMA Floors ==
  ASSUME NEW a \in Nat, NEW b \in Nat
  PROVE  Least(a, b) \in Nat /\ Least(a, b) <= a /\ Least(a, b) <= b
BY DEF Least

(***************************************************************************)
(* The kinds of steps                                                      *)
(***************************************************************************)
Histories == [back : Seq(Route), forward : Seq(Route)]
Navigates ==
  /\ Idle \/ CalledBack
  /\ \E step \in {"start", "to", "back", "forward"}, r \in Route, h \in Histories :
       NavigateThen(step, r, h) /\ (step = "start" => generation = 0)

LEMMA StepsBackAndForth ==
  ASSUME Types
  PROVE  /\ \A r \in Route : Start(r) \/ To(r) => Navigates
         /\ Back \/ Forward => Navigates
<1>1. hist \in Histories
  BY DEF Types, HistTypes, Histories
<1>2. ASSUME NEW r \in Route, Start(r) \/ To(r) PROVE Navigates
  BY <1>1, <1>2 DEF Start, To, Navigates
<1>3. hist.back \in Seq(Route) /\ hist.forward \in Seq(Route)
  BY <1>1 DEF Histories
<1>4. Leaving \in Seq(Route)
  BY DEF Leaving, Types, ChainTypes
<1>5. ASSUME Back PROVE Navigates
  <2>1. Last(hist.back) \in Route /\ Front(hist.back) \in Seq(Route)
    BY <1>3, <1>5, FrontOf DEF Back, Last
  <2>2. [back |-> Front(hist.back), forward |-> hist.forward \o Leaving] \in Histories
    BY <1>3, <1>4, <2>1 DEF Histories
  <2> QED
    BY <1>5, <2>1, <2>2 DEF Back, MayStep, Navigates
<1>6. ASSUME Forward PROVE Navigates
  <2>1. Last(hist.forward) \in Route /\ Front(hist.forward) \in Seq(Route)
    BY <1>3, <1>6, FrontOf DEF Forward, Last
  <2>2. [back |-> hist.back \o Leaving, forward |-> Front(hist.forward)] \in Histories
    BY <1>3, <1>4, <2>1 DEF Histories
  <2> QED
    BY <1>6, <2>1, <2>2 DEF Forward, MayStep, Navigates
<1> QED
  BY <1>2, <1>5, <1>6

LEMMA Steps ==
  ASSUME Types, Next
  PROVE  \/ EnterAllowed \/ LeaveAllowed \/ Block \/ Ask
         \/ Take \/ Snapshot \/ LeaveChain
         \/ TakeSleeper \/ Install \/ Rollback \/ GiveUp \/ Stand
         \/ Wake \/ Arrive \/ FallBack \/ Tell
         \/ Navigates
         \/ \E r \in Route : Activate(r)
         \/ \E n \in asking, allowed \in BOOLEAN : Answer(n, allowed)
         \/ BeginFrame \/ EndFrame \/ Deactivate
BY StepsBackAndForth DEF Next, Run

(***************************************************************************)
(* Types are kept                                                          *)
(***************************************************************************)
LEMMA NewFrames ==
  ASSUME NEW n \in Call
  PROVE  Frame(n, "enter") \in FrameType /\ Frame(n, "commit") \in FrameType
BY DEF Frame, FrameType, NoChain, StoodType, Chains

LEMMA StackTypesKept ==
  ASSUME BaseInv, Next
  PROVE  StackTypes'
<1> USE DEF FrameType
<1>1. StackTypes /\ \A f \in FrameType : stack # <<>> /\ Goes(f) => StackTypes'
  BY GoingOn DEF BaseInv, Types, Idle
<1>2. stack # <<>> /\ Returns => StackTypes'
  BY <1>1, GoingBack DEF Idle
<1>3. ~Idle => Running \in FrameType /\ Shared(Running.nav) \in Nat
  BY TheCall
<1>4. MaxNavigations \in Nat /\ NoChain \in StoodType
  BY RouterAssumption DEF NoChain, StoodType, Chains
<1>5. CASE EnterAllowed
  <2>1. [Running EXCEPT !.at = "leave"] \in FrameType
    BY <1>3, <1>5 DEF EnterAllowed
  <2> QED
    BY <1>1, <1>5, <2>1 DEF EnterAllowed, Idle
<1>6. CASE LeaveAllowed
  <2>1. [Running EXCEPT !.at = "commit"] \in FrameType
    BY <1>3, <1>6 DEF LeaveAllowed
  <2> QED
    BY <1>1, <1>2, <1>6, <2>1 DEF LeaveAllowed, Idle
<1>7. CASE Block \/ Ask \/ GiveUp \/ FallBack \/ Tell
  BY <1>2, <1>7 DEF Block, Ask, GiveUp, FallBack, Tell, Building, Waking, Idle
<1>8. CASE Take
  <2> DEFINE floor == Least(Shared(Running.nav), Len(active.scopes))
             next == KeptUntil(active.chain, Shared(Running.nav)) + 1
  <2>1. active \in StoodType
    BY DEF BaseInv, Types, ChainTypes
  <2>2. active.chain \in Chains /\ active.scopes \in Seq(ScopeId)
    BY <2>1 DEF StoodType
  <2>3. floor \in Nat /\ next \in Nat
    BY <1>3, <1>8, <2>2, Floors, KeptIsNatural DEF Take
  <2>4. [Running EXCEPT !.at = "leaving", !.old = active, !.scopes = active.scopes,
            !.floor = floor, !.next = next] \in FrameType
    BY <1>3, <1>8, <2>1, <2>2, <2>3 DEF Take
  <2> QED
    BY <1>1, <1>8, <2>4 DEF Take, Idle
<1>9. CASE Snapshot
  <2>1. [Running EXCEPT !.next = Running.next + 1] \in FrameType
    BY <1>3, <1>9 DEF Snapshot
  <2> QED
    BY <1>1, <1>9, <2>1 DEF Snapshot, Idle
<1>10. CASE LeaveChain \/ Rollback
  <2>1. ~Idle /\ Running.at \in {"leaving", "building"}
    BY <1>10 DEF LeaveChain, Rollback, Building
  <2>2. Running.floor <= Len(Running.scopes)
    BY <2>1, TheCall DEF Shaped
  <2>3. SubSeq(Running.scopes, 1, Running.floor) \in Seq(ScopeId)
    BY <1>3, <2>1, <2>2, Beginning
  <2>4. /\ [Running EXCEPT !.at = "building", !.scopes = SubSeq(Running.scopes, 1, Running.floor)] \in FrameType
        /\ [Running EXCEPT !.ok = FALSE, !.scopes = SubSeq(Running.scopes, 1, Running.floor)] \in FrameType
    BY <1>3, <2>1, <2>3
  <2> QED
    BY <1>1, <1>10, <2>1, <2>4 DEF LeaveChain, Rollback, Idle
<1>11. CASE TakeSleeper
  <2>1. ~Idle /\ sleeping[NextPlace].scope \in ScopeId
    BY <1>11, TheSleeper DEF TakeSleeper, Building, Wakeable, AsleepType
  <2>2. Append(Running.scopes, sleeping[NextPlace].scope) \in Seq(ScopeId)
    BY <1>3, <2>1
  <2>3. [Running EXCEPT !.scopes = Append(Running.scopes, sleeping[NextPlace].scope)] \in FrameType
    BY <1>3, <2>1, <2>2
  <2> QED
    BY <1>1, <1>11, <2>1, <2>3 DEF TakeSleeper, Idle
<1>12. CASE Install
  <2>1. ~Idle /\ FreshScope \in ScopeId
    BY <1>12, Unused DEF Install, Building
  <2>2. Append(Running.scopes, FreshScope) \in Seq(ScopeId)
    BY <1>3, <2>1
  <2>3. [Running EXCEPT !.scopes = Append(Running.scopes, FreshScope)] \in FrameType
    BY <1>3, <2>1, <2>2
  <2> QED
    BY <1>1, <1>12, <2>1, <2>3 DEF Install, Idle
<1>13. CASE Stand
  <2>1. [Running EXCEPT !.at = "waking", !.next = 1] \in FrameType
    BY <1>3, <1>13 DEF Stand
  <2> QED
    BY <1>1, <1>13, <2>1 DEF Stand, Idle
<1>14. CASE Wake
  <2>1. ~Idle
    BY <1>14 DEF Wake, Waking
  <2>2. PICK i \in ToWake : \/ Goes([Running EXCEPT !.at = "woken", !.next = i + 1])
                            \/ Goes([Running EXCEPT !.at = "waking", !.next = i + 1])
    BY <1>14 DEF Wake
  <2>3. i + 1 \in Nat
    BY <1>3, <2>1 DEF ToWake
  <2>4. /\ [Running EXCEPT !.at = "woken", !.next = i + 1] \in FrameType
        /\ [Running EXCEPT !.at = "waking", !.next = i + 1] \in FrameType
    BY <1>3, <2>1, <2>3
  <2> QED
    BY <1>1, <2>1, <2>2, <2>4 DEF Idle
<1>15. CASE Arrive
  <2>1. [Running EXCEPT !.at = "telling"] \in FrameType
    BY <1>3, <1>15 DEF Arrive, Waking
  <2> QED
    BY <1>1, <1>2, <1>15, <2>1 DEF Arrive, Waking, Idle
<1>16. CASE Navigates
  <2>1. generation + 1 \in Call /\ stack' = Append(stack, Frame(generation + 1, "enter"))
    BY <1>4, <1>16 DEF Navigates, NavigateThen, Call, Activation, BaseInv, Types, CallTypes
  <2> QED
    BY <1>1, <2>1, NewFrames, GoingIn
<1>17. CASE \E r \in Route : Activate(r)
  <2>1. Activation \in Call
    BY <1>4 DEF Call, Activation
  <2>2. stack' = <<Frame(Activation, "commit")>>
    BY <1>17 DEF Activate
  <2> QED
    BY <2>1, <2>2, NewFrames DEF StackTypes
<1>18. CASE \E n \in asking, allowed \in BOOLEAN : Answer(n, allowed)
  <2>1. UNCHANGED stack \/ (pending # NoCall /\ stack' = Append(stack, Frame(pending, "commit")))
    BY <1>18 DEF Answer
  <2>2. pending # NoCall => pending \in Call
    BY <1>4 DEF BaseInv, Types, CallTypes, Call, NoCall, Activation
  <2>3. CASE UNCHANGED stack
    BY <1>1, <2>3 DEF StackTypes
  <2>4. CASE pending # NoCall /\ stack' = Append(stack, Frame(pending, "commit"))
    <3>1. Frame(pending, "commit") \in FrameType
      BY <2>2, <2>4, NewFrames
    <3> QED
      BY <1>1, <2>4, <3>1, GoingIn
  <2> QED
    BY <2>1, <2>3, <2>4
<1>19. CASE EndFrame
  <2>1. stack' = stack \/ (held # NoCall /\ stack' = <<Frame(held, "commit")>>)
    BY <1>19 DEF EndFrame
  <2>2. held # NoCall => held \in Call
    BY <1>4 DEF BaseInv, Types, CallTypes, Call, NoCall, Activation
  <2>3. CASE held # NoCall /\ stack' = <<Frame(held, "commit")>>
    <3>1. Frame(held, "commit") \in FrameType
      BY <2>2, <2>3, NewFrames
    <3> QED
      BY <2>3, <3>1 DEF StackTypes
  <2> QED
    BY <1>1, <2>1, <2>3 DEF StackTypes
<1>20. CASE BeginFrame \/ Deactivate
  BY <1>1, <1>20 DEF BeginFrame, Deactivate, StackTypes
<1> QED
  BY <1>5, <1>6, <1>7, <1>8, <1>9, <1>10, <1>11, <1>12, <1>13, <1>14, <1>15, <1>16, <1>17, <1>18,
     <1>19, <1>20, Steps DEF BaseInv


\* Functions from some of a set.
LEMMA FewerOf ==
  ASSUME NEW f, NEW S, NEW T, Partial(f, S, T), NEW X
  PROVE  /\ Partial(Without(f, X), S, T)
         /\ DOMAIN Without(f, X) = DOMAIN f \ X
         /\ \A x \in DOMAIN f \ X : Without(f, X)[x] = f[x]
BY DEF Partial, Without, Restrict

LEMMA OneMoreOf ==
  ASSUME NEW f, NEW S, NEW T, Partial(f, S, T), NEW x \in S, NEW y \in T
  PROVE  /\ Partial(With(f, x, y), S, T)
         /\ DOMAIN With(f, x, y) = DOMAIN f \cup {x}
         /\ With(f, x, y)[x] = y
         /\ \A z \in DOMAIN f : z # x => With(f, x, y)[z] = f[z]
BY DEF Partial, With

LEMMA WhoseOf ==
  ASSUME NEW f, NEW S, NEW T, Partial(f, S, T), NEW x \in DOMAIN f
  PROVE  x \in S /\ f[x] \in T
BY DEF Partial

LEMMA TheCalls ==
  ASSUME CallTypes, NEW n \in DOMAIN calls
  PROVE  /\ n \in Call /\ calls[n] \in CallType
         /\ calls[n].route \in Route /\ calls[n].leaving \in Route \cup {Nowhere}
         /\ calls[n].shared \in Nat /\ calls[n].asked \subseteq ScopeId
<1>1. n \in Call /\ calls[n] \in CallType
  BY WhoseOf DEF CallTypes
<1> QED
  BY <1>1 DEF CallType

LEMMA FewerCalls ==
  ASSUME CallTypes, NEW X
  PROVE  /\ Partial(Without(calls, X), Call, CallType)
         /\ DOMAIN Without(calls, X) = DOMAIN calls \ X
         /\ \A n \in DOMAIN calls \ X : Without(calls, X)[n] = calls[n]
<1>1. Partial(calls, Call, CallType)
  BY DEF CallTypes
<1> QED
  BY <1>1, FewerOf

LEMMA OneMoreCall ==
  ASSUME NEW f, Partial(f, Call, CallType), NEW n \in Call, NEW c \in CallType
  PROVE  /\ Partial(With(f, n, c), Call, CallType)
         /\ DOMAIN With(f, n, c) = DOMAIN f \cup {n}
         /\ With(f, n, c)[n] = c
         /\ \A m \in DOMAIN f : m # n => With(f, n, c)[m] = f[m]
BY OneMoreOf

\* A call that asks others than before.
Asking(n, S) == [calls EXCEPT ![n].asked = S]
LEMMA AskingOthers ==
  ASSUME CallTypes, NEW n \in DOMAIN calls, NEW S \in SUBSET ScopeId
  PROVE  /\ Partial(Asking(n, S), Call, CallType) /\ DOMAIN Asking(n, S) = DOMAIN calls
         /\ Asking(n, S)[n].asked = S
         /\ \A m \in DOMAIN calls :
              /\ Asking(n, S)[m].route = calls[m].route /\ Asking(n, S)[m].step = calls[m].step
              /\ Asking(n, S)[m].leaving = calls[m].leaving /\ Asking(n, S)[m].shared = calls[m].shared
              /\ m # n => Asking(n, S)[m] = calls[m]
<1>1. calls[n] \in CallType
  BY DEF CallTypes, Partial
<1>2. [calls[n] EXCEPT !.asked = S] \in CallType
  BY <1>1 DEF CallType
<1>3. Asking(n, S) = [calls EXCEPT ![n] = [calls[n] EXCEPT !.asked = S]]
  BY DEF Asking
<1>4. calls \in [DOMAIN calls -> CallType] /\ DOMAIN calls \subseteq Call
  BY DEF CallTypes, Partial
<1>5. /\ Asking(n, S) \in [DOMAIN calls -> CallType]
      /\ Asking(n, S)[n] = [calls[n] EXCEPT !.asked = S]
      /\ \A m \in DOMAIN calls : m # n => Asking(n, S)[m] = calls[m]
  BY <1>2, <1>3, <1>4
<1>6. DOMAIN Asking(n, S) = DOMAIN calls /\ Partial(Asking(n, S), Call, CallType)
  BY <1>4, <1>5 DEF Partial
<1> DEFINE r == [calls[n] EXCEPT !.asked = S]
<1>7. r.route = calls[n].route /\ r.step = calls[n].step /\ r.leaving = calls[n].leaving
      /\ r.shared = calls[n].shared /\ r.asked = S
  BY <1>1 DEF CallType
<1> HIDE DEF r
<1>8. Asking(n, S)[n] = r
  BY <1>5 DEF r
<1> QED
  BY <1>5, <1>6, <1>7, <1>8

LEMMA GoingScopes ==
  ASSUME BaseInv, ~Idle
  PROVE  LeavingScopes(Running.nav) \in SUBSET ScopeId
<1>1. active.scopes \in Seq(ScopeId)
  BY DEF BaseInv, Types, ChainTypes, StoodType
<1>2. \A i \in DOMAIN active.scopes : active.scopes[i] \in ScopeId
  BY <1>1
<1> QED
  BY <1>2 DEF LeavingScopes

\* What a navigation that is made looks like.
NewCall(step, r) ==
  [route |-> r, step |-> step, leaving |-> prevRoute, shared |-> SharedLen(Chain[r]), asked |-> {}]
LEMMA NewCalls ==
  ASSUME Types, NEW r \in Route, NEW step \in {"start", "to", "back", "forward"}
  PROVE  NewCall(step, r) \in CallType
<1>1. SharedLen(Chain[r]) \in Nat
  BY SharedIsCommon, RoutesHaveChains DEF Types
<1> QED
  BY <1>1 DEF NewCall, CallType, Types, ChainTypes

LEMMA NavigatesTo ==
  ASSUME Types, NEW r \in Route, NEW step \in {"start", "to", "back", "forward"}, NEW h, NavigateThen(step, r, h)
  PROVE  /\ generation' = generation + 1 /\ generation + 1 \in 1..MaxNavigations
         /\ Partial(calls', Call, CallType)
         /\ DOMAIN calls' = (DOMAIN calls \ {pending}) \cup {generation + 1}
         /\ calls'[generation + 1] = NewCall(step, r)
         /\ \A n \in DOMAIN calls \ {pending} : n # generation + 1 => calls'[n] = calls[n]
<1>1. generation' = generation + 1 /\ generation + 1 \in 1..MaxNavigations /\ generation + 1 \in Call
  BY RouterAssumption DEF NavigateThen, Types, CallTypes, Call, Activation
<1>2. /\ Partial(Without(calls, {pending}), Call, CallType)
      /\ DOMAIN Without(calls, {pending}) = DOMAIN calls \ {pending}
      /\ \A n \in DOMAIN calls \ {pending} : Without(calls, {pending})[n] = calls[n]
  BY FewerCalls DEF Types
<1>3. calls' = With(Without(calls, {pending}), generation + 1, NewCall(step, r))
  BY DEF NavigateThen, NewCall
<1>4. NewCall(step, r) \in CallType
  BY NewCalls
<1> DEFINE left == Without(calls, {pending})
<1> HIDE DEF left
<1>5. /\ Partial(left, Call, CallType) /\ DOMAIN left = DOMAIN calls \ {pending}
      /\ \A n \in DOMAIN calls \ {pending} : left[n] = calls[n]
      /\ calls' = With(left, generation + 1, NewCall(step, r))
  BY <1>2, <1>3 DEF left
<1> DEFINE more == With(left, generation + 1, NewCall(step, r))
<1>6. /\ Partial(more, Call, CallType) /\ DOMAIN more = DOMAIN left \cup {generation + 1}
      /\ more[generation + 1] = NewCall(step, r)
      /\ \A n \in DOMAIN left : n # generation + 1 => more[n] = left[n]
  BY <1>1, <1>4, <1>5, OneMoreCall
<1> HIDE DEF more
<1>7. calls' = more
  BY <1>5 DEF more
<1> QED
  BY <1>1, <1>5, <1>6, <1>7

LEMMA CallTypesKept ==
  ASSUME BaseInv, Next
  PROVE  CallTypes'
<1>1. /\ Partial(calls, Call, CallType) /\ generation \in 0..MaxNavigations
      /\ pending \in 0..MaxNavigations /\ held \in 0..MaxNavigations
      /\ asking \subseteq 0..MaxNavigations /\ drawing \in BOOLEAN /\ Types
  BY DEF BaseInv, Types, CallTypes
<1>2. ASSUME NEW n, SettleRefused(n) PROVE Partial(calls', Call, CallType)
  <2>1. calls' = Without(calls, {n})
    BY <1>2 DEF SettleRefused
  <2> QED
    BY <2>1, FewerCalls DEF BaseInv, Types
<1>3. MaxNavigations \in Nat /\ NoCall \in 0..MaxNavigations
  BY RouterAssumption DEF NoCall
<1>4. ~Idle => /\ Running.nav \in DOMAIN calls
               /\ Running.at \in {"enter", "leave"} => Running.nav \in 0..MaxNavigations
  <2>1. 1..generation \subseteq 0..MaxNavigations
    BY <1>1, RouterAssumption
  <2> QED
    BY <2>1, TheCall
<1>5. CASE EnterAllowed
  <2>1. calls' = Asking(Running.nav, LeavingScopes(Running.nav)) /\ UNCHANGED askVars
    BY <1>5 DEF EnterAllowed, Asking
  <2>2. Partial(calls', Call, CallType)
    <3>1. LeavingScopes(Running.nav) \in SUBSET ScopeId /\ CallTypes /\ Running.nav \in DOMAIN calls
      BY <1>4, <1>5, GoingScopes DEF EnterAllowed, BaseInv, Types
    <3>2. Partial(Asking(Running.nav, LeavingScopes(Running.nav)), Call, CallType)
      BY <3>1, AskingOthers
    <3> QED
      BY <2>1, <3>2
  <2> QED
    BY <1>1, <2>1, <2>2 DEF CallTypes, askVars
<1>6. CASE LeaveAllowed
  <2>1. Partial(calls', Call, CallType)
    BY <1>1, <1>2, <1>6 DEF LeaveAllowed
  <2>2. held' \in 0..MaxNavigations
    BY <1>1, <1>4, <1>6 DEF LeaveAllowed
  <2> QED
    BY <1>1, <1>6, <2>1, <2>2 DEF LeaveAllowed, CallTypes
<1>7. CASE Block \/ GiveUp \/ FallBack
  <2>1. SettleRefused(Running.nav) /\ UNCHANGED askVars
    BY <1>7 DEF Block, GiveUp, FallBack
  <2> QED
    BY <1>1, <1>2, <2>1 DEF CallTypes, askVars
<1>8. CASE Ask
  <2>1. ~Idle /\ Refusers(Running) # {}
    BY <1>8 DEF Ask
  <2>2. Running.nav \in DOMAIN calls /\ Running.nav \in 0..MaxNavigations /\ calls[Running.nav].asked \subseteq ScopeId
    <3>1. Running.at \in {"enter", "leave"} /\ CallTypes
      BY <2>1 DEF Refusers, BaseInv, Types
    <3> QED
      BY <1>4, <2>1, <3>1, TheCalls
  <2>3. PICK s \in Refusers(Running) :
          calls' = [calls EXCEPT ![Running.nav].asked = IF Running.at = "enter" THEN {} ELSE @ \cap Under({s})]
    BY <1>8 DEF Ask
  <2>4. calls' = Asking(Running.nav, IF Running.at = "enter" THEN {} ELSE calls[Running.nav].asked \cap Under({s}))
    BY <2>3 DEF Asking
  <2>5. Partial(calls', Call, CallType)
    BY <1>1, <2>2, <2>4, AskingOthers DEF CallTypes
  <2> QED
    BY <1>1, <1>8, <2>2, <2>5 DEF Ask, Park, CallTypes
<1>9. CASE Take \/ Snapshot \/ LeaveChain \/ TakeSleeper \/ Install \/ Rollback \/ Stand \/ Wake
  <2>1. UNCHANGED <<askVars, calls>>
    BY <1>9 DEF Take, Snapshot, LeaveChain, TakeSleeper, Install, Rollback, Stand, Wake
  <2> QED
    BY <1>1, <2>1 DEF CallTypes, askVars
<1>10. CASE Arrive \/ Tell
  <2>1. UNCHANGED askVars /\ (UNCHANGED calls \/ calls' = Without(calls, {Running.nav}))
    BY <1>10 DEF Arrive, Tell
  <2>2. Partial(calls', Call, CallType)
    BY <1>1, <2>1, FewerCalls DEF CallTypes
  <2> QED
    BY <1>1, <2>1, <2>2 DEF CallTypes, askVars
<1>11. CASE Navigates
  <2>1. PICK step \in {"start", "to", "back", "forward"}, r \in Route, h \in Histories : NavigateThen(step, r, h)
    BY <1>11 DEF Navigates
  <2>2. Partial(calls', Call, CallType) /\ generation' \in 0..MaxNavigations
    BY <1>1, <2>1, NavigatesTo
  <2> QED
    BY <1>1, <1>3, <2>1, <2>2 DEF NavigateThen, CallTypes
<1>12. CASE \E r \in Route : Activate(r)
  <2>1. PICK r \in Route : Activate(r)
    BY <1>12
  <2>2. [route |-> r, step |-> "activate", leaving |-> Nowhere, shared |-> 0, asked |-> {}] \in CallType
        /\ Activation \in Call
    BY <1>3 DEF CallType, Call, Activation
  <2>3. Partial(calls', Call, CallType)
    BY <1>1, <2>1, <2>2, OneMoreCall DEF Activate
  <2> QED
    BY <1>1, <2>1, <2>3 DEF Activate, CallTypes, askVars
<1>13. CASE \E n \in asking, allowed \in BOOLEAN : Answer(n, allowed)
  <2>1. PICK n \in asking, allowed \in BOOLEAN : Answer(n, allowed)
    BY <1>13
  <2>2. Partial(calls', Call, CallType) /\ pending' \in 0..MaxNavigations
    BY <1>1, <1>2, <1>3, <2>1 DEF Answer
  <2> QED
    BY <1>1, <2>1, <2>2 DEF Answer, CallTypes
<1>14. CASE BeginFrame \/ EndFrame \/ Deactivate
  BY <1>1, <1>3, <1>14 DEF BeginFrame, EndFrame, Deactivate, CallTypes, askVars
<1> QED
  BY <1>1, <1>5, <1>6, <1>7, <1>8, <1>9, <1>10, <1>11, <1>12, <1>13, <1>14, Steps

LEMMA Popped ==
  ASSUME NEW s \in Seq(Route)
  PROVE  Pop(s) \in Seq(Route)
BY FrontOf DEF Pop

LEMMA Refusing ==
  ASSUME CallTypes, NEW h \in Histories, NEW n \in DOMAIN calls
  PROVE  Refused(h, n) \in Histories
<1>1. calls[n].route \in Route
  BY TheCalls
<1>2. h.back \in Seq(Route) /\ h.forward \in Seq(Route)
  BY DEF Histories
<1>3. Append(h.back, calls[n].route) \in Seq(Route) /\ Append(h.forward, calls[n].route) \in Seq(Route)
  BY <1>1, <1>2
<1> QED
  BY <1>2, <1>3, Popped DEF Refused, Histories

LEMMA HistTypesKept ==
  ASSUME BaseInv, Next
  PROVE  HistTypes'
<1>1. hist \in Histories /\ Types /\ CallTypes
  BY DEF BaseInv, Types, HistTypes, Histories
<1>2. \A n \in DOMAIN calls : SettleRefused(n) => hist' \in Histories
  BY <1>1, Refusing DEF SettleRefused
<1>3. ~Idle => Running.nav \in DOMAIN calls
  BY TheCall
<1>4. (pending # NoCall => pending \in DOMAIN calls) /\ (held # NoCall => held \in DOMAIN calls)
  BY DEF BaseInv, Apart
<1>5. CASE Block \/ GiveUp \/ FallBack
  <2>1. ~Idle /\ SettleRefused(Running.nav)
    BY <1>5 DEF Block, GiveUp, FallBack, Building, Waking
  <2> QED
    BY <1>2, <1>3, <2>1 DEF HistTypes, Histories
<1>6. CASE LeaveAllowed
  BY <1>1, <1>2, <1>4, <1>6 DEF LeaveAllowed, HistTypes, Histories
<1>7. CASE Tell
  <2>1. ~Idle /\ hist' = Remembered(hist, Running.nav)
    BY <1>7 DEF Tell
  <2>2. calls[Running.nav].leaving \in Route \cup {Nowhere}
    BY <1>1, <1>3, <2>1, TheCalls
  <2>3. hist.back \in Seq(Route) /\ hist.forward \in Seq(Route)
    BY <1>1 DEF Histories
  <2> QED
    BY <1>1, <2>1, <2>2, <2>3 DEF Remembered, HistTypes, Histories
<1>8. CASE Navigates
  <2>1. PICK step \in {"start", "to", "back", "forward"}, r \in Route, h \in Histories : NavigateThen(step, r, h)
    BY <1>8 DEF Navigates
  <2>2. pending # NoCall => Refused(h, pending) \in Histories
    BY <1>1, <1>4, Refusing
  <2> QED
    BY <2>1, <2>2 DEF NavigateThen, HistTypes, Histories
<1>9. CASE \E n \in asking, allowed \in BOOLEAN : Answer(n, allowed)
  <2>1. hist' = hist \/ (pending # NoCall /\ SettleRefused(pending))
    BY <1>9 DEF Answer
  <2> QED
    BY <1>1, <1>2, <1>4, <2>1 DEF HistTypes, Histories
<1>10. CASE \/ EnterAllowed \/ Ask \/ Take \/ Snapshot \/ LeaveChain \/ TakeSleeper \/ Install \/ Rollback
            \/ Stand \/ Wake \/ Arrive \/ (\E r \in Route : Activate(r)) \/ BeginFrame \/ EndFrame \/ Deactivate
  <2>1. UNCHANGED hist
    BY <1>10 DEF EnterAllowed, Ask, Take, Snapshot, LeaveChain, TakeSleeper, Install, Rollback, Stand, Wake,
       Arrive, Activate, BeginFrame, EndFrame, Deactivate
  <2> QED
    BY <1>1, <2>1 DEF HistTypes, Histories
<1> QED
  BY <1>1, <1>5, <1>6, <1>7, <1>8, <1>9, <1>10, Steps

\* One place taken out of a sequence.
LEMMA TakenOut ==
  ASSUME NEW T, NEW s \in Seq(T), NEW i \in DOMAIN s
  PROVE  /\ RemoveAt(s, i) \in Seq(T) /\ Len(RemoveAt(s, i)) <= Len(s)
         /\ \A j \in DOMAIN RemoveAt(s, i) : \E k \in DOMAIN s : RemoveAt(s, i)[j] = s[k]
<1> DEFINE a == SubSeq(s, 1, i - 1)
           b == SubSeq(s, i + 1, Len(s))
<1>1. i \in 1..Len(s) /\ Len(s) \in Nat
  OBVIOUS
<1>2. i - 1 \in 0..Len(s)
  BY <1>1
<1>3. a \in Seq(T) /\ Len(a) = i - 1 /\ \A j \in 1..(i - 1) : a[j] = s[j]
  BY <1>2, Beginning
<1>4. i + 1 \in Int /\ Len(s) \in Int /\ \A j \in (i + 1)..Len(s) : s[j] \in T
  BY <1>1
<1>5. /\ b \in Seq(T) /\ Len(b) = IF i + 1 <= Len(s) THEN Len(s) - (i + 1) + 1 ELSE 0
      /\ \A j \in 1..(Len(s) - (i + 1) + 1) : b[j] = s[i + 1 + j - 1]
  BY <1>4, SubSeqProperties
<1> DEFINE n == Len(s)
<1> HIDE DEF a, b, n
<1>6. Len(b) = n - i /\ \A j \in 1..(n - i) : b[j] = s[i + j]
  <2>1. i \in 1..n /\ n \in Nat /\ Len(b) = IF i + 1 <= n THEN n - (i + 1) + 1 ELSE 0
    BY <1>1, <1>5 DEF n
  <2>2. Len(b) = n - i
    BY <2>1
  <2>3. \A j \in 1..(n - i) : j \in 1..(n - (i + 1) + 1) /\ i + 1 + j - 1 = i + j
    BY <2>1
  <2> QED
    BY <1>5, <2>2, <2>3 DEF n
<1>7. a \o b \in Seq(T) /\ Len(a \o b) = Len(s) - 1
  BY <1>1, <1>3, <1>5, <1>6 DEF n
<1>8. \A j \in 1..(Len(s) - 1) : (a \o b)[j] = IF j <= i - 1 THEN s[j] ELSE s[j + 1]
  <2>1. SUFFICES ASSUME NEW j \in 1..(Len(s) - 1) PROVE (a \o b)[j] = IF j <= i - 1 THEN s[j] ELSE s[j + 1]
    OBVIOUS
  <2>2. Len(a) = i - 1 /\ Len(b) = Len(s) - i /\ a \in Seq(T) /\ b \in Seq(T)
    BY <1>3, <1>5, <1>6 DEF n
  <2>3. j \in 1..(Len(a) + Len(b))
    BY <1>1, <2>1, <2>2
  <2>4. (a \o b)[j] = IF j <= Len(a) THEN a[j] ELSE b[j - Len(a)]
    BY <2>2, <2>3
  <2>5. CASE j <= i - 1
    <3>1. j \in 1..(i - 1)
      BY <2>1, <2>5
    <3> QED
      BY <1>3, <2>2, <2>4, <2>5, <3>1
  <2>6. CASE ~(j <= i - 1)
    <3>1. j - Len(a) \in 1..(Len(s) - i) /\ i + (j - Len(a)) = j + 1
      BY <1>1, <2>1, <2>2, <2>6
    <3>2. b[j - Len(a)] = s[j + 1]
      BY <1>6, <3>1 DEF n
    <3> QED
      BY <2>2, <2>4, <2>6, <3>2
  <2> QED
    BY <2>5, <2>6
<1>9. RemoveAt(s, i) = a \o b
  BY DEF RemoveAt, a, b
<1>10. \A j \in 1..(Len(s) - 1) : \E k \in DOMAIN s : (a \o b)[j] = s[k]
  <2>1. SUFFICES ASSUME NEW j \in 1..(Len(s) - 1) PROVE \E k \in DOMAIN s : (a \o b)[j] = s[k]
    OBVIOUS
  <2>2. j \in DOMAIN s /\ j + 1 \in DOMAIN s
    BY <1>1, <2>1
  <2> QED
    BY <1>8, <2>1, <2>2
<1>11. DOMAIN (a \o b) = 1..(Len(s) - 1)
  BY <1>7
<1>12. Len(s) - 1 <= Len(s)
  BY <1>1
<1> QED
  BY <1>7, <1>9, <1>10, <1>11, <1>12

LEMMA FirstDropped ==
  ASSUME NEW T, NEW s \in Seq(T), NEW e \in T
  PROVE  /\ Tail(Append(s, e)) \in Seq(T) /\ Len(Tail(Append(s, e))) = Len(s)
         /\ \A j \in DOMAIN Tail(Append(s, e)) :
              Tail(Append(s, e))[j] = e \/ \E k \in DOMAIN s : Tail(Append(s, e))[j] = s[k]
<1> DEFINE t == Append(s, e)
<1>1. t \in Seq(T) /\ t # <<>> /\ Len(t) = Len(s) + 1 /\ Len(s) \in Nat
  OBVIOUS
<1>2. \A k \in 1..(Len(s) + 1) : t[k] = IF k = Len(s) + 1 THEN e ELSE s[k]
  BY <1>1
<1> HIDE DEF t
<1>3. /\ Tail(t) \in Seq(T) /\ Len(Tail(t)) = Len(t) - 1
      /\ \A k \in 1..Len(Tail(t)) : Tail(t)[k] = t[k + 1]
  BY <1>1, HeadTailProperties
<1>4. Len(Tail(t)) = Len(s) /\ DOMAIN Tail(t) = 1..Len(s)
  BY <1>1, <1>3
<1>5. ASSUME NEW k \in 1..Len(s) PROVE Tail(t)[k] = e \/ \E m \in DOMAIN s : Tail(t)[k] = s[m]
  <2>1. Tail(t)[k] = t[k + 1] /\ k + 1 \in 1..(Len(s) + 1)
    BY <1>1, <1>3, <1>4
  <2>2. k + 1 = Len(s) + 1 \/ k + 1 \in DOMAIN s
    BY <1>1
  <2> QED
    BY <1>2, <2>1, <2>2
<1>6. /\ Tail(t) \in Seq(T) /\ Len(Tail(t)) = Len(s)
      /\ \A j \in DOMAIN Tail(t) : Tail(t)[j] = e \/ \E k \in DOMAIN s : Tail(t)[j] = s[k]
  BY <1>3, <1>4, <1>5
<1> QED
  BY <1>6 DEF t

\* What is in the cache after states were put there, or taken.
LEMMA Inserted ==
  ASSUME CacheTypes, NEW e \in EntryType
  PROVE  /\ CacheInsert(e) \in Seq(EntryType) /\ Len(CacheInsert(e)) <= MaxCached
         /\ \A j \in DOMAIN CacheInsert(e) : CacheInsert(e)[j] = e \/ \E k \in DOMAIN cache : CacheInsert(e)[j] = cache[k]
<1>1. cache \in Seq(EntryType) /\ Len(cache) \in Nat /\ Len(cache) <= MaxCached /\ MaxCached \in Nat
  BY RouterAssumption DEF CacheTypes
<1>2. CASE CacheAt(e.place) # {}
  <2> DEFINE n == [i \in DOMAIN cache |-> IF cache[i].place = e.place THEN e ELSE cache[i]]
  <2>1. CacheInsert(e) = n
    BY <1>2 DEF CacheInsert
  <2>2. n \in Seq(EntryType) /\ Len(n) = Len(cache)
    BY <1>1
  <2>3. DOMAIN n = DOMAIN cache /\ \A j \in DOMAIN cache : n[j] = e \/ n[j] = cache[j]
    OBVIOUS
  <2> HIDE DEF n
  <2> QED
    BY <1>1, <2>1, <2>2, <2>3
<1>3. CASE CacheAt(e.place) = {} /\ Len(cache) < MaxCached
  <2>1. CacheInsert(e) = Append(cache, e)
    BY <1>3 DEF CacheInsert
  <2>2. Append(cache, e) \in Seq(EntryType) /\ Len(Append(cache, e)) = Len(cache) + 1
        /\ \A j \in 1..(Len(cache) + 1) : Append(cache, e)[j] = IF j = Len(cache) + 1 THEN e ELSE cache[j]
    BY <1>1
  <2>3. Len(Append(cache, e)) <= MaxCached
    BY <1>1, <1>3, <2>2
  <2>4. \A j \in DOMAIN Append(cache, e) : Append(cache, e)[j] = e \/ \E k \in DOMAIN cache : Append(cache, e)[j] = cache[k]
    <3>1. \A j \in 1..(Len(cache) + 1) : j = Len(cache) + 1 \/ j \in DOMAIN cache
      BY <1>1
    <3>2. DOMAIN Append(cache, e) = 1..(Len(cache) + 1)
      BY <2>2
    <3> QED
      BY <2>2, <3>1, <3>2
  <2> QED
    BY <2>1, <2>2, <2>3, <2>4
<1>4. CASE CacheAt(e.place) = {} /\ ~(Len(cache) < MaxCached)
  <2>1. CacheInsert(e) = Tail(Append(cache, e))
    BY <1>4 DEF CacheInsert
  <2> QED
    BY <1>1, <2>1, FirstDropped
<1> QED
  BY <1>2, <1>3, <1>4

LEMMA Taken ==
  ASSUME CacheTypes, NEW place
  PROVE  /\ CacheTake(place) \in Seq(EntryType) /\ Len(CacheTake(place)) <= MaxCached
         /\ \A j \in DOMAIN CacheTake(place) : \E k \in DOMAIN cache : CacheTake(place)[j] = cache[k]
<1>1. cache \in Seq(EntryType) /\ Len(cache) \in Nat /\ Len(cache) <= MaxCached /\ MaxCached \in Nat
  BY RouterAssumption DEF CacheTypes
<1>2. CASE CacheAt(place) = {}
  BY <1>1, <1>2 DEF CacheTake
<1>3. CASE CacheAt(place) # {}
  <2> DEFINE i == CHOOSE i \in CacheAt(place) : TRUE
  <2>1. i \in DOMAIN cache
    BY <1>3 DEF CacheAt
  <2> HIDE DEF i
  <2>2. CacheTake(place) = RemoveAt(cache, i)
    BY <1>3 DEF CacheTake, i
  <2>3. /\ RemoveAt(cache, i) \in Seq(EntryType) /\ Len(RemoveAt(cache, i)) <= Len(cache)
        /\ \A j \in DOMAIN RemoveAt(cache, i) : \E k \in DOMAIN cache : RemoveAt(cache, i)[j] = cache[k]
    BY <1>1, <2>1, TakenOut
  <2> QED
    BY <1>1, <2>2, <2>3
<1> QED
  BY <1>2, <1>3

\* What a step leaves in the cache is what was there, or what it snapshots.
LEMMA CacheSteps ==
  ASSUME BaseInv, Next
  PROVE  \/ UNCHANGED cache
         \/ (Rollback \/ GiveUp \/ Install) /\ cache' = CacheTake(NextPlace)
         \/ /\ Snapshot
            /\ Running.next \in DOMAIN Running.scopes /\ Running.scopes[Running.next] \in DOMAIN scope
            /\ cache' = CacheInsert([place |-> Place(Running.old.chain, Running.next),
                                     param |-> Running.old.chain[Running.next].param,
                                     from |-> scope[Running.scopes[Running.next]].made])
<1>1. CASE Snapshot
  BY <1>1 DEF Snapshot
<1>2. CASE Install \/ Rollback \/ GiveUp
  <2>1. TakeStates
    BY <1>2 DEF Install, Rollback, GiveUp
  <2> QED
    BY <1>2, <2>1 DEF TakeStates
<1>3. CASE \/ EnterAllowed \/ LeaveAllowed \/ Block \/ Ask \/ Take \/ LeaveChain \/ TakeSleeper \/ Stand
           \/ Wake \/ Arrive \/ FallBack \/ Tell \/ (\E r \in Route : Activate(r)) \/ BeginFrame \/ EndFrame
           \/ Deactivate
  BY <1>3 DEF EnterAllowed, LeaveAllowed, Block, Ask, Take, LeaveChain, TakeSleeper, Stand, Wake, Arrive,
     FallBack, Tell, Activate, BeginFrame, EndFrame, Deactivate, chainVars
<1>4. CASE Navigates
  BY <1>4 DEF Navigates, NavigateThen, chainVars
<1>5. CASE \E n \in asking, allowed \in BOOLEAN : Answer(n, allowed)
  BY <1>5 DEF Answer, chainVars
<1> QED
  BY <1>1, <1>2, <1>3, <1>4, <1>5, Steps DEF BaseInv

\* The entry a snapshot makes.
LEMMA Snapshots ==
  ASSUME BaseInv, Snapshot, NEW i, i = Running.next, i \in DOMAIN Running.scopes, Running.scopes[i] \in DOMAIN scope
  PROVE  /\ i \in DOMAIN Running.old.chain
         /\ [place |-> Place(Running.old.chain, i), param |-> Running.old.chain[i].param,
             from |-> scope[Running.scopes[i]].made] \in EntryType
<1>1. ~Idle /\ Running.at = "leaving"
  BY DEF Snapshot
<1>2. Running \in FrameType /\ Len(Running.scopes) = Len(Running.old.chain)
  BY <1>1, TheCall DEF Shaped
<1>3. Running.old.chain \in Chains /\ Running.scopes \in Seq(ScopeId)
  BY <1>2 DEF FrameType, StoodType
<1>4. i \in DOMAIN Running.old.chain
  BY <1>2, <1>3, ChainsAreSequences
<1>5. Place(Running.old.chain, i) \in Places /\ Running.old.chain[i].param \in Nat
  BY <1>3, <1>4, SegmentsOf
<1>6. scope[Running.scopes[i]].made \in Segments
  BY DEF BaseInv, Types, ScopeTypes, Partial, ScopeType
<1> QED
  BY <1>4, <1>5, <1>6 DEF EntryType

LEMMA CacheTypesKept ==
  ASSUME BaseInv, Next
  PROVE  CacheTypes'
<1>1. CacheTypes
  BY DEF BaseInv, Types
<1>2. CASE UNCHANGED cache
  BY <1>1, <1>2 DEF CacheTypes
<1>3. CASE cache' = CacheTake(NextPlace)
  BY <1>1, <1>3, Taken DEF CacheTypes
<1>4. CASE Snapshot /\ cache' # cache /\ Running.next \in DOMAIN Running.scopes
           /\ Running.scopes[Running.next] \in DOMAIN scope
  <2> DEFINE e == [place |-> Place(Running.old.chain, Running.next),
                   param |-> Running.old.chain[Running.next].param,
                   from |-> scope[Running.scopes[Running.next]].made]
  <2>1. e \in EntryType
    BY <1>4, Snapshots
  <2>2. cache' = CacheInsert(e)
    BY <1>4 DEF Snapshot
  <2> HIDE DEF e
  <2> QED
    BY <1>1, <2>1, <2>2, Inserted DEF CacheTypes
<1> QED
  BY <1>2, <1>3, <1>4, CacheSteps

LEMMA TheScopes ==
  ASSUME ScopeTypes
  PROVE  /\ DOMAIN scope \subseteq ScopeId
         /\ \A s \in DOMAIN scope :
              /\ scope[s] \in ScopeType /\ scope[s].line \in Seq(ScopeId)
              /\ scope[s].made \in Segments /\ scope[s].states \subseteq Segments
         /\ \A k \in DOMAIN sleeping : k \in Places /\ sleeping[k] \in AsleepType /\ sleeping[k].scope \in ScopeId
BY DEF ScopeTypes, Partial, ScopeType, AsleepType

\* What is left of the kept segments.
LEMMA SleptOf ==
  ASSUME NEW S, NEW D
  PROVE  /\ DOMAIN Slept(S, D) = {k \in DOMAIN S : S[k].scope \notin D}
         /\ \A k \in DOMAIN Slept(S, D) : Slept(S, D)[k] = S[k]
BY DEF Slept, RestrictDomain, Restrict

LEMMA SleptTypes ==
  ASSUME NEW S, Partial(S, Places, AsleepType), NEW D
  PROVE  Partial(Slept(S, D), Places, AsleepType)
BY DEF Partial, Slept, RestrictDomain, Restrict

\* What leaving a chain puts to sleep, and what goes.
Below   == {i \in DOMAIN Running.scopes : i > Running.floor}
Lulled  == {i \in Below : i <= KeptUntil(Running.old.chain, Shared(Running.nav))}
PutDown == [k \in {Place(Running.old.chain, i) : i \in Lulled} |->
              [scope |-> Running.scopes[Len(k)], param |-> Running.old.chain[Len(k)].param]]
Parted  == Under({Running.scopes[i] : i \in Below \ Lulled}
                 \cup {sleeping[k].scope : k \in DOMAIN PutDown \cap DOMAIN sleeping})

LEMMA Leaves ==
  ASSUME LeaveChain
  PROVE  /\ ~Idle /\ Running.at = "leaving" /\ Running.next \notin DOMAIN Running.scopes
         /\ scope' = [s \in DOMAIN scope \ Parted |->
                        [scope[s] EXCEPT !.awake = @ /\ s \notin {Running.scopes[i] : i \in Lulled}]]
         /\ sleeping' = Slept(Over(PutDown, sleeping), Parted)
         /\ Goes([Running EXCEPT !.at = "building", !.scopes = SubSeq(Running.scopes, 1, Running.floor)])
         /\ UNCHANGED <<active, cache, askVars, prevRoute, calls, hist, told>>
BY DEF LeaveChain, Below, Lulled, PutDown, Parted

LEMMA PlaceOf ==
  ASSUME NEW c, NEW i \in Nat
  PROVE  Len(Place(c, i)) = i
<1>1. Place(c, i) \in Seq({c[j].seg : j \in 1..i}) /\ DOMAIN Place(c, i) = 1..i
  BY DEF Place
<1> QED
  BY <1>1

LEMMA PutToSleep ==
  ASSUME BaseInv, ~Idle, Running.at = "leaving"
  PROVE  /\ Partial(PutDown, Places, AsleepType)
         /\ \A i \in Lulled : /\ Place(Running.old.chain, i) \in DOMAIN PutDown
                              /\ PutDown[Place(Running.old.chain, i)] =
                                   [scope |-> Running.scopes[i], param |-> Running.old.chain[i].param]
         /\ \A k \in DOMAIN PutDown : \E i \in Lulled : k = Place(Running.old.chain, i)
         /\ Lulled \subseteq Below /\ Below \subseteq DOMAIN Running.scopes
         /\ DOMAIN Running.scopes = 1..Len(Running.scopes) /\ Len(Running.scopes) \in Nat
         /\ Running.scopes \in Seq(ScopeId)
<1>1. Running \in FrameType /\ Len(Running.scopes) = Len(Running.old.chain)
  BY TheCall DEF Shaped
<1>2. Running.old.chain \in Chains /\ Running.scopes \in Seq(ScopeId)
  BY <1>1 DEF FrameType, StoodType
<1>3. \A i \in Lulled : i \in Nat /\ i \in DOMAIN Running.scopes /\ i \in DOMAIN Running.old.chain
  BY <1>1, <1>2, ChainsAreSequences DEF Lulled, Below
<1>4. \A i \in Lulled : /\ Place(Running.old.chain, i) \in Places /\ Running.old.chain[i].param \in Nat
                        /\ Len(Place(Running.old.chain, i)) = i /\ Running.scopes[i] \in ScopeId
  BY <1>2, <1>3, SegmentsOf, PlaceOf
<1>5. DOMAIN PutDown = {Place(Running.old.chain, i) : i \in Lulled}
  BY DEF PutDown
<1>6. \A i \in Lulled : PutDown[Place(Running.old.chain, i)] =
                          [scope |-> Running.scopes[i], param |-> Running.old.chain[i].param]
  BY <1>4, <1>5 DEF PutDown
<1>7. \A k \in DOMAIN PutDown : k \in Places /\ PutDown[k] \in AsleepType
  <2>1. SUFFICES ASSUME NEW k \in DOMAIN PutDown PROVE k \in Places /\ PutDown[k] \in AsleepType
    OBVIOUS
  <2>2. PICK i \in Lulled : k = Place(Running.old.chain, i)
    BY <1>5
  <2>3. [scope |-> Running.scopes[i], param |-> Running.old.chain[i].param] \in AsleepType
    BY <1>4 DEF AsleepType
  <2> QED
    BY <1>4, <1>6, <2>2, <2>3
<1>8. Partial(PutDown, Places, AsleepType)
  BY <1>7 DEF Partial, PutDown
<1> QED
  BY <1>2, <1>5, <1>6, <1>8 DEF Lulled, Below

LEMMA Overlaid ==
  ASSUME NEW f, NEW g, NEW S, NEW T, Partial(f, S, T), Partial(g, S, T)
  PROVE  Partial(Over(f, g), S, T)
BY DEF Partial, Over

LEMMA UnbuiltTypes ==
  ASSUME ScopeTypes, NEW n, Unbuilt(n)
  PROVE  ScopeTypes'
<1>1. PICK gone : scope' = Without(scope, gone) /\ sleeping' = Slept(sleeping, gone)
  BY DEF Unbuilt
<1>2. Partial(scope, ScopeId, ScopeType) /\ Partial(sleeping, Places, AsleepType)
  BY DEF ScopeTypes
<1>3. Partial(Without(scope, gone), ScopeId, ScopeType)
  BY <1>2, FewerOf
<1>4. Partial(Slept(sleeping, gone), Places, AsleepType)
  BY <1>2, SleptTypes
<1> QED
  BY <1>1, <1>3, <1>4 DEF ScopeTypes

\* What is installed next.
NewScope ==
  [line |-> Line(Stands(Running.scopes)), made |-> Segment(Target(Running), NextIndex),
   states |-> Restored, awake |-> TRUE]

LEMMA RestoredStates ==
  ASSUME CacheTypes
  PROVE  \A st \in Restored : \E j \in DOMAIN cache :
           st = cache[j].from /\ cache[j].place = NextPlace /\ cache[j].param = Target(Running)[NextIndex].param
BY DEF Restored, CacheAt

LEMMA NewScopes ==
  ASSUME BaseInv, Building, Stands(Running.scopes) \in DOMAIN scope \cup {Host}
  PROVE  /\ NewScope \in ScopeType
         /\ NewScope.line = Line(Stands(Running.scopes)) /\ NewScope.made = Segment(Target(Running), NextIndex)
         /\ NewScope.states = Restored /\ NewScope.awake = TRUE
<1>1. ~Idle /\ Segment(Target(Running), NextIndex) \in Segments /\ Running \in FrameType
  BY TheNext, TheCall
<1>2. Running.scopes \in Seq(ScopeId)
  BY <1>1 DEF FrameType
<1>3. Stands(Running.scopes) \in ScopeId \cup {Host}
  BY <1>2 DEF Stands, Last
<1>4. Line(Stands(Running.scopes)) \in Seq(ScopeId)
  <2>1. CASE Stands(Running.scopes) = Host
    BY <2>1 DEF Line
  <2>2. CASE Stands(Running.scopes) # Host /\ Stands(Running.scopes) \in DOMAIN scope
    <3>1. scope[Stands(Running.scopes)].line \in Seq(ScopeId)
      BY <2>2, TheScopes DEF BaseInv, Types
    <3> QED
      BY <1>3, <2>2, <3>1 DEF Line
  <2> QED
    BY <1>3, <2>1, <2>2
<1>5. Restored \subseteq Segments
  <2>1. \A j \in DOMAIN cache : cache[j].from \in Segments
    <3>1. cache \in Seq(EntryType)
      BY DEF BaseInv, Types, CacheTypes
    <3>2. \A j \in DOMAIN cache : cache[j] \in EntryType
      BY <3>1
    <3> QED
      BY <3>2 DEF EntryType
  <2> QED
    BY <2>1, RestoredStates DEF BaseInv, Types
<1> QED
  BY <1>1, <1>4, <1>5 DEF NewScope, ScopeType

\* The steps that leave the scopes as they are.
ScopesStay ==
  \/ EnterAllowed \/ LeaveAllowed \/ Block \/ Ask \/ Take \/ Snapshot \/ Stand \/ Arrive \/ FallBack \/ Tell
  \/ Navigates \/ (\E r \in Route : Activate(r))
  \/ (\E n \in asking, allowed \in BOOLEAN : Answer(n, allowed))
  \/ BeginFrame \/ EndFrame
LEMMA ScopeSteps ==
  ASSUME Types, Next
  PROVE  \/ ScopesStay /\ UNCHANGED <<scope, sleeping>>
         \/ LeaveChain \/ TakeSleeper \/ Install \/ Rollback \/ GiveUp \/ Wake \/ Deactivate
<1>1. CASE \/ EnterAllowed \/ LeaveAllowed \/ Block \/ Ask \/ Take \/ Snapshot \/ Stand \/ Arrive \/ FallBack
           \/ Tell \/ (\E r \in Route : Activate(r)) \/ BeginFrame \/ EndFrame
  BY <1>1 DEF ScopesStay, EnterAllowed, LeaveAllowed, Block, Ask, Take, Snapshot, Stand, Arrive, FallBack, Tell,
     Activate, BeginFrame, EndFrame, chainVars
<1>2. CASE Navigates
  BY <1>2 DEF ScopesStay, Navigates, NavigateThen, chainVars
<1>3. CASE \E n \in asking, allowed \in BOOLEAN : Answer(n, allowed)
  BY <1>3 DEF ScopesStay, Answer, chainVars
<1> QED
  BY <1>1, <1>2, <1>3, Steps

\* A scope that wakes, and what it was.
Woken(s) == [scope EXCEPT ![s].awake = TRUE]
LEMMA WokenScope ==
  ASSUME ScopeTypes, NEW s \in DOMAIN scope
  PROVE  /\ Partial(Woken(s), ScopeId, ScopeType) /\ DOMAIN Woken(s) = DOMAIN scope
         /\ \A t \in DOMAIN scope :
              /\ Woken(s)[t].line = scope[t].line /\ Woken(s)[t].made = scope[t].made
              /\ Woken(s)[t].states = scope[t].states
              /\ t # s => Woken(s)[t] = scope[t]
<1>1. scope[s] \in ScopeType /\ DOMAIN scope \subseteq ScopeId /\ scope \in [DOMAIN scope -> ScopeType]
  BY DEF ScopeTypes, Partial
<1> DEFINE r == [scope[s] EXCEPT !.awake = TRUE]
<1>2. r \in ScopeType /\ r.line = scope[s].line /\ r.made = scope[s].made /\ r.states = scope[s].states
  BY <1>1 DEF ScopeType
<1>3. Woken(s) = [scope EXCEPT ![s] = r]
  BY DEF Woken
<1> HIDE DEF r
<1>4. Woken(s) \in [DOMAIN scope -> ScopeType] /\ Woken(s)[s] = r
      /\ \A t \in DOMAIN scope : t # s => Woken(s)[t] = scope[t]
  BY <1>1, <1>2, <1>3
<1>5. DOMAIN Woken(s) = DOMAIN scope
  BY <1>4
<1> QED
  BY <1>1, <1>2, <1>4, <1>5 DEF Partial

\* What a chain that is left leaves of the scopes.
LEMMA LeftScopes ==
  ASSUME ScopeTypes, LeaveChain
  PROVE  /\ Partial(scope', ScopeId, ScopeType) /\ DOMAIN scope' = DOMAIN scope \ Parted
         /\ \A s \in DOMAIN scope' :
              /\ scope'[s].line = scope[s].line /\ scope'[s].made = scope[s].made
              /\ scope'[s].states = scope[s].states
              /\ scope'[s].awake = (scope[s].awake /\ s \notin {Running.scopes[i] : i \in Lulled})
<1> DEFINE r(s) == [scope[s] EXCEPT !.awake = scope[s].awake /\ s \notin {Running.scopes[i] : i \in Lulled}]
<1>1. scope' = [s \in DOMAIN scope \ Parted |-> r(s)]
  BY Leaves
<1>2. ASSUME NEW s \in DOMAIN scope
      PROVE  /\ r(s) \in ScopeType
             /\ r(s).line = scope[s].line /\ r(s).made = scope[s].made /\ r(s).states = scope[s].states
             /\ r(s).awake = (scope[s].awake /\ s \notin {Running.scopes[i] : i \in Lulled})
  <2>1. scope[s] \in ScopeType
    BY DEF ScopeTypes, Partial
  <2>2. scope[s].awake \in BOOLEAN
    BY <2>1 DEF ScopeType
  <2> DEFINE a == scope[s].awake /\ s \notin {Running.scopes[i] : i \in Lulled}
  <2>3. a \in BOOLEAN
    OBVIOUS
  <2>4. r(s) = [scope[s] EXCEPT !.awake = a]
    OBVIOUS
  <2> HIDE DEF a
  <2>5. [scope[s] EXCEPT !.awake = a] \in ScopeType
    BY <2>1, <2>3 DEF ScopeType
  <2>6. [scope[s] EXCEPT !.awake = a].line = scope[s].line
        /\ [scope[s] EXCEPT !.awake = a].made = scope[s].made
        /\ [scope[s] EXCEPT !.awake = a].states = scope[s].states
        /\ [scope[s] EXCEPT !.awake = a].awake = a
    BY <2>1 DEF ScopeType
  <2> HIDE DEF r
  <2> QED
    BY <2>4, <2>5, <2>6 DEF a
<1> HIDE DEF r
<1>3. DOMAIN scope' = DOMAIN scope \ Parted /\ \A s \in DOMAIN scope' : scope'[s] = r(s)
  BY <1>1
<1>4. DOMAIN scope \subseteq ScopeId
  BY DEF ScopeTypes, Partial
<1>5. Partial(scope', ScopeId, ScopeType)
  BY <1>1, <1>2, <1>3, <1>4 DEF Partial
<1> QED
  BY <1>2, <1>3, <1>5

\* What an install, and a chain taken down, do to the scopes.
LEMMA InstalledScope ==
  ASSUME BaseInv, Install
  PROVE  /\ FreshScope \in ScopeId /\ FreshScope \notin DOMAIN scope
         /\ Partial(scope', ScopeId, ScopeType)
         /\ DOMAIN scope' = (DOMAIN scope \ Under(Sleeper)) \cup {FreshScope}
         /\ scope'[FreshScope] = NewScope
         /\ \A s \in DOMAIN scope \ Under(Sleeper) : s # FreshScope /\ scope'[s] = scope[s]
         /\ sleeping' = Slept(sleeping, Under(Sleeper))
<1>1. ScopeTypes /\ Building
  BY DEF BaseInv, Types, Install
<1>2. FreshScope \in ScopeId /\ FreshScope \notin DOMAIN scope /\ NewScope \in ScopeType
  BY <1>1, Unused, NewScopes DEF Install
<1>3. Partial(scope, ScopeId, ScopeType)
  BY <1>1 DEF ScopeTypes
<1> DEFINE left == Without(scope, Under(Sleeper))
<1>4. Partial(left, ScopeId, ScopeType) /\ DOMAIN left = DOMAIN scope \ Under(Sleeper)
      /\ \A s \in DOMAIN scope \ Under(Sleeper) : left[s] = scope[s]
  BY <1>3, FewerOf
<1>5. scope' = With(left, FreshScope, NewScope) /\ sleeping' = Slept(sleeping, Under(Sleeper))
  BY DEF Install, NewScope
<1> HIDE DEF left
<1>6. \A f : Partial(f, ScopeId, ScopeType) =>
        /\ Partial(With(f, FreshScope, NewScope), ScopeId, ScopeType)
        /\ DOMAIN With(f, FreshScope, NewScope) = DOMAIN f \cup {FreshScope}
        /\ With(f, FreshScope, NewScope)[FreshScope] = NewScope
        /\ \A z \in DOMAIN f : z # FreshScope => With(f, FreshScope, NewScope)[z] = f[z]
  BY <1>2, OneMoreOf
<1> QED
  BY <1>2, <1>4, <1>5, <1>6

LEMMA RemovedScopes ==
  ASSUME Deactivate
  PROVE  LET gone == Under({sleeping[k].scope : k \in DOMAIN sleeping} \cup ToSet(active.scopes))
         IN  /\ DOMAIN scope' = DOMAIN scope \ gone /\ \A s \in DOMAIN scope' : scope'[s] = scope[s]
             /\ DOMAIN sleeping' = {}
BY DEF Deactivate, Without, Restrict

LEMMA ScopeTypesKept ==
  ASSUME BaseInv, Next
  PROVE  ScopeTypes'
<1>1. ScopeTypes /\ Types
  BY DEF BaseInv, Types
<1>2. Partial(scope, ScopeId, ScopeType) /\ Partial(sleeping, Places, AsleepType)
  BY <1>1 DEF ScopeTypes
<1>3. CASE UNCHANGED <<scope, sleeping>>
  BY <1>2, <1>3 DEF ScopeTypes
<1>4. CASE LeaveChain
  <2>1. Partial(PutDown, Places, AsleepType)
    BY <1>4, Leaves, PutToSleep
  <2>2. Partial(Over(PutDown, sleeping), Places, AsleepType)
    BY <1>2, <2>1, Overlaid
  <2>3. Partial(Slept(Over(PutDown, sleeping), Parted), Places, AsleepType)
    BY <2>2, SleptTypes
  <2> QED
    BY <1>1, <1>4, <2>3, Leaves, LeftScopes DEF ScopeTypes
<1>5. CASE TakeSleeper
  <2>1. Partial(Without(sleeping, {NextPlace}), Places, AsleepType)
    BY <1>2, FewerOf
  <2> QED
    BY <1>2, <1>5, <2>1 DEF TakeSleeper, ScopeTypes
<1>6. CASE Install
  <2>1. Partial(Slept(sleeping, Under(Sleeper)), Places, AsleepType)
    BY <1>2, SleptTypes
  <2> QED
    BY <1>6, <2>1, InstalledScope DEF ScopeTypes
<1>7. CASE Rollback \/ GiveUp
  BY <1>1, <1>7, UnbuiltTypes DEF Rollback, GiveUp
<1>8. CASE Wake
  <2>1. UNCHANGED sleeping /\ (UNCHANGED scope \/ \E s \in DOMAIN scope : scope' = Woken(s))
    BY <1>8 DEF Wake, Woken
  <2> QED
    BY <1>1, <1>2, <2>1, WokenScope DEF ScopeTypes
<1>9. CASE Deactivate
  <2>1. PICK X : scope' = Without(scope, X)
    BY <1>9 DEF Deactivate
  <2>2. Partial(Without(scope, X), ScopeId, ScopeType)
    BY <1>2, FewerOf
  <2>3. Partial(sleeping', Places, AsleepType)
    BY <1>9 DEF Deactivate, Partial
  <2> QED
    BY <2>1, <2>2, <2>3 DEF ScopeTypes
<1> QED
  BY <1>1, <1>3, <1>4, <1>5, <1>6, <1>7, <1>8, <1>9, ScopeSteps

LEMMA ChainTypesKept ==
  ASSUME BaseInv, Next
  PROVE  ChainTypes'
<1>1. ChainTypes /\ Types
  BY DEF BaseInv, Types
<1>2. NoChain \in StoodType /\ Nowhere \in Route \cup {Nowhere}
  BY DEF NoChain, StoodType, Chains
<1>3. ~Idle => Running.nav \in DOMAIN calls /\ calls[Running.nav].route \in Route
  BY <1>1, TheCall, TheCalls DEF Types
<1>4. CASE Take
  BY <1>1, <1>2, <1>4 DEF Take, ChainTypes
<1>5. CASE Stand
  <2>1. ~Idle
    BY <1>5 DEF Stand
  <2>2. Target(Running) \in Chains /\ Running.scopes \in Seq(ScopeId)
    BY <2>1, TheTarget, TheCall DEF FrameType
  <2>3. (Running.nav # Activation) \in BOOLEAN
    OBVIOUS
  <2>4. active' \in StoodType
    BY <1>5, <2>2, <2>3 DEF Stand, StoodType
  <2> QED
    BY <1>1, <1>5, <2>4 DEF Stand, ChainTypes
<1>6. CASE Arrive
  BY <1>1, <1>3, <1>6 DEF Arrive, Waking, ChainTypes, chainVars
<1>7. CASE Tell
  BY <1>1, <1>3, <1>7 DEF Tell, Announced, ChainTypes, chainVars
<1>8. CASE GiveUp \/ Deactivate
  BY <1>1, <1>2, <1>8 DEF GiveUp, Deactivate, ChainTypes
<1>9. CASE \E r \in Route : Activate(r)
  BY <1>1, <1>2, <1>9 DEF Activate, ChainTypes, chainVars
<1>10. CASE Navigates
  BY <1>1, <1>10 DEF Navigates, NavigateThen, ChainTypes, chainVars
<1>11. CASE \E n \in asking, allowed \in BOOLEAN : Answer(n, allowed)
  BY <1>1, <1>11 DEF Answer, ChainTypes, chainVars
<1>12. CASE \/ EnterAllowed \/ LeaveAllowed \/ Block \/ Ask \/ Snapshot \/ LeaveChain \/ TakeSleeper \/ Install
            \/ Rollback \/ Wake \/ FallBack \/ BeginFrame \/ EndFrame
  BY <1>1, <1>12 DEF EnterAllowed, LeaveAllowed, Block, Ask, Snapshot, LeaveChain, TakeSleeper, Install, Rollback,
     Wake, FallBack, BeginFrame, EndFrame, ChainTypes, chainVars
<1> QED
  BY <1>1, <1>4, <1>5, <1>6, <1>7, <1>8, <1>9, <1>10, <1>11, <1>12, Steps

LEMMA TypesKept ==
  ASSUME BaseInv, Next
  PROVE  Types'
BY StackTypesKept, CallTypesKept, HistTypesKept, CacheTypesKept, ScopeTypesKept, ChainTypesKept DEF Types

(***************************************************************************)
(* Who is where                                                            *)
(***************************************************************************)
\* The steps in which the running call goes on as the navigation it is.
GoesOn ==
  /\ ~Idle
  /\ \E g \in FrameType :
       /\ Goes(g) /\ g.nav = Running.nav
       /\ g.at \in {"enter", "leave"} => Running.at \in {"enter", "leave"}

LEMMA GoingOnKeeps ==
  ASSUME BaseInv, GoesOn
  PROVE  /\ DOMAIN stack' = DOMAIN stack /\ Len(stack') = Len(stack)
         /\ \A f \in DOMAIN stack :
              /\ stack'[f].nav = stack[f].nav
              /\ stack'[f].at \in {"enter", "leave"} => stack[f].at \in {"enter", "leave"}
              /\ f # Len(stack) => stack'[f] = stack[f]
         /\ stack'[Len(stack)] = Running' /\ Running'.nav = Running.nav /\ Running' \in FrameType
         /\ Len(stack) \in DOMAIN stack
<1>1. StackTypes /\ stack \in Seq(FrameType) /\ Len(stack) \in DOMAIN stack /\ Running = stack[Len(stack)]
  BY TheRunning DEF BaseInv, Types, StackTypes, GoesOn
<1>2. PICK g \in FrameType : /\ Goes(g) /\ g.nav = Running.nav
                             /\ g.at \in {"enter", "leave"} => Running.at \in {"enter", "leave"}
  BY DEF GoesOn
<1>3. /\ DOMAIN stack' = DOMAIN stack /\ Len(stack') = Len(stack) /\ Running' = g
      /\ stack' = [stack EXCEPT ![Len(stack)] = g]
  BY <1>1, <1>2, GoingOn DEF GoesOn
<1> QED
  BY <1>1, <1>2, <1>3

\* The calls there are keep what they are about, but for the chain that is put
\* up with no route tree, which may be put up again.
LEMMA CallsKept ==
  ASSUME BaseInv, Next
  PROVE  \A n \in DOMAIN calls \cap DOMAIN calls' :
           \/ (\E r \in Route : Activate(r)) /\ n = Activation
           \/ /\ calls'[n].route = calls[n].route /\ calls'[n].step = calls[n].step
              /\ calls'[n].leaving = calls[n].leaving /\ calls'[n].shared = calls[n].shared
              /\ UNCHANGED (calls[n].asked) \/ ((EnterAllowed \/ Ask) /\ n = Running.nav)
<1>1. Types /\ CallTypes /\ Partial(calls, Call, CallType)
  BY DEF BaseInv, Types, CallTypes
<1>2. CASE UNCHANGED calls
  BY <1>2
<1>3. ASSUME NEW X, calls' = Without(calls, X)
      PROVE \A n \in DOMAIN calls \cap DOMAIN calls' : calls'[n] = calls[n]
  BY <1>1, <1>3, FewerCalls
<1>4. CASE EnterAllowed
  <2>1. ~Idle /\ calls' = Asking(Running.nav, LeavingScopes(Running.nav))
    BY <1>4 DEF EnterAllowed, Asking
  <2>2. Running.nav \in DOMAIN calls /\ LeavingScopes(Running.nav) \in SUBSET ScopeId
    BY <2>1, TheCall, GoingScopes
  <2> QED
    BY <1>1, <1>4, <2>1, <2>2, AskingOthers
<1>5. CASE Ask
  <2>1. ~Idle /\ Running.nav \in DOMAIN calls
    BY <1>5, TheCall DEF Ask
  <2>2. PICK S \in SUBSET ScopeId : calls' = Asking(Running.nav, S)
    <3>1. PICK s \in Refusers(Running) :
            calls' = Asking(Running.nav, IF Running.at = "enter" THEN {} ELSE calls[Running.nav].asked \cap Under({s}))
      BY <1>5 DEF Ask, Asking
    <3>2. calls[Running.nav].asked \cap Under({s}) \in SUBSET ScopeId /\ {} \in SUBSET ScopeId
      BY <1>1, <2>1, TheCalls
    <3> QED
      BY <3>1, <3>2
  <2> QED
    BY <1>1, <1>5, <2>1, <2>2, AskingOthers
<1>6. CASE Block \/ GiveUp \/ FallBack \/ Tell
  <2>1. calls' = Without(calls, {Running.nav})
    BY <1>6 DEF Block, GiveUp, FallBack, Tell, SettleRefused
  <2> QED
    BY <1>3, <2>1
<1>7. CASE LeaveAllowed
  <2>1. UNCHANGED calls \/ calls' = Without(calls, {held})
    BY <1>7 DEF LeaveAllowed, SettleRefused
  <2> QED
    BY <1>2, <1>3, <2>1
<1>8. CASE Arrive
  <2>1. UNCHANGED calls \/ calls' = Without(calls, {Running.nav})
    BY <1>8 DEF Arrive
  <2> QED
    BY <1>2, <1>3, <2>1
<1>9. CASE \E n \in asking, allowed \in BOOLEAN : Answer(n, allowed)
  <2>1. UNCHANGED calls \/ calls' = Without(calls, {pending})
    BY <1>9 DEF Answer, SettleRefused
  <2> QED
    BY <1>2, <1>3, <2>1
<1>10. CASE Navigates
  <2>1. PICK step \in {"start", "to", "back", "forward"}, r \in Route, h \in Histories : NavigateThen(step, r, h)
    BY <1>10 DEF Navigates
  <2>2. generation + 1 \notin DOMAIN calls
    BY <1>1, <2>1, NavigatesTo, RouterAssumption DEF BaseInv, Apart, Activation, CallTypes
  <2>3. \A n \in DOMAIN calls \cap DOMAIN calls' : calls'[n] = calls[n]
    BY <1>1, <2>1, <2>2, NavigatesTo
  <2> QED
    BY <2>3
<1>11. CASE \E r \in Route : Activate(r)
  <2>1. PICK r \in Route : Activate(r)
    BY <1>11
  <2>2. \A n \in DOMAIN calls : n # Activation => calls'[n] = calls[n]
    BY <2>1 DEF Activate, With
  <2> QED
    BY <1>11, <2>2
<1>12. CASE \/ Take \/ Snapshot \/ LeaveChain \/ TakeSleeper \/ Install \/ Rollback \/ Stand \/ Wake
            \/ BeginFrame \/ EndFrame \/ Deactivate
  BY <1>2, <1>12 DEF Take, Snapshot, LeaveChain, TakeSleeper, Install, Rollback, Stand, Wake,
     BeginFrame, EndFrame, Deactivate
<1> QED
  BY <1>1, <1>4, <1>5, <1>6, <1>7, <1>8, <1>9, <1>10, <1>11, <1>12, Steps

LEMMA NextFrame ==
  ASSUME BaseInv, Next, ~Idle, NEW g, Goes(g)
  PROVE  g \in FrameType /\ Running' = g
<1>1. stack' \in Seq(FrameType)
  BY StackTypesKept DEF StackTypes
<1>2. Callers \in Seq(FrameType)
  BY FrontOf DEF BaseInv, Types, StackTypes, Idle, Callers
<1>3. stack' = Append(Callers, g)
  BY DEF Goes
<1>4. Len(stack') = Len(Callers) + 1 /\ stack'[Len(Callers) + 1] = g /\ Len(Callers) + 1 \in DOMAIN stack'
  BY <1>2, <1>3
<1> QED
  BY <1>1, <1>4 DEF Running, Last

LEMMA StepsGoOn ==
  ASSUME BaseInv, Next,
         \/ EnterAllowed \/ (LeaveAllowed /\ ~HoldsBack) \/ Take \/ Snapshot \/ LeaveChain \/ TakeSleeper \/ Install
         \/ Rollback \/ Stand \/ Wake \/ (Arrive /\ UNCHANGED calls)
  PROVE  GoesOn
<1>1. ~Idle /\ Running \in FrameType /\ Running.nav \in DOMAIN calls
  <2>1. ~Idle
    BY DEF EnterAllowed, LeaveAllowed, Take, Snapshot, LeaveChain, TakeSleeper, Install, Rollback, Stand, Wake,
       Arrive, Building, Waking
  <2> QED
    BY <2>1, TheCall
<1>2. ASSUME NEW g, Goes(g), g.nav = Running.nav,
             g.at \in {"enter", "leave"} => Running.at \in {"enter", "leave"}
      PROVE  GoesOn
  BY <1>1, <1>2, NextFrame DEF GoesOn
<1> USE DEF FrameType
<1>3. CASE EnterAllowed
  <2> DEFINE g == [Running EXCEPT !.at = "leave"]
  <2>1. Goes(g) /\ g.nav = Running.nav /\ Running.at = "enter"
    BY <1>1, <1>3 DEF EnterAllowed
  <2> HIDE DEF g
  <2> QED
    BY <1>2, <2>1
<1>4. CASE LeaveAllowed /\ ~HoldsBack
  <2> DEFINE g == [Running EXCEPT !.at = "commit"]
  <2>1. Goes(g) /\ g.nav = Running.nav /\ g.at = "commit"
    BY <1>1, <1>4 DEF LeaveAllowed
  <2> HIDE DEF g
  <2> QED
    BY <1>2, <2>1
<1>5. CASE Take
  <2>1. PICK fl, nx : Goes([Running EXCEPT !.at = "leaving", !.old = active, !.scopes = active.scopes,
                              !.floor = fl, !.next = nx])
    BY <1>5 DEF Take
  <2> DEFINE g == [Running EXCEPT !.at = "leaving", !.old = active, !.scopes = active.scopes,
                     !.floor = fl, !.next = nx]
  <2>2. Goes(g) /\ g.nav = Running.nav /\ g.at = "leaving"
    BY <1>1, <2>1
  <2> HIDE DEF g
  <2> QED
    BY <1>2, <2>2
<1>6. CASE Snapshot
  <2> DEFINE g == [Running EXCEPT !.next = Running.next + 1]
  <2>1. Goes(g) /\ g.nav = Running.nav /\ g.at = Running.at
    BY <1>1, <1>6 DEF Snapshot
  <2> HIDE DEF g
  <2> QED
    BY <1>2, <2>1
<1>7. CASE LeaveChain
  <2> DEFINE g == [Running EXCEPT !.at = "building", !.scopes = SubSeq(Running.scopes, 1, Running.floor)]
  <2>1. Goes(g) /\ g.nav = Running.nav /\ g.at = "building"
    BY <1>1, <1>7, Leaves
  <2> HIDE DEF g
  <2> QED
    BY <1>2, <2>1
<1>8. CASE TakeSleeper \/ Install
  <2>1. PICK s : Goes([Running EXCEPT !.scopes = Append(Running.scopes, s)])
    BY <1>8 DEF TakeSleeper, Install
  <2> DEFINE g == [Running EXCEPT !.scopes = Append(Running.scopes, s)]
  <2>2. Goes(g) /\ g.nav = Running.nav /\ g.at = Running.at
    BY <1>1, <2>1
  <2> HIDE DEF g
  <2> QED
    BY <1>2, <2>2
<1>9. CASE Rollback
  <2> DEFINE g == [Running EXCEPT !.ok = FALSE, !.scopes = SubSeq(Running.scopes, 1, Running.floor)]
  <2>1. Goes(g) /\ g.nav = Running.nav /\ g.at = Running.at
    BY <1>1, <1>9 DEF Rollback
  <2> HIDE DEF g
  <2> QED
    BY <1>2, <2>1
<1>10. CASE Stand
  <2> DEFINE g == [Running EXCEPT !.at = "waking", !.next = 1]
  <2>1. Goes(g) /\ g.nav = Running.nav /\ g.at = "waking"
    BY <1>1, <1>10 DEF Stand
  <2> HIDE DEF g
  <2> QED
    BY <1>2, <2>1
<1>11. CASE Wake
  <2>1. PICK i : \/ Goes([Running EXCEPT !.at = "woken", !.next = i + 1])
                 \/ Goes([Running EXCEPT !.at = "waking", !.next = i + 1])
    BY <1>11 DEF Wake
  <2>2. PICK at \in {"woken", "waking"} : Goes([Running EXCEPT !.at = at, !.next = i + 1])
    BY <2>1
  <2> DEFINE g == [Running EXCEPT !.at = at, !.next = i + 1]
  <2>3. Goes(g) /\ g.nav = Running.nav /\ g.at = at
    BY <1>1, <2>2
  <2> HIDE DEF g
  <2> QED
    BY <1>2, <2>2, <2>3
<1>12. CASE Arrive /\ UNCHANGED calls
  <2> DEFINE g == [Running EXCEPT !.at = "telling"]
  <2>1. calls' # Without(calls, {Running.nav})
    BY <1>1, <1>12 DEF Without, Restrict
  <2>2. Goes(g) /\ g.nav = Running.nav /\ g.at = "telling"
    BY <1>1, <1>12, <2>1 DEF Arrive
  <2> HIDE DEF g
  <2> QED
    BY <1>2, <2>2
<1> QED
  BY <1>3, <1>4, <1>5, <1>6, <1>7, <1>8, <1>9, <1>10, <1>11, <1>12

\* The steps in which the running call is over.
StepsBack ==
  \/ (LeaveAllowed /\ HoldsBack) \/ Block \/ Ask \/ GiveUp \/ FallBack \/ Tell
  \/ (Arrive /\ calls' = Without(calls, {Running.nav}))

LEMMA StepsGoBack ==
  ASSUME BaseInv, StepsBack
  PROVE  /\ ~Idle /\ Returns
         /\ Len(stack) \in DOMAIN stack /\ Running = stack[Len(stack)]
         /\ DOMAIN stack' = DOMAIN stack \ {Len(stack)}
         /\ \A f \in DOMAIN stack' : stack'[f] = stack[f]
<1>1. ~Idle
  BY DEF StepsBack, LeaveAllowed, Block, Ask, GiveUp, FallBack, Tell, Arrive, Building, Waking
<1>2. Running \in FrameType /\ Running.nav \in DOMAIN calls /\ StackTypes
  BY <1>1, TheCall DEF BaseInv, Types
<1>3. Returns
  <2>1. CASE Arrive /\ calls' = Without(calls, {Running.nav})
    <3>1. ~UNCHANGED calls
      BY <1>2, <2>1 DEF Without, Restrict
    <3> QED
      BY <2>1, <3>1 DEF Arrive
  <2> QED
    BY <2>1 DEF StepsBack, LeaveAllowed, Block, Ask, GiveUp, FallBack, Tell
<1> QED
  BY <1>1, <1>2, <1>3, GoingBack, TheRunning

LEMMA ArriveEither ==
  ASSUME Arrive
  PROVE  UNCHANGED calls \/ calls' = Without(calls, {Running.nav})
BY DEF Arrive

LEMMA ApartKept ==
  ASSUME BaseInv, Next
  PROVE  Apart'
<1>1. /\ \A f, g \in DOMAIN stack : f # g => stack[f].nav # stack[g].nav
      /\ \A f \in DOMAIN stack : /\ stack[f].nav \in DOMAIN calls /\ stack[f].nav \notin {pending, held}
                                 /\ stack[f].at \in {"enter", "leave"} => stack[f].nav # Activation
      /\ pending # NoCall => pending \in DOMAIN calls /\ pending # held
      /\ held # NoCall => held \in DOMAIN calls
      /\ DOMAIN calls \subseteq 1..generation \cup {Activation}
      /\ Types /\ CallTypes
  BY DEF BaseInv, Apart, Types
<1>2. generation \in Nat /\ MaxNavigations \in Nat /\ generation <= MaxNavigations
      /\ pending \in 0..MaxNavigations /\ held \in 0..MaxNavigations
  BY <1>1, RouterAssumption DEF CallTypes
<1>3. 0 \notin DOMAIN calls
  BY <1>1, <1>2 DEF Activation
<1>4. CASE GoesOn /\ UNCHANGED <<pending, held, generation>> /\ DOMAIN calls' = DOMAIN calls
  BY <1>1, <1>4, GoingOnKeeps DEF Apart
<1>5. CASE StepsBack /\ UNCHANGED <<pending, held, generation>> /\ calls' = Without(calls, {Running.nav})
  <2>1. /\ DOMAIN stack' = DOMAIN stack \ {Len(stack)} /\ \A f \in DOMAIN stack' : stack'[f] = stack[f]
        /\ Len(stack) \in DOMAIN stack /\ Running = stack[Len(stack)]
    BY <1>5, StepsGoBack
  <2>2. DOMAIN calls' = DOMAIN calls \ {Running.nav}
    BY <1>1, <1>5, FewerCalls
  <2>3. Running.nav \notin {pending, held}
    BY <1>1, <2>1
  <2> QED
    BY <1>1, <1>5, <2>1, <2>2, <2>3 DEF Apart
<1>6. CASE LeaveAllowed /\ HoldsBack
  <2>1. /\ DOMAIN stack' = DOMAIN stack \ {Len(stack)} /\ \A f \in DOMAIN stack' : stack'[f] = stack[f]
        /\ Len(stack) \in DOMAIN stack /\ Running = stack[Len(stack)]
    BY <1>6, StepsGoBack DEF StepsBack
  <2>2. DOMAIN calls' = DOMAIN calls \ ({held} \ {NoCall})
    <3>1. CASE held = NoCall
      BY <1>6, <3>1 DEF LeaveAllowed
    <3>2. CASE held # NoCall
      BY <1>1, <1>6, <3>2, FewerCalls DEF LeaveAllowed, SettleRefused
    <3> QED
      BY <3>1, <3>2
  <2>3. held' = Running.nav /\ UNCHANGED <<pending, generation>>
    BY <1>6 DEF LeaveAllowed
  <2> QED
    BY <1>1, <2>1, <2>2, <2>3 DEF Apart
<1>7. CASE Ask
  <2>1. /\ DOMAIN stack' = DOMAIN stack \ {Len(stack)} /\ \A f \in DOMAIN stack' : stack'[f] = stack[f]
        /\ Len(stack) \in DOMAIN stack /\ Running = stack[Len(stack)]
    BY <1>7, StepsGoBack DEF StepsBack
  <2>2. DOMAIN calls' = DOMAIN calls
    BY <1>7 DEF Ask
  <2>3. pending' = Running.nav /\ UNCHANGED <<held, generation>>
    BY <1>7 DEF Ask, Park
  <2> QED
    BY <1>1, <2>1, <2>2, <2>3 DEF Apart
<1>8. CASE Navigates
  <2>1. PICK step \in {"start", "to", "back", "forward"}, r \in Route, h \in Histories : NavigateThen(step, r, h)
    BY <1>8 DEF Navigates
  <2>2. /\ generation' = generation + 1 /\ generation + 1 \in 1..MaxNavigations
        /\ DOMAIN calls' = (DOMAIN calls \ {pending}) \cup {generation + 1}
    BY <1>1, <2>1, NavigatesTo
  <2>3. generation + 1 \in Call /\ pending' = NoCall /\ held' = held
        /\ stack' = Append(stack, Frame(generation + 1, "enter"))
    BY <1>2, <2>1, <2>2 DEF NavigateThen, Call, Activation
  <2>4. /\ DOMAIN stack' = DOMAIN stack \cup {Len(stack')}
        /\ \A i \in DOMAIN stack : i # Len(stack') /\ stack'[i] = stack[i]
        /\ stack'[Len(stack')] = Frame(generation + 1, "enter")
    BY <1>1, <2>3, NewFrames, GoingIn DEF Types
  <2>5. Frame(generation + 1, "enter").nav = generation + 1
    BY DEF Frame
  <2>6. generation + 1 \notin DOMAIN calls /\ generation + 1 # Activation /\ generation + 1 # NoCall
        /\ 1..(generation + 1) = 1..generation \cup {generation + 1}
    BY <1>1, <1>2, <2>2 DEF Activation, NoCall
  <2> HIDE DEF Frame
  <2>7. \A f \in DOMAIN stack' : \/ f \in DOMAIN stack /\ stack'[f] = stack[f] /\ stack'[f].nav \in DOMAIN calls \ {pending}
                                 \/ f = Len(stack') /\ stack'[f].nav = generation + 1
    BY <1>1, <2>4, <2>5
  <2>8. \A f, g \in DOMAIN stack' : f # g => stack'[f].nav # stack'[g].nav
    BY <1>1, <2>6, <2>7
  <2>9. \A f \in DOMAIN stack' : /\ stack'[f].nav \in DOMAIN calls' /\ stack'[f].nav \notin {pending', held'}
                                 /\ stack'[f].at \in {"enter", "leave"} => stack'[f].nav # Activation
    <3>1. \A f \in DOMAIN stack' : stack'[f].nav \in DOMAIN calls'
      BY <2>2, <2>7
    <3>2. held # generation + 1 /\ NoCall \notin DOMAIN calls
      BY <1>1, <1>3, <2>6 DEF NoCall
    <3>3. \A f \in DOMAIN stack' : stack'[f].nav \notin {pending', held'}
      BY <1>1, <2>3, <2>6, <2>7, <3>2
    <3>4. \A f \in DOMAIN stack' : stack'[f].at \in {"enter", "leave"} => stack'[f].nav # Activation
      BY <1>1, <2>6, <2>7
    <3> QED
      BY <3>1, <3>3, <3>4
  <2>10. held' # NoCall => held' \in DOMAIN calls'
    BY <1>1, <2>2, <2>3
  <2>11. DOMAIN calls' \subseteq 1..generation' \cup {Activation}
    BY <1>1, <2>2, <2>6
  <2> QED
    BY <2>3, <2>8, <2>9, <2>10, <2>11 DEF Apart
<1>9. CASE \E r \in Route : Activate(r)
  <2>1. PICK r \in Route : Activate(r)
    BY <1>9
  <2>2. DOMAIN calls' = DOMAIN calls \cup {Activation} /\ UNCHANGED <<pending, held, generation>>
        /\ stack' = <<Frame(Activation, "commit")>>
    BY <2>1 DEF Activate, With, askVars
  <2>3. Frame(Activation, "commit").nav = Activation /\ Frame(Activation, "commit").at = "commit"
    BY DEF Frame
  <2>4. DOMAIN stack' = {1} /\ stack'[1].nav = Activation /\ stack'[1].at = "commit"
    BY <2>2, <2>3
  <2>5. Activation # pending /\ Activation # held
    BY <1>2 DEF Activation
  <2> QED
    BY <1>1, <2>2, <2>4, <2>5 DEF Apart
<1>10. CASE \E n \in asking, allowed \in BOOLEAN : Answer(n, allowed)
  <2>1. PICK n \in asking, allowed \in BOOLEAN : Answer(n, allowed)
    BY <1>10
  <2>2. CASE generation = n /\ pending # NoCall /\ allowed
    <3>1. stack' = Append(stack, Frame(pending, "commit")) /\ pending' = NoCall /\ UNCHANGED <<calls, held, generation>>
      BY <2>1, <2>2 DEF Answer
    <3>2. pending \in Call
      BY <1>2, <2>2 DEF Call, Activation, NoCall
    <3>3. Frame(pending, "commit").nav = pending /\ Frame(pending, "commit").at = "commit"
      BY DEF Frame
    <3>4. /\ DOMAIN stack' = DOMAIN stack \cup {Len(stack')}
          /\ \A i \in DOMAIN stack : i # Len(stack') /\ stack'[i] = stack[i]
          /\ stack'[Len(stack')].nav = pending /\ stack'[Len(stack')].at = "commit"
      BY <1>1, <3>1, <3>2, <3>3, NewFrames, GoingIn DEF Types
    <3>5. NoCall \notin DOMAIN calls
      BY <1>3 DEF NoCall
    <3> QED
      BY <1>1, <2>2, <3>1, <3>4, <3>5 DEF Apart
  <2>3. CASE generation = n /\ pending # NoCall /\ ~allowed
    <3>1. calls' = Without(calls, {pending}) /\ pending' = NoCall /\ UNCHANGED <<stack, held, generation>>
      BY <2>1, <2>3 DEF Answer, SettleRefused
    <3>2. DOMAIN calls' = DOMAIN calls \ {pending}
      BY <1>1, <3>1, FewerCalls
    <3>3. NoCall \notin DOMAIN calls
      BY <1>3 DEF NoCall
    <3> QED
      BY <1>1, <3>1, <3>2, <3>3 DEF Apart
  <2>4. CASE ~(generation = n /\ pending # NoCall)
    <3>1. UNCHANGED <<pending, calls, stack, held, generation>>
      BY <2>1, <2>4 DEF Answer
    <3> QED
      BY <1>1, <3>1 DEF Apart
  <2> QED
    BY <2>2, <2>3, <2>4
<1>11. CASE EndFrame
  <2>1. CASE held = NoCall
    <3>1. UNCHANGED <<pending, calls, stack, held, generation>>
      BY <1>11, <2>1 DEF EndFrame
    <3> QED
      BY <1>1, <3>1 DEF Apart
  <2>2. CASE held # NoCall
    <3>1. stack' = <<Frame(held, "commit")>> /\ held' = NoCall /\ UNCHANGED <<pending, calls, generation>>
      BY <1>11, <2>2 DEF EndFrame
    <3>2. Frame(held, "commit").nav = held /\ Frame(held, "commit").at = "commit"
      BY DEF Frame
    <3>3. DOMAIN stack' = {1} /\ stack'[1].nav = held /\ stack'[1].at = "commit"
      BY <3>1, <3>2
    <3> QED
      BY <1>1, <1>3, <2>2, <3>1, <3>3 DEF Apart, NoCall
  <2> QED
    BY <2>1, <2>2
<1>12. CASE BeginFrame \/ Deactivate
  <2>1. UNCHANGED <<pending, calls, stack, held, generation>>
    BY <1>12 DEF BeginFrame, Deactivate, askVars
  <2> QED
    BY <1>1, <2>1 DEF Apart
<1>13. CASE Block \/ GiveUp \/ FallBack \/ Tell
  BY <1>5, <1>13 DEF StepsBack, Block, GiveUp, FallBack, Tell, SettleRefused, askVars
<1>14. CASE Arrive
  <2>1. UNCHANGED <<pending, held, generation>>
    BY <1>14 DEF Arrive, askVars
  <2> QED
    BY <1>4, <1>5, <1>14, <2>1, ArriveEither, StepsGoOn DEF StepsBack
<1>15. CASE EnterAllowed \/ (LeaveAllowed /\ ~HoldsBack)
  <2>1. UNCHANGED <<pending, held, generation>> /\ DOMAIN calls' = DOMAIN calls
    BY <1>15 DEF EnterAllowed, LeaveAllowed, askVars
  <2> QED
    BY <1>4, <1>15, <2>1, StepsGoOn
<1>16. CASE Take \/ Snapshot \/ LeaveChain \/ TakeSleeper \/ Install \/ Rollback \/ Stand \/ Wake
  <2>1. UNCHANGED <<pending, held, generation, calls>>
    BY <1>16 DEF Take, Snapshot, LeaveChain, TakeSleeper, Install, Rollback, Stand, Wake, askVars
  <2> QED
    BY <1>4, <1>16, <2>1, StepsGoOn
<1> QED
  BY <1>1, <1>6, <1>7, <1>8, <1>9, <1>10, <1>11, <1>12, <1>13, <1>14, <1>15, <1>16, Steps

LEMMA EmptyChain ==
  ASSUME NEW n \in Nat
  PROVE  Shaped(Frame(n, "enter"), 0) /\ Shaped(Frame(n, "commit"), 0)
         /\ \A m : Shaped(Frame(n, "enter"), m) /\ Shaped(Frame(n, "commit"), m)
BY DEF Shaped, Frame, NoChain

\* Which calls there are after a step, and how long their chains.
LEMMA SharedKept ==
  ASSUME BaseInv, Next
  PROVE  \A n \in DOMAIN calls' : calls'[n].shared <= RouteLen(n)'
<1>1. \A n \in DOMAIN calls : calls[n].shared <= RouteLen(n)
  BY DEF BaseInv, Shapes
<1>2. ASSUME NEW n \in DOMAIN calls', n \in DOMAIN calls, ~((\E r \in Route : Activate(r)) /\ n = Activation)
      PROVE  calls'[n].shared <= RouteLen(n)'
  <2>1. calls'[n].route = calls[n].route /\ calls'[n].shared = calls[n].shared
    BY <1>2, CallsKept
  <2> QED
    BY <1>1, <1>2, <2>1 DEF RouteLen
<1>3. CASE Navigates
  <2>1. PICK step \in {"start", "to", "back", "forward"}, r \in Route, h \in Histories : NavigateThen(step, r, h)
    BY <1>3 DEF Navigates
  <2>2. /\ DOMAIN calls' = (DOMAIN calls \ {pending}) \cup {generation + 1}
        /\ calls'[generation + 1] = NewCall(step, r)
    BY <2>1, NavigatesTo DEF BaseInv
  <2>3. NewCall(step, r).shared = SharedLen(Chain[r]) /\ NewCall(step, r).route = r
    BY DEF NewCall
  <2>4. SharedLen(Chain[r]) <= Len(Chain[r])
    BY SharedIsCommon, RoutesHaveChains DEF BaseInv, Types
  <2>5. \A n \in DOMAIN calls' \ {generation + 1} : n \in DOMAIN calls /\ ~((\E q \in Route : Activate(q)) /\ n = Activation)
    <3>1. ~\E q \in Route : Activate(q)
      <4>1. SUFFICES ASSUME NEW q \in Route, Activate(q) PROVE FALSE
        OBVIOUS
      <4>2. generation' = generation /\ generation' = generation + 1 /\ generation \in Nat
        BY <2>1, <4>1, RouterAssumption DEF Activate, NavigateThen, askVars, BaseInv, Types, CallTypes
      <4> QED
        BY <4>2
    <3> QED
      BY <2>2, <3>1
  <2> QED
    BY <1>2, <2>2, <2>3, <2>4, <2>5 DEF RouteLen
<1>4. CASE \E r \in Route : Activate(r)
  <2>1. PICK r \in Route : Activate(r)
    BY <1>4
  <2>2. calls' = With(calls, Activation, [route |-> r, step |-> "activate", leaving |-> Nowhere,
                                          shared |-> 0, asked |-> {}])
    BY <2>1 DEF Activate
  <2>3. /\ DOMAIN calls' = DOMAIN calls \cup {Activation}
        /\ calls'[Activation].shared = 0 /\ calls'[Activation].route = r
    BY <2>2 DEF With
  <2>4. Len(Chain[r]) \in Nat
    BY RoutesHaveChains
  <2> QED
    BY <1>2, <2>3, <2>4 DEF RouteLen
<1>5. CASE ~Navigates /\ ~\E r \in Route : Activate(r)
  <2>1. DOMAIN calls' \subseteq DOMAIN calls
    <3>1. Partial(calls, Call, CallType) /\ CallTypes
      BY DEF BaseInv, Types, CallTypes
    <3>2. \A X : calls' = Without(calls, X) => DOMAIN calls' \subseteq DOMAIN calls
      BY DEF Without, Restrict
    <3>3. CASE \/ EnterAllowed \/ Ask \/ Take \/ Snapshot \/ LeaveChain \/ TakeSleeper \/ Install \/ Rollback
               \/ Stand \/ Wake \/ BeginFrame \/ EndFrame \/ Deactivate
      BY <3>3 DEF EnterAllowed, Ask, Take, Snapshot, LeaveChain, TakeSleeper, Install, Rollback,
         Stand, Wake, BeginFrame, EndFrame, Deactivate
    <3>4. CASE \/ LeaveAllowed \/ Block \/ GiveUp \/ Arrive \/ FallBack \/ Tell
               \/ (\E n \in asking, allowed \in BOOLEAN : Answer(n, allowed))
      <4>1. UNCHANGED calls \/ \E X : calls' = Without(calls, X)
        BY <3>4 DEF LeaveAllowed, Block, GiveUp, Arrive, FallBack, Tell, Answer, SettleRefused
      <4> QED
        BY <3>2, <4>1
    <3> QED
      BY <1>5, <3>3, <3>4, Steps DEF BaseInv
  <2> QED
    BY <1>2, <1>5, <2>1
<1> QED
  BY <1>3, <1>4, <1>5

LEMMA ActiveSteps ==
  ASSUME Types, Next
  PROVE  \/ Take /\ active' = NoChain
         \/ Deactivate /\ active' = NoChain
         \/ Stand
         \/ UNCHANGED active
<1>1. CASE \/ EnterAllowed \/ LeaveAllowed \/ Block \/ Ask \/ Take \/ Snapshot \/ LeaveChain \/ TakeSleeper
           \/ Install \/ Rollback \/ GiveUp \/ Stand \/ Wake \/ Arrive \/ FallBack \/ Tell
           \/ (\E r \in Route : Activate(r)) \/ BeginFrame \/ EndFrame \/ Deactivate
  BY <1>1 DEF EnterAllowed, LeaveAllowed, Block, Ask, Take, Snapshot, LeaveChain, TakeSleeper, Install, Rollback,
     GiveUp, Wake, Arrive, FallBack, Tell, Activate, BeginFrame, EndFrame, Deactivate, chainVars
<1>2. CASE Navigates
  BY <1>2 DEF Navigates, NavigateThen, chainVars
<1>3. CASE \E n \in asking, allowed \in BOOLEAN : Answer(n, allowed)
  BY <1>3 DEF Answer, chainVars
<1> QED
  BY <1>1, <1>2, <1>3, Steps

\* All of the chain is there when it stands.
LEMMA AllBuilt ==
  ASSUME BaseInv, Stand
  PROVE  Len(Running.scopes) = Len(Target(Running))
<1>1. ~Idle /\ Running.at = "building" /\ NextIndex \notin DOMAIN Target(Running)
  BY DEF Stand
<1>2. Running \in FrameType /\ Target(Running) \in Seq(SegmentType)
  BY <1>1, TheCall, TheTarget, ChainsAreSequences
<1>3. Len(Running.scopes) \in Nat /\ Len(Target(Running)) \in Nat /\ DOMAIN Target(Running) = 1..Len(Target(Running))
  BY <1>2 DEF FrameType
<1>4. Len(Running.scopes) <= Len(Target(Running))
  BY <1>1, TheCall, TheTarget DEF Shaped
<1> QED
  BY <1>1, <1>3, <1>4 DEF NextIndex

LEMMA RunningShaped ==
  ASSUME BaseInv, Next, GoesOn, NEW n, n = RouteLen(Running.nav),
         \/ EnterAllowed \/ (LeaveAllowed /\ ~HoldsBack) \/ Take \/ Snapshot \/ LeaveChain \/ TakeSleeper \/ Install
         \/ Rollback \/ Stand \/ Wake \/ (Arrive /\ UNCHANGED calls)
  PROVE  Shaped(Running', n)
<1>1. Running \in FrameType /\ Shaped(Running, n) /\ ~Idle /\ StackTypes /\ calls[Running.nav].shared <= n
      /\ Shared(Running.nav) \in Nat
  BY TheCall DEF GoesOn, BaseInv, Types
<1>2. Running' \in FrameType /\ \A g : Goes(g) => Running' = g
  BY <1>1, NextFrame, GoingOnKeeps
<1>3. n \in Nat
  BY <1>1, TheCall, RoutesHaveChains DEF RouteLen, CallType
<1>4. /\ Len(Running.scopes) \in Nat /\ Running.scopes \in Seq(ScopeId) /\ Running.floor \in Nat
      /\ Running.old \in StoodType /\ Running.ok \in BOOLEAN
  BY <1>1 DEF FrameType
<1>5. Len(Running.old.chain) \in Nat
  BY <1>4, ChainsAreSequences DEF StoodType
<1> DEFINE R == Running
<1>6. CASE EnterAllowed \/ (LeaveAllowed /\ ~HoldsBack) \/ Stand \/ Wake \/ (Arrive /\ UNCHANGED calls)
  <2>1. Running'.at \notin {"leaving", "building"} /\ Running'.old = Running.old
    <3>1. CASE EnterAllowed
      BY <1>1, <1>2, <3>1 DEF EnterAllowed, FrameType
    <3>2. CASE LeaveAllowed /\ ~HoldsBack
      BY <1>1, <1>2, <3>2 DEF LeaveAllowed, FrameType
    <3>3. CASE Stand
      BY <1>1, <1>2, <3>3 DEF Stand, FrameType
    <3>4. CASE Wake
      <4>1. PICK i : \/ Goes([Running EXCEPT !.at = "woken", !.next = i + 1])
                     \/ Goes([Running EXCEPT !.at = "waking", !.next = i + 1])
        BY <3>4 DEF Wake
      <4> QED
        BY <1>1, <1>2, <4>1 DEF FrameType
    <3>5. CASE Arrive /\ UNCHANGED calls
      <4>1. calls' # Without(calls, {Running.nav})
        BY <1>1, <3>5, TheCall DEF Without, Restrict
      <4>2. Goes([Running EXCEPT !.at = "telling"])
        BY <3>5, <4>1 DEF Arrive
      <4> QED
        BY <1>1, <1>2, <4>2 DEF FrameType
    <3> QED
      BY <1>6, <3>1, <3>2, <3>3, <3>4, <3>5
  <2> QED
    BY <1>1, <2>1 DEF Shaped
<1>7. CASE Take
  <2> DEFINE floor == Least(Shared(Running.nav), Len(active.scopes))
  <2>1. PICK nx : Goes([Running EXCEPT !.at = "leaving", !.old = active, !.scopes = active.scopes,
                          !.floor = floor, !.next = nx])
    BY <1>7 DEF Take
  <2>2. active \in StoodType /\ Len(active.scopes) = Len(active.chain)
    BY DEF BaseInv, Types, ChainTypes, Shapes
  <2>3. Len(active.scopes) \in Nat
    BY <2>2 DEF StoodType
  <2>4. floor \in Nat /\ floor <= Shared(Running.nav) /\ floor <= Len(active.scopes)
    BY <1>1, <2>3, Floors
  <2>5. Shared(Running.nav) <= n
    <3>1. CASE Running.nav = Activation
      BY <1>3, <3>1 DEF Shared
    <3>2. CASE Running.nav # Activation
      BY <1>1, <3>2 DEF Shared
    <3> QED
      BY <3>1, <3>2
  <2>6. floor <= n
    BY <1>1, <1>3, <2>4, <2>5
  <2> HIDE DEF floor
  <2>7. /\ Running'.at = "leaving" /\ Running'.old = active /\ Running'.scopes = active.scopes
        /\ Running'.floor = floor
    BY <1>1, <1>2, <2>1 DEF FrameType
  <2> QED
    BY <2>2, <2>4, <2>6, <2>7 DEF Shaped
<1>8. CASE Snapshot
  <2>1. Running' = [Running EXCEPT !.next = Running.next + 1]
    BY <1>2, <1>8 DEF Snapshot
  <2>2. /\ Running'.at = Running.at /\ Running'.old = Running.old /\ Running'.scopes = Running.scopes
        /\ Running'.floor = Running.floor /\ Running'.ok = Running.ok
    BY <1>1, <2>1 DEF FrameType
  <2> QED
    BY <1>1, <2>2 DEF Shaped
<1>9. CASE LeaveChain \/ Rollback
  <2>1. /\ Running.at \in {"leaving", "building"}
        /\ Running.at = "leaving" => LeaveChain
    BY <1>9 DEF LeaveChain, Rollback, Building
  <2>2. /\ Running.floor <= Len(Running.scopes) /\ Running.floor <= Len(Running.old.chain) /\ Running.floor <= n
        /\ Len(Running.old.scopes) = Len(Running.old.chain)
    BY <1>1, <2>1 DEF Shaped
  <2>3. Len(SubSeq(Running.scopes, 1, Running.floor)) = Running.floor
    BY <1>4, <2>2, Beginning
  <2>4. /\ Running'.at = "building" /\ Running'.old = Running.old /\ Running'.floor = Running.floor
        /\ Running'.scopes = SubSeq(Running.scopes, 1, Running.floor)
    <3>1. CASE LeaveChain
      BY <1>1, <1>2, <3>1, Leaves DEF FrameType
    <3>2. CASE Rollback
      BY <1>1, <1>2, <3>2 DEF Rollback, Building, FrameType
    <3> QED
      BY <1>9, <3>1, <3>2
  <2>5. Running'.floor <= Len(Running'.scopes) /\ Len(Running'.scopes) = Running.floor
    BY <1>4, <2>3, <2>4
  <2> QED
    BY <1>3, <1>4, <1>5, <2>2, <2>4, <2>5 DEF Shaped
<1>10. CASE TakeSleeper \/ Install
  <2>1. PICK s : Goes([Running EXCEPT !.scopes = Append(Running.scopes, s)])
    BY <1>10 DEF TakeSleeper, Install
  <2>2. Building
    BY <1>10 DEF TakeSleeper, Install
  <2>3. Len(Running.scopes) + 1 <= IF Running.ok THEN n ELSE Len(Running.old.chain)
    BY <1>1, <2>2, TheNext, TheTarget
  <2>4. Len(Append(Running.scopes, s)) = Len(Running.scopes) + 1
    BY <1>4
  <2>5. /\ Running'.at = Running.at /\ Running'.old = Running.old /\ Running'.ok = Running.ok
        /\ Running'.scopes = Append(Running.scopes, s) /\ Running'.floor = Running.floor /\ Running.at = "building"
    BY <1>1, <1>2, <2>1, <2>2 DEF FrameType, Building
  <2>6. Running.floor <= Len(Running.scopes)
    BY <1>1, <2>5 DEF Shaped
  <2>7. Running'.floor <= Len(Running'.scopes)
    BY <1>4, <2>4, <2>5, <2>6
  <2> QED
    BY <1>1, <2>3, <2>4, <2>5, <2>7 DEF Shaped
<1> QED
  BY <1>6, <1>7, <1>8, <1>9, <1>10

LEMMA ShapesKept ==
  ASSUME BaseInv, Next
  PROVE  Shapes'
<1>1. /\ Len(active.scopes) = Len(active.chain)
      /\ \A f \in DOMAIN stack, n \in DOMAIN calls : stack[f].nav = n => Shaped(stack[f], RouteLen(n))
      /\ \A f \in DOMAIN stack : stack[f].nav \in DOMAIN calls
      /\ \A f \in DOMAIN stack' : stack'[f].nav \in DOMAIN calls'
      /\ Types
  BY ApartKept DEF BaseInv, Shapes, Apart
<1>2. Len(active'.scopes) = Len(active'.chain)
  <2>1. CASE Stand
    <3>1. active' = [chain |-> Target(Running), scopes |-> Running.scopes, again |-> Running.nav # Activation]
      BY <2>1 DEF Stand
    <3> QED
      BY <2>1, <3>1, AllBuilt
  <2> QED
    BY <1>1, <2>1, ActiveSteps DEF NoChain
<1>3. \A n \in DOMAIN calls' : calls'[n].shared <= RouteLen(n)'
  BY SharedKept
<1>4. ASSUME NEW n \in DOMAIN calls, n \in DOMAIN calls', ~\E r \in Route : Activate(r)
      PROVE  RouteLen(n)' = RouteLen(n)
  <2>1. calls'[n].route = calls[n].route
    BY <1>1, <1>4, CallsKept
  <2> QED
    BY <2>1 DEF RouteLen
<1>5. CASE GoesOn /\ (\/ EnterAllowed \/ (LeaveAllowed /\ ~HoldsBack) \/ Take \/ Snapshot \/ LeaveChain
                     \/ TakeSleeper \/ Install \/ Rollback \/ Stand \/ Wake \/ (Arrive /\ UNCHANGED calls))
  <2>1. /\ DOMAIN stack' = DOMAIN stack /\ Len(stack) \in DOMAIN stack
        /\ \A f \in DOMAIN stack : stack'[f].nav = stack[f].nav /\ (f # Len(stack) => stack'[f] = stack[f])
        /\ stack'[Len(stack)] = Running' /\ Running = stack[Len(stack)]
    BY <1>5, GoingOnKeeps, TheRunning DEF GoesOn, BaseInv, Types
  <2>2. \A n : n = Running.nav => Shaped(Running', RouteLen(n))
    BY <1>5, RunningShaped
  <2>3. ~\E r \in Route : Activate(r)
    BY <1>5 DEF GoesOn, Activate
  <2>4. ASSUME NEW f \in DOMAIN stack', NEW n \in DOMAIN calls', stack'[f].nav = n
        PROVE  Shaped(stack'[f], RouteLen(n)')
    <3>1. n = stack[f].nav /\ n \in DOMAIN calls
      BY <1>1, <2>1, <2>4
    <3>2. RouteLen(n)' = RouteLen(n)
      BY <1>4, <2>3, <3>1
    <3>3. CASE f = Len(stack)
      <4>1. Shaped(Running', RouteLen(n))
        BY <2>1, <2>2, <3>1, <3>3
      <4>2. stack'[f] = Running'
        BY <2>1, <3>3
      <4> QED
        BY <3>2, <4>1, <4>2
    <3>4. CASE f # Len(stack)
      BY <1>1, <2>1, <2>4, <3>1, <3>2, <3>4
    <3> QED
      BY <3>3, <3>4
  <2> QED
    BY <1>2, <1>3, <2>4 DEF Shapes
<1>6. CASE StepsBack \/ UNCHANGED stack
  <2>1. DOMAIN stack' \subseteq DOMAIN stack /\ \A f \in DOMAIN stack' : stack'[f] = stack[f]
    BY <1>6, StepsGoBack
  <2>2. ~\E r \in Route : Activate(r)
    <3>1. CASE StepsBack
      BY <3>1, StepsGoBack DEF Activate
    <3>2. CASE UNCHANGED stack
      <4>1. SUFFICES ASSUME NEW r \in Route, Activate(r) PROVE FALSE
        OBVIOUS
      <4>2. stack = <<>> /\ stack' = <<Frame(Activation, "commit")>>
        BY <4>1 DEF Activate, Idle
      <4> QED
        BY <3>2, <4>2
    <3> QED
      BY <1>6, <3>1, <3>2
  <2>3. ASSUME NEW f \in DOMAIN stack', NEW n \in DOMAIN calls', stack'[f].nav = n
        PROVE  Shaped(stack'[f], RouteLen(n)')
    <3>1. n = stack[f].nav /\ n \in DOMAIN calls
      BY <1>1, <2>1, <2>3
    <3>2. RouteLen(n)' = RouteLen(n)
      BY <1>4, <2>2, <3>1
    <3> QED
      BY <1>1, <2>1, <2>3, <3>1, <3>2
  <2> QED
    BY <1>2, <1>3, <2>3 DEF Shapes
<1>7. CASE \E n \in Call, at \in {"enter", "commit"} : stack' = Append(stack, Frame(n, at)) /\ ~\E r \in Route : Activate(r)
  <2>1. PICK n \in Call, at \in {"enter", "commit"} : stack' = Append(stack, Frame(n, at)) /\ ~\E r \in Route : Activate(r)
    BY <1>7
  <2>2. Frame(n, at) \in FrameType /\ n \in Nat
    BY <2>1, NewFrames, RouterAssumption DEF Call, Activation
  <2>3. /\ DOMAIN stack' = DOMAIN stack \cup {Len(stack')}
        /\ \A i \in DOMAIN stack : i # Len(stack') /\ stack'[i] = stack[i]
        /\ stack'[Len(stack')] = Frame(n, at)
    BY <1>1, <2>1, <2>2, GoingIn DEF Types
  <2>4. ASSUME NEW f \in DOMAIN stack', NEW m \in DOMAIN calls', stack'[f].nav = m
        PROVE  Shaped(stack'[f], RouteLen(m)')
    <3>1. CASE f \in DOMAIN stack
      <4>1. m = stack[f].nav /\ m \in DOMAIN calls
        BY <1>1, <2>3, <2>4, <3>1
      <4>2. RouteLen(m)' = RouteLen(m)
        BY <1>4, <2>1, <4>1
      <4> QED
        BY <1>1, <2>3, <3>1, <4>1, <4>2
    <3>2. CASE f = Len(stack')
      BY <2>1, <2>2, <2>3, <3>2, EmptyChain
    <3> QED
      BY <2>3, <3>1, <3>2
  <2> QED
    BY <1>2, <1>3, <2>4 DEF Shapes
<1>8. CASE \E n \in Call : stack' = <<Frame(n, "commit")>>
  <2>1. PICK n \in Call : stack' = <<Frame(n, "commit")>>
    BY <1>8
  <2>2. n \in Nat /\ \A f \in DOMAIN stack' : stack'[f] = Frame(n, "commit")
    BY <2>1, RouterAssumption DEF Call, Activation
  <2>3. ASSUME NEW f \in DOMAIN stack', NEW m \in DOMAIN calls', stack'[f].nav = m
        PROVE  Shaped(stack'[f], RouteLen(m)')
    BY <2>2, <2>3, EmptyChain
  <2> QED
    BY <1>2, <1>3, <2>3 DEF Shapes
<1>9. CASE Navigates
  <2>1. PICK step \in {"start", "to", "back", "forward"}, r \in Route, h \in Histories : NavigateThen(step, r, h)
    BY <1>9 DEF Navigates
  <2>2. generation' = generation + 1 /\ generation + 1 \in Call /\ generation \in Nat
        /\ stack' = Append(stack, Frame(generation + 1, "enter"))
    BY <1>1, <2>1, RouterAssumption DEF NavigateThen, Types, CallTypes, Call, Activation
  <2>3. ~\E q \in Route : Activate(q)
    <3>1. SUFFICES ASSUME NEW q \in Route, Activate(q) PROVE FALSE
      OBVIOUS
    <3>2. generation' = generation
      BY <3>1 DEF Activate, askVars
    <3> QED
      BY <2>2, <3>2
  <2> QED
    BY <1>7, <2>2, <2>3
<1>10. CASE \E r \in Route : Activate(r)
  <2>1. stack' = <<Frame(Activation, "commit")>> /\ Activation \in Call
    BY <1>10, RouterAssumption DEF Activate, Call, Activation
  <2> QED
    BY <1>8, <2>1
<1>11. CASE \E n \in asking, allowed \in BOOLEAN : Answer(n, allowed)
  <2>1. PICK n \in asking, allowed \in BOOLEAN : Answer(n, allowed)
    BY <1>11
  <2>2. CASE UNCHANGED stack
    BY <1>6, <2>2
  <2>3. CASE pending # NoCall /\ stack' = Append(stack, Frame(pending, "commit"))
    <3>1. pending \in Call
      BY <1>1, <2>3, RouterAssumption DEF Types, CallTypes, Call, Activation, NoCall
    <3>2. ~\E q \in Route : Activate(q)
      <4>1. SUFFICES ASSUME NEW q \in Route, Activate(q) PROVE FALSE
        OBVIOUS
      <4>2. asking' = asking /\ asking' = asking \ {n}
        BY <2>1, <4>1 DEF Activate, Answer, askVars
      <4> QED
        BY <2>1, <4>2
    <3> QED
      BY <1>7, <2>3, <3>1, <3>2
  <2> QED
    BY <2>1, <2>2, <2>3 DEF Answer
<1>12. CASE EndFrame
  <2>1. held # NoCall => held \in Call
    BY <1>1, RouterAssumption DEF Types, CallTypes, Call, Activation, NoCall
  <2> QED
    BY <1>6, <1>8, <1>12, <2>1 DEF EndFrame
<1>13. CASE BeginFrame \/ Deactivate
  BY <1>6, <1>13 DEF BeginFrame, Deactivate
<1>14. CASE \/ (LeaveAllowed /\ HoldsBack) \/ Block \/ Ask \/ GiveUp \/ FallBack \/ Tell
            \/ (Arrive /\ calls' = Without(calls, {Running.nav}))
  BY <1>6, <1>14 DEF StepsBack
<1>15. CASE \/ EnterAllowed \/ (LeaveAllowed /\ ~HoldsBack) \/ Take \/ Snapshot \/ LeaveChain \/ TakeSleeper
            \/ Install \/ Rollback \/ Stand \/ Wake \/ (Arrive /\ UNCHANGED calls)
  BY <1>5, <1>15, StepsGoOn
<1> QED
  BY <1>1, <1>9, <1>10, <1>11, <1>12, <1>13, <1>14, <1>15, ArriveEither, Steps

LEMMA BaseBegins ==
  ASSUME Init
  PROVE  BaseInv
<1>1. NoChain \in StoodType
  BY DEF NoChain, StoodType, Chains
<1>2. MaxNavigations \in Nat /\ MaxCached \in Nat
  BY RouterAssumption
<1>3. DOMAIN scope = {} /\ DOMAIN sleeping = {} /\ DOMAIN calls = {} /\ DOMAIN stack = {}
  BY DEF Init
<1>4. ChainTypes /\ CacheTypes /\ HistTypes /\ StackTypes
  BY <1>1, <1>2 DEF Init, ChainTypes, CacheTypes, HistTypes, StackTypes
<1>5. ScopeTypes
  BY <1>3 DEF ScopeTypes, Partial, Init
<1>6. CallTypes
  <2>1. Partial(calls, Call, CallType)
    BY <1>3 DEF Partial, Init
  <2>2. /\ generation = 0 /\ pending = 0 /\ held = 0 /\ asking = {} /\ drawing = FALSE
        /\ 0 \in 0..MaxNavigations
    BY <1>2 DEF Init, NoCall
  <2> QED
    BY <2>1, <2>2 DEF CallTypes
<1>7. Shapes /\ Apart
  BY <1>3 DEF Init, Shapes, Apart, NoChain
<1> QED
  BY <1>4, <1>5, <1>6, <1>7 DEF BaseInv, Types

LEMMA BaseInductive ==
  ASSUME BaseInv, [Next]_vars
  PROVE  BaseInv'
<1>1. CASE Next
  BY <1>1, TypesKept, ShapesKept, ApartKept DEF BaseInv
<1>2. CASE UNCHANGED vars
  BY <1>2 DEF vars, BaseInv, Types, ChainTypes, ScopeTypes, CacheTypes, CallTypes, HistTypes, StackTypes, Shapes,
     Apart, RouteLen
<1> QED
  BY <1>1, <1>2

LEMMA BaseImpliesType ==
  ASSUME BaseInv
  PROVE  TypeOK
<1>1. Types /\ Shapes /\ Apart
  BY DEF BaseInv
<1>2. active.again \in BOOLEAN /\ Len(active.chain) <= Len(active.scopes)
  <2>1. active \in StoodType
    BY <1>1 DEF Types, ChainTypes
  <2>2. active.again \in BOOLEAN /\ active.scopes \in Seq(ScopeId)
    BY <2>1 DEF StoodType
  <2> QED
    BY <1>1, <2>2 DEF Shapes
<1>3. DOMAIN scope \subseteq ScopeId /\ DOMAIN sleeping \subseteq Places
      /\ \A s \in DOMAIN scope : /\ ToSet(scope[s].line) \subseteq ScopeId
                                 /\ scope[s].made \in Segments /\ scope[s].states \subseteq Segments
                                 /\ scope[s].awake \in BOOLEAN
  <2>1. \A s \in DOMAIN scope : scope[s] \in ScopeType
    BY <1>1 DEF Types, ScopeTypes, Partial
  <2>2. \A l \in Seq(ScopeId) : ToSet(l) \subseteq ScopeId
    BY DEF ToSet
  <2> QED
    BY <1>1, <2>1, <2>2 DEF Types, ScopeTypes, Partial, ScopeType
<1>4. Len(cache) <= MaxCached
  BY <1>1 DEF Types, CacheTypes
<1>5. DOMAIN calls \subseteq Call /\ \A n \in DOMAIN calls : calls[n].route \in Route /\ calls[n].asked \subseteq ScopeId
  BY <1>1, TheCalls DEF Types
<1>6. ToSet(hist.back) \cup ToSet(hist.forward) \subseteq Route
  BY <1>1 DEF Types, HistTypes, ToSet
<1>7. \A f \in DOMAIN stack : stack[f].nav \in DOMAIN calls
  BY <1>1 DEF Apart
<1>8. /\ generation \in 0..MaxNavigations /\ {pending, held} \cup asking \subseteq 0..MaxNavigations
      /\ drawing \in BOOLEAN
      /\ prevRoute \in Route \cup {Nowhere} /\ told \in Route \cup {Nowhere}
  BY <1>1 DEF Types, CallTypes, ChainTypes
<1> QED
  BY <1>2, <1>3, <1>4, <1>5, <1>6, <1>7, <1>8 DEF TypeOK

\* The router's state is well formed: what refers to a navigation refers to
\* one made, histories hold routes, the cache is no longer than it may be -
\* whatever guards, hooks and wakes do.
THEOREM RouterTypeCorrect == Spec => []TypeOK
<1>1. Init => BaseInv
  BY BaseBegins
<1>2. BaseInv /\ [Next]_vars => BaseInv'
  BY BaseInductive
<1>3. BaseInv => TypeOK
  BY BaseImpliesType
<1> QED
  BY <1>1, <1>2, <1>3, PTL DEF Spec

(***************************************************************************)
(* Nobody waits for an outcome that cannot come                            *)
(***************************************************************************)
\* Only the running call is being decided, and it is the last made: there is
\* no question up then.
Deciding ==
  \A f \in DOMAIN stack :
    stack[f].at \in {"enter", "leave"} => f = Len(stack) /\ stack[f].nav = generation /\ pending = NoCall
QuestionInv == Deciding /\ NavigationsAccountedFor

\* Guards that do not navigate leave the router to be called when nothing is
\* being decided.
LEMMA CallsFromOutside ==
  ASSUME BaseInv, Deciding, "guard" \notin Habit, Idle \/ CalledBack
  PROVE  \A f \in DOMAIN stack : stack[f].at \notin {"enter", "leave"}
<1>1. CASE Idle
  BY <1>1 DEF Idle
<1>2. CASE ~Idle
  <2>1. Running = stack[Len(stack)]
    BY <1>2, TheRunning DEF BaseInv, Types
  <2>2. Running.at \in {"woken", "telling"}
    BY <1>2 DEF CalledBack
  <2> QED
    BY <2>1, <2>2 DEF Deciding
<1> QED
  BY <1>1, <1>2

LEMMA QuestionsKept ==
  ASSUME BaseInv, QuestionInv, Next, "guard" \notin Habit
  PROVE  Deciding' /\ QuestionCanBeAnswered'
<1>1. /\ \A f \in DOMAIN stack : stack[f].at \in {"enter", "leave"} =>
           f = Len(stack) /\ stack[f].nav = generation /\ pending = NoCall
      /\ pending # NoCall => pending \in asking /\ generation = pending
      /\ Types /\ Deciding
  BY DEF BaseInv, QuestionInv, Deciding, NavigationsAccountedFor, QuestionCanBeAnswered
<1>2. CASE GoesOn /\ UNCHANGED <<pending, generation, asking>>
  BY <1>1, <1>2, GoingOnKeeps DEF Deciding, QuestionCanBeAnswered
<1>3. CASE StepsBack /\ UNCHANGED <<generation, asking>> /\ pending' \in {pending, NoCall}
  <2>1. /\ DOMAIN stack' = DOMAIN stack \ {Len(stack)} /\ \A f \in DOMAIN stack' : stack'[f] = stack[f]
    BY <1>3, StepsGoBack
  <2> QED
    BY <1>1, <1>3, <2>1 DEF Deciding, QuestionCanBeAnswered
<1>4. CASE Ask
  <2>1. /\ DOMAIN stack' = DOMAIN stack \ {Len(stack)} /\ \A f \in DOMAIN stack' : stack'[f] = stack[f]
        /\ Len(stack) \in DOMAIN stack /\ Running = stack[Len(stack)]
    BY <1>4, StepsGoBack DEF StepsBack
  <2>2. Running.at \in {"enter", "leave"}
    BY <1>4 DEF Ask, Refusers
  <2>3. generation' = generation /\ pending' = Running.nav /\ asking' = asking \cup {Running.nav}
    BY <1>4 DEF Ask, Park
  <2> QED
    BY <1>1, <2>1, <2>2, <2>3 DEF Deciding, QuestionCanBeAnswered
<1>5. CASE Navigates
  <2>1. PICK step \in {"start", "to", "back", "forward"}, r \in Route, h \in Histories : NavigateThen(step, r, h)
    BY <1>5 DEF Navigates
  <2>2. /\ generation' = generation + 1 /\ generation + 1 \in Call /\ pending' = NoCall
        /\ stack' = Append(stack, Frame(generation + 1, "enter"))
    BY <1>1, <2>1, RouterAssumption DEF NavigateThen, Types, CallTypes, Call, Activation
  <2>3. /\ DOMAIN stack' = DOMAIN stack \cup {Len(stack')}
        /\ \A i \in DOMAIN stack : i # Len(stack') /\ stack'[i] = stack[i]
        /\ stack'[Len(stack')] = Frame(generation + 1, "enter")
    BY <1>1, <2>2, NewFrames, GoingIn DEF Types
  <2>4. \A f \in DOMAIN stack : stack[f].at \notin {"enter", "leave"}
    BY <1>1, <1>5, CallsFromOutside DEF Navigates
  <2>5. Frame(generation + 1, "enter").nav = generation + 1
    BY DEF Frame
  <2> QED
    BY <2>2, <2>3, <2>4, <2>5 DEF Deciding, QuestionCanBeAnswered
<1>6. CASE \E n \in Call : stack' = <<Frame(n, "commit")>> /\ UNCHANGED <<pending, generation, asking>>
  <2>1. PICK n \in Call : stack' = <<Frame(n, "commit")>> /\ UNCHANGED <<pending, generation, asking>>
    BY <1>6
  <2>2. \A f \in DOMAIN stack' : stack'[f].at = "commit"
    BY <2>1 DEF Frame
  <2> QED
    BY <1>1, <2>1, <2>2 DEF Deciding, QuestionCanBeAnswered
<1>7. CASE \E n \in asking, allowed \in BOOLEAN : Answer(n, allowed)
  <2>1. PICK n \in asking, allowed \in BOOLEAN : Answer(n, allowed)
    BY <1>7
  <2>2. \A f \in DOMAIN stack : stack[f].at \notin {"enter", "leave"}
    BY <1>1, <2>1, CallsFromOutside DEF Answer
  <2>3. asking' = asking \ {n} /\ generation' = generation
    BY <2>1 DEF Answer
  <2>4. CASE generation = n /\ pending # NoCall /\ allowed
    <3>1. pending' = NoCall /\ stack' = Append(stack, Frame(pending, "commit"))
      BY <2>1, <2>4 DEF Answer
    <3>2. pending \in Call
      BY <1>1, <2>4, RouterAssumption DEF Types, CallTypes, Call, Activation, NoCall
    <3>3. /\ DOMAIN stack' = DOMAIN stack \cup {Len(stack')}
          /\ \A i \in DOMAIN stack : stack'[i] = stack[i]
          /\ stack'[Len(stack')].at = "commit"
      BY <1>1, <3>1, <3>2, NewFrames, GoingIn DEF Types, Frame
    <3> QED
      BY <2>2, <3>1, <3>3 DEF Deciding, QuestionCanBeAnswered
  <2>5. CASE generation = n /\ pending # NoCall /\ ~allowed
    <3>1. pending' = NoCall /\ stack' = stack
      BY <2>1, <2>5 DEF Answer
    <3> QED
      BY <2>2, <3>1 DEF Deciding, QuestionCanBeAnswered
  <2>6. CASE ~(generation = n /\ pending # NoCall)
    <3>1. pending' = pending /\ stack' = stack
      BY <2>1, <2>6 DEF Answer
    <3> QED
      BY <1>1, <2>2, <2>3, <2>6, <3>1 DEF Deciding, QuestionCanBeAnswered
  <2> QED
    BY <2>4, <2>5, <2>6
<1>8. CASE UNCHANGED <<pending, generation, asking, stack>>
  BY <1>1, <1>8 DEF Deciding, QuestionCanBeAnswered
<1>9. CASE EndFrame
  <2>1. UNCHANGED <<pending, generation, asking>>
    BY <1>9 DEF EndFrame
  <2>2. held # NoCall => held \in Call
    BY <1>1, RouterAssumption DEF Types, CallTypes, Call, Activation, NoCall
  <2> QED
    BY <1>6, <1>8, <1>9, <2>1, <2>2 DEF EndFrame
<1>10. CASE \E r \in Route : Activate(r)
  <2>1. Activation \in Call
    BY RouterAssumption DEF Call, Activation
  <2> QED
    BY <1>6, <1>10, <2>1 DEF Activate, askVars
<1>11. CASE BeginFrame \/ Deactivate
  BY <1>8, <1>11 DEF BeginFrame, Deactivate, askVars
<1>12. CASE (LeaveAllowed /\ HoldsBack) \/ Block \/ GiveUp \/ FallBack \/ Tell
  BY <1>3, <1>12 DEF StepsBack, LeaveAllowed, Block, GiveUp, FallBack, Tell, askVars
<1>13. CASE Arrive
  <2>1. UNCHANGED <<pending, generation, asking>>
    BY <1>13 DEF Arrive, askVars
  <2> QED
    BY <1>2, <1>3, <1>13, <2>1, ArriveEither, StepsGoOn DEF StepsBack
<1>14. CASE EnterAllowed \/ (LeaveAllowed /\ ~HoldsBack)
  <2>1. UNCHANGED <<pending, generation, asking>>
    BY <1>14 DEF EnterAllowed, LeaveAllowed, askVars
  <2> QED
    BY <1>2, <1>14, <2>1, StepsGoOn
<1>15. CASE Take \/ Snapshot \/ LeaveChain \/ TakeSleeper \/ Install \/ Rollback \/ Stand \/ Wake
  <2>1. UNCHANGED <<pending, generation, asking>>
    BY <1>15 DEF Take, Snapshot, LeaveChain, TakeSleeper, Install, Rollback, Stand, Wake, askVars
  <2> QED
    BY <1>2, <1>15, <2>1, StepsGoOn
<1> QED
  BY <1>1, <1>4, <1>5, <1>7, <1>9, <1>10, <1>11, <1>12, <1>13, <1>14, <1>15, Steps

LEMMA NoneForgotten ==
  ASSUME BaseInv, QuestionInv, Next, "guard" \notin Habit
  PROVE  DOMAIN calls' \subseteq ({pending, held} \ {NoCall})' \cup {stack[f].nav : f \in DOMAIN stack}'
<1>1. /\ \A f \in DOMAIN stack : stack[f].at \in {"enter", "leave"} =>
           f = Len(stack) /\ stack[f].nav = generation /\ pending = NoCall
      /\ \A n \in DOMAIN calls : n \in {pending, held} \/ \E f \in DOMAIN stack : n = stack[f].nav
      /\ Types /\ CallTypes
  BY DEF BaseInv, QuestionInv, Deciding, NavigationsAccountedFor, NoNavigationForgotten, Types, CallTypes
<1>2. NoCall \notin DOMAIN calls
  BY DEF BaseInv, Types, CallTypes, Partial, Call, NoCall
<1>3. SUFFICES ASSUME NEW n \in DOMAIN calls', n \notin {pending', held'}
               PROVE  \E f \in DOMAIN stack' : n = stack'[f].nav
  <2>1. NoCall \notin DOMAIN calls'
    BY TypesKept DEF Types, CallTypes, Partial, Call, NoCall
  <2> QED
    BY <1>3, <2>1
<1>4. CASE GoesOn /\ UNCHANGED <<pending, held>> /\ DOMAIN calls' \subseteq DOMAIN calls
  BY <1>1, <1>3, <1>4, GoingOnKeeps
<1>5. CASE StepsBack /\ UNCHANGED <<pending, held>> /\ calls' = Without(calls, {Running.nav})
  <2>1. /\ DOMAIN stack' = DOMAIN stack \ {Len(stack)} /\ \A f \in DOMAIN stack' : stack'[f] = stack[f]
        /\ Running = stack[Len(stack)]
    BY <1>5, StepsGoBack
  <2>2. DOMAIN calls' = DOMAIN calls \ {Running.nav}
    BY <1>1, <1>5, FewerCalls
  <2> QED
    BY <1>1, <1>3, <1>5, <2>1, <2>2
<1>6. CASE LeaveAllowed /\ HoldsBack
  <2>1. /\ DOMAIN stack' = DOMAIN stack \ {Len(stack)} /\ \A f \in DOMAIN stack' : stack'[f] = stack[f]
        /\ Running = stack[Len(stack)]
    BY <1>6, StepsGoBack DEF StepsBack
  <2>2. DOMAIN calls' = DOMAIN calls \ ({held} \ {NoCall})
    <3>1. CASE held = NoCall
      BY <1>6, <3>1 DEF LeaveAllowed
    <3>2. CASE held # NoCall
      <4>1. calls' = Without(calls, {held})
        BY <1>6, <3>2 DEF LeaveAllowed, SettleRefused
      <4> QED
        BY <1>1, <3>2, <4>1, FewerCalls
    <3> QED
      BY <3>1, <3>2
  <2>3. held' = Running.nav /\ UNCHANGED pending
    BY <1>6 DEF LeaveAllowed
  <2> QED
    BY <1>1, <1>2, <1>3, <2>1, <2>2, <2>3
<1>7. CASE Ask
  <2>1. /\ DOMAIN stack' = DOMAIN stack \ {Len(stack)} /\ \A f \in DOMAIN stack' : stack'[f] = stack[f]
        /\ Len(stack) \in DOMAIN stack /\ Running = stack[Len(stack)]
    BY <1>7, StepsGoBack DEF StepsBack
  <2>2. Running.at \in {"enter", "leave"}
    BY <1>7 DEF Ask, Refusers
  <2>3. pending' = Running.nav /\ held' = held /\ DOMAIN calls' = DOMAIN calls
    BY <1>7 DEF Ask, Park
  <2> QED
    BY <1>1, <1>2, <1>3, <2>1, <2>2, <2>3
<1>8. CASE Navigates
  <2>1. PICK step \in {"start", "to", "back", "forward"}, r \in Route, h \in Histories : NavigateThen(step, r, h)
    BY <1>8 DEF Navigates
  <2>2. /\ generation + 1 \in Call /\ pending' = NoCall /\ held' = held
        /\ stack' = Append(stack, Frame(generation + 1, "enter"))
    BY <1>1, <2>1, RouterAssumption DEF NavigateThen, Types, CallTypes, Call, Activation
  <2>3. /\ DOMAIN stack' = DOMAIN stack \cup {Len(stack')}
        /\ \A i \in DOMAIN stack : i # Len(stack') /\ stack'[i] = stack[i]
        /\ stack'[Len(stack')] = Frame(generation + 1, "enter")
    BY <1>1, <2>2, NewFrames, GoingIn DEF Types
  <2>4. Frame(generation + 1, "enter").nav = generation + 1
    BY DEF Frame
  <2>5. DOMAIN calls' = (DOMAIN calls \ {pending}) \cup {generation + 1}
    BY <1>1, <2>1, NavigatesTo
  <2> QED
    BY <1>1, <1>3, <2>2, <2>3, <2>4, <2>5
<1>9. CASE \E r \in Route : Activate(r)
  <2>1. PICK r \in Route : Activate(r)
    BY <1>9
  <2>2. /\ DOMAIN calls' = DOMAIN calls \cup {Activation} /\ UNCHANGED <<pending, held>>
        /\ stack' = <<Frame(Activation, "commit")>> /\ DOMAIN stack = {}
    BY <2>1 DEF Activate, With, askVars, Idle
  <2>3. DOMAIN stack' = {1} /\ stack'[1].nav = Activation
    BY <2>2 DEF Frame
  <2> QED
    BY <1>1, <1>3, <2>2, <2>3
<1>10. CASE \E m \in asking, allowed \in BOOLEAN : Answer(m, allowed)
  <2>1. PICK m \in asking, allowed \in BOOLEAN : Answer(m, allowed)
    BY <1>10
  <2>2. CASE generation = m /\ pending # NoCall /\ allowed
    <3>1. stack' = Append(stack, Frame(pending, "commit")) /\ UNCHANGED <<calls, held>>
      BY <2>1, <2>2 DEF Answer
    <3>2. pending \in Call
      BY <1>1, <2>2, RouterAssumption DEF Types, CallTypes, Call, Activation, NoCall
    <3>3. /\ DOMAIN stack' = DOMAIN stack \cup {Len(stack')}
          /\ \A i \in DOMAIN stack : stack'[i] = stack[i]
          /\ stack'[Len(stack')].nav = pending
      BY <1>1, <3>1, <3>2, NewFrames, GoingIn DEF Types, Frame
    <3> QED
      BY <1>1, <1>3, <3>1, <3>3
  <2>3. CASE generation = m /\ pending # NoCall /\ ~allowed
    <3>1. calls' = Without(calls, {pending}) /\ UNCHANGED <<stack, held>>
      BY <2>1, <2>3 DEF Answer, SettleRefused
    <3>2. DOMAIN calls' = DOMAIN calls \ {pending}
      BY <1>1, <3>1, FewerCalls
    <3> QED
      BY <1>1, <1>3, <3>1, <3>2
  <2>4. CASE ~(generation = m /\ pending # NoCall)
    <3>1. UNCHANGED <<pending, calls, stack, held>>
      BY <2>1, <2>4 DEF Answer
    <3> QED
      BY <1>1, <1>3, <3>1
  <2> QED
    BY <2>2, <2>3, <2>4
<1>11. CASE EndFrame
  <2>1. CASE held = NoCall
    <3>1. UNCHANGED <<pending, calls, stack, held>>
      BY <1>11, <2>1 DEF EndFrame
    <3> QED
      BY <1>1, <1>3, <3>1
  <2>2. CASE held # NoCall
    <3>1. stack' = <<Frame(held, "commit")>> /\ UNCHANGED <<pending, calls>> /\ DOMAIN stack = {}
      BY <1>11, <2>2 DEF EndFrame, Idle
    <3>2. DOMAIN stack' = {1} /\ stack'[1].nav = held
      BY <3>1 DEF Frame
    <3> QED
      BY <1>1, <1>3, <3>1, <3>2
  <2> QED
    BY <2>1, <2>2
<1>12. CASE BeginFrame \/ Deactivate
  <2>1. UNCHANGED <<pending, calls, stack, held>>
    BY <1>12 DEF BeginFrame, Deactivate, askVars
  <2> QED
    BY <1>1, <1>3, <2>1
<1>13. CASE Block \/ GiveUp \/ FallBack \/ Tell
  BY <1>5, <1>13 DEF StepsBack, Block, GiveUp, FallBack, Tell, SettleRefused, askVars
<1>14. CASE Arrive
  <2>1. UNCHANGED <<pending, held, generation>>
    BY <1>14 DEF Arrive, askVars
  <2> QED
    BY <1>4, <1>5, <1>14, <2>1, ArriveEither, StepsGoOn DEF StepsBack
<1>15. CASE EnterAllowed \/ (LeaveAllowed /\ ~HoldsBack)
  <2>1. UNCHANGED <<pending, held, generation>> /\ DOMAIN calls' = DOMAIN calls
    BY <1>15 DEF EnterAllowed, LeaveAllowed, askVars
  <2> QED
    BY <1>4, <1>15, <2>1, StepsGoOn
<1>16. CASE Take \/ Snapshot \/ LeaveChain \/ TakeSleeper \/ Install \/ Rollback \/ Stand \/ Wake
  <2>1. UNCHANGED <<pending, held, generation, calls>>
    BY <1>16 DEF Take, Snapshot, LeaveChain, TakeSleeper, Install, Rollback, Stand, Wake, askVars
  <2> QED
    BY <1>4, <1>16, <2>1, StepsGoOn
<1> QED
  BY <1>1, <1>6, <1>7, <1>8, <1>9, <1>10, <1>11, <1>12, <1>13, <1>14, <1>15, <1>16, Steps

LEMMA QuestionsBegin ==
  ASSUME Init
  PROVE  QuestionInv
<1>1. DOMAIN stack = {} /\ DOMAIN calls = {} /\ pending = NoCall /\ held = NoCall
  BY DEF Init
<1> QED
  BY <1>1 DEF QuestionInv, Deciding, NavigationsAccountedFor, QuestionCanBeAnswered, NoNavigationForgotten

LEMMA QuestionsInductive ==
  ASSUME BaseInv, QuestionInv, [Next]_vars, "guard" \notin Habit
  PROVE  QuestionInv'
<1>1. CASE Next
  <2>1. BaseInv'
    BY <1>1, BaseInductive
  <2>2. ({pending, held} \ {NoCall})' \cup {stack[f].nav : f \in DOMAIN stack}' \subseteq DOMAIN calls'
    BY <2>1 DEF BaseInv, Apart
  <2> QED
    BY <1>1, <2>2, QuestionsKept, NoneForgotten DEF QuestionInv, NavigationsAccountedFor, NoNavigationForgotten
<1>2. CASE UNCHANGED vars
  BY <1>2 DEF vars, QuestionInv, Deciding, NavigationsAccountedFor, QuestionCanBeAnswered, NoNavigationForgotten
<1> QED
  BY <1>1, <1>2

\* Whoever navigates is told how it ended, or waits for a question that can be
\* answered, where guards do not navigate (router.rs:1033-1046, 1125-1176).
THEOREM NavigationsAreAccountedFor ==
  "guard" \notin Habit => (Spec => []NavigationsAccountedFor)
<1>1. SUFFICES ASSUME "guard" \notin Habit PROVE Spec => []NavigationsAccountedFor
  OBVIOUS
<1>2. Init => BaseInv /\ QuestionInv
  BY BaseBegins, QuestionsBegin
<1>3. BaseInv /\ QuestionInv /\ [Next]_vars => BaseInv' /\ QuestionInv'
  BY <1>1, BaseInductive, QuestionsInductive
<1>4. QuestionInv => NavigationsAccountedFor
  BY DEF QuestionInv
<1> QED
  BY <1>2, <1>3, <1>4, PTL DEF Spec

(***************************************************************************)
(* A program whose callbacks do not navigate, and that puts no question    *)
(* while a frame holds a navigation                                        *)
(***************************************************************************)
Calm == Habit \cap {"guard", "wake", "hook", "askWhileHeld"} = {}

\* One call at a time is under way, and with a navigation past its guards
\* nothing else waits.
Alone ==
  /\ Len(stack) <= 1
  /\ held # NoCall => drawing /\ pending = NoCall
  /\ ~Idle => (Running.at \in {"enter", "leave"} \/ Running.nav = Activation \/ {pending, held} = {NoCall})

LEMMA TheOnly ==
  ASSUME StackTypes, Len(stack) <= 1, ~Idle
  PROVE  /\ stack = <<Running>> /\ DOMAIN stack = {1} /\ stack[1] = Running /\ Running \in FrameType
         /\ \A g : Goes(g) => stack' = <<g>> /\ Running' = g /\ ~Idle'
         /\ Returns => stack' = <<>> /\ Idle'
<1>1. stack \in Seq(FrameType) /\ Len(stack) = 1 /\ Running = stack[1]
  <2>1. Len(stack) \in Nat \ {0} /\ Running = stack[Len(stack)]
    BY TheRunning
  <2>2. Len(stack) = 1
    BY <2>1
  <2> QED
    BY <2>1, <2>2 DEF StackTypes
<1>2. stack = <<Running>> /\ DOMAIN stack = {1}
  BY <1>1
<1>3. Callers = <<>>
  <2>1. Callers \in Seq(FrameType) /\ Len(Callers) = 0
    BY <1>1, FrontOf DEF Idle, Callers
  <2> QED
    BY <2>1
<1>4. ASSUME NEW g, Goes(g) PROVE stack' = <<g>> /\ Running' = g /\ ~Idle'
  <2>1. stack' = <<g>>
    BY <1>3, <1>4 DEF Goes
  <2> QED
    BY <2>1 DEF Running, Idle, Last
<1>5. ASSUME Returns PROVE stack' = <<>> /\ Idle'
  BY <1>3, <1>5 DEF Returns, Idle
<1> QED
  BY <1>1, <1>2, <1>4, <1>5

LEMMA CalledFromIdle ==
  ASSUME Calm
  PROVE  /\ Navigates => Idle
         /\ \A n, allowed : Answer(n, allowed) => Idle
         /\ "guard" \notin Habit
BY DEF Calm, Navigates, Answer, CalledBack

LEMMA AloneKept ==
  ASSUME BaseInv, QuestionInv, Alone, Next, Calm
  PROVE  Alone'
<1>1. /\ Types /\ StackTypes /\ stack \in Seq(FrameType) /\ Len(stack) \in Nat /\ Len(stack) <= 1
      /\ held # NoCall => drawing /\ pending = NoCall
  BY DEF BaseInv, Types, StackTypes, Alone
<1>2. ASSUME stack' = <<>>, held' # NoCall => drawing' /\ pending' = NoCall PROVE Alone'
  BY <1>2 DEF Alone, Idle
<1>3. ASSUME NEW g, stack' = <<g>>, held' # NoCall => drawing' /\ pending' = NoCall,
             g.at \in {"enter", "leave"} \/ g.nav = Activation \/ {pending', held'} = {NoCall}
      PROVE  Alone'
  <2>1. Len(stack') = 1 /\ Running' = g
    BY <1>3 DEF Running, Last
  <2> QED
    BY <1>3, <2>1 DEF Alone
<1>4. ASSUME ~Idle, NEW g, Goes(g), g \in FrameType, g.nav = Running.nav,
             g.at \in {"enter", "leave"} \/ Running.at \notin {"enter", "leave"} \/ {pending, held} = {NoCall},
             UNCHANGED <<held, pending, drawing>>
      PROVE  Alone'
  <2>1. stack' = <<g>>
    BY <1>1, <1>4, TheOnly
  <2> QED
    BY <1>1, <1>3, <1>4, <2>1 DEF Alone
<1>5. ASSUME ~Idle, Returns, held' # NoCall => drawing' /\ pending' = NoCall PROVE Alone'
  BY <1>1, <1>2, <1>5, TheOnly
<1>6. CASE GoesOn /\ UNCHANGED <<held, pending, drawing>> /\ Running.at \notin {"enter", "leave"}
  BY <1>4, <1>6 DEF GoesOn
<1>7. CASE EnterAllowed
  <2> DEFINE g == [Running EXCEPT !.at = "leave"]
  <2>1. /\ ~Idle /\ Goes(g) /\ UNCHANGED <<held, pending, drawing>>
    BY <1>7 DEF EnterAllowed, askVars
  <2>2. Running \in FrameType
    BY <1>1, <2>1, TheOnly
  <2>3. g \in FrameType /\ g.nav = Running.nav /\ g.at = "leave"
    BY <2>2 DEF FrameType
  <2> HIDE DEF g
  <2> QED
    BY <1>4, <2>1, <2>3
<1>8. CASE LeaveAllowed
  <2>1. ~Idle /\ Running.at = "leave" /\ UNCHANGED <<pending, drawing>> /\ Running \in FrameType
    BY <1>1, <1>8, TheOnly DEF LeaveAllowed
  <2>2. pending = NoCall
    BY <1>1, <2>1, TheRunning DEF QuestionInv, Deciding
  <2>3. CASE HoldsBack
    BY <1>5, <1>8, <2>1, <2>2, <2>3 DEF LeaveAllowed, HoldsBack
  <2>4. CASE ~HoldsBack
    <3> DEFINE g == [Running EXCEPT !.at = "commit"]
    <3>1. Goes(g) /\ held' = held
      BY <1>8, <2>4 DEF LeaveAllowed
    <3>2. g \in FrameType /\ g.nav = Running.nav
      BY <2>1 DEF FrameType
    <3> HIDE DEF g
    <3>3. {pending, held} = {NoCall}
      BY <1>1, <2>2, <2>4 DEF HoldsBack
    <3> QED
      BY <1>4, <2>1, <3>1, <3>2, <3>3
  <2> QED
    BY <2>3, <2>4
<1>9. CASE Ask
  <2>1. ~Idle /\ Returns /\ UNCHANGED <<held, drawing>> /\ held = NoCall
    BY <1>9 DEF Ask, Calm
  <2> QED
    BY <1>5, <2>1
<1>10. CASE Navigates
  <2>1. PICK step \in {"start", "to", "back", "forward"}, r \in Route, h \in Histories : NavigateThen(step, r, h)
    BY <1>10 DEF Navigates
  <2>2. stack = <<>>
    BY <1>10, CalledFromIdle DEF Idle
  <2>3. stack' = <<Frame(generation + 1, "enter")>> /\ pending' = NoCall /\ UNCHANGED <<held, drawing>>
    BY <2>1, <2>2 DEF NavigateThen
  <2>4. Frame(generation + 1, "enter").at = "enter"
    BY DEF Frame
  <2> QED
    BY <1>1, <1>3, <2>3, <2>4
<1>11. CASE \E r \in Route : Activate(r)
  <2>1. stack' = <<Frame(Activation, "commit")>> /\ UNCHANGED <<held, pending, drawing>>
    BY <1>11 DEF Activate, askVars
  <2>2. Frame(Activation, "commit").nav = Activation
    BY DEF Frame
  <2> QED
    BY <1>1, <1>3, <2>1, <2>2
<1>12. CASE \E n \in asking, allowed \in BOOLEAN : Answer(n, allowed)
  <2>1. PICK n \in asking, allowed \in BOOLEAN : Answer(n, allowed)
    BY <1>12
  <2>2. stack = <<>>
    BY <2>1, CalledFromIdle DEF Idle
  <2>3. UNCHANGED <<held, drawing>> /\ pending' \in {pending, NoCall}
    BY <2>1 DEF Answer
  <2>4. CASE stack' = stack
    BY <1>1, <1>2, <2>2, <2>3, <2>4
  <2>5. CASE pending # NoCall /\ pending' = NoCall /\ stack' = Append(stack, Frame(pending, "commit"))
    <3>1. stack' = <<Frame(pending, "commit")>>
      BY <2>2, <2>5
    <3> QED
      BY <1>1, <1>3, <2>3, <2>5, <3>1
  <2> QED
    BY <2>1, <2>4, <2>5 DEF Answer
<1>13. CASE EndFrame
  <2>1. stack = <<>> /\ held' = NoCall /\ pending' = pending
    BY <1>13 DEF EndFrame, Idle
  <2>2. CASE held = NoCall
    BY <1>2, <1>13, <2>1, <2>2 DEF EndFrame
  <2>3. CASE held # NoCall
    BY <1>1, <1>3, <1>13, <2>1, <2>3 DEF EndFrame
  <2> QED
    BY <2>2, <2>3
<1>14. CASE BeginFrame \/ Deactivate
  <2>1. stack = <<>> /\ stack' = stack /\ UNCHANGED <<held, pending>> /\ drawing' \in {drawing, TRUE}
    BY <1>14 DEF BeginFrame, Deactivate, askVars, Idle
  <2> QED
    BY <1>1, <1>2, <2>1
<1>15. CASE Block \/ GiveUp \/ FallBack \/ Tell
  BY <1>1, <1>5, <1>15 DEF Block, GiveUp, FallBack, Tell, askVars, Building, Waking
<1>16. CASE Take \/ Snapshot \/ LeaveChain \/ TakeSleeper \/ Install \/ Rollback \/ Stand \/ Wake
  <2>1. UNCHANGED <<held, pending, drawing>> /\ Running.at \notin {"enter", "leave"}
    BY <1>16 DEF Take, Snapshot, LeaveChain, TakeSleeper, Install, Rollback, Stand, Wake, Building, Waking, askVars
  <2> QED
    BY <1>6, <1>16, <2>1, StepsGoOn
<1>17. CASE Arrive
  <2>1. UNCHANGED <<held, pending, drawing>> /\ Running.at \notin {"enter", "leave"} /\ ~Idle
    BY <1>17 DEF Arrive, Waking, askVars
  <2> QED
    BY <1>1, <1>5, <1>6, <1>17, <2>1, ArriveEither, StepsGoOn, StepsGoBack DEF StepsBack
<1> QED
  BY <1>1, <1>7, <1>8, <1>9, <1>10, <1>11, <1>12, <1>13, <1>14, <1>15, <1>16, <1>17, Steps


(***************************************************************************)
(* The router stands where it says it is                                   *)
(***************************************************************************)
\* The chain put up with no route tree is the only one that is no navigation.
StepsNamed == \A n \in DOMAIN calls : calls[n].step = "activate" <=> n = Activation

RestsAt(c, at, said) == at # Nowhere => c = Chain[at] /\ said \in {at, Nowhere}
AtARoute ==
  /\ Idle \/ Running.at \in {"enter", "leave", "commit"} => RestsAt(active.chain, prevRoute, told)
  /\ ~Idle =>
       /\ Running.at \in {"leaving", "building"} => RestsAt(Running.old.chain, prevRoute, told)
       /\ Running.at \in {"waking", "woken"} =>
            IF Running.ok THEN active.chain = Chain[calls[Running.nav].route] ELSE RestsAt(active.chain, prevRoute, told)
       /\ Running.at = "telling" =>
            /\ prevRoute = calls[Running.nav].route /\ active.chain = Chain[prevRoute]
            /\ calls[Running.nav].step \in {"to", "back", "forward"}
       /\ Running.nav = Activation => prevRoute = Nowhere

\* The backend's own first navigation is told to nobody.
ToldLater ==
  /\ \A n \in DOMAIN calls : calls[n].step = "start" => told = Nowhere
  /\ generation = 0 => told = Nowhere

\* Only navigations and the chain put up with no route tree are new.
LEMMA CallsStay ==
  ASSUME BaseInv, Next, ~Navigates, ~\E r \in Route : Activate(r)
  PROVE  DOMAIN calls' \subseteq DOMAIN calls
<1>1. Types /\ CallTypes
  BY DEF BaseInv, Types
<1>2. ASSUME NEW X, calls' = Without(calls, X) PROVE DOMAIN calls' \subseteq DOMAIN calls
  BY <1>1, <1>2, FewerCalls
<1>3. CASE Block \/ GiveUp \/ FallBack \/ Tell \/ (Arrive /\ ~UNCHANGED calls)
  <2>1. calls' = Without(calls, {Running.nav})
    BY <1>3, ArriveEither DEF Block, GiveUp, FallBack, Tell, SettleRefused
  <2> QED
    BY <1>2, <2>1
<1>4. CASE LeaveAllowed
  <2>1. UNCHANGED calls \/ calls' = Without(calls, {held})
    BY <1>4 DEF LeaveAllowed, SettleRefused
  <2> QED
    BY <1>2, <2>1
<1>5. CASE \E n \in asking, allowed \in BOOLEAN : Answer(n, allowed)
  <2>1. UNCHANGED calls \/ calls' = Without(calls, {pending})
    BY <1>5 DEF Answer, SettleRefused
  <2> QED
    BY <1>2, <2>1
<1>6. CASE EnterAllowed \/ Ask
  BY <1>6 DEF EnterAllowed, Ask
<1>7. CASE Take \/ Snapshot \/ LeaveChain \/ TakeSleeper \/ Install \/ Rollback \/ Stand \/ Wake
           \/ BeginFrame \/ EndFrame \/ Deactivate \/ (Arrive /\ UNCHANGED calls)
  <2>1. UNCHANGED calls
    BY <1>7 DEF Take, Snapshot, LeaveChain, TakeSleeper, Install, Rollback, Stand, Wake,
       BeginFrame, EndFrame, Deactivate
  <2> QED
    BY <2>1
<1> QED
  BY <1>1, <1>3, <1>4, <1>5, <1>6, <1>7, Steps

LEMMA StepsNamedKept ==
  ASSUME BaseInv, StepsNamed, Next
  PROVE  StepsNamed'
<1>1. Types /\ CallTypes
  BY DEF BaseInv, Types
<1>2. ASSUME NEW n \in DOMAIN calls', n \in DOMAIN calls, ~((\E r \in Route : Activate(r)) /\ n = Activation)
      PROVE  calls'[n].step = "activate" <=> n = Activation
  BY <1>2, CallsKept DEF StepsNamed
<1>3. CASE DOMAIN calls' \subseteq DOMAIN calls /\ ~\E r \in Route : Activate(r)
  BY <1>2, <1>3 DEF StepsNamed
<1>4. CASE Navigates
  <2>1. PICK step \in {"start", "to", "back", "forward"}, r \in Route, h \in Histories : NavigateThen(step, r, h)
    BY <1>4 DEF Navigates
  <2>2. /\ generation + 1 \in 1..MaxNavigations
        /\ DOMAIN calls' = (DOMAIN calls \ {pending}) \cup {generation + 1}
        /\ calls'[generation + 1] = NewCall(step, r)
        /\ \A n \in DOMAIN calls \ {pending} : n # generation + 1 => calls'[n] = calls[n]
    BY <1>1, <2>1, NavigatesTo
  <2>3. generation + 1 # Activation
    BY <2>2, RouterAssumption DEF Activation
  <2>4. calls'[generation + 1].step = step
    BY <2>2 DEF NewCall
  <2> QED
    BY <2>2, <2>3, <2>4 DEF StepsNamed
<1>5. CASE \E r \in Route : Activate(r)
  <2>1. PICK r \in Route : Activate(r)
    BY <1>5
  <2>2. /\ DOMAIN calls' = DOMAIN calls \cup {Activation} /\ calls'[Activation].step = "activate"
        /\ \A n \in DOMAIN calls : n # Activation => calls'[n] = calls[n]
    BY <2>1 DEF Activate, With
  <2> QED
    BY <2>2 DEF StepsNamed
<1> QED
  BY <1>3, <1>4, <1>5, CallsStay

\* What the running call is after it went on.
GoneOn(at, ok, scopes) ==
  /\ ~Idle /\ ~Idle' /\ Running'.nav = Running.nav
  /\ Running'.at = at /\ Running'.ok = ok /\ Running'.scopes = scopes

StillFrom == Running'.old = Running.old /\ Running'.floor = Running.floor

LEMMA Moves ==
  ASSUME BaseInv, Alone, Next
  PROVE  /\ EnterAllowed => GoneOn("leave", Running.ok, Running.scopes)
         /\ LeaveAllowed /\ ~HoldsBack => GoneOn("commit", Running.ok, Running.scopes)
         /\ Take => /\ GoneOn("leaving", Running.ok, active.scopes) /\ Running'.old = active
                    /\ Running'.floor = Least(Shared(Running.nav), Len(active.scopes))
                    /\ Running'.next = KeptUntil(active.chain, Shared(Running.nav)) + 1
         /\ Snapshot => GoneOn("leaving", Running.ok, Running.scopes)
         /\ LeaveChain => GoneOn("building", Running.ok, SubSeq(Running.scopes, 1, Running.floor))
         /\ TakeSleeper => GoneOn("building", Running.ok, Append(Running.scopes, sleeping[NextPlace].scope))
         /\ Install => GoneOn("building", Running.ok, Append(Running.scopes, FreshScope))
         /\ Rollback => GoneOn("building", FALSE, SubSeq(Running.scopes, 1, Running.floor))
         /\ Stand => GoneOn("waking", Running.ok, Running.scopes)
         /\ Wake => \E at \in {"waking", "woken"} : GoneOn(at, Running.ok, Running.scopes)
         /\ Arrive /\ UNCHANGED calls => GoneOn("telling", Running.ok, Running.scopes)
         /\ Snapshot \/ LeaveChain \/ TakeSleeper \/ Install \/ Rollback \/ Stand =>
              StillFrom
<1>1. ASSUME ~Idle, NEW g, Goes(g) PROVE Running' = g /\ ~Idle' /\ Running \in FrameType
  BY <1>1, TheOnly DEF Alone, BaseInv, Types
<1> USE DEF GoneOn, StillFrom
<1>2. ASSUME EnterAllowed PROVE GoneOn("leave", Running.ok, Running.scopes)
  <2>1. ~Idle /\ Goes([Running EXCEPT !.at = "leave"])
    BY <1>2 DEF EnterAllowed
  <2>2. Running' = [Running EXCEPT !.at = "leave"] /\ ~Idle' /\ Running \in FrameType
    BY <1>1, <2>1
  <2> QED
    BY <2>1, <2>2 DEF FrameType
<1>3. ASSUME LeaveAllowed, ~HoldsBack PROVE GoneOn("commit", Running.ok, Running.scopes)
  <2>1. ~Idle /\ Goes([Running EXCEPT !.at = "commit"])
    BY <1>3 DEF LeaveAllowed
  <2>2. Running' = [Running EXCEPT !.at = "commit"] /\ ~Idle' /\ Running \in FrameType
    BY <1>1, <2>1
  <2> QED
    BY <2>1, <2>2 DEF FrameType
<1>4. ASSUME Take
      PROVE  /\ GoneOn("leaving", Running.ok, active.scopes) /\ Running'.old = active
             /\ Running'.floor = Least(Shared(Running.nav), Len(active.scopes))
             /\ Running'.next = KeptUntil(active.chain, Shared(Running.nav)) + 1
  <2> DEFINE fl == Least(Shared(Running.nav), Len(active.scopes))
             nx == KeptUntil(active.chain, Shared(Running.nav)) + 1
  <2>1. ~Idle /\ Goes([Running EXCEPT !.at = "leaving", !.old = active, !.scopes = active.scopes,
                         !.floor = fl, !.next = nx])
    BY <1>4 DEF Take
  <2> HIDE DEF fl, nx
  <2>2. /\ Running' = [Running EXCEPT !.at = "leaving", !.old = active, !.scopes = active.scopes,
                         !.floor = fl, !.next = nx]
        /\ ~Idle' /\ Running \in FrameType
    BY <1>1, <2>1
  <2>3. Running'.floor = fl /\ Running'.next = nx
    BY <2>2 DEF FrameType
  <2>4. GoneOn("leaving", Running.ok, active.scopes) /\ Running'.old = active
    BY <2>1, <2>2 DEF FrameType
  <2> QED
    BY <2>3, <2>4 DEF fl, nx
<1>5. ASSUME Snapshot PROVE GoneOn("leaving", Running.ok, Running.scopes) /\ StillFrom
  <2>1. ~Idle /\ Running.at = "leaving" /\ Goes([Running EXCEPT !.next = Running.next + 1])
    BY <1>5 DEF Snapshot
  <2>2. Running' = [Running EXCEPT !.next = Running.next + 1] /\ ~Idle' /\ Running \in FrameType
    BY <1>1, <2>1
  <2> QED
    BY <2>1, <2>2 DEF FrameType
<1>6. ASSUME LeaveChain
      PROVE  GoneOn("building", Running.ok, SubSeq(Running.scopes, 1, Running.floor)) /\ StillFrom
  <2>1. ~Idle /\ Goes([Running EXCEPT !.at = "building", !.scopes = SubSeq(Running.scopes, 1, Running.floor)])
    BY <1>6, Leaves DEF LeaveChain
  <2>2. /\ Running' = [Running EXCEPT !.at = "building", !.scopes = SubSeq(Running.scopes, 1, Running.floor)]
        /\ ~Idle' /\ Running \in FrameType
    BY <1>1, <2>1
  <2> QED
    BY <2>1, <2>2 DEF FrameType
<1>7. ASSUME NEW s, Building, Goes([Running EXCEPT !.scopes = Append(Running.scopes, s)])
      PROVE  /\ GoneOn("building", Running.ok, Append(Running.scopes, s))
             /\ StillFrom
  <2>1. ~Idle /\ Running.at = "building"
    BY <1>7 DEF Building
  <2>2. Running' = [Running EXCEPT !.scopes = Append(Running.scopes, s)] /\ ~Idle' /\ Running \in FrameType
    BY <1>1, <1>7, <2>1
  <2> QED
    BY <2>1, <2>2 DEF FrameType
<1>8. ASSUME TakeSleeper
      PROVE  GoneOn("building", Running.ok, Append(Running.scopes, sleeping[NextPlace].scope)) /\ StillFrom
  BY <1>7, <1>8 DEF TakeSleeper
<1>9. ASSUME Install PROVE GoneOn("building", Running.ok, Append(Running.scopes, FreshScope)) /\ StillFrom
  BY <1>7, <1>9 DEF Install
<1>10. ASSUME Rollback
       PROVE  GoneOn("building", FALSE, SubSeq(Running.scopes, 1, Running.floor)) /\ StillFrom
  <2>1. /\ ~Idle /\ Running.at = "building"
        /\ Goes([Running EXCEPT !.ok = FALSE, !.scopes = SubSeq(Running.scopes, 1, Running.floor)])
    BY <1>10 DEF Rollback, Building
  <2>2. /\ Running' = [Running EXCEPT !.ok = FALSE, !.scopes = SubSeq(Running.scopes, 1, Running.floor)]
        /\ ~Idle' /\ Running \in FrameType
    BY <1>1, <2>1
  <2> QED
    BY <2>1, <2>2 DEF FrameType
<1>11. ASSUME Stand PROVE GoneOn("waking", Running.ok, Running.scopes) /\ StillFrom
  <2>1. ~Idle /\ Goes([Running EXCEPT !.at = "waking", !.next = 1])
    BY <1>11 DEF Stand
  <2>2. Running' = [Running EXCEPT !.at = "waking", !.next = 1] /\ ~Idle' /\ Running \in FrameType
    BY <1>1, <2>1
  <2> QED
    BY <2>1, <2>2 DEF FrameType
<1>12. ASSUME Wake PROVE \E at \in {"waking", "woken"} : GoneOn(at, Running.ok, Running.scopes)
  <2>1. PICK i : \/ Goes([Running EXCEPT !.at = "woken", !.next = i + 1])
                 \/ Goes([Running EXCEPT !.at = "waking", !.next = i + 1])
    BY <1>12 DEF Wake
  <2>2. PICK at \in {"waking", "woken"} : Goes([Running EXCEPT !.at = at, !.next = i + 1])
    BY <2>1
  <2>3. ~Idle
    BY <1>12 DEF Wake, Waking
  <2>4. Running' = [Running EXCEPT !.at = at, !.next = i + 1] /\ ~Idle' /\ Running \in FrameType
    BY <1>1, <2>2, <2>3
  <2> QED
    BY <2>2, <2>3, <2>4 DEF FrameType
<1>13. ASSUME Arrive, UNCHANGED calls PROVE GoneOn("telling", Running.ok, Running.scopes)
  <2>1. ~Idle
    BY <1>13 DEF Arrive, Waking
  <2>2. calls' # Without(calls, {Running.nav})
    BY <1>13, <2>1, TheCall DEF Without, Restrict
  <2>3. Goes([Running EXCEPT !.at = "telling"])
    BY <1>13, <2>2 DEF Arrive
  <2>4. Running' = [Running EXCEPT !.at = "telling"] /\ ~Idle' /\ Running \in FrameType
    BY <1>1, <2>1, <2>3
  <2> QED
    BY <2>1, <2>4 DEF FrameType
<1> HIDE DEF GoneOn, StillFrom
<1> QED
  BY <1>2, <1>3, <1>4, <1>5, <1>6, <1>8, <1>9, <1>10, <1>11, <1>12, <1>13


\* Past its guards, a navigation is the only one there is.
LEMMA TheOnlyCall ==
  ASSUME BaseInv, QuestionInv, Alone, ~Idle, Running.at \notin {"enter", "leave"}, Running.nav # Activation
  PROVE  DOMAIN calls = {Running.nav} /\ pending = NoCall /\ held = NoCall
<1>1. DOMAIN stack = {1} /\ stack[1] = Running
  BY TheOnly DEF BaseInv, Types, Alone
<1>2. pending = NoCall /\ held = NoCall
  BY DEF Alone
<1> QED
  BY <1>1, <1>2 DEF QuestionInv, NavigationsAccountedFor, NoNavigationForgotten

LEMMA ToldLaterKept ==
  ASSUME BaseInv, QuestionInv, Alone, StepsNamed, AtARoute, ToldLater, Next, Calm
  PROVE  ToldLater'
<1>1. Types /\ CallTypes /\ generation \in Nat
  BY RouterAssumption DEF BaseInv, Types, CallTypes
<1>2. CASE Tell
  <2>1. ~Idle /\ Running.at = "telling" /\ generation' = generation /\ calls' = Without(calls, {Running.nav})
    BY <1>2 DEF Tell, askVars
  <2>2. calls[Running.nav].step \in {"to", "back", "forward"} /\ Running.nav \in DOMAIN calls
    BY <2>1, TheCall DEF AtARoute
  <2>3. Running.nav # Activation
    BY <2>2 DEF StepsNamed
  <2>4. DOMAIN calls = {Running.nav}
    BY <2>1, <2>3, TheOnlyCall
  <2>5. DOMAIN calls' = {}
    BY <1>1, <2>1, <2>4, FewerCalls
  <2>6. generation # 0
    BY <1>1, <2>1, <2>3, TheCall
  <2> QED
    BY <2>1, <2>5, <2>6 DEF ToldLater
<1>3. ASSUME ~Tell, NEW n \in DOMAIN calls', n \in DOMAIN calls, calls'[n].step = "start" PROVE told = Nowhere
  <2>1. CASE (\E r \in Route : Activate(r)) /\ n = Activation
    <3>1. calls'[Activation].step = "activate"
      BY <2>1 DEF Activate, With
    <3> QED
      BY <1>3, <2>1, <3>1
  <2>2. CASE ~((\E r \in Route : Activate(r)) /\ n = Activation)
    BY <1>3, <2>2, CallsKept DEF ToldLater
  <2> QED
    BY <2>1, <2>2
<1>4. CASE Navigates
  <2>1. PICK step \in {"start", "to", "back", "forward"}, r \in Route, h \in Histories :
          NavigateThen(step, r, h) /\ (step = "start" => generation = 0)
    BY <1>4 DEF Navigates
  <2>2. /\ DOMAIN calls' = (DOMAIN calls \ {pending}) \cup {generation + 1}
        /\ calls'[generation + 1] = NewCall(step, r) /\ generation' = generation + 1
    BY <1>1, <2>1, NavigatesTo
  <2>3. calls'[generation + 1].step = step /\ told' = told
    BY <2>1, <2>2 DEF NewCall, NavigateThen
  <2>4. ~Tell
    BY <1>1, <2>2 DEF Tell, askVars
  <2>5. ASSUME NEW n \in DOMAIN calls', calls'[n].step = "start" PROVE told = Nowhere
    <3>1. CASE n \in DOMAIN calls
      BY <1>3, <2>4, <2>5, <3>1
    <3>2. CASE n = generation + 1
      BY <2>1, <2>3, <2>5, <3>2 DEF ToldLater
    <3> QED
      BY <2>2, <2>5, <3>1, <3>2
  <2> QED
    BY <1>1, <2>2, <2>3, <2>5 DEF ToldLater
<1>5. CASE ~Navigates /\ ~Tell
  <2>1. told' = told /\ generation' = generation
    <3>1. CASE \E n \in asking, allowed \in BOOLEAN : Answer(n, allowed)
      BY <3>1 DEF Answer
    <3>2. CASE \E r \in Route : Activate(r)
      BY <3>2 DEF Activate, askVars
    <3> QED
      BY <1>1, <1>5, <3>1, <3>2, Steps DEF EnterAllowed, LeaveAllowed, Block, Ask, Take, Snapshot, LeaveChain,
         TakeSleeper, Install, Rollback, GiveUp, Stand, Wake, Arrive, FallBack, BeginFrame, EndFrame, Deactivate, askVars
  <2>2. ASSUME NEW n \in DOMAIN calls', calls'[n].step = "start", n \notin DOMAIN calls PROVE FALSE
    <3>1. \E r \in Route : Activate(r)
      BY <1>5, <2>2, CallsStay
    <3>2. PICK r \in Route : Activate(r)
      BY <3>1
    <3>3. n = Activation /\ calls'[Activation].step = "activate"
      BY <2>2, <3>2 DEF Activate, With
    <3> QED
      BY <2>2, <3>3
  <2> QED
    BY <1>3, <1>5, <2>1, <2>2 DEF ToldLater
<1> QED
  BY <1>2, <1>4, <1>5

\* A step in which the running call goes on leaves its navigation what it was.
LEMMA SameCall ==
  ASSUME BaseInv, Next, NEW at, NEW ok, NEW sc, GoneOn(at, ok, sc)
  PROVE  /\ calls'[Running'.nav].route = calls[Running.nav].route
         /\ calls'[Running'.nav].step = calls[Running.nav].step
         /\ calls'[Running'.nav].leaving = calls[Running.nav].leaving
         /\ calls'[Running'.nav].shared = calls[Running.nav].shared
         /\ Running'.nav = Running.nav
<1>1. ~Idle /\ ~Idle' /\ Running'.nav = Running.nav
  BY DEF GoneOn
<1>2. Running.nav \in DOMAIN calls
  BY <1>1, TheCall
<1>3. Running'.nav \in DOMAIN calls'
  <2>1. StackTypes' /\ Apart'
    BY StackTypesKept, ApartKept
  <2>2. Running' = stack'[Len(stack')] /\ Len(stack') \in DOMAIN stack'
    BY <1>1, <2>1 DEF StackTypes, Idle, Running, Last
  <2> QED
    BY <2>1, <2>2 DEF Apart
<1>4. ~\E r \in Route : Activate(r)
  BY <1>1 DEF Activate
<1> QED
  BY <1>1, <1>2, <1>3, <1>4, CallsKept

LEMMA AtARouteKept ==
  ASSUME BaseInv, QuestionInv, Alone, StepsNamed, AtARoute, ToldLater, Next, Calm
  PROVE  AtARoute'
<1>1. Types /\ CallTypes
  BY DEF BaseInv, Types
<1>2. ASSUME NEW at, NEW ok, NEW sc, GoneOn(at, ok, sc), UNCHANGED <<prevRoute, told>>
      PROVE  /\ ~Idle /\ ~Idle' /\ Running'.at = at /\ Running'.ok = ok
             /\ Running'.nav = Running.nav /\ calls'[Running'.nav].route = calls[Running.nav].route
             /\ calls'[Running'.nav].step = calls[Running.nav].step
             /\ Running'.nav = Activation => prevRoute' = Nowhere
             /\ \A c : RestsAt(c, prevRoute, told) => RestsAt(c, prevRoute', told')
  BY <1>2, SameCall DEF GoneOn, AtARoute, RestsAt
<1>3. CASE EnterAllowed \/ (LeaveAllowed /\ ~HoldsBack)
  <2>1. PICK at \in {"leave", "commit"} : GoneOn(at, Running.ok, Running.scopes)
    BY <1>3, Moves
  <2>2. UNCHANGED <<prevRoute, told, active>> /\ Running.at \in {"enter", "leave"}
    BY <1>3 DEF EnterAllowed, LeaveAllowed, chainVars
  <2>3. RestsAt(active.chain, prevRoute, told)
    BY <2>2 DEF AtARoute
  <2>4. RestsAt(active'.chain, prevRoute', told')
    BY <2>2, <2>3 DEF RestsAt
  <2> QED
    BY <1>2, <2>1, <2>2, <2>4 DEF AtARoute
<1>4. CASE Take
  <2>1. GoneOn("leaving", Running.ok, active.scopes) /\ Running'.old = active
    BY <1>4, Moves
  <2>2. UNCHANGED <<prevRoute, told>> /\ Running.at = "commit"
    BY <1>4 DEF Take
  <2>3. RestsAt(active.chain, prevRoute, told)
    BY <2>2 DEF AtARoute
  <2>4. prevRoute' # Nowhere => Running'.old.chain = Chain[prevRoute'] /\ told' \in {prevRoute', Nowhere}
    BY <2>1, <2>2, <2>3 DEF RestsAt
  <2> QED
    BY <1>2, <2>1, <2>2, <2>4 DEF AtARoute, RestsAt
<1>5. CASE Snapshot \/ LeaveChain \/ TakeSleeper \/ Install \/ Rollback
  <2>1. GoneOn(Running'.at, Running'.ok, Running'.scopes) /\ Running'.at \in {"leaving", "building"}
    BY <1>5, Moves DEF GoneOn
  <2>2. UNCHANGED <<prevRoute, told>> /\ Running'.old = Running.old /\ Running.at \in {"leaving", "building"}
    BY <1>5, Moves DEF Snapshot, LeaveChain, TakeSleeper, Install, Rollback, Building, StillFrom
  <2>3. RestsAt(Running.old.chain, prevRoute, told)
    BY <2>1, <2>2 DEF AtARoute, GoneOn
  <2>4. prevRoute' # Nowhere => Running'.old.chain = Chain[prevRoute'] /\ told' \in {prevRoute', Nowhere}
    BY <2>2, <2>3 DEF RestsAt
  <2> QED
    BY <1>2, <2>1, <2>2, <2>4 DEF AtARoute, RestsAt
<1>6. CASE Stand
  <2>1. GoneOn("waking", Running.ok, Running.scopes)
    BY <1>6, Moves
  <2>2. UNCHANGED <<prevRoute, told>> /\ Running.at = "building" /\ active'.chain = Target(Running)
    BY <1>6 DEF Stand
  <2>3. RestsAt(Running.old.chain, prevRoute, told)
    BY <2>1, <2>2 DEF AtARoute, GoneOn
  <2>4. Running.ok => active'.chain = Chain[calls[Running.nav].route]
    BY <2>2 DEF Target
  <2>5. ~Running.ok => (prevRoute' # Nowhere => active'.chain = Chain[prevRoute'] /\ told' \in {prevRoute', Nowhere})
    BY <2>2, <2>3 DEF Target, RestsAt
  <2> QED
    BY <1>2, <2>1, <2>2, <2>4, <2>5 DEF AtARoute, RestsAt
<1>7. CASE Wake
  <2>1. PICK at \in {"waking", "woken"} : GoneOn(at, Running.ok, Running.scopes)
    BY <1>7, Moves
  <2>2. UNCHANGED <<prevRoute, told, active>> /\ Running.at \in {"waking", "woken"}
    BY <1>7 DEF Wake, Waking
  <2>3. IF Running.ok THEN active.chain = Chain[calls[Running.nav].route] ELSE RestsAt(active.chain, prevRoute, told)
    BY <2>1, <2>2 DEF AtARoute, GoneOn
  <2>4. ~Running.ok => (prevRoute' # Nowhere => active'.chain = Chain[prevRoute'] /\ told' \in {prevRoute', Nowhere})
    BY <2>2, <2>3 DEF RestsAt
  <2> QED
    BY <1>2, <2>1, <2>2, <2>3, <2>4 DEF AtARoute, RestsAt
<1>8. CASE Arrive
  <2>1. ~Idle /\ Running.at \in {"waking", "woken"} /\ Running.ok /\ UNCHANGED <<told, active>>
        /\ prevRoute' = IF Running.nav = Activation THEN prevRoute ELSE calls[Running.nav].route
    BY <1>8 DEF Arrive, Waking, chainVars
  <2>2. active.chain = Chain[calls[Running.nav].route]
    BY <2>1 DEF AtARoute
  <2>3. Running.nav \in DOMAIN calls /\ calls[Running.nav] \in CallType
    BY <2>1, TheCall
  <2>4. CASE UNCHANGED calls
    <3>1. GoneOn("telling", Running.ok, Running.scopes)
      BY <1>8, <2>4, Moves
    <3>2. calls[Running.nav].step \in {"to", "back", "forward"}
      BY <1>8, <2>1, <2>3, <2>4 DEF Arrive, Without, Restrict
    <3>3. Running.nav # Activation
      BY <2>3, <3>2 DEF StepsNamed
    <3>4. /\ ~Idle' /\ Running'.at = "telling" /\ Running'.nav = Running.nav
          /\ calls'[Running'.nav] = calls[Running.nav]
      BY <2>4, <3>1 DEF GoneOn
    <3> QED
      BY <2>1, <2>2, <3>2, <3>3, <3>4 DEF AtARoute
  <2>5. CASE calls' = Without(calls, {Running.nav})
    <3>1. calls' # calls
      BY <2>3, <2>5 DEF Without, Restrict
    <3>2. Returns /\ calls[Running.nav].step \notin {"to", "back", "forward"}
      BY <1>8, <3>1 DEF Arrive
    <3>3. Idle'
      BY <1>1, <2>1, <3>2, TheOnly DEF Alone, Types
    <3>4. calls[Running.nav].step \in {"start", "activate"}
      BY <2>3, <3>2 DEF CallType
    <3>5. RestsAt(active'.chain, prevRoute', told')
      <4>1. CASE Running.nav = Activation
        BY <2>1, <4>1 DEF AtARoute, RestsAt
      <4>2. CASE Running.nav # Activation
        <5>1. told = Nowhere
          BY <2>3, <3>4, <4>2 DEF StepsNamed, ToldLater
        <5> QED
          BY <2>1, <2>2, <4>2, <5>1 DEF RestsAt
      <4> QED
        BY <4>1, <4>2
    <3> QED
      BY <3>3, <3>5 DEF AtARoute, Idle
  <2> QED
    BY <1>8, <2>4, <2>5, ArriveEither
<1>9. ASSUME ~Idle, Returns, RestsAt(active'.chain, prevRoute', told') PROVE AtARoute'
  <2>1. Idle'
    BY <1>1, <1>9, TheOnly DEF Alone, Types
  <2> QED
    BY <1>9, <2>1 DEF AtARoute
<1>10. CASE Tell
  <2>1. /\ ~Idle /\ Running.at = "telling" /\ Returns /\ told' = calls[Running.nav].route
        /\ UNCHANGED <<active, prevRoute>>
    BY <1>10 DEF Tell, Announced, chainVars
  <2>2. prevRoute = calls[Running.nav].route /\ active.chain = Chain[prevRoute]
    BY <2>1 DEF AtARoute
  <2> QED
    BY <1>9, <2>1, <2>2 DEF RestsAt
<1>11. CASE GiveUp
  <2>1. ~Idle /\ Returns /\ prevRoute' = Nowhere
    BY <1>11 DEF GiveUp, Building
  <2> QED
    BY <1>9, <2>1 DEF RestsAt
<1>12. CASE FallBack
  <2>1. ~Idle /\ Running.at \in {"waking", "woken"} /\ ~Running.ok /\ Returns /\ UNCHANGED <<active, prevRoute, told>>
    BY <1>12 DEF FallBack, Waking, chainVars
  <2>2. RestsAt(active.chain, prevRoute, told)
    BY <2>1 DEF AtARoute
  <2> QED
    BY <1>9, <2>1, <2>2 DEF RestsAt
<1>13. CASE Block \/ Ask \/ (LeaveAllowed /\ HoldsBack)
  <2>1. ~Idle /\ Running.at \in {"enter", "leave"} /\ Returns /\ UNCHANGED <<active, prevRoute, told>>
    BY <1>13 DEF Block, Ask, LeaveAllowed, Refusers, chainVars
  <2>2. RestsAt(active.chain, prevRoute, told)
    BY <2>1 DEF AtARoute
  <2> QED
    BY <1>9, <2>1, <2>2 DEF RestsAt
<1>14. ASSUME Idle, RestsAt(active'.chain, prevRoute', told'), Idle' \/ (Running'.at \in {"enter", "commit"} /\ Running'.nav # Activation)
       PROVE  AtARoute'
  BY <1>14 DEF AtARoute
<1>15. ASSUME Idle, UNCHANGED <<active, prevRoute, told>> PROVE RestsAt(active'.chain, prevRoute', told')
  <2>1. RestsAt(active.chain, prevRoute, told)
    BY <1>15 DEF AtARoute
  <2> QED
    BY <1>15, <2>1 DEF RestsAt
<1>16. ASSUME NEW n, n \in Nat, NEW at \in {"enter", "commit"}, stack' = <<Frame(n, at)>> PROVE Running'.at = at /\ Running'.nav = n
  BY <1>16 DEF Running, Last, Frame
<1>17. CASE Navigates
  <2>1. PICK step \in {"start", "to", "back", "forward"}, r \in Route, h \in Histories : NavigateThen(step, r, h)
    BY <1>17 DEF Navigates
  <2>2. stack = <<>> /\ Idle
    BY <1>17, CalledFromIdle DEF Idle
  <2>3. stack' = <<Frame(generation + 1, "enter")>> /\ UNCHANGED <<active, prevRoute, told>>
    BY <2>1, <2>2 DEF NavigateThen, chainVars
  <2>4. generation + 1 # Activation /\ generation + 1 \in Nat
    BY <1>1, <2>1, RouterAssumption DEF NavigateThen, CallTypes, Activation
  <2> QED
    BY <1>14, <1>15, <1>16, <2>2, <2>3, <2>4
<1>18. CASE \E n \in asking, allowed \in BOOLEAN : Answer(n, allowed)
  <2>1. PICK n \in asking, allowed \in BOOLEAN : Answer(n, allowed)
    BY <1>18
  <2>2. stack = <<>> /\ Idle
    BY <2>1, CalledFromIdle DEF Idle
  <2>3. UNCHANGED <<active, prevRoute, told>>
    BY <2>1 DEF Answer, chainVars
  <2>4. CASE stack' = stack
    BY <1>14, <1>15, <2>2, <2>3, <2>4 DEF Idle
  <2>5. CASE stack' = Append(stack, Frame(pending, "commit"))
    <3>1. stack' = <<Frame(pending, "commit")>>
      BY <2>2, <2>5
    <3>2. pending # Activation /\ pending \in Nat
      BY <1>1, RouterAssumption DEF CallTypes, Activation
    <3> QED
      BY <1>14, <1>15, <1>16, <2>2, <2>3, <3>1, <3>2
  <2> QED
    BY <2>1, <2>4, <2>5 DEF Answer
<1>19. CASE EndFrame
  <2>1. Idle /\ UNCHANGED <<active, prevRoute, told>>
    BY <1>19 DEF EndFrame, chainVars
  <2>2. CASE held = NoCall
    BY <1>14, <1>15, <1>19, <2>1, <2>2 DEF EndFrame, Idle
  <2>3. CASE held # NoCall
    <3>1. stack' = <<Frame(held, "commit")>>
      BY <1>19, <2>3 DEF EndFrame
    <3>2. held # Activation /\ held \in Nat
      BY <1>1, RouterAssumption DEF CallTypes, Activation
    <3> QED
      BY <1>14, <1>15, <1>16, <2>1, <3>1, <3>2
  <2> QED
    BY <2>2, <2>3
<1>20. CASE BeginFrame
  BY <1>14, <1>15, <1>20 DEF BeginFrame, chainVars, Idle
<1>21. CASE Deactivate
  <2>1. Idle /\ Idle' /\ prevRoute' = Nowhere
    BY <1>21 DEF Deactivate, Idle
  <2> QED
    BY <1>14, <2>1 DEF RestsAt
<1>22. CASE \E r \in Route : Activate(r)
  <2>1. prevRoute' = Nowhere /\ stack' = <<Frame(Activation, "commit")>>
    BY <1>22 DEF Activate
  <2>2. Running'.at = "commit"
    BY <2>1 DEF Running, Last, Frame
  <2> QED
    BY <2>1, <2>2 DEF AtARoute, RestsAt
<1> QED
  BY <1>1, <1>3, <1>4, <1>5, <1>6, <1>7, <1>8, <1>10, <1>11, <1>12, <1>13, <1>17, <1>18, <1>19, <1>20, <1>21,
     <1>22, Steps

CalmInv == BaseInv /\ QuestionInv /\ Alone /\ StepsNamed /\ AtARoute /\ ToldLater

LEMMA CalmBegins ==
  ASSUME Init
  PROVE  CalmInv
<1>1. BaseInv /\ QuestionInv
  BY BaseBegins, QuestionsBegin
<1>2. stack = <<>> /\ Idle /\ calls = <<>> /\ pending = NoCall /\ held = NoCall /\ prevRoute = Nowhere /\ told = Nowhere
  BY DEF Init, Idle
<1>3. DOMAIN calls = {} /\ Len(stack) <= 1
  BY <1>2
<1> QED
  BY <1>1, <1>2, <1>3 DEF CalmInv, Alone, StepsNamed, AtARoute, ToldLater, RestsAt

LEMMA CalmInductive ==
  ASSUME CalmInv, [Next]_vars, Calm
  PROVE  CalmInv'
<1>1. CASE Next
  BY <1>1, BaseInductive, QuestionsInductive, CalledFromIdle, AloneKept, StepsNamedKept, AtARouteKept,
     ToldLaterKept DEF CalmInv
<1>2. CASE UNCHANGED vars
  <2>1. BaseInv' /\ QuestionInv'
    BY <1>2, BaseInductive, QuestionsInductive, CalledFromIdle DEF CalmInv
  <2>2. Alone' /\ StepsNamed'
    BY <1>2 DEF vars, CalmInv, Alone, StepsNamed, Idle, Running
  <2>3. AtARoute' /\ ToldLater'
    BY <1>2 DEF vars, CalmInv, AtARoute, ToldLater, RestsAt, Idle, Running
  <2> QED
    BY <2>1, <2>2, <2>3 DEF CalmInv
<1> QED
  BY <1>1, <1>2

\* With nothing under way, the chain that stands is that of the route the
\* router says it is at, and the sink and the hooks were last told of it -
\* whatever installs fail, in a calm program (router.rs:1404-1435, 1524-1574).
THEOREM AtTheRouteItSays == Calm => (Spec => []AtTheRouteThatStands)
<1>1. SUFFICES ASSUME Calm PROVE Spec => []AtTheRouteThatStands
  OBVIOUS
<1>2. Init => CalmInv
  BY CalmBegins
<1>3. CalmInv /\ [Next]_vars => CalmInv'
  BY <1>1, CalmInductive
<1>4. CalmInv => AtTheRouteThatStands
  BY DEF CalmInv, AtARoute, RestsAt, AtTheRouteThatStands
<1> QED
  BY <1>2, <1>3, <1>4, PTL DEF Spec

(***************************************************************************)
(* Every scope is accounted for                                            *)
(***************************************************************************)
\* What goes with the scopes X of S.
Gone(X, S) == {s \in DOMAIN S : s \in X \/ ToSet(S[s].line) \cap X # {}}

\* The scopes S sit under one another as their lines say.
Lines(S) ==
  \A s \in DOMAIN S : \A i \in DOMAIN S[s].line :
    S[s].line[i] \in DOMAIN S /\ S[S[s].line[i]].line = SubSeq(S[s].line, 1, i - 1)

\* The scopes sc are those of the chain c, each under the one before.
Built(sc, c, S) ==
  \A i \in DOMAIN sc :
    sc[i] \in DOMAIN S /\ S[sc[i]].made = Segment(c, i) /\ S[sc[i]].line = SubSeq(sc, 1, i - 1)

\* What sleeps is there, is what its place says, and does not stand.
Asleep(Z, sc, S) ==
  \A k \in DOMAIN Z :
    /\ Z[k].scope \in DOMAIN S /\ S[Z[k].scope].made = [place |-> k, param |-> Z[k].param]
    /\ ~S[Z[k].scope].awake /\ Z[k].scope \notin ToSet(sc)
NoneLost(Z, sc, S) == DOMAIN S \subseteq ToSet(sc) \cup {Z[k].scope : k \in DOMAIN Z}
Home(S) == \A s \in DOMAIN S : S[s].states \subseteq {S[s].made}
Sound(S, Z, sc, c) == Lines(S) /\ Built(sc, c, S) /\ Asleep(Z, sc, S) /\ NoneLost(Z, sc, S) /\ Home(S)

\* What stands: while a navigation changes the chain, what it has so far.
Underway == ~Idle /\ Running.at \in {"leaving", "building"}
Standing == IF Underway THEN Running.scopes ELSE active.scopes
StandingChain ==
  IF ~Underway THEN active.chain
  ELSE IF Running.at = "leaving" THEN Running.old.chain ELSE Target(Running)
ScopesInv == Sound(scope, sleeping, Standing, StandingChain)

\* What a call has in its hands.
InHand ==
  /\ Activation \notin DOMAIN calls
  /\ Underway => /\ active = NoChain
                 /\ \A i \in 1..Running.floor : Running.old.chain[i] = Chain[calls[Running.nav].route][i]
  /\ ~Idle => /\ Running.at \in {"enter", "leave", "commit"} => Running.scopes = <<>>
              /\ Running.at \in {"waking", "woken", "telling"} => Running.scopes = active.scopes
\* A navigation to come shares what it was told it shares, unless it is gone.
Sharing ==
  Idle \/ Running.at \in {"enter", "leave", "commit"} =>
    \A n \in DOMAIN calls : \A i \in 1..calls[n].shared :
      i \in DOMAIN active.chain => active.chain[i] = Chain[calls[n].route][i]
CacheHome ==
  \A i \in DOMAIN cache : cache[i].from = [place |-> cache[i].place, param |-> cache[i].param]

\* What is left of the scopes S when X and all that sits under it goes: they
\* may have been put to sleep.
Left(T, S, X) ==
  /\ DOMAIN T = DOMAIN S \ Gone(X, S)
  /\ \A s \in DOMAIN T : T[s].line = S[s].line /\ T[s].made = S[s].made /\ T[s].states = S[s].states

LEMMA LinesLeft ==
  ASSUME NEW S, NEW T, NEW X, Lines(S), Left(T, S, X), \A s \in DOMAIN S : S[s].line \in Seq(ScopeId)
  PROVE  Lines(T)
<1>1. SUFFICES ASSUME NEW s \in DOMAIN T, NEW i \in DOMAIN T[s].line
               PROVE  T[s].line[i] \in DOMAIN T /\ T[T[s].line[i]].line = SubSeq(T[s].line, 1, i - 1)
  BY DEF Lines
<1> DEFINE l == S[s].line
           p == l[i]
<1>2. /\ s \in DOMAIN S /\ s \notin Gone(X, S) /\ T[s].line = l /\ l \in Seq(ScopeId)
      /\ i \in 1..Len(l) /\ Len(l) \in Nat
  BY <1>1 DEF Left
<1>3. p \in DOMAIN S /\ S[p].line = SubSeq(l, 1, i - 1)
  BY <1>1, <1>2 DEF Lines
<1>4. \A q \in ToSet(S[p].line) : q \in ToSet(l)
  <2>1. SubSeq(l, 1, i - 1) \in Seq(ScopeId) /\ Len(SubSeq(l, 1, i - 1)) = i - 1
        /\ \A j \in 1..(i - 1) : SubSeq(l, 1, i - 1)[j] = l[j]
    <3>1. i - 1 \in 0..Len(l)
      BY <1>2
    <3> QED
      BY <1>2, <3>1, Beginning
  <2>2. DOMAIN SubSeq(l, 1, i - 1) = 1..(i - 1) /\ 1..(i - 1) \subseteq DOMAIN l
    BY <1>2, <2>1
  <2> QED
    BY <1>3, <2>1, <2>2 DEF ToSet
<1>5. p \in ToSet(l)
  BY <1>2 DEF ToSet
<1> HIDE DEF l, p
<1>6. ToSet(l) \cap X = {}
  BY <1>2 DEF Gone, l
<1>7. p \notin Gone(X, S)
  BY <1>4, <1>5, <1>6 DEF Gone
<1> QED
  BY <1>2, <1>3, <1>7 DEF Left, p

\* The scopes of a chain are all different.
LEMMA BuiltApart ==
  ASSUME NEW S, NEW sc \in Seq(ScopeId), NEW c, Built(sc, c, S), NEW i \in DOMAIN sc, NEW j \in DOMAIN sc, sc[i] = sc[j]
  PROVE  i = j
<1>1. i \in Nat /\ j \in Nat /\ i - 1 \in 0..Len(sc) /\ j - 1 \in 0..Len(sc)
  OBVIOUS
<1>2. Len(SubSeq(sc, 1, i - 1)) = i - 1 /\ Len(SubSeq(sc, 1, j - 1)) = j - 1
  BY <1>1, Beginning
<1>3. SubSeq(sc, 1, i - 1) = SubSeq(sc, 1, j - 1)
  BY DEF Built
<1> QED
  BY <1>1, <1>2, <1>3

\* The beginning of a beginning.
LEMMA BeginningOfBeginning ==
  ASSUME NEW T, NEW s \in Seq(T), NEW n \in 0..Len(s), NEW m \in 0..n
  PROVE  SubSeq(SubSeq(s, 1, n), 1, m) = SubSeq(s, 1, m)
<1>1. /\ SubSeq(s, 1, n) \in Seq(T) /\ Len(SubSeq(s, 1, n)) = n
      /\ \A i \in 1..n : SubSeq(s, 1, n)[i] = s[i]
  BY Beginning
<1> DEFINE u == SubSeq(s, 1, n)
<1> HIDE DEF u
<1>2. u \in Seq(T) /\ Len(u) = n /\ \A i \in 1..n : u[i] = s[i]
  BY <1>1 DEF u
<1>3. /\ SubSeq(u, 1, m) \in Seq(T) /\ Len(SubSeq(u, 1, m)) = m
      /\ \A i \in 1..m : SubSeq(u, 1, m)[i] = u[i]
  BY <1>2, Beginning
<1>4. m \in 0..Len(s)
  OBVIOUS
<1>5. /\ SubSeq(s, 1, m) \in Seq(T) /\ Len(SubSeq(s, 1, m)) = m
      /\ \A i \in 1..m : SubSeq(s, 1, m)[i] = s[i]
  BY <1>4, Beginning
<1>6. \A i \in 1..m : SubSeq(u, 1, m)[i] = SubSeq(s, 1, m)[i]
  BY <1>2, <1>3, <1>5
<1>7. SubSeq(u, 1, m) = SubSeq(s, 1, m)
  <2>1. SubSeq(u, 1, m) = [i \in 1..m |-> SubSeq(u, 1, m)[i]]
    BY <1>3
  <2>2. SubSeq(s, 1, m) = [i \in 1..m |-> SubSeq(s, 1, m)[i]]
    BY <1>5
  <2> QED
    BY <1>6, <2>1, <2>2
<1> QED
  BY <1>7 DEF u

\* The first n scopes of a chain stay, when none of them goes.
LEMMA BuiltLeft ==
  ASSUME NEW S, NEW T, NEW X, NEW sc \in Seq(ScopeId), NEW c, Built(sc, c, S), Left(T, S, X),
         NEW n \in 0..Len(sc), \A i \in 1..n : sc[i] \notin X
  PROVE  Built(SubSeq(sc, 1, n), c, T)
<1>1. /\ SubSeq(sc, 1, n) \in Seq(ScopeId) /\ Len(SubSeq(sc, 1, n)) = n
      /\ \A i \in 1..n : SubSeq(sc, 1, n)[i] = sc[i]
  BY Beginning
<1>2. SUFFICES ASSUME NEW i \in 1..n
               PROVE  /\ sc[i] \in DOMAIN T /\ T[sc[i]].made = Segment(c, i)
                      /\ T[sc[i]].line = SubSeq(SubSeq(sc, 1, n), 1, i - 1)
  BY <1>1 DEF Built
<1>3. i \in DOMAIN sc /\ i - 1 \in 0..n /\ i - 1 \in 0..Len(sc)
  OBVIOUS
<1>4. SubSeq(SubSeq(sc, 1, n), 1, i - 1) = SubSeq(sc, 1, i - 1)
  BY <1>3, BeginningOfBeginning
<1>5. sc[i] \in DOMAIN S /\ S[sc[i]].made = Segment(c, i) /\ S[sc[i]].line = SubSeq(sc, 1, i - 1)
  BY <1>3 DEF Built
<1>6. ToSet(SubSeq(sc, 1, i - 1)) \cap X = {}
  <2>1. Len(SubSeq(sc, 1, i - 1)) = i - 1 /\ SubSeq(sc, 1, i - 1) \in Seq(ScopeId)
        /\ \A j \in 1..(i - 1) : SubSeq(sc, 1, i - 1)[j] = sc[j]
    BY <1>3, Beginning
  <2>2. DOMAIN SubSeq(sc, 1, i - 1) = 1..(i - 1) /\ 1..(i - 1) \subseteq 1..n
    BY <2>1
  <2> QED
    BY <2>1, <2>2 DEF ToSet
<1>7. sc[i] \notin Gone(X, S)
  BY <1>5, <1>6 DEF Gone
<1> QED
  BY <1>4, <1>5, <1>7 DEF Left

LEMMA BuiltAsWell ==
  ASSUME NEW S, NEW sc \in Seq(ScopeId), NEW c, NEW d, Built(sc, c, S), \A i \in DOMAIN sc : c[i] = d[i]
  PROVE  Built(sc, d, S)
<1>1. \A i \in DOMAIN sc : Segment(c, i) = Segment(d, i)
  <2>1. SUFFICES ASSUME NEW i \in DOMAIN sc PROVE Segment(c, i) = Segment(d, i)
    OBVIOUS
  <2>2. \A j \in 1..i : j \in DOMAIN sc
    OBVIOUS
  <2>3. Place(c, i) = Place(d, i)
    BY <2>2 DEF Place
  <2> QED
    BY <2>3 DEF Segment
<1> QED
  BY <1>1 DEF Built

\* One more scope, under the last.
LEMMA BuiltOn ==
  ASSUME NEW S, NEW sc \in Seq(ScopeId), NEW c, Built(sc, c, S), NEW s \in ScopeId, s \in DOMAIN S,
         S[s].made = Segment(c, Len(sc) + 1), S[s].line = sc
  PROVE  Built(Append(sc, s), c, S)
<1> DEFINE u == Append(sc, s)
           n == Len(sc)
<1>1. /\ u \in Seq(ScopeId) /\ Len(u) = n + 1 /\ n \in Nat /\ u[n + 1] = s
      /\ \A i \in 1..n : u[i] = sc[i]
  OBVIOUS
<1> HIDE DEF u
<1>2. ASSUME NEW m \in 0..n PROVE SubSeq(u, 1, m) = SubSeq(sc, 1, m)
  <2>1. /\ SubSeq(u, 1, m) \in Seq(ScopeId) /\ Len(SubSeq(u, 1, m)) = m
        /\ \A i \in 1..m : SubSeq(u, 1, m)[i] = u[i]
    BY <1>1, Beginning
  <2>2. /\ SubSeq(sc, 1, m) \in Seq(ScopeId) /\ Len(SubSeq(sc, 1, m)) = m
        /\ \A i \in 1..m : SubSeq(sc, 1, m)[i] = sc[i]
    BY Beginning
  <2>3. SubSeq(u, 1, m) = [i \in 1..m |-> SubSeq(u, 1, m)[i]] /\ SubSeq(sc, 1, m) = [i \in 1..m |-> SubSeq(sc, 1, m)[i]]
    BY <2>1, <2>2
  <2>4. \A i \in 1..m : SubSeq(u, 1, m)[i] = SubSeq(sc, 1, m)[i]
    BY <1>1, <2>1, <2>2
  <2> QED
    BY <2>3, <2>4
<1>3. SubSeq(sc, 1, n) = sc
  <2>1. /\ SubSeq(sc, 1, n) \in Seq(ScopeId) /\ Len(SubSeq(sc, 1, n)) = n
        /\ \A i \in 1..n : SubSeq(sc, 1, n)[i] = sc[i]
    BY Beginning
  <2>2. SubSeq(sc, 1, n) = [i \in 1..n |-> SubSeq(sc, 1, n)[i]] /\ sc = [i \in 1..n |-> sc[i]]
    BY <2>1
  <2> QED
    BY <2>1, <2>2
<1>4. ASSUME NEW i \in 1..n
      PROVE  u[i] \in DOMAIN S /\ S[u[i]].made = Segment(c, i) /\ S[u[i]].line = SubSeq(u, 1, i - 1)
  <2>1. i - 1 \in 0..n /\ i \in DOMAIN sc
    BY <1>1
  <2>2. SubSeq(u, 1, i - 1) = SubSeq(sc, 1, i - 1)
    BY <1>2, <2>1
  <2> QED
    BY <1>1, <2>1, <2>2 DEF Built
<1>5. u[n + 1] \in DOMAIN S /\ S[u[n + 1]].made = Segment(c, n + 1) /\ S[u[n + 1]].line = SubSeq(u, 1, (n + 1) - 1)
  BY <1>1, <1>2, <1>3
<1>6. DOMAIN u = 1..n \cup {n + 1}
  BY <1>1
<1>7. Built(u, c, S)
  BY <1>4, <1>5, <1>6 DEF Built
<1> QED
  BY <1>7 DEF u

\* Whoever sits right under the last scope of a chain sits under all of it.
LEMMA UnderTheLast ==
  ASSUME NEW S, NEW sc \in Seq(ScopeId), NEW c, Built(sc, c, S), Lines(S), NEW s \in DOMAIN S,
         S[s].line \in Seq(ScopeId), S[s].line # <<>>, sc # <<>>, Last(S[s].line) = Last(sc)
  PROVE  S[s].line = sc
<1> DEFINE l == S[s].line
           n == Len(sc)
           m == Len(l)
<1>1. n \in Nat \ {0} /\ m \in Nat \ {0} /\ l \in Seq(ScopeId) /\ l[m] = sc[n] /\ m \in DOMAIN l /\ n \in DOMAIN sc
  BY DEF Last
<1>2. S[l[m]].line = SubSeq(l, 1, m - 1)
  BY <1>1 DEF Lines
<1>3. S[sc[n]].line = SubSeq(sc, 1, n - 1)
  BY <1>1 DEF Built
<1> HIDE DEF l
<1>4. m - 1 \in 0..m /\ n - 1 \in 0..n
  BY <1>1
<1>5. /\ Len(SubSeq(l, 1, m - 1)) = m - 1
      /\ \A i \in 1..(m - 1) : SubSeq(l, 1, m - 1)[i] = l[i]
  BY <1>1, <1>4, Beginning
<1>6. /\ Len(SubSeq(sc, 1, n - 1)) = n - 1
      /\ \A i \in 1..(n - 1) : SubSeq(sc, 1, n - 1)[i] = sc[i]
  BY <1>1, <1>4, Beginning
<1>7. SubSeq(l, 1, m - 1) = SubSeq(sc, 1, n - 1)
  BY <1>1, <1>2, <1>3
<1>8. m = n
  BY <1>1, <1>5, <1>6, <1>7
<1>9. \A i \in 1..n : l[i] = sc[i]
  BY <1>1, <1>5, <1>6, <1>7, <1>8
<1>10. l = [i \in 1..n |-> l[i]] /\ sc = [i \in 1..n |-> sc[i]]
  BY <1>1, <1>8
<1>11. l = sc
  BY <1>9, <1>10
<1> QED
  BY <1>11 DEF l

\* A calm program that puts up no chain without a route tree.
Steady == Calm /\ "activate" \notin Habit
SteadyInv == CalmInv /\ ScopesInv /\ InHand /\ Sharing /\ CacheHome

LEMMA TheStanding ==
  ASSUME BaseInv
  PROVE  /\ Standing \in Seq(ScopeId) /\ Len(Standing) \in Nat /\ DOMAIN Standing = 1..Len(Standing)
         /\ \A s \in DOMAIN scope : scope[s].line \in Seq(ScopeId)
<1>1. active.scopes \in Seq(ScopeId)
  BY DEF BaseInv, Types, ChainTypes, StoodType
<1>2. ~Idle => Running.scopes \in Seq(ScopeId)
  BY TheCall DEF FrameType
<1>3. Standing \in Seq(ScopeId)
  BY <1>1, <1>2 DEF Standing, Underway
<1> QED
  BY <1>3, TheScopes DEF BaseInv, Types

LEMMA StandingStays ==
  ASSUME CalmInv, InHand, Next, Steady, ScopesStay
  PROVE  Standing' = Standing /\ StandingChain' = StandingChain
<1>1. BaseInv /\ Types /\ StackTypes /\ Len(stack) <= 1 /\ Alone
  BY DEF CalmInv, BaseInv, Types, Alone
<1>2. ASSUME ~Underway, ~Underway', UNCHANGED active PROVE Standing' = Standing /\ StandingChain' = StandingChain
  BY <1>2 DEF Standing, StandingChain
<1>3. ASSUME Idle' PROVE ~Underway'
  BY <1>3 DEF Underway
<1>4. ASSUME NEW n, NEW at \in {"enter", "commit"}, stack' = <<Frame(n, at)>> PROVE ~Underway'
  BY <1>4 DEF Underway, Running, Last, Frame
<1>5. CASE EnterAllowed \/ (LeaveAllowed /\ ~HoldsBack)
  <2>1. PICK at \in {"leave", "commit"} : GoneOn(at, Running.ok, Running.scopes)
    BY <1>1, <1>5, Moves
  <2>2. Running.at \in {"enter", "leave"} /\ UNCHANGED active
    BY <1>5 DEF EnterAllowed, LeaveAllowed, chainVars
  <2> QED
    BY <1>2, <2>1, <2>2 DEF Underway, GoneOn
<1>6. CASE (LeaveAllowed /\ HoldsBack) \/ Block \/ Ask \/ FallBack \/ Tell
  <2>1. /\ ~Idle /\ Running.at \in {"enter", "leave", "waking", "woken", "telling"} /\ Returns /\ UNCHANGED active
    BY <1>6 DEF LeaveAllowed, Block, Ask, Refusers, FallBack, Waking, Tell, chainVars
  <2> QED
    BY <1>1, <1>2, <1>3, <2>1, TheOnly DEF Underway
<1>7. CASE Arrive
  <2>1. ~Idle /\ Running.at \in {"waking", "woken"} /\ UNCHANGED active
    BY <1>7 DEF Arrive, Waking, chainVars
  <2>2. CASE UNCHANGED calls
    <3>1. GoneOn("telling", Running.ok, Running.scopes)
      BY <1>1, <1>7, <2>2, Moves
    <3> QED
      BY <1>2, <2>1, <3>1 DEF Underway, GoneOn
  <2>3. CASE ~UNCHANGED calls
    <3>1. Returns
      BY <1>7, <2>3 DEF Arrive
    <3> QED
      BY <1>1, <1>2, <1>3, <2>1, <3>1, TheOnly DEF Underway
  <2> QED
    BY <2>2, <2>3
<1>8. CASE Take
  <2>1. GoneOn("leaving", Running.ok, active.scopes) /\ Running'.old = active /\ Running.at = "commit"
    BY <1>1, <1>8, Moves DEF Take
  <2> QED
    BY <2>1 DEF Standing, StandingChain, Underway, GoneOn
<1>9. CASE Snapshot
  <2>1. GoneOn("leaving", Running.ok, Running.scopes) /\ Running'.old = Running.old /\ Running.at = "leaving"
    BY <1>1, <1>9, Moves DEF Snapshot, StillFrom
  <2> QED
    BY <2>1 DEF Standing, StandingChain, Underway, GoneOn
<1>10. CASE Stand
  <2>1. GoneOn("waking", Running.ok, Running.scopes) /\ Running.at = "building"
        /\ active'.chain = Target(Running) /\ active'.scopes = Running.scopes
    BY <1>1, <1>10, Moves DEF Stand
  <2> QED
    BY <2>1 DEF Standing, StandingChain, Underway, GoneOn
<1>11. CASE Navigates
  <2>1. PICK step \in {"start", "to", "back", "forward"}, r \in Route, h \in Histories : NavigateThen(step, r, h)
    BY <1>11 DEF Navigates
  <2>2. Idle /\ stack = <<>>
    BY <1>11, CalledFromIdle DEF Steady, Idle
  <2>3. stack' = <<Frame(generation + 1, "enter")>> /\ UNCHANGED active
    BY <2>1, <2>2 DEF NavigateThen, chainVars
  <2> QED
    BY <1>2, <1>4, <2>2, <2>3 DEF Underway
<1>12. CASE \E n \in asking, allowed \in BOOLEAN : Answer(n, allowed)
  <2>1. PICK n \in asking, allowed \in BOOLEAN : Answer(n, allowed)
    BY <1>12
  <2>2. Idle /\ stack = <<>> /\ UNCHANGED active
    BY <2>1, CalledFromIdle DEF Steady, Idle, Answer, chainVars
  <2>3. stack' = stack \/ stack' = Append(stack, Frame(pending, "commit"))
    BY <2>1 DEF Answer
  <2>4. stack' = <<>> \/ stack' = <<Frame(pending, "commit")>>
    BY <2>2, <2>3
  <2> QED
    BY <1>2, <1>3, <1>4, <2>2, <2>4 DEF Underway, Idle
<1>13. CASE EndFrame \/ BeginFrame
  <2>1. Idle /\ UNCHANGED active /\ (stack' = stack \/ stack' = <<Frame(held, "commit")>>)
    BY <1>13 DEF EndFrame, BeginFrame, chainVars
  <2> QED
    BY <1>2, <1>3, <1>4, <2>1 DEF Underway, Idle
<1>14. ~\E r \in Route : Activate(r)
  BY DEF Activate, Steady
<1> QED
  BY <1>5, <1>6, <1>7, <1>8, <1>9, <1>10, <1>11, <1>12, <1>13, <1>14 DEF ScopesStay

LEMMA UnderIsGone ==
  ASSUME NEW X
  PROVE  Under(X) = Gone(X, scope)
BY DEF Under, Gone

\* Scopes that go, with what sat under them and with the kept ones among them.
LEMMA SoundLeft ==
  ASSUME NEW S, NEW T, NEW X, NEW Z, NEW W, NEW sc \in Seq(ScopeId), NEW c,
         Sound(S, Z, sc, c), Left(T, S, X), \A s \in DOMAIN T : T[s].awake = S[s].awake,
         \A s \in DOMAIN S : S[s].line \in Seq(ScopeId),
         DOMAIN W = {k \in DOMAIN Z : Z[k].scope \notin Gone(X, S)}, \A k \in DOMAIN W : W[k] = Z[k],
         NEW n \in 0..Len(sc), \A i \in 1..n : sc[i] \notin X,
         \A i \in DOMAIN sc : i > n => sc[i] \in X
  PROVE  Sound(T, W, SubSeq(sc, 1, n), c)
<1>1. Lines(T)
  BY LinesLeft DEF Sound
<1>2. Built(SubSeq(sc, 1, n), c, T)
  BY BuiltLeft DEF Sound
<1>3. Len(SubSeq(sc, 1, n)) = n /\ SubSeq(sc, 1, n) \in Seq(ScopeId)
      /\ \A i \in 1..n : SubSeq(sc, 1, n)[i] = sc[i]
  BY Beginning
<1>4. DOMAIN SubSeq(sc, 1, n) = 1..n /\ 1..n \subseteq DOMAIN sc
  BY <1>3
<1>5. ToSet(SubSeq(sc, 1, n)) = {sc[i] : i \in 1..n}
  <2> DEFINE u == SubSeq(sc, 1, n)
  <2>1. DOMAIN u = 1..n /\ \A i \in 1..n : u[i] = sc[i]
    BY <1>3, <1>4
  <2> HIDE DEF u
  <2>2. {u[i] : i \in DOMAIN u} = {sc[i] : i \in 1..n}
    BY <2>1
  <2> QED
    BY <2>2 DEF ToSet, u
<1>6. Asleep(W, SubSeq(sc, 1, n), T)
  <2>1. SUFFICES ASSUME NEW k \in DOMAIN W
                 PROVE  /\ W[k].scope \in DOMAIN T
                        /\ T[W[k].scope].made = [place |-> k, param |-> W[k].param]
                        /\ ~T[W[k].scope].awake /\ W[k].scope \notin ToSet(SubSeq(sc, 1, n))
    BY DEF Asleep
  <2>2. k \in DOMAIN Z /\ W[k] = Z[k] /\ Z[k].scope \notin Gone(X, S)
    OBVIOUS
  <2>3. /\ Z[k].scope \in DOMAIN S /\ S[Z[k].scope].made = [place |-> k, param |-> Z[k].param]
        /\ ~S[Z[k].scope].awake /\ Z[k].scope \notin ToSet(sc)
    BY <2>2 DEF Sound, Asleep
  <2>4. Z[k].scope \in DOMAIN T
    BY <2>2, <2>3 DEF Left
  <2>5. \A i \in 1..n : sc[i] \in ToSet(sc)
    BY <1>4 DEF ToSet
  <2> QED
    BY <1>5, <2>2, <2>3, <2>4, <2>5 DEF Left
<1>7. NoneLost(W, SubSeq(sc, 1, n), T)
  <2>1. SUFFICES ASSUME NEW s \in DOMAIN T, s \notin ToSet(SubSeq(sc, 1, n))
                 PROVE  \E k \in DOMAIN W : s = W[k].scope
    BY DEF NoneLost
  <2>2. s \in DOMAIN S /\ s \notin Gone(X, S)
    BY DEF Left
  <2>3. s \notin X
    BY <2>2 DEF Gone
  <2>4. s \notin ToSet(sc)
    <3>1. SUFFICES ASSUME NEW i \in DOMAIN sc, s = sc[i] PROVE FALSE
      BY DEF ToSet
    <3>2. i \in Nat /\ i >= 1 /\ n \in Nat
      OBVIOUS
    <3>3. CASE i <= n
      BY <1>5, <2>1, <3>1, <3>2, <3>3
    <3>4. CASE i > n
      BY <2>3, <3>1, <3>4
    <3> QED
      BY <3>2, <3>3, <3>4
  <2>5. PICK k \in DOMAIN Z : s = Z[k].scope
    BY <2>2, <2>4 DEF Sound, NoneLost
  <2> QED
    BY <2>2, <2>5
<1>8. Home(T)
  BY DEF Sound, Home, Left
<1> QED
  BY <1>1, <1>2, <1>6, <1>7, <1>8 DEF Sound

LEMMA AllOfIt ==
  ASSUME NEW T, NEW s \in Seq(T)
  PROVE  SubSeq(s, 1, Len(s)) = s
<1>1. Len(s) \in 0..Len(s)
  OBVIOUS
<1>2. /\ SubSeq(s, 1, Len(s)) \in Seq(T) /\ Len(SubSeq(s, 1, Len(s))) = Len(s)
      /\ \A i \in 1..Len(s) : SubSeq(s, 1, Len(s))[i] = s[i]
  BY <1>1, Beginning
<1>3. SubSeq(s, 1, Len(s)) = [i \in 1..Len(s) |-> SubSeq(s, 1, Len(s))[i]] /\ s = [i \in 1..Len(s) |-> s[i]]
  BY <1>2
<1> QED
  BY <1>2, <1>3

\* A new scope under the last.
LEMMA SoundMore ==
  ASSUME NEW S, NEW T, NEW Z, NEW sc \in Seq(ScopeId), NEW c, NEW s \in ScopeId,
         Sound(S, Z, sc, c), s \notin DOMAIN S, DOMAIN T = DOMAIN S \cup {s},
         \A t \in DOMAIN S : T[t] = S[t],
         T[s].line = sc, T[s].made = Segment(c, Len(sc) + 1), T[s].states \subseteq {T[s].made}
  PROVE  Sound(T, Z, Append(sc, s), c)
<1>1. Lines(S) /\ Built(sc, c, S) /\ Asleep(Z, sc, S) /\ NoneLost(Z, sc, S) /\ Home(S)
  BY DEF Sound
<1>2. ToSet(Append(sc, s)) = ToSet(sc) \cup {s}
  <2> DEFINE u == Append(sc, s)
  <2>1. /\ DOMAIN u = DOMAIN sc \cup {Len(sc) + 1} /\ u[Len(sc) + 1] = s
        /\ \A i \in DOMAIN sc : u[i] = sc[i]
    OBVIOUS
  <2> HIDE DEF u
  <2>2. {u[i] : i \in DOMAIN u} = {sc[i] : i \in DOMAIN sc} \cup {s}
    BY <2>1
  <2> QED
    BY <2>2 DEF ToSet, u
<1>3. Lines(T)
  <2>1. ASSUME NEW t \in DOMAIN S, NEW i \in DOMAIN T[t].line
        PROVE  T[t].line[i] \in DOMAIN T /\ T[T[t].line[i]].line = SubSeq(T[t].line, 1, i - 1)
    BY <1>1, <2>1 DEF Lines
  <2>2. ASSUME NEW i \in DOMAIN sc PROVE sc[i] \in DOMAIN T /\ T[sc[i]].line = SubSeq(sc, 1, i - 1)
    BY <1>1, <2>2 DEF Built
  <2> QED
    BY <2>1, <2>2 DEF Lines
<1>4. Built(sc, c, T)
  BY <1>1 DEF Built
<1>5. Built(Append(sc, s), c, T)
  BY <1>4, BuiltOn
<1>6. Asleep(Z, Append(sc, s), T)
  BY <1>1, <1>2 DEF Asleep
<1>7. NoneLost(Z, Append(sc, s), T) /\ Home(T)
  BY <1>1, <1>2 DEF NoneLost, Home
<1> QED
  BY <1>3, <1>5, <1>6, <1>7 DEF Sound

\* A kept scope that stands again.
LEMMA SoundAgain ==
  ASSUME NEW S, NEW Z, NEW W, NEW sc \in Seq(ScopeId), NEW c, NEW k \in DOMAIN Z, Z[k].scope \in ScopeId,
         Sound(S, Z, sc, c), S[Z[k].scope].line = sc, S[Z[k].scope].made = Segment(c, Len(sc) + 1),
         DOMAIN W = DOMAIN Z \ {k}, \A j \in DOMAIN W : W[j] = Z[j]
  PROVE  Sound(S, W, Append(sc, Z[k].scope), c)
<1> DEFINE s == Z[k].scope
<1>1. Lines(S) /\ Built(sc, c, S) /\ Asleep(Z, sc, S) /\ NoneLost(Z, sc, S) /\ Home(S)
  BY DEF Sound
<1>2. s \in DOMAIN S /\ S[s].made.place = k
  <2>1. s \in DOMAIN S /\ S[s].made = [place |-> k, param |-> Z[k].param]
    BY <1>1 DEF Asleep
  <2>2. [place |-> k, param |-> Z[k].param].place = k
    OBVIOUS
  <2> QED
    BY <2>1, <2>2
<1> HIDE DEF s
<1>3. ToSet(Append(sc, s)) = ToSet(sc) \cup {s}
  <2> DEFINE u == Append(sc, s)
  <2>1. /\ DOMAIN u = DOMAIN sc \cup {Len(sc) + 1} /\ u[Len(sc) + 1] = s
        /\ \A i \in DOMAIN sc : u[i] = sc[i]
    BY DEF s
  <2> HIDE DEF u
  <2>2. {u[i] : i \in DOMAIN u} = {sc[i] : i \in DOMAIN sc} \cup {s}
    BY <2>1
  <2> QED
    BY <2>2 DEF ToSet, u
<1>4. Built(Append(sc, s), c, S)
  BY <1>1, <1>2, BuiltOn DEF s
<1>5. Asleep(W, Append(sc, s), S)
  <2>1. SUFFICES ASSUME NEW j \in DOMAIN W
                 PROVE  /\ W[j].scope \in DOMAIN S /\ S[W[j].scope].made = [place |-> j, param |-> W[j].param]
                        /\ ~S[W[j].scope].awake /\ W[j].scope \notin ToSet(Append(sc, s))
    BY DEF Asleep
  <2>2. j \in DOMAIN Z /\ W[j] = Z[j] /\ j # k
    OBVIOUS
  <2>3. /\ W[j].scope \in DOMAIN S /\ S[W[j].scope].made = [place |-> j, param |-> W[j].param]
        /\ ~S[W[j].scope].awake /\ W[j].scope \notin ToSet(sc)
    BY <1>1, <2>2 DEF Asleep
  <2>4. W[j].scope # s
    BY <1>2, <2>2, <2>3
  <2> QED
    BY <1>3, <2>3, <2>4
<1>6. NoneLost(W, Append(sc, s), S)
  <2>1. SUFFICES ASSUME NEW t \in DOMAIN S, t \notin ToSet(sc), t # s PROVE \E j \in DOMAIN W : t = W[j].scope
    BY <1>3 DEF NoneLost
  <2>2. PICK j \in DOMAIN Z : t = Z[j].scope
    BY <1>1, <2>1 DEF NoneLost
  <2>3. j # k
    BY <2>1, <2>2 DEF s
  <2> QED
    BY <2>2, <2>3
<1> QED
  BY <1>1, <1>4, <1>5, <1>6 DEF Sound, s

\* A standing scope is told to wake.
LEMMA SoundAwake ==
  ASSUME NEW S, NEW T, NEW Z, NEW sc \in Seq(ScopeId), NEW c, NEW s, Sound(S, Z, sc, c), s \in ToSet(sc),
         DOMAIN T = DOMAIN S,
         \A t \in DOMAIN S : /\ T[t].line = S[t].line /\ T[t].made = S[t].made /\ T[t].states = S[t].states
                             /\ t # s => T[t] = S[t]
  PROVE  Sound(T, Z, sc, c)
<1>1. Lines(S) /\ Built(sc, c, S) /\ Asleep(Z, sc, S) /\ NoneLost(Z, sc, S) /\ Home(S)
  BY DEF Sound
<1>2. Lines(T)
  BY <1>1 DEF Lines
<1>3. Built(sc, c, T)
  BY <1>1 DEF Built
<1>4. Asleep(Z, sc, T)
  BY <1>1 DEF Asleep
<1>5. NoneLost(Z, sc, T) /\ Home(T)
  BY <1>1 DEF NoneLost, Home
<1> QED
  BY <1>2, <1>3, <1>4, <1>5 DEF Sound

\* A new scope sits under the scopes that stand.
LEMMA LineOfStanding ==
  ASSUME NEW sc \in Seq(ScopeId), NEW c, Built(sc, c, scope)
  PROVE  Stands(sc) \in DOMAIN scope \cup {Host} => Line(Stands(sc)) = sc
<1>1. CASE sc = <<>>
  BY <1>1 DEF Stands, Line
<1>2. CASE sc # <<>>
  <2> DEFINE n == Len(sc)
  <2>1. n \in Nat \ {0} /\ n \in DOMAIN sc /\ sc[n] \in ScopeId /\ n - 1 \in 0..n
    BY <1>2
  <2>2. Stands(sc) = sc[n] /\ sc[n] # Host
    BY <1>2, <2>1 DEF Stands, Last, ScopeId, Host
  <2>3. scope[sc[n]].line = SubSeq(sc, 1, n - 1)
    BY <2>1 DEF Built
  <2>4. Line(Stands(sc)) = Append(SubSeq(sc, 1, n - 1), sc[n])
    BY <2>2, <2>3 DEF Line
  <2>5. /\ SubSeq(sc, 1, n - 1) \in Seq(ScopeId) /\ Len(SubSeq(sc, 1, n - 1)) = n - 1
        /\ \A i \in 1..(n - 1) : SubSeq(sc, 1, n - 1)[i] = sc[i]
    BY <2>1, Beginning
  <2> DEFINE u == SubSeq(sc, 1, n - 1)
             v == Append(u, sc[n])
  <2>6. u \in Seq(ScopeId) /\ Len(u) = n - 1 /\ \A i \in 1..(n - 1) : u[i] = sc[i]
    BY <2>5
  <2> HIDE DEF u
  <2>7. v \in Seq(ScopeId) /\ Len(v) = n /\ \A i \in 1..n : v[i] = sc[i]
    BY <2>1, <2>6
  <2> HIDE DEF v
  <2>8. v = [i \in 1..n |-> v[i]] /\ sc = [i \in 1..n |-> sc[i]]
    BY <2>1, <2>7
  <2>9. v = sc
    BY <2>7, <2>8
  <2> QED
    BY <2>4, <2>9 DEF u, v
<1> QED
  BY <1>1, <1>2

\* What stands while a chain is built.
LEMMA StandingOn ==
  ASSUME Next, UNCHANGED calls, NEW ok, NEW sc, GoneOn("building", ok, sc), StillFrom
  PROVE  /\ Standing' = sc
         /\ StandingChain' = IF ok THEN Chain[calls[Running.nav].route] ELSE Running.old.chain
<1>1. /\ ~Idle' /\ Running'.at = "building" /\ Running'.nav = Running.nav /\ Running'.ok = ok
      /\ Running'.scopes = sc /\ Running'.old = Running.old /\ calls' = calls
  BY DEF GoneOn, StillFrom
<1>2. Standing' = sc
  BY <1>1 DEF Standing, Underway
<1>3. StandingChain' = IF Running'.ok THEN Chain[calls'[Running'.nav].route] ELSE Running'.old.chain
  BY <1>1 DEF StandingChain, Underway, Target
<1> QED
  BY <1>1, <1>2, <1>3

LEMMA StandingBuilding ==
  ASSUME ~Idle, Running.at = "building"
  PROVE  /\ Standing = Running.scopes /\ StandingChain = Target(Running)
         /\ Target(Running) = IF Running.ok THEN Chain[calls[Running.nav].route] ELSE Running.old.chain
BY DEF Standing, StandingChain, Underway, Target

\* A chain is left: some of it stays, some sleeps and the rest goes.
LEMMA SoundAfterLeaving ==
  ASSUME BaseInv, Alone, ScopesInv, InHand, Next, LeaveChain
  PROVE  ScopesInv'
<1> DEFINE sc == Running.scopes
           c == Running.old.chain
           n == Running.floor
           u == SubSeq(sc, 1, n)
           d == IF Running.ok THEN Chain[calls[Running.nav].route] ELSE Running.old.chain
           X == {Running.scopes[i] : i \in Below \ Lulled}
                  \cup {sleeping[k].scope : k \in DOMAIN PutDown \cap DOMAIN sleeping}
<1>1. /\ ~Idle /\ Running.at = "leaving" /\ Running \in FrameType /\ sleeping' = Slept(Over(PutDown, sleeping), Parted)
      /\ UNCHANGED calls
  BY Leaves, TheCall
<1>2. Parted = Gone(X, scope)
  BY UnderIsGone DEF Parted
<1>3. Sound(scope, sleeping, sc, c) /\ \A i \in 1..n : c[i] = Chain[calls[Running.nav].route][i]
  BY <1>1 DEF ScopesInv, Standing, StandingChain, Underway, InHand
<1>4. Standing' = u /\ StandingChain' = d
  <2>1. GoneOn("building", Running.ok, u) /\ StillFrom
    BY Moves
  <2> HIDE DEF u
  <2>2. /\ Standing' = u
        /\ StandingChain' = IF Running.ok THEN Chain[calls[Running.nav].route] ELSE Running.old.chain
    BY <1>1, <2>1, StandingOn
  <2> QED
    BY <2>2
<1>5. /\ sc \in Seq(ScopeId) /\ n \in 0..Len(sc) /\ Len(sc) \in Nat /\ DOMAIN sc = 1..Len(sc) /\ n \in Nat
      /\ Below = {i \in DOMAIN sc : i > n} /\ c \in Chains /\ Len(sc) = Len(c) /\ DOMAIN c = DOMAIN sc
  <2>1. Shaped(Running, RouteLen(Running.nav))
    BY <1>1, TheCall
  <2>2. sc \in Seq(ScopeId) /\ n \in Nat /\ n <= Len(sc) /\ c \in Chains /\ Len(sc) = Len(c)
    BY <1>1, <2>1 DEF Shaped, FrameType, StoodType
  <2> QED
    BY <2>2, ChainsAreSequences DEF Below
<1>6. \A s \in DOMAIN scope : scope[s].line \in Seq(ScopeId)
  BY TheStanding
<1>7. /\ DOMAIN scope' = DOMAIN scope \ Parted
      /\ \A s \in DOMAIN scope' :
           /\ scope'[s].line = scope[s].line /\ scope'[s].made = scope[s].made
           /\ scope'[s].states = scope[s].states
           /\ scope'[s].awake = (scope[s].awake /\ s \notin {Running.scopes[i] : i \in Lulled})
  BY LeftScopes DEF BaseInv, Types
<1>8. Left(scope', scope, X)
  BY <1>2, <1>7 DEF Left
<1>9. /\ Lulled \subseteq Below
      /\ \A i \in Lulled : /\ Place(c, i) \in DOMAIN PutDown
                           /\ PutDown[Place(c, i)].scope = sc[i] /\ PutDown[Place(c, i)].param = c[i].param
      /\ \A k \in DOMAIN PutDown : \E i \in Lulled : k = Place(c, i)
  <2>1. /\ Lulled \subseteq Below
        /\ \A i \in Lulled : /\ Place(c, i) \in DOMAIN PutDown
                             /\ PutDown[Place(c, i)] = [scope |-> sc[i], param |-> c[i].param]
        /\ \A k \in DOMAIN PutDown : \E i \in Lulled : k = Place(c, i)
    BY <1>1, PutToSleep
  <2> HIDE DEF sc, c
  <2>2. ASSUME NEW i \in Lulled
        PROVE  PutDown[Place(c, i)].scope = sc[i] /\ PutDown[Place(c, i)].param = c[i].param
    <3>1. PutDown[Place(c, i)] = [scope |-> sc[i], param |-> c[i].param]
      BY <2>1
    <3> QED
      BY <3>1
  <2> QED
    BY <2>1, <2>2
<1>10. /\ Lines(scope) /\ Built(sc, c, scope) /\ Asleep(sleeping, sc, scope)
       /\ NoneLost(sleeping, sc, scope) /\ Home(scope)
  BY <1>3 DEF Sound
<1> DEFINE over == Over(PutDown, sleeping)
<1>11. /\ DOMAIN over = DOMAIN PutDown \cup DOMAIN sleeping
       /\ \A k \in DOMAIN PutDown : over[k] = PutDown[k]
       /\ \A k \in DOMAIN sleeping \ DOMAIN PutDown : over[k] = sleeping[k]
  BY DEF Over
<1>12. /\ DOMAIN sleeping' = {k \in DOMAIN over : over[k].scope \notin Parted}
       /\ \A k \in DOMAIN sleeping' : sleeping'[k] = over[k]
  <2>1. sleeping' = Slept(over, Parted)
    BY <1>1
  <2> HIDE DEF over
  <2>2. /\ DOMAIN Slept(over, Parted) = {k \in DOMAIN over : over[k].scope \notin Parted}
        /\ \A k \in DOMAIN Slept(over, Parted) : Slept(over, Parted)[k] = over[k]
    BY SleptOf
  <2> QED
    BY <2>1, <2>2
<1> HIDE DEF over, X, sc, c, n, u, d
<1>13. \A i \in DOMAIN sc : sc[i] \in ToSet(sc)
  BY DEF ToSet
<1>14. \A i \in 1..n : sc[i] \notin X
  <2>1. SUFFICES ASSUME NEW i \in 1..n, sc[i] \in X PROVE FALSE
    OBVIOUS
  <2>2. i \in DOMAIN sc /\ i \in Nat /\ i <= n
    BY <1>5
  <2>3. CASE \E j \in Below \ Lulled : sc[i] = sc[j]
    <3>1. PICK j \in Below : sc[i] = sc[j]
      BY <2>3
    <3>2. i = j
      BY <1>5, <1>10, <2>2, <3>1, BuiltApart
    <3> QED
      BY <1>5, <2>2, <3>2
  <2>4. CASE \E k \in DOMAIN PutDown \cap DOMAIN sleeping : sc[i] = sleeping[k].scope
    BY <1>10, <1>13, <2>2, <2>4 DEF Asleep
  <2> QED
    BY <2>1, <2>3, <2>4 DEF X, sc
<1>15. /\ u \in Seq(ScopeId) /\ DOMAIN u = 1..n /\ \A i \in 1..n : u[i] = sc[i]
  BY <1>5, Beginning DEF u
<1>16. ToSet(u) = {sc[i] : i \in 1..n}
  <2>1. {u[i] : i \in DOMAIN u} = {sc[i] : i \in 1..n}
    BY <1>15
  <2> QED
    BY <2>1 DEF ToSet
<1>17. Lines(scope')
  BY <1>6, <1>8, <1>10, LinesLeft
<1>18. Built(u, d, scope')
  <2>1. Built(u, c, scope')
    BY <1>5, <1>8, <1>10, <1>14, BuiltLeft DEF u
  <2>2. \A i \in DOMAIN u : c[i] = d[i]
    BY <1>3, <1>15 DEF d, n, c
  <2> QED
    BY <1>15, <2>1, <2>2, BuiltAsWell
<1>19. Asleep(sleeping', u, scope')
  <2>1. SUFFICES ASSUME NEW k \in DOMAIN sleeping'
                 PROVE  /\ over[k].scope \in DOMAIN scope'
                        /\ scope'[over[k].scope].made = [place |-> k, param |-> over[k].param]
                        /\ ~scope'[over[k].scope].awake /\ over[k].scope \notin ToSet(u)
    BY <1>12 DEF Asleep
  <2>2. k \in DOMAIN over /\ over[k].scope \notin Parted
    BY <1>12
  <2>3. CASE k \in DOMAIN PutDown
    <3>1. PICK i \in Lulled : k = Place(c, i)
      BY <1>9, <2>3
    <3>2. over[k].scope = sc[i] /\ over[k].param = c[i].param
      BY <1>9, <1>11, <2>3, <3>1
    <3>3. i \in DOMAIN sc /\ i > n
      BY <1>5, <1>9
    <3>4. sc[i] \in DOMAIN scope /\ scope[sc[i]].made = Segment(c, i)
      BY <1>10, <3>3 DEF Built
    <3>5. sc[i] \in DOMAIN scope'
      BY <1>7, <2>2, <3>2, <3>4
    <3>6. scope'[sc[i]].made = Segment(c, i) /\ ~scope'[sc[i]].awake
      BY <1>7, <3>4, <3>5 DEF sc
    <3>7. sc[i] \notin ToSet(u)
      <4>1. SUFFICES ASSUME NEW j \in 1..n, sc[i] = sc[j] PROVE FALSE
        BY <1>16
      <4>2. j \in DOMAIN sc /\ j <= n /\ j \in Nat
        BY <1>5
      <4>3. i = j
        BY <1>5, <1>10, <3>3, <4>1, <4>2, BuiltApart
      <4> QED
        BY <1>5, <3>3, <4>2, <4>3
    <3> QED
      BY <3>1, <3>2, <3>5, <3>6, <3>7 DEF Segment
  <2>4. CASE k \notin DOMAIN PutDown
    <3>1. k \in DOMAIN sleeping /\ over[k] = sleeping[k]
      BY <1>11, <2>2, <2>4
    <3>2. /\ sleeping[k].scope \in DOMAIN scope
          /\ scope[sleeping[k].scope].made = [place |-> k, param |-> sleeping[k].param]
          /\ ~scope[sleeping[k].scope].awake /\ sleeping[k].scope \notin ToSet(sc)
      BY <1>10, <3>1 DEF Asleep
    <3>3. sleeping[k].scope \in DOMAIN scope'
      BY <1>7, <2>2, <3>1, <3>2
    <3>4. sleeping[k].scope \notin ToSet(u)
      BY <1>5, <1>13, <1>16, <3>2
    <3> QED
      BY <1>7, <3>1, <3>2, <3>3, <3>4
  <2> QED
    BY <2>3, <2>4
<1>20. NoneLost(sleeping', u, scope')
  <2>1. SUFFICES ASSUME NEW s \in DOMAIN scope', s \notin ToSet(u)
                 PROVE  \E k \in DOMAIN sleeping' : s = sleeping'[k].scope
    BY DEF NoneLost
  <2>2. s \in DOMAIN scope /\ s \notin Parted /\ s \notin X
    BY <1>2, <1>7 DEF Gone
  <2>3. CASE s \in ToSet(sc)
    <3>1. PICK i \in DOMAIN sc : s = sc[i]
      BY <2>3 DEF ToSet
    <3>2. ~(i <= n)
      BY <1>5, <1>16, <2>1, <3>1
    <3>3. i \in Below
      BY <1>5, <3>2
    <3>4. i \in Lulled
      BY <2>2, <3>1, <3>3 DEF X, sc
    <3>5. Place(c, i) \in DOMAIN PutDown /\ PutDown[Place(c, i)].scope = s
      BY <1>9, <3>1, <3>4
    <3>6. Place(c, i) \in DOMAIN over /\ over[Place(c, i)].scope = s
      BY <1>11, <3>5
    <3> QED
      BY <1>12, <2>2, <3>6
  <2>4. CASE s \notin ToSet(sc)
    <3>1. PICK k \in DOMAIN sleeping : s = sleeping[k].scope
      BY <1>10, <2>2, <2>4 DEF NoneLost
    <3>2. k \notin DOMAIN PutDown
      BY <2>2, <3>1 DEF X
    <3>3. k \in DOMAIN over /\ over[k] = sleeping[k]
      BY <1>11, <3>1, <3>2
    <3> QED
      BY <1>12, <2>2, <3>1, <3>3
  <2> QED
    BY <2>3, <2>4
<1>21. Home(scope')
  BY <1>7, <1>10 DEF Home
<1>22. Sound(scope', sleeping', u, d)
  BY <1>17, <1>18, <1>19, <1>20, <1>21 DEF Sound
<1> QED
  BY <1>4, <1>22 DEF ScopesInv

\* A kept segment is woken where it slept.
LEMMA SoundAfterTaking ==
  ASSUME BaseInv, Alone, ScopesInv, InHand, Next, TakeSleeper
  PROVE  ScopesInv'
<1> DEFINE sc == Running.scopes
           c == Target(Running)
           s == sleeping[NextPlace].scope
<1>1. /\ ~Idle /\ Running.at = "building" /\ Building /\ Wakeable /\ Running \in FrameType
      /\ sleeping' = Without(sleeping, {NextPlace}) /\ UNCHANGED calls /\ UNCHANGED scope
  BY TheCall DEF TakeSleeper, Building
<1>2. Sound(scope, sleeping, sc, c)
  BY <1>1, StandingBuilding DEF ScopesInv
<1>3. Standing' = Append(sc, s) /\ StandingChain' = c
  <2> DEFINE w == Append(sc, s)
  <2>1. GoneOn("building", Running.ok, w) /\ StillFrom
    BY Moves
  <2>2. c = IF Running.ok THEN Chain[calls[Running.nav].route] ELSE Running.old.chain
    BY <1>1, StandingBuilding
  <2> HIDE DEF w, c
  <2>3. /\ Standing' = w
        /\ StandingChain' = IF Running.ok THEN Chain[calls[Running.nav].route] ELSE Running.old.chain
    BY <1>1, <2>1, StandingOn
  <2> QED
    BY <2>2, <2>3 DEF w
<1>4. sc \in Seq(ScopeId)
  BY <1>1 DEF FrameType
<1>5. /\ NextPlace \in DOMAIN sleeping /\ s \in DOMAIN scope /\ s \in ScopeId /\ Parent(s) = Stands(sc)
      /\ sleeping[NextPlace].param = c[NextIndex].param
  <2>1. Sleeper # {} /\ NextPlace \in DOMAIN sleeping /\ Sleeper = {s}
    BY <1>1, TheSleeper DEF Wakeable
  <2> QED
    BY <1>1, <2>1, TheSleeper DEF Wakeable
<1>6. NextIndex = Len(sc) + 1 /\ Segment(c, NextIndex) = [place |-> NextPlace, param |-> c[NextIndex].param]
  BY <1>1, TheNext
<1>7. /\ Lines(scope) /\ Built(sc, c, scope) /\ Asleep(sleeping, sc, scope)
  BY <1>2 DEF Sound
<1>8. scope[s].made = Segment(c, Len(sc) + 1)
  <2>1. scope[s].made = [place |-> NextPlace, param |-> sleeping[NextPlace].param]
    BY <1>5, <1>7 DEF Asleep
  <2> QED
    BY <1>5, <1>6, <2>1
<1>9. scope[s].line = sc
  <2>1. scope[s].line \in Seq(ScopeId)
    BY <1>5, TheStanding
  <2>2. CASE sc = <<>>
    <3>1. Parent(s) = Host
      BY <1>5, <2>2 DEF Stands
    <3>2. ASSUME scope[s].line # <<>> PROVE FALSE
      <4>1. Last(scope[s].line) \in ScopeId
        BY <2>1, <3>2 DEF Last
      <4> QED
        BY <3>1, <3>2, <4>1 DEF Parent, Host, ScopeId
    <3> QED
      BY <2>2, <3>2
  <2>3. CASE sc # <<>>
    <3>1. Last(sc) \in ScopeId
      BY <1>4, <2>3 DEF Last
    <3>2. Parent(s) = Last(sc) /\ Parent(s) # Host
      BY <1>5, <2>3, <3>1 DEF Stands, Host, ScopeId
    <3>3. scope[s].line # <<>> /\ Last(scope[s].line) = Last(sc)
      BY <3>2 DEF Parent
    <3> QED
      BY <1>4, <1>5, <1>7, <2>1, <2>3, <3>3, UnderTheLast
  <2> QED
    BY <2>2, <2>3
<1>10. DOMAIN sleeping' = DOMAIN sleeping \ {NextPlace} /\ \A k \in DOMAIN sleeping' : sleeping'[k] = sleeping[k]
  <2>1. Partial(sleeping, Places, AsleepType)
    BY DEF BaseInv, Types, ScopeTypes
  <2>2. /\ DOMAIN Without(sleeping, {NextPlace}) = DOMAIN sleeping \ {NextPlace}
        /\ \A k \in DOMAIN sleeping \ {NextPlace} : Without(sleeping, {NextPlace})[k] = sleeping[k]
    BY <2>1, FewerOf
  <2> QED
    BY <1>1, <2>2
<1> HIDE DEF sc, c
<1>11. Sound(scope, sleeping', Append(sc, s), c)
  BY <1>2, <1>4, <1>5, <1>8, <1>9, <1>10, SoundAgain
<1> QED
  BY <1>1, <1>3, <1>11 DEF ScopesInv

\* What sleeps where a segment is built goes, and nothing that stands with it.
LEMMA SleeperApart ==
  ASSUME BaseInv, ScopesInv, Building
  PROVE  \A i \in DOMAIN Running.scopes : Running.scopes[i] \notin Sleeper
<1>1. Asleep(sleeping, Running.scopes, scope)
  BY StandingBuilding DEF ScopesInv, Sound, Building
<1>2. \A k \in DOMAIN sleeping : sleeping[k].scope \notin ToSet(Running.scopes)
  BY <1>1 DEF Asleep
<1>3. \A i \in DOMAIN Running.scopes : Running.scopes[i] \in ToSet(Running.scopes)
  BY DEF ToSet
<1> QED
  BY <1>2, <1>3 DEF Sleeper

\* The kept segments that are left when scopes go.
LEMMA KeptLeft ==
  ASSUME NEW X, sleeping' = Slept(sleeping, Under(X))
  PROVE  /\ DOMAIN sleeping' = {k \in DOMAIN sleeping : sleeping[k].scope \notin Gone(X, scope)}
         /\ \A k \in DOMAIN sleeping' : sleeping'[k] = sleeping[k]
<1> DEFINE D == Gone(X, scope)
<1>1. sleeping' = Slept(sleeping, D)
  BY UnderIsGone
<1> HIDE DEF D
<1>2. /\ DOMAIN Slept(sleeping, D) = {k \in DOMAIN sleeping : sleeping[k].scope \notin D}
      /\ \A k \in DOMAIN Slept(sleeping, D) : Slept(sleeping, D)[k] = sleeping[k]
  BY SleptOf
<1>3. /\ DOMAIN sleeping' = {k \in DOMAIN sleeping : sleeping[k].scope \notin D}
      /\ \A k \in DOMAIN sleeping' : sleeping'[k] = sleeping[k]
  BY <1>1, <1>2
<1> QED
  BY <1>3 DEF D

\* A new segment is installed, and what slept in its place goes.
LEMMA SoundAfterInstall ==
  ASSUME BaseInv, Alone, ScopesInv, CacheHome, Next, Install
  PROVE  ScopesInv'
<1> DEFINE sc == Running.scopes
           c == Target(Running)
           s == FreshScope
           T == [t \in DOMAIN scope \ Under(Sleeper) |-> scope[t]]
<1>1. /\ ~Idle /\ Running.at = "building" /\ Building /\ Running \in FrameType
      /\ UNCHANGED calls /\ Stands(sc) \in DOMAIN scope \cup {Host}
  BY TheCall DEF Install, Building
<1>2. Sound(scope, sleeping, sc, c)
  BY <1>1, StandingBuilding DEF ScopesInv
<1>3. Standing' = Append(sc, s) /\ StandingChain' = c
  <2> DEFINE w == Append(sc, s)
  <2>1. GoneOn("building", Running.ok, w) /\ StillFrom
    BY Moves
  <2>2. c = IF Running.ok THEN Chain[calls[Running.nav].route] ELSE Running.old.chain
    BY <1>1, StandingBuilding
  <2> HIDE DEF w, c
  <2>3. /\ Standing' = w
        /\ StandingChain' = IF Running.ok THEN Chain[calls[Running.nav].route] ELSE Running.old.chain
    BY <1>1, <2>1, StandingOn
  <2> QED
    BY <2>2, <2>3 DEF w
<1>4. sc \in Seq(ScopeId)
  BY <1>1 DEF FrameType
<1>5. /\ s \in ScopeId /\ s \notin DOMAIN scope
      /\ DOMAIN scope' = (DOMAIN scope \ Under(Sleeper)) \cup {s}
      /\ scope'[s] = NewScope
      /\ \A t \in DOMAIN scope \ Under(Sleeper) : t # s /\ scope'[t] = scope[t]
      /\ sleeping' = Slept(sleeping, Under(Sleeper))
  BY InstalledScope
<1>6. NewScope.line = Line(Stands(sc)) /\ NewScope.made = Segment(c, NextIndex) /\ NewScope.states = Restored
  BY <1>1, NewScopes
<1>7. /\ NextIndex = Len(sc) + 1
      /\ Segment(c, NextIndex) = [place |-> NextPlace, param |-> c[NextIndex].param]
  BY <1>1, TheNext
<1>8. Line(Stands(sc)) = sc
  BY <1>1, <1>2, <1>4, LineOfStanding DEF Sound
<1>9. Restored \subseteq {Segment(c, NextIndex)}
  <2>1. SUFFICES ASSUME NEW st \in Restored PROVE st = Segment(c, NextIndex)
    OBVIOUS
  <2>2. PICK j \in DOMAIN cache :
          st = cache[j].from /\ cache[j].place = NextPlace /\ cache[j].param = c[NextIndex].param
    BY RestoredStates DEF BaseInv, Types
  <2>3. cache[j].from = [place |-> cache[j].place, param |-> cache[j].param]
    BY DEF CacheHome
  <2> QED
    BY <1>7, <2>2, <2>3
<1>10. \A i \in DOMAIN sc : sc[i] \notin Sleeper
  BY <1>1, SleeperApart
<1>11. \A t \in DOMAIN scope : scope[t].line \in Seq(ScopeId)
  BY TheStanding
<1>12. Under(Sleeper) = Gone(Sleeper, scope)
  BY UnderIsGone
<1>13. DOMAIN T = DOMAIN scope \ Gone(Sleeper, scope) /\ \A t \in DOMAIN T : T[t] = scope[t]
  BY <1>12
<1>14. /\ DOMAIN sleeping' = {k \in DOMAIN sleeping : sleeping[k].scope \notin Gone(Sleeper, scope)}
       /\ \A k \in DOMAIN sleeping' : sleeping'[k] = sleeping[k]
  BY <1>5, KeptLeft
<1>15. Len(sc) \in 0..Len(sc) /\ SubSeq(sc, 1, Len(sc)) = sc /\ DOMAIN sc = 1..Len(sc) /\ Len(sc) \in Nat
  <2> HIDE DEF sc
  <2>1. SubSeq(sc, 1, Len(sc)) = sc
    BY <1>4, AllOfIt
  <2> QED
    BY <1>4, <2>1
<1>16. scope'[s].line = sc /\ scope'[s].made = Segment(c, Len(sc) + 1) /\ scope'[s].states \subseteq {scope'[s].made}
  BY <1>5, <1>6, <1>7, <1>8, <1>9
<1>17. DOMAIN scope' = DOMAIN T \cup {s} /\ \A t \in DOMAIN T : scope'[t] = T[t]
  BY <1>5, <1>12, <1>13
<1>18. s \notin DOMAIN T
  BY <1>5, <1>13
<1> HIDE DEF sc, c, s, T
<1>19. Sound(T, sleeping', sc, c)
  <2>1. Left(T, scope, Sleeper)
    BY <1>13 DEF Left
  <2>2. \A t \in DOMAIN T : T[t].awake = scope[t].awake
    BY <1>13
  <2>3. \A i \in 1..Len(sc) : sc[i] \notin Sleeper
    BY <1>10, <1>15
  <2>4. \A i \in DOMAIN sc : i > Len(sc) => sc[i] \in Sleeper
    BY <1>15
  <2>5. Sound(T, sleeping', SubSeq(sc, 1, Len(sc)), c)
    BY <1>2, <1>4, <1>11, <1>14, <1>15, <2>1, <2>2, <2>3, <2>4, SoundLeft
  <2> QED
    BY <1>15, <2>5
<1>20. Sound(scope', sleeping', Append(sc, s), c)
  <2>1. s \in ScopeId
    BY <1>5
  <2>2. DOMAIN scope' = DOMAIN T \cup {s}
    BY <1>17
  <2>3. \A t \in DOMAIN T : scope'[t] = T[t]
    BY <1>17
  <2>4. scope'[s].line = sc
    BY <1>16
  <2>5. scope'[s].made = Segment(c, Len(sc) + 1)
    BY <1>16
  <2>6. scope'[s].states \subseteq {scope'[s].made}
    BY <1>16
  <2> QED
    BY <1>4, <1>18, <1>19, <2>1, <2>2, <2>3, <2>4, <2>5, <2>6, SoundMore
<1> QED
  BY <1>3, <1>20 DEF ScopesInv

\* What a segment that fails to install leaves.
LEMMA SoundUnbuilt ==
  ASSUME BaseInv, ScopesInv, Building, NEW n \in 0..Len(Running.scopes), Unbuilt(n)
  PROVE  Sound(scope', sleeping', SubSeq(Running.scopes, 1, n), Target(Running))
<1> DEFINE sc == Running.scopes
           c == Target(Running)
           X == Sleeper \cup {Running.scopes[i] : i \in {j \in DOMAIN Running.scopes : j > n}}
<1>1. /\ ~Idle /\ Running.at = "building" /\ Running \in FrameType
      /\ scope' = Without(scope, Under(X)) /\ sleeping' = Slept(sleeping, Under(X))
  BY TheCall DEF Unbuilt, Building
<1>2. Sound(scope, sleeping, sc, c)
  BY <1>1, StandingBuilding DEF ScopesInv
<1>3. sc \in Seq(ScopeId) /\ DOMAIN sc = 1..Len(sc) /\ Len(sc) \in Nat
  BY <1>1 DEF FrameType
<1>4. \A i \in DOMAIN sc : i > n => sc[i] \in X
  OBVIOUS
<1>5. \A i \in 1..n : sc[i] \notin X
  <2>1. SUFFICES ASSUME NEW i \in 1..n PROVE sc[i] \notin X
    OBVIOUS
  <2>2. i \in DOMAIN sc /\ i \in Nat /\ i <= n /\ n \in Nat
    BY <1>3
  <2>3. sc[i] \notin Sleeper
    BY <2>2, SleeperApart
  <2>4. ASSUME NEW j \in DOMAIN sc, j > n, sc[i] = sc[j] PROVE FALSE
    <3>1. Built(sc, c, scope)
      BY <1>2 DEF Sound
    <3> HIDE DEF sc, c
    <3>2. i = j
      BY <1>3, <2>2, <2>4, <3>1, BuiltApart
    <3> QED
      BY <2>2, <2>4, <3>2
  <2> QED
    BY <2>3, <2>4
<1>6. \A t \in DOMAIN scope : scope[t].line \in Seq(ScopeId)
  BY TheStanding
<1>7. DOMAIN scope' = DOMAIN scope \ Gone(X, scope) /\ \A t \in DOMAIN scope' : scope'[t] = scope[t]
  <2> HIDE DEF X
  <2>1. Partial(scope, ScopeId, ScopeType)
    BY DEF BaseInv, Types, ScopeTypes
  <2>2. /\ DOMAIN Without(scope, Under(X)) = DOMAIN scope \ Under(X)
        /\ \A t \in DOMAIN scope \ Under(X) : Without(scope, Under(X))[t] = scope[t]
    BY <2>1, FewerOf
  <2>3. Under(X) = Gone(X, scope)
    BY UnderIsGone
  <2> QED
    BY <1>1, <2>2, <2>3
<1> HIDE DEF sc, c, X
<1>8. /\ DOMAIN sleeping' = {k \in DOMAIN sleeping : sleeping[k].scope \notin Gone(X, scope)}
      /\ \A k \in DOMAIN sleeping' : sleeping'[k] = sleeping[k]
  BY <1>1, KeptLeft
<1>9. Left(scope', scope, X) /\ \A t \in DOMAIN scope' : scope'[t].awake = scope[t].awake
  BY <1>7 DEF Left
<1>10. n \in 0..Len(sc)
  BY DEF sc
<1>11. Sound(scope', sleeping', SubSeq(sc, 1, n), c)
  <2>1. Left(scope', scope, X)
    BY <1>9
  <2>2. \A t \in DOMAIN scope' : scope'[t].awake = scope[t].awake
    BY <1>9
  <2>3. DOMAIN sleeping' = {k \in DOMAIN sleeping : sleeping[k].scope \notin Gone(X, scope)}
    BY <1>8
  <2>4. \A k \in DOMAIN sleeping' : sleeping'[k] = sleeping[k]
    BY <1>8
  <2>5. sc \in Seq(ScopeId)
    BY <1>3
  <2> QED
    BY <1>2, <1>4, <1>5, <1>6, <1>10, <2>1, <2>2, <2>3, <2>4, <2>5, SoundLeft
<1> QED
  BY <1>11 DEF sc, c

\* The chain that stood before is built again on what is left of it.
LEMMA SoundAfterRollback ==
  ASSUME BaseInv, Alone, ScopesInv, InHand, Next, Rollback
  PROVE  ScopesInv'
<1> DEFINE n == Running.floor
           u == SubSeq(Running.scopes, 1, n)
           d == Running.old.chain
<1>1. /\ ~Idle /\ Running.at = "building" /\ Building /\ Running \in FrameType /\ Running.ok
      /\ UNCHANGED calls /\ Unbuilt(n)
  BY TheCall DEF Rollback, Building
<1>2. n \in 0..Len(Running.scopes) /\ Running.scopes \in Seq(ScopeId)
  BY <1>1, TheCall DEF Shaped, FrameType
<1>3. Standing' = u /\ StandingChain' = d
  <2>1. GoneOn("building", FALSE, u) /\ StillFrom
    BY Moves
  <2> HIDE DEF u
  <2> QED
    BY <1>1, <2>1, StandingOn
<1>4. Sound(scope', sleeping', u, Target(Running))
  BY <1>1, <1>2, SoundUnbuilt
<1>5. \A i \in 1..n : Running.old.chain[i] = Target(Running)[i]
  BY <1>1 DEF InHand, Underway, Target
<1>6. u \in Seq(ScopeId) /\ DOMAIN u = 1..n
  BY <1>2, Beginning
<1> HIDE DEF u, n
<1>7. Built(u, d, scope')
  <2>1. \A i \in DOMAIN u : Target(Running)[i] = d[i]
    BY <1>5, <1>6
  <2>2. Built(u, Target(Running), scope')
    BY <1>4 DEF Sound
  <2> HIDE DEF d
  <2> QED
    BY <1>6, <2>1, <2>2, BuiltAsWell
<1>8. Sound(scope', sleeping', u, d)
  BY <1>4, <1>7 DEF Sound
<1> QED
  BY <1>3, <1>8 DEF ScopesInv

\* Nothing is left standing.
LEMMA SoundAfterGivingUp ==
  ASSUME BaseInv, Alone, ScopesInv, InHand, Next, GiveUp
  PROVE  ScopesInv'
<1>1. /\ ~Idle /\ Building /\ Unbuilt(0) /\ Returns /\ UNCHANGED active /\ active = NoChain /\ Running \in FrameType
  BY TheCall DEF GiveUp, InHand, Underway, Building
<1>2. 0 \in 0..Len(Running.scopes)
  BY <1>1 DEF FrameType
<1>3. Sound(scope', sleeping', SubSeq(Running.scopes, 1, 0), Target(Running))
  BY <1>1, <1>2, SoundUnbuilt
<1>4. SubSeq(Running.scopes, 1, 0) = <<>>
  <2>1. Running.scopes \in Seq(ScopeId)
    BY <1>1 DEF FrameType
  <2>2. SubSeq(Running.scopes, 1, 0) \in Seq(ScopeId) /\ Len(SubSeq(Running.scopes, 1, 0)) = 0
    BY <1>2, <2>1, Beginning
  <2> QED
    BY <2>2
<1>5. Idle'
  BY <1>1, TheOnly DEF Alone, BaseInv, Types
<1>6. Standing' = <<>> /\ StandingChain' = <<>>
  BY <1>1, <1>5 DEF Standing, StandingChain, Underway, NoChain
<1>7. Built(<<>>, <<>>, scope')
  BY DEF Built
<1>8. Sound(scope', sleeping', <<>>, <<>>)
  BY <1>3, <1>4, <1>7 DEF Sound
<1> QED
  BY <1>6, <1>8 DEF ScopesInv

\* A chain that was put up is woken.
LEMMA SoundAfterWaking ==
  ASSUME BaseInv, Alone, ScopesInv, InHand, Next, Wake
  PROVE  ScopesInv'
<1>1. /\ ~Idle /\ Running.at \in {"waking", "woken"} /\ UNCHANGED <<active, sleeping>>
      /\ Running.scopes = active.scopes
  BY DEF Wake, Waking, InHand
<1>2. PICK at \in {"waking", "woken"} : GoneOn(at, Running.ok, Running.scopes)
  BY Moves
<1>3. /\ Standing = active.scopes /\ StandingChain = active.chain
      /\ Standing' = active.scopes /\ StandingChain' = active.chain
  BY <1>1, <1>2 DEF Standing, StandingChain, Underway, GoneOn
<1>4. Sound(scope, sleeping, active.scopes, active.chain)
  BY <1>3 DEF ScopesInv
<1>5. PICK i \in ToWake :
        LET s == Running.scopes[i]
        IN  IF s \in DOMAIN scope THEN scope' = [scope EXCEPT ![s].awake = TRUE] ELSE UNCHANGED scope
  BY DEF Wake
<1> DEFINE s == Running.scopes[i]
<1>6. s \in ToSet(active.scopes)
  BY <1>1 DEF ToWake, ToSet
<1> HIDE DEF s
<1>7. CASE s \notin DOMAIN scope
  BY <1>1, <1>3, <1>4, <1>5, <1>7 DEF ScopesInv, s
<1>8. CASE s \in DOMAIN scope
  <2>1. scope' = Woken(s)
    BY <1>5, <1>8 DEF s, Woken
  <2>2. /\ DOMAIN scope' = DOMAIN scope
        /\ \A t \in DOMAIN scope :
             /\ scope'[t].line = scope[t].line /\ scope'[t].made = scope[t].made
             /\ scope'[t].states = scope[t].states
             /\ t # s => scope'[t] = scope[t]
    BY <1>8, <2>1, WokenScope DEF BaseInv, Types
  <2>3. active.scopes \in Seq(ScopeId)
    BY DEF BaseInv, Types, ChainTypes, StoodType
  <2>4. Sound(scope', sleeping, active.scopes, active.chain)
    BY <1>4, <1>6, <2>2, <2>3, SoundAwake
  <2> QED
    BY <1>1, <1>3, <2>4 DEF ScopesInv
<1> QED
  BY <1>7, <1>8

\* With the chain, everything that was kept of others goes.
LEMMA SoundAfterDeactivate ==
  ASSUME BaseInv, Alone, ScopesInv, InHand, Next, Deactivate
  PROVE  ScopesInv'
<1> DEFINE X == {sleeping[k].scope : k \in DOMAIN sleeping} \cup ToSet(active.scopes)
<1>1. Idle /\ active' = NoChain /\ Idle' /\ DOMAIN sleeping' = {} /\ DOMAIN scope' = DOMAIN scope \ Under(X)
  BY RemovedScopes DEF Deactivate, Idle
<1>2. NoneLost(sleeping, active.scopes, scope)
  BY <1>1 DEF ScopesInv, Standing, Underway, Sound
<1>3. DOMAIN scope' = {}
  BY <1>1, <1>2 DEF NoneLost, Under
<1>4. Standing' = <<>> /\ StandingChain' = <<>>
  BY <1>1 DEF Standing, StandingChain, Underway, NoChain
<1>5. Sound(scope', sleeping', <<>>, <<>>)
  BY <1>1, <1>3 DEF Sound, Lines, Built, Asleep, NoneLost, Home
<1> QED
  BY <1>4, <1>5 DEF ScopesInv

LEMMA ScopesInvKept ==
  ASSUME CalmInv, ScopesInv, InHand, CacheHome, Next, Steady
  PROVE  ScopesInv'
<1>1. BaseInv /\ Alone /\ Types
  BY DEF CalmInv, BaseInv
<1>2. CASE ScopesStay /\ UNCHANGED <<scope, sleeping>>
  BY <1>2, StandingStays DEF ScopesInv
<1> QED
  BY <1>1, <1>2, ScopeSteps, SoundAfterLeaving, SoundAfterTaking, SoundAfterInstall, SoundAfterRollback,
     SoundAfterGivingUp, SoundAfterWaking, SoundAfterDeactivate

\* A step leaves nothing under way, or begins or goes on with the only call.
GoesOnStep ==
  \/ EnterAllowed \/ (LeaveAllowed /\ ~HoldsBack) \/ Take \/ Snapshot \/ LeaveChain \/ TakeSleeper \/ Install
  \/ Rollback \/ Stand \/ Wake \/ (Arrive /\ UNCHANGED calls)
Begins == Idle /\ \E n \in Call : \E at \in {"enter", "commit"} : stack' = <<Frame(n, at)>>
LEMMA HowItGoes ==
  ASSUME BaseInv, Alone, Steady, Next
  PROVE  \/ GoesOnStep
         \/ StepsBack /\ ~Idle /\ Idle' /\ UNCHANGED active
         \/ Deactivate /\ Idle /\ Idle'
         \/ (Navigates \/ (\E n \in asking, allowed \in BOOLEAN : Answer(n, allowed)) \/ BeginFrame \/ EndFrame)
            /\ UNCHANGED active /\ Idle /\ (Idle' \/ Begins)
<1>1. Types
  BY DEF BaseInv
<1>2. CASE StepsBack
  <2>1. ~Idle /\ Returns
    BY <1>2, StepsGoBack
  <2>2. Idle'
    BY <1>1, <2>1, TheOnly DEF Alone, Types
  <2>3. UNCHANGED active
    BY <1>2 DEF StepsBack, LeaveAllowed, Block, Ask, GiveUp, FallBack, Tell, Arrive, chainVars
  <2> QED
    BY <1>2, <2>1, <2>2, <2>3
<1>3. CASE Deactivate
  BY <1>3 DEF Deactivate, Idle
<1>4. CASE Navigates
  <2>1. PICK step \in {"start", "to", "back", "forward"}, r \in Route, h \in Histories : NavigateThen(step, r, h)
    BY <1>4 DEF Navigates
  <2>2. Idle /\ stack = <<>>
    BY <1>4, CalledFromIdle DEF Steady, Idle
  <2>3. stack' = <<Frame(generation + 1, "enter")>> /\ UNCHANGED active
    BY <2>1, <2>2 DEF NavigateThen, chainVars
  <2>4. generation + 1 \in Call
    BY <1>1, <2>1, NavigatesTo, RouterAssumption DEF Call, Activation
  <2> QED
    BY <1>4, <2>2, <2>3, <2>4 DEF Begins
<1>5. CASE \E n \in asking, allowed \in BOOLEAN : Answer(n, allowed)
  <2>1. PICK n \in asking, allowed \in BOOLEAN : Answer(n, allowed)
    BY <1>5
  <2>2. Idle /\ stack = <<>> /\ UNCHANGED active
    BY <2>1, CalledFromIdle DEF Steady, Idle, Answer, chainVars
  <2>3. stack' = stack \/ (stack' = Append(stack, Frame(pending, "commit")) /\ pending # NoCall)
    BY <2>1 DEF Answer
  <2>4. stack' = <<>> \/ (stack' = <<Frame(pending, "commit")>> /\ pending \in Call)
    BY <2>2, <2>3 DEF BaseInv, Apart, Types, CallTypes, Partial
  <2> QED
    BY <1>5, <2>2, <2>4 DEF Begins, Idle
<1>6. CASE EndFrame \/ BeginFrame
  <2>1. Idle /\ UNCHANGED active /\ (stack' = stack \/ (stack' = <<Frame(held, "commit")>> /\ held # NoCall))
    BY <1>6 DEF EndFrame, BeginFrame, chainVars
  <2>2. held # NoCall => held \in Call
    BY DEF BaseInv, Apart, Types, CallTypes, Partial
  <2> QED
    BY <1>6, <2>1, <2>2 DEF Begins, Idle
<1>7. ~\E r \in Route : Activate(r)
  BY DEF Activate, Steady
<1> QED
  BY <1>1, <1>2, <1>3, <1>4, <1>5, <1>6, <1>7, Steps, ArriveEither DEF GoesOnStep, StepsBack

LEMMA JustBegun ==
  ASSUME Begins
  PROVE  /\ ~Idle' /\ Running'.at \in {"enter", "commit"} /\ Running'.scopes = <<>>
<1>1. PICK n \in Call : \E at \in {"enter", "commit"} : stack' = <<Frame(n, at)>>
  BY DEF Begins
<1>2. PICK at \in {"enter", "commit"} : stack' = <<Frame(n, at)>>
  BY <1>1
<1>3. ~Idle' /\ Running' = Frame(n, at)
  BY <1>2 DEF Idle, Running, Last
<1>4. Running'.at = at /\ Running'.scopes = <<>>
  BY <1>3 DEF Frame
<1> QED
  BY <1>3, <1>4

LEMMA NoneActivated ==
  ASSUME BaseInv, Steady, Next, Activation \notin DOMAIN calls
  PROVE  Activation \notin DOMAIN calls'
<1>1. CASE Navigates
  <2>1. PICK step \in {"start", "to", "back", "forward"}, r \in Route, h \in Histories : NavigateThen(step, r, h)
    BY <1>1 DEF Navigates
  <2>2. DOMAIN calls' = (DOMAIN calls \ {pending}) \cup {generation + 1} /\ generation + 1 \in 1..MaxNavigations
    BY <2>1, NavigatesTo DEF BaseInv
  <2> QED
    BY <2>2, RouterAssumption DEF Activation
<1>2. ~\E r \in Route : Activate(r)
  BY DEF Activate, Steady
<1> QED
  BY <1>1, <1>2, CallsStay

\* A navigation that goes on goes on for the same route.
LEMMA FloorKept ==
  ASSUME BaseInv, Alone, Next, Snapshot \/ LeaveChain \/ TakeSleeper \/ Install \/ Rollback
  PROVE  /\ Running.at \in {"leaving", "building"} /\ UNCHANGED active /\ ~Idle /\ ~Idle'
         /\ Running'.at \in {"leaving", "building"} /\ Running'.nav = Running.nav
         /\ Running'.old = Running.old /\ Running'.floor = Running.floor
         /\ calls'[Running'.nav].route = calls[Running.nav].route
<1>1. GoneOn(Running'.at, Running'.ok, Running'.scopes) /\ Running'.at \in {"leaving", "building"}
  BY Moves DEF GoneOn
<1>2. StillFrom /\ UNCHANGED active /\ Running.at \in {"leaving", "building"}
  BY Moves DEF Snapshot, LeaveChain, TakeSleeper, Install, Rollback, Building
<1>3. calls'[Running'.nav].route = calls[Running.nav].route
  BY <1>1, SameCall
<1> QED
  BY <1>1, <1>2, <1>3 DEF GoneOn, StillFrom

LEMMA InHandKept ==
  ASSUME BaseInv, Alone, InHand, Sharing, Next, Steady
  PROVE  InHand'
<1>1. Activation \notin DOMAIN calls'
  BY NoneActivated DEF InHand
<1>2. ASSUME Idle' PROVE InHand'
  BY <1>1, <1>2 DEF InHand, Underway
<1>3. ASSUME Begins PROVE InHand'
  BY <1>1, <1>3, JustBegun DEF InHand, Underway
<1>4. CASE EnterAllowed \/ (LeaveAllowed /\ ~HoldsBack)
  <2>1. PICK at \in {"leave", "commit"} : GoneOn(at, Running.ok, Running.scopes)
    BY <1>4, Moves
  <2>2. Running.at \in {"enter", "leave"}
    BY <1>4 DEF EnterAllowed, LeaveAllowed
  <2> QED
    BY <1>1, <2>1, <2>2 DEF InHand, Underway, GoneOn
<1>5. CASE Take
  <2>1. /\ GoneOn("leaving", Running.ok, active.scopes) /\ Running'.old = active
        /\ Running'.floor = Least(Shared(Running.nav), Len(active.scopes))
    BY <1>5, Moves
  <2>2. ~Idle /\ Running.at = "commit" /\ active' = NoChain
    BY <1>5 DEF Take
  <2>3. Running.nav \in DOMAIN calls /\ Shared(Running.nav) \in Nat
    BY <2>2, TheCall
  <2>4. Running.nav # Activation /\ Shared(Running.nav) = calls[Running.nav].shared
    BY <2>3 DEF InHand, Shared
  <2>5. /\ Len(active.scopes) \in Nat /\ Len(active.chain) = Len(active.scopes)
        /\ DOMAIN active.chain = 1..Len(active.chain)
    <3>1. active.scopes \in Seq(ScopeId) /\ active.chain \in Chains
      BY DEF BaseInv, Types, ChainTypes, StoodType
    <3> QED
      BY <3>1, ChainsAreSequences DEF BaseInv, Shapes
  <2>6. /\ Running'.floor \in Nat /\ Running'.floor <= calls[Running.nav].shared
        /\ Running'.floor <= Len(active.chain)
    BY <2>1, <2>3, <2>4, <2>5, Floors
  <2>7. \A i \in 1..calls[Running.nav].shared :
          i \in DOMAIN active.chain => active.chain[i] = Chain[calls[Running.nav].route][i]
    BY <2>2, <2>3 DEF Sharing
  <2>8. \A i \in 1..Running'.floor : i \in 1..calls[Running.nav].shared /\ i \in DOMAIN active.chain
    BY <2>3, <2>4, <2>5, <2>6
  <2>9. calls'[Running'.nav].route = calls[Running.nav].route
    BY <2>1, SameCall
  <2>10. \A i \in 1..Running'.floor : Running'.old.chain[i] = Chain[calls'[Running'.nav].route][i]
    BY <2>1, <2>7, <2>8, <2>9
  <2>11. Running'.at = "leaving"
    BY <2>1 DEF GoneOn
  <2> QED
    BY <1>1, <2>2, <2>10, <2>11 DEF InHand
<1>6. CASE Snapshot \/ LeaveChain \/ TakeSleeper \/ Install \/ Rollback
  <2>1. /\ Running.at \in {"leaving", "building"} /\ UNCHANGED active /\ ~Idle /\ ~Idle'
        /\ Running'.at \in {"leaving", "building"}
        /\ Running'.old = Running.old /\ Running'.floor = Running.floor
        /\ calls'[Running'.nav].route = calls[Running.nav].route
    BY <1>6, FloorKept
  <2>2. active = NoChain /\ \A i \in 1..Running.floor : Running.old.chain[i] = Chain[calls[Running.nav].route][i]
    BY <2>1 DEF InHand, Underway
  <2>3. \A i \in 1..Running'.floor : Running'.old.chain[i] = Chain[calls'[Running'.nav].route][i]
    BY <2>1, <2>2
  <2>4. active' = NoChain
    BY <2>1, <2>2
  <2> QED
    BY <1>1, <2>1, <2>3, <2>4 DEF InHand
<1>7. CASE Stand
  <2>1. GoneOn("waking", Running.ok, Running.scopes) /\ active'.scopes = Running.scopes
    BY <1>7, Moves DEF Stand
  <2> QED
    BY <1>1, <2>1 DEF InHand, Underway, GoneOn
<1>8. CASE Wake \/ (Arrive /\ UNCHANGED calls)
  <2>1. PICK at \in {"waking", "woken", "telling"} : GoneOn(at, Running.ok, Running.scopes)
    <3>1. CASE Wake
      BY <3>1, Moves
    <3>2. CASE Arrive /\ UNCHANGED calls
      BY <3>2, Moves
    <3> QED
      BY <1>8, <3>1, <3>2
  <2>2. Running.at \in {"waking", "woken"} /\ UNCHANGED active
    <3>1. CASE Wake
      BY <3>1 DEF Wake, Waking
    <3>2. CASE Arrive
      BY <3>2 DEF Arrive, Waking, chainVars
    <3> QED
      BY <1>8, <3>1, <3>2
  <2> QED
    BY <1>1, <2>1, <2>2 DEF InHand, Underway, GoneOn
<1> QED
  BY <1>2, <1>3, <1>4, <1>5, <1>6, <1>7, <1>8, HowItGoes DEF GoesOnStep

\* What is settled past its guards leaves no navigation behind.
LEMMA NoneLeft ==
  ASSUME BaseInv, QuestionInv, Alone, InHand, Next,
         GiveUp \/ FallBack \/ Tell \/ (Arrive /\ calls' = Without(calls, {Running.nav}))
  PROVE  DOMAIN calls' = {}
<1>1. ~Idle /\ Running.at \in {"building", "waking", "woken", "telling"}
  BY DEF GiveUp, FallBack, Tell, Arrive, Waking, Building
<1>2. Running.nav \in DOMAIN calls
  BY <1>1, TheCall
<1>3. Running.nav # Activation
  BY <1>2 DEF InHand
<1>4. DOMAIN calls = {Running.nav}
  BY <1>1, <1>3, TheOnlyCall
<1>5. calls' = Without(calls, {Running.nav})
  BY DEF GiveUp, FallBack, Tell, Arrive, SettleRefused
<1>6. DOMAIN calls' = DOMAIN calls \ {Running.nav}
  BY <1>5, FewerCalls DEF BaseInv, Types
<1> QED
  BY <1>4, <1>6

LEMMA SharingKept ==
  ASSUME BaseInv, QuestionInv, Alone, InHand, Sharing, Next, Steady
  PROVE  Sharing'
<1>1. ~\E r \in Route : Activate(r)
  BY DEF Activate, Steady
<1>2. ASSUME UNCHANGED active, Idle \/ Running.at \in {"enter", "leave", "commit"}, ~Navigates PROVE Sharing'
  <2>1. DOMAIN calls' \subseteq DOMAIN calls
    BY <1>1, <1>2, CallsStay
  <2>2. \A n \in DOMAIN calls' : calls'[n].route = calls[n].route /\ calls'[n].shared = calls[n].shared
    BY <1>1, <2>1, CallsKept
  <2>3. \A n \in DOMAIN calls : \A i \in 1..calls[n].shared :
          i \in DOMAIN active.chain => active.chain[i] = Chain[calls[n].route][i]
    BY <1>2 DEF Sharing
  <2>4. \A n \in DOMAIN calls' : \A i \in 1..calls'[n].shared :
          i \in DOMAIN active'.chain => active'.chain[i] = Chain[calls'[n].route][i]
    BY <1>2, <2>1, <2>2, <2>3
  <2> QED
    BY <2>4 DEF Sharing
<1>3. CASE Navigates
  <2>1. PICK step \in {"start", "to", "back", "forward"}, r \in Route, h \in Histories : NavigateThen(step, r, h)
    BY <1>3 DEF Navigates
  <2>2. Idle /\ UNCHANGED active
    BY <1>3, <2>1, CalledFromIdle DEF Steady, NavigateThen, chainVars
  <2>3. /\ DOMAIN calls' = (DOMAIN calls \ {pending}) \cup {generation + 1}
        /\ calls'[generation + 1] = NewCall(step, r)
        /\ \A n \in DOMAIN calls \ {pending} : n # generation + 1 => calls'[n] = calls[n]
    BY <2>1, NavigatesTo DEF BaseInv
  <2>4. calls'[generation + 1].route = r /\ calls'[generation + 1].shared = SharedLen(Chain[r])
    BY <2>3 DEF NewCall
  <2>5. \A i \in 1..SharedLen(Chain[r]) : active.chain[i] = Chain[r][i]
    BY SharedIsCommon DEF BaseInv, Types, Chains
  <2>6. \A n \in DOMAIN calls : \A i \in 1..calls[n].shared :
          i \in DOMAIN active.chain => active.chain[i] = Chain[calls[n].route][i]
    BY <2>2 DEF Sharing
  <2>7. ASSUME NEW n \in DOMAIN calls', NEW i \in 1..calls'[n].shared, i \in DOMAIN active'.chain
        PROVE  active'.chain[i] = Chain[calls'[n].route][i]
    <3>1. CASE n = generation + 1
      BY <2>2, <2>4, <2>5, <2>7, <3>1
    <3>2. CASE n # generation + 1
      <4>1. n \in DOMAIN calls /\ calls'[n] = calls[n]
        BY <2>3, <3>2
      <4> QED
        BY <2>2, <2>6, <2>7, <4>1
    <3> QED
      BY <3>1, <3>2
  <2> QED
    BY <2>7 DEF Sharing
<1>4. CASE GiveUp \/ FallBack \/ Tell \/ (Arrive /\ calls' = Without(calls, {Running.nav}))
  BY <1>4, NoneLeft DEF Sharing
<1>5. CASE (LeaveAllowed /\ HoldsBack) \/ Block \/ Ask \/ EnterAllowed \/ (LeaveAllowed /\ ~HoldsBack)
  <2>1. Running.at \in {"enter", "leave"} /\ UNCHANGED active
    BY <1>5 DEF LeaveAllowed, Block, Ask, EnterAllowed, Refusers, chainVars
  <2> QED
    BY <1>2, <1>3, <2>1
<1>6. CASE Take \/ Snapshot \/ LeaveChain \/ TakeSleeper \/ Install \/ Rollback \/ Stand \/ Wake \/ (Arrive /\ UNCHANGED calls)
  <2>1. GoneOn(Running'.at, Running'.ok, Running'.scopes) /\ Running'.at \in {"leaving", "building", "waking", "woken", "telling"}
    BY <1>6, Moves DEF GoneOn
  <2> QED
    BY <2>1 DEF Sharing, GoneOn
<1>7. CASE Deactivate
  <2>1. DOMAIN active'.chain = {}
    BY <1>7 DEF Deactivate, NoChain
  <2> QED
    BY <2>1 DEF Sharing
<1>8. CASE (\E n \in asking, allowed \in BOOLEAN : Answer(n, allowed)) \/ BeginFrame \/ EndFrame
  <2>1. Idle
    BY <1>8, CalledFromIdle DEF Steady, BeginFrame, EndFrame
  <2>2. UNCHANGED active
    BY <1>8 DEF Answer, BeginFrame, EndFrame, chainVars
  <2> QED
    BY <1>2, <1>3, <2>1, <2>2
<1> QED
  BY <1>1, <1>3, <1>4, <1>5, <1>6, <1>7, <1>8, Steps, ArriveEither DEF BaseInv

LEMMA CacheHomeKept ==
  ASSUME BaseInv, ScopesInv, CacheHome, Next
  PROVE  CacheHome'
<1>1. CacheTypes
  BY DEF BaseInv, Types
<1>2. CASE UNCHANGED cache
  BY <1>2 DEF CacheHome
<1>3. CASE cache' = CacheTake(NextPlace)
  <2>1. \A j \in DOMAIN cache' : \E k \in DOMAIN cache : cache'[j] = cache[k]
    BY <1>1, <1>3, Taken
  <2> QED
    BY <2>1 DEF CacheHome
<1>4. CASE /\ Snapshot
           /\ Running.next \in DOMAIN Running.scopes /\ Running.scopes[Running.next] \in DOMAIN scope
           /\ cache' = CacheInsert([place |-> Place(Running.old.chain, Running.next),
                                    param |-> Running.old.chain[Running.next].param,
                                    from |-> scope[Running.scopes[Running.next]].made])
  <2> DEFINE i == Running.next
             e == [place |-> Place(Running.old.chain, i), param |-> Running.old.chain[i].param,
                   from |-> scope[Running.scopes[i]].made]
  <2>1. e \in EntryType
    BY <1>4, Snapshots
  <2>2. Built(Running.scopes, Running.old.chain, scope)
    BY <1>4 DEF Snapshot, ScopesInv, Standing, StandingChain, Underway, Sound
  <2>3. scope[Running.scopes[i]].made = Segment(Running.old.chain, i)
    BY <1>4, <2>2 DEF Built
  <2>4. e.from = [place |-> e.place, param |-> e.param]
    BY <2>3 DEF Segment
  <2>5. cache' = CacheInsert(e)
    BY <1>4
  <2> HIDE DEF e
  <2>6. \A j \in DOMAIN cache' : cache'[j] = e \/ \E k \in DOMAIN cache : cache'[j] = cache[k]
    BY <1>1, <2>1, <2>5, Inserted
  <2> QED
    BY <2>4, <2>6 DEF CacheHome
<1> QED
  BY <1>2, <1>3, <1>4, CacheSteps

LEMMA SteadyBegins ==
  ASSUME Init
  PROVE  SteadyInv
<1>1. /\ active = NoChain /\ scope = <<>> /\ sleeping = <<>> /\ cache = <<>> /\ calls = <<>> /\ Idle
  BY DEF Init, Idle
<1>2. Standing = <<>> /\ StandingChain = <<>> /\ ~Underway
  BY <1>1 DEF Standing, StandingChain, Underway, NoChain
<1>3. ScopesInv
  BY <1>1, <1>2 DEF ScopesInv, Sound, Lines, Built, Asleep, NoneLost, Home
<1>4. InHand /\ Sharing /\ CacheHome
  BY <1>1, <1>2 DEF InHand, Sharing, CacheHome
<1> QED
  BY <1>3, <1>4, CalmBegins DEF SteadyInv

LEMMA SteadyInductive ==
  ASSUME SteadyInv, [Next]_vars, Steady
  PROVE  SteadyInv'
<1>1. CalmInv /\ BaseInv /\ QuestionInv /\ Alone /\ ScopesInv /\ InHand /\ Sharing /\ CacheHome
  BY DEF SteadyInv, CalmInv
<1>2. CalmInv'
  BY <1>1, CalmInductive DEF Steady
<1>3. CASE Next
  BY <1>1, <1>2, <1>3, ScopesInvKept, InHandKept, SharingKept, CacheHomeKept DEF SteadyInv
<1>4. CASE UNCHANGED vars
  BY <1>1, <1>2, <1>4 DEF vars, SteadyInv, ScopesInv, Standing, StandingChain, Underway, Target, InHand, Sharing,
     CacheHome, Idle, Running
<1> QED
  BY <1>3, <1>4

\* What is proved of the scopes is what a run checks of them.
LEMMA AllAccountedFor ==
  ASSUME SteadyInv
  PROVE  ScopesAccountedFor
<1>1. /\ BaseInv /\ Types /\ Lines(scope) /\ Built(Standing, StandingChain, scope)
      /\ Asleep(sleeping, Standing, scope) /\ NoneLost(sleeping, Standing, scope) /\ Home(scope)
      /\ InHand
  BY DEF SteadyInv, CalmInv, BaseInv, ScopesInv, Sound
<1>2. NoScopeLeaks
  <2>1. Standing = active.scopes \/ (~Idle /\ Standing = Running.scopes)
    BY DEF Standing, Underway
  <2>2. ~Idle => \E f \in DOMAIN stack : Running = stack[f]
    BY <1>1, TheRunning DEF Types
  <2> QED
    BY <1>1, <2>1, <2>2 DEF NoneLost, NoScopeLeaks
<1>3. SegmentsInTheirScopes
  <2>1. SUFFICES ASSUME active # NoChain PROVE SegmentsInTheirScopes
    BY DEF SegmentsInTheirScopes
  <2>2. ~Underway
    BY <1>1, <2>1 DEF InHand
  <2>3. Built(active.scopes, active.chain, scope)
    BY <1>1, <2>2 DEF Standing, StandingChain
  <2>4. Len(active.scopes) = Len(active.chain) /\ DOMAIN active.scopes = DOMAIN active.chain
    <3>1. active.scopes \in Seq(ScopeId) /\ active.chain \in Chains
      BY <1>1 DEF Types, ChainTypes, StoodType
    <3> QED
      BY <1>1, <3>1, ChainsAreSequences DEF BaseInv, Shapes
  <2> QED
    BY <2>3, <2>4 DEF SegmentsInTheirScopes, Built
<1>4. SleepersCanWake
  <2>1. SUFFICES ASSUME NEW k \in DOMAIN sleeping
                 PROVE  /\ sleeping[k].scope \in DOMAIN scope
                        /\ scope[sleeping[k].scope].made = [place |-> k, param |-> sleeping[k].param]
                        /\ ~scope[sleeping[k].scope].awake
                        /\ ToSet(scope[sleeping[k].scope].line) \subseteq DOMAIN scope
    BY DEF SleepersCanWake
  <2>2. /\ sleeping[k].scope \in DOMAIN scope
        /\ scope[sleeping[k].scope].made = [place |-> k, param |-> sleeping[k].param]
        /\ ~scope[sleeping[k].scope].awake
    BY <1>1 DEF Asleep
  <2>3. \A i \in DOMAIN scope[sleeping[k].scope].line : scope[sleeping[k].scope].line[i] \in DOMAIN scope
    BY <1>1, <2>2 DEF Lines
  <2> QED
    BY <2>2, <2>3 DEF ToSet
<1>5. StatesComeHome
  BY <1>1 DEF Home, StatesComeHome
<1> QED
  BY <1>2, <1>3, <1>4, <1>5 DEF ScopesAccountedFor

\* For every program whose guards, wake hooks and route hooks do not navigate
\* and ask nothing during a frame, and that always has a route tree, however
\* its installs fail: every scope is where the router says it is, and every
\* segment in one of its own (router.rs:1286-1389, 1399-1435, 1524-1574).
THEOREM ScopesAreAccountedFor == Steady => (Spec => []ScopesAccountedFor)
<1>1. SUFFICES ASSUME Steady PROVE Spec => []ScopesAccountedFor
  OBVIOUS
<1>2. Init => SteadyInv
  BY SteadyBegins
<1>3. SteadyInv /\ [Next]_vars => SteadyInv'
  BY <1>1, SteadyInductive
<1>4. SteadyInv => ScopesAccountedFor
  BY AllAccountedFor
<1> QED
  BY <1>2, <1>3, <1>4, PTL DEF Spec

(***************************************************************************)
(* Nothing goes that was not asked                                         *)
(***************************************************************************)
\* The leave guards of the scopes of c that a navigation does not keep are
\* among those it asked.
WasAsked(c, scopes, shared, asked) ==
  \A i \in DOMAIN scopes : i > KeptUntil(c, shared) /\ c[i].seg \in LeaveGuarded => scopes[i] \in asked
AskedInv ==
  /\ Idle \/ Running.at \in {"enter", "leave", "commit"} =>
       \A n \in DOMAIN calls :
         Idle \/ Running.at # "enter" \/ n # Running.nav
           => WasAsked(active.chain, active.scopes, calls[n].shared, calls[n].asked)
  /\ ~Idle /\ Running.at = "leave" => calls[Running.nav].asked \subseteq ToSet(active.scopes)
  /\ ~Idle /\ Running.at = "leaving" =>
       /\ WasAsked(Running.old.chain, Running.old.scopes, calls[Running.nav].shared, calls[Running.nav].asked)
       /\ Running.floor = Least(calls[Running.nav].shared, Len(Running.old.scopes))
       /\ Running.scopes = Running.old.scopes

\* A guard that asks is the only leave guard of its chain: those further out
\* are not heard.
AskedAlone ==
  /\ "enterAsk" \notin Habit
  /\ "leaveAsk" \in Habit =>
       \A r \in Route : \A i, j \in DOMAIN Chain[r] :
         Chain[r][i].seg \in LeaveGuarded /\ Chain[r][j].seg \in LeaveGuarded => i = j

\* The segment a standing scope was installed for ends with its type.
LEMMA MadeFor ==
  ASSUME NEW c \in Chains, NEW sc, NEW S, Built(sc, c, S), NEW i \in DOMAIN sc, i \in DOMAIN c
  PROVE  Last(S[sc[i]].made.place) = c[i].seg
<1>1. S[sc[i]].made = Segment(c, i)
  BY DEF Built
<1>2. i \in Nat \ {0} /\ S[sc[i]].made.place = Place(c, i)
  BY <1>1, ChainsAreSequences, SegmentsOf
<1>3. Len(Place(c, i)) = i
  BY <1>2, PlaceOf
<1>4. Place(c, i)[i] = c[i].seg
  BY <1>2 DEF Place
<1> QED
  BY <1>2, <1>3, <1>4 DEF Last

\* A leave guard that asks stands, and nothing else that is guarded does.
LEMMA WhoAsks ==
  ASSUME SteadyInv, AskedInv, AskedAlone, Ask
  PROVE  /\ Running.at = "leave" /\ ~Idle
         /\ \E s \in DOMAIN scope :
              /\ calls' = Asking(Running.nav, calls[Running.nav].asked \cap Under({s}))
              /\ \A i \in DOMAIN active.scopes : active.chain[i].seg \in LeaveGuarded => active.scopes[i] = s
<1>1. BaseInv /\ Types /\ InHand /\ ScopesInv
  BY DEF SteadyInv, CalmInv, BaseInv
<1>2. ~Idle /\ Running.at \in {"enter", "leave"} /\ Refusers(Running) # {}
  BY DEF Ask, Refusers
<1>3. Running.at # "enter"
  BY <1>2 DEF Ask, AskedAlone
<1>4. Running.at = "leave" /\ "leaveAsk" \in Habit
  BY <1>2, <1>3 DEF Ask
<1>5. PICK s \in Refusers(Running) :
        calls' = Asking(Running.nav, calls[Running.nav].asked \cap Under({s}))
  BY <1>4 DEF Ask, Asking
<1>6. /\ s \in calls[Running.nav].asked /\ s \in DOMAIN scope /\ Last(scope[s].made.place) \in LeaveGuarded
  BY <1>4, <1>5 DEF Refusers
<1>7. PICK j \in DOMAIN active.scopes : s = active.scopes[j]
  BY <1>2, <1>4, <1>6 DEF AskedInv, ToSet
<1>8. active.chain \in Chains /\ DOMAIN active.scopes = DOMAIN active.chain
  <2>1. active.scopes \in Seq(ScopeId) /\ active.chain \in Chains
    BY <1>1 DEF Types, ChainTypes, StoodType
  <2> QED
    BY <1>1, <2>1, ChainsAreSequences DEF BaseInv, Shapes
<1>9. Built(active.scopes, active.chain, scope)
  BY <1>1, <1>4 DEF ScopesInv, Standing, StandingChain, Underway, Sound
<1>10. active.chain[j].seg \in LeaveGuarded
  BY <1>6, <1>7, <1>8, <1>9, MadeFor
<1>11. \A i \in DOMAIN active.scopes : active.chain[i].seg \in LeaveGuarded => i = j
  <2>1. active.chain # <<>>
    BY <1>7, <1>8
  <2>2. PICK r \in Route : active.chain = Chain[r]
    BY <1>8, <2>1 DEF Chains
  <2> QED
    BY <1>4, <1>7, <1>8, <1>10, <2>2 DEF AskedAlone
<1> QED
  BY <1>2, <1>4, <1>5, <1>6, <1>7, <1>11

LEMMA AskedInvKept ==
  ASSUME SteadyInv, AskedInv, Next, Steady, AskedAlone
  PROVE  AskedInv'
<1>1. BaseInv /\ Types /\ CallTypes /\ Alone /\ InHand /\ QuestionInv
  BY DEF SteadyInv, CalmInv, BaseInv, Types
<1>2. ~\E r \in Route : Activate(r)
  BY DEF Activate, Steady
<1>3. ASSUME UNCHANGED active, Idle \/ Running.at \in {"leave", "commit"}, DOMAIN calls' \subseteq DOMAIN calls,
             \A n \in DOMAIN calls' : calls'[n].shared = calls[n].shared /\ calls'[n].asked = calls[n].asked
      PROVE  \A n \in DOMAIN calls' : WasAsked(active'.chain, active'.scopes, calls'[n].shared, calls'[n].asked)
  <2>1. \A n \in DOMAIN calls : WasAsked(active.chain, active.scopes, calls[n].shared, calls[n].asked)
    BY <1>3 DEF AskedInv
  <2> QED
    BY <1>3, <2>1
<1>4. ASSUME NEW X, calls' = calls \/ calls' = Without(calls, X)
      PROVE  /\ DOMAIN calls' \subseteq DOMAIN calls
             /\ \A n \in DOMAIN calls' : calls'[n].shared = calls[n].shared /\ calls'[n].asked = calls[n].asked
  <2>1. CASE calls' = calls
    BY <2>1
  <2>2. CASE calls' = Without(calls, X)
    <3>1. /\ DOMAIN calls' = DOMAIN calls \ X
          /\ \A n \in DOMAIN calls \ X : calls'[n] = calls[n]
      BY <1>1, <2>2, FewerCalls
    <3> QED
      BY <3>1
  <2> QED
    BY <1>4, <2>1, <2>2
<1>5. CASE EnterAllowed
  <2>1. ~Idle /\ Running.at = "enter" /\ UNCHANGED active
        /\ calls' = Asking(Running.nav, LeavingScopes(Running.nav))
    BY <1>5 DEF EnterAllowed, Asking, chainVars
  <2>2. GoneOn("leave", Running.ok, Running.scopes)
    BY <1>1, <1>5, Moves
  <2>3. Running.nav \in DOMAIN calls /\ LeavingScopes(Running.nav) \in SUBSET ScopeId
    BY <1>1, <2>1, TheCall, GoingScopes
  <2>4. /\ DOMAIN calls' = DOMAIN calls /\ calls'[Running.nav].asked = LeavingScopes(Running.nav)
        /\ calls'[Running.nav].shared = calls[Running.nav].shared
        /\ \A m \in DOMAIN calls : m # Running.nav => calls'[m] = calls[m]
    BY <1>1, <2>1, <2>3, AskingOthers
  <2>5. WasAsked(active.chain, active.scopes, calls[Running.nav].shared, LeavingScopes(Running.nav))
    BY DEF WasAsked, LeavingScopes
  <2>6. \A n \in DOMAIN calls : n # Running.nav =>
          WasAsked(active.chain, active.scopes, calls[n].shared, calls[n].asked)
    BY <2>1 DEF AskedInv
  <2>7. \A n \in DOMAIN calls' : WasAsked(active'.chain, active'.scopes, calls'[n].shared, calls'[n].asked)
    BY <2>1, <2>4, <2>5, <2>6
  <2>8. calls'[Running.nav].asked \subseteq ToSet(active.scopes)
    BY <2>4 DEF LeavingScopes, ToSet
  <2>9. Running'.at = "leave" /\ Running'.nav = Running.nav
    BY <2>2 DEF GoneOn
  <2>10. calls'[Running'.nav].asked \subseteq ToSet(active'.scopes)
    BY <2>1, <2>8, <2>9
  <2> QED
    BY <2>7, <2>9, <2>10 DEF AskedInv
<1>6. CASE LeaveAllowed
  <2>1. ~Idle /\ Running.at = "leave" /\ UNCHANGED active /\ (calls' = calls \/ calls' = Without(calls, {held}))
    BY <1>6 DEF LeaveAllowed, SettleRefused, chainVars
  <2>2. \A n \in DOMAIN calls' : WasAsked(active'.chain, active'.scopes, calls'[n].shared, calls'[n].asked)
    BY <1>3, <1>4, <2>1
  <2>3. CASE HoldsBack
    <3>1. Idle'
      BY <1>1, <1>6, <2>1, <2>3, TheOnly DEF LeaveAllowed, Alone, Types
    <3> QED
      BY <2>2, <3>1 DEF AskedInv
  <2>4. CASE ~HoldsBack
    <3>1. ~Idle' /\ Running'.at = "commit"
      BY <1>1, <1>6, <2>4, Moves DEF GoneOn
    <3> QED
      BY <2>2, <3>1 DEF AskedInv
  <2> QED
    BY <2>3, <2>4
<1>7. CASE Block
  <2>1. /\ ~Idle /\ Running.at \in {"enter", "leave"} /\ UNCHANGED active
        /\ calls' = Without(calls, {Running.nav}) /\ Returns
    BY <1>7 DEF Block, Refusers, SettleRefused, chainVars
  <2>2. /\ DOMAIN calls' = DOMAIN calls \ {Running.nav}
        /\ \A n \in DOMAIN calls \ {Running.nav} : calls'[n] = calls[n]
    BY <1>1, <2>1, FewerCalls
  <2>3. \A n \in DOMAIN calls \ {Running.nav} :
          WasAsked(active.chain, active.scopes, calls[n].shared, calls[n].asked)
    BY <2>1 DEF AskedInv
  <2>4. \A n \in DOMAIN calls' : WasAsked(active'.chain, active'.scopes, calls'[n].shared, calls'[n].asked)
    BY <2>1, <2>2, <2>3
  <2>5. Idle'
    BY <1>1, <2>1, TheOnly DEF Alone, Types
  <2> QED
    BY <2>4, <2>5 DEF AskedInv
<1>8. CASE Ask
  <2>1. ~Idle /\ Running.at = "leave" /\ UNCHANGED active /\ Returns
    BY <1>8, WhoAsks DEF Ask, chainVars
  <2>2. PICK s \in DOMAIN scope :
          /\ calls' = Asking(Running.nav, calls[Running.nav].asked \cap Under({s}))
          /\ \A i \in DOMAIN active.scopes : active.chain[i].seg \in LeaveGuarded => active.scopes[i] = s
    BY <1>8, WhoAsks
  <2>3. Running.nav \in DOMAIN calls /\ calls[Running.nav].asked \cap Under({s}) \in SUBSET ScopeId
    BY <1>1, <2>1, TheCall, TheCalls
  <2>4. /\ DOMAIN calls' = DOMAIN calls
        /\ calls'[Running.nav].asked = calls[Running.nav].asked \cap Under({s})
        /\ calls'[Running.nav].shared = calls[Running.nav].shared
        /\ \A m \in DOMAIN calls : m # Running.nav => calls'[m] = calls[m]
    <3> DEFINE S == calls[Running.nav].asked \cap Under({s})
    <3>1. S \in SUBSET ScopeId /\ calls' = Asking(Running.nav, S)
      BY <2>2, <2>3
    <3> HIDE DEF S
    <3>2. /\ DOMAIN calls' = DOMAIN calls
          /\ calls'[Running.nav].asked = S
          /\ calls'[Running.nav].shared = calls[Running.nav].shared
          /\ \A m \in DOMAIN calls : m # Running.nav => calls'[m] = calls[m]
      BY <1>1, <2>3, <3>1, AskingOthers
    <3> QED
      BY <3>2 DEF S
  <2>5. \A n \in DOMAIN calls : WasAsked(active.chain, active.scopes, calls[n].shared, calls[n].asked)
    BY <2>1 DEF AskedInv
  <2>6. s \in Under({s})
    BY DEF Under
  <2>7. WasAsked(active.chain, active.scopes, calls[Running.nav].shared, calls[Running.nav].asked \cap Under({s}))
    BY <2>2, <2>3, <2>5, <2>6 DEF WasAsked
  <2>8. \A n \in DOMAIN calls' : WasAsked(active'.chain, active'.scopes, calls'[n].shared, calls'[n].asked)
    BY <2>1, <2>4, <2>5, <2>7
  <2>9. Idle'
    BY <1>1, <2>1, TheOnly DEF Alone, Types
  <2> QED
    BY <2>8, <2>9 DEF AskedInv
<1>9. CASE Take
  <2>1. /\ GoneOn("leaving", Running.ok, active.scopes) /\ Running'.old = active
        /\ Running'.floor = Least(Shared(Running.nav), Len(active.scopes))
    BY <1>1, <1>9, Moves
  <2>2. ~Idle /\ Running.at = "commit" /\ UNCHANGED calls
    BY <1>9 DEF Take
  <2>3. Running.nav \in DOMAIN calls
    BY <1>1, <2>2, TheCall
  <2>4. Running.nav # Activation /\ Shared(Running.nav) = calls[Running.nav].shared
    BY <1>1, <2>3 DEF InHand, Shared
  <2>5. WasAsked(active.chain, active.scopes, calls[Running.nav].shared, calls[Running.nav].asked)
    BY <2>2, <2>3 DEF AskedInv
  <2>6. ~Idle' /\ Running'.at = "leaving" /\ Running'.nav = Running.nav /\ Running'.scopes = active.scopes
    BY <2>1 DEF GoneOn
  <2>7. WasAsked(Running'.old.chain, Running'.old.scopes, calls'[Running'.nav].shared, calls'[Running'.nav].asked)
    BY <2>1, <2>2, <2>5, <2>6
  <2>8. Running'.floor = Least(calls'[Running'.nav].shared, Len(Running'.old.scopes))
    BY <2>1, <2>2, <2>4, <2>6
  <2> QED
    BY <2>1, <2>6, <2>7, <2>8 DEF AskedInv
<1>10. CASE Snapshot
  <2>1. GoneOn("leaving", Running.ok, Running.scopes) /\ StillFrom
    BY <1>1, <1>10, Moves
  <2>2. ~Idle /\ Running.at = "leaving" /\ UNCHANGED calls
    BY <1>10 DEF Snapshot
  <2>3. /\ WasAsked(Running.old.chain, Running.old.scopes, calls[Running.nav].shared, calls[Running.nav].asked)
        /\ Running.floor = Least(calls[Running.nav].shared, Len(Running.old.scopes))
        /\ Running.scopes = Running.old.scopes
    BY <2>2 DEF AskedInv
  <2>4. /\ ~Idle' /\ Running'.at = "leaving" /\ Running'.nav = Running.nav /\ Running'.scopes = Running.scopes
        /\ Running'.old = Running.old /\ Running'.floor = Running.floor
    BY <2>1 DEF GoneOn, StillFrom
  <2>5. WasAsked(Running'.old.chain, Running'.old.scopes, calls'[Running'.nav].shared, calls'[Running'.nav].asked)
    BY <2>2, <2>3, <2>4
  <2>6. Running'.floor = Least(calls'[Running'.nav].shared, Len(Running'.old.scopes))
    BY <2>2, <2>3, <2>4
  <2> QED
    BY <2>3, <2>4, <2>5, <2>6 DEF AskedInv
<1>11. CASE LeaveChain \/ TakeSleeper \/ Install \/ Rollback \/ Stand \/ Wake \/ (Arrive /\ UNCHANGED calls)
  <2>1. GoneOn(Running'.at, Running'.ok, Running'.scopes) /\ Running'.at \in {"building", "waking", "woken", "telling"}
    BY <1>1, <1>11, Moves DEF GoneOn
  <2> QED
    BY <2>1 DEF AskedInv, GoneOn
<1>12. CASE GiveUp \/ FallBack \/ Tell \/ (Arrive /\ calls' = Without(calls, {Running.nav}))
  <2>1. DOMAIN calls' = {}
    BY <1>1, <1>12, NoneLeft
  <2>2. ~Idle /\ Returns
    BY <1>1, <1>12, StepsGoBack DEF StepsBack
  <2>3. Idle'
    BY <1>1, <2>2, TheOnly DEF Alone, Types
  <2> QED
    BY <2>1, <2>3 DEF AskedInv
<1>13. CASE Navigates
  <2>1. PICK step \in {"start", "to", "back", "forward"}, r \in Route, h \in Histories : NavigateThen(step, r, h)
    BY <1>13 DEF Navigates
  <2>2. Idle /\ stack = <<>> /\ UNCHANGED active
    BY <1>13, <2>1, CalledFromIdle DEF Steady, NavigateThen, chainVars, Idle
  <2>3. stack' = <<Frame(generation + 1, "enter")>>
    BY <2>1, <2>2 DEF NavigateThen
  <2>4. Running'.nav = generation + 1 /\ Running'.at = "enter"
    BY <2>3 DEF Running, Last, Frame
  <2>5. /\ DOMAIN calls' = (DOMAIN calls \ {pending}) \cup {generation + 1}
        /\ \A n \in DOMAIN calls \ {pending} : n # generation + 1 => calls'[n] = calls[n]
    BY <1>1, <2>1, NavigatesTo
  <2>6. \A n \in DOMAIN calls : WasAsked(active.chain, active.scopes, calls[n].shared, calls[n].asked)
    BY <2>2 DEF AskedInv
  <2>7. \A n \in DOMAIN calls' : n # Running'.nav =>
          WasAsked(active'.chain, active'.scopes, calls'[n].shared, calls'[n].asked)
    BY <2>2, <2>4, <2>5, <2>6
  <2>8. ~Idle'
    BY <2>3 DEF Idle
  <2> QED
    BY <2>4, <2>7, <2>8 DEF AskedInv
<1>14. CASE \E n \in asking, allowed \in BOOLEAN : Answer(n, allowed)
  <2>1. PICK n \in asking, allowed \in BOOLEAN : Answer(n, allowed)
    BY <1>14
  <2>2. Idle /\ stack = <<>> /\ UNCHANGED active
    BY <2>1, CalledFromIdle DEF Steady, Idle, Answer, chainVars
  <2>3. calls' = calls \/ calls' = Without(calls, {pending})
    BY <2>1 DEF Answer, SettleRefused
  <2>4. \A m \in DOMAIN calls' : WasAsked(active'.chain, active'.scopes, calls'[m].shared, calls'[m].asked)
    BY <1>3, <1>4, <2>2, <2>3
  <2>5. stack' = stack \/ stack' = Append(stack, Frame(pending, "commit"))
    BY <2>1 DEF Answer
  <2>6. Idle' \/ (~Idle' /\ Running'.at = "commit")
    BY <2>2, <2>5 DEF Idle, Running, Last, Frame
  <2> QED
    BY <2>4, <2>6 DEF AskedInv
<1>15. CASE BeginFrame \/ EndFrame
  <2>1. /\ Idle /\ UNCHANGED <<active, calls>> /\ (stack' = stack \/ stack' = <<Frame(held, "commit")>>)
    BY <1>15 DEF EndFrame, BeginFrame, chainVars
  <2>2. \A m \in DOMAIN calls' : WasAsked(active'.chain, active'.scopes, calls'[m].shared, calls'[m].asked)
    BY <1>3, <1>4, <2>1
  <2>3. Idle' \/ (~Idle' /\ Running'.at = "commit")
    BY <2>1 DEF Idle, Running, Last, Frame
  <2> QED
    BY <2>2, <2>3 DEF AskedInv
<1>16. CASE Deactivate
  <2>1. active'.scopes = <<>> /\ Idle'
    BY <1>16 DEF Deactivate, NoChain, Idle
  <2>2. \A n \in DOMAIN calls' : WasAsked(active'.chain, active'.scopes, calls'[n].shared, calls'[n].asked)
    BY <2>1 DEF WasAsked
  <2> QED
    BY <2>1, <2>2 DEF AskedInv
<1> QED
  BY <1>1, <1>2, <1>5, <1>6, <1>7, <1>8, <1>9, <1>10, <1>11, <1>12, <1>13, <1>14, <1>15, <1>16, Steps, ArriveEither

\* What was asked before a chain is left covers what goes with it.
LEMMA AllWereAsked ==
  ASSUME SteadyInv, AskedInv
  PROVE  EveryGuardIsAsked
<1>1. BaseInv /\ Types /\ ScopesInv /\ InHand
  BY DEF SteadyInv, CalmInv, BaseInv
<1> DEFINE c == Running.old.chain
           sc == Running.old.scopes
           sh == calls[Running.nav].shared
<1>2. SUFFICES ASSUME ~Idle, Running.at = "leaving", Running.nav # Activation, NEW i \in DOMAIN sc,
                      i > KeptUntil(c, Running.floor), sc[i] \in DOMAIN scope,
                      Last(scope[sc[i]].made.place) \in LeaveGuarded
               PROVE  sc[i] \in calls[Running.nav].asked
  BY DEF EveryGuardIsAsked
<1>3. /\ WasAsked(c, sc, sh, calls[Running.nav].asked) /\ Running.floor = Least(sh, Len(sc)) /\ Running.scopes = sc
  BY <1>2 DEF AskedInv
<1>4. /\ c \in Chains /\ sc \in Seq(ScopeId) /\ Len(sc) = Len(c) /\ sh \in Nat
  <2>1. Running \in FrameType /\ Shaped(Running, RouteLen(Running.nav)) /\ Running.nav \in DOMAIN calls
    BY <1>1, <1>2, TheCall
  <2>2. sh \in Nat
    BY <1>1, <2>1, TheCalls DEF Types
  <2> QED
    BY <2>1, <2>2 DEF Shaped, FrameType, StoodType
<1> HIDE DEF c, sc, sh
<1>5. DOMAIN sc = 1..Len(sc) /\ DOMAIN c = DOMAIN sc /\ Len(sc) \in Nat
  BY <1>4, ChainsAreSequences
<1>6. Built(sc, c, scope)
  BY <1>1, <1>2, <1>3 DEF ScopesInv, Standing, StandingChain, Underway, Sound, c, sc
<1>7. c[i].seg \in LeaveGuarded
  BY <1>2, <1>4, <1>5, <1>6, MadeFor
<1>8. CASE sh < Len(sc)
  <2>1. Running.floor = sh
    BY <1>3, <1>8 DEF Least
  <2> QED
    BY <1>2, <1>3, <1>7, <2>1 DEF WasAsked
<1>9. CASE ~(sh < Len(sc))
  <2>1. Running.floor = Len(sc)
    BY <1>3, <1>9 DEF Least
  <2>2. KeptUntil(c, Len(sc)) \in Nat /\ KeptUntil(c, Len(sc)) >= Len(sc)
    BY <1>4, <1>5, KeptIsNatural
  <2> QED
    BY <1>2, <1>5, <2>1, <2>2
<1> QED
  BY <1>8, <1>9

\* Where, besides, a guard that asks a question is the last its chain has, and
\* none stands in front of a route: a scope with a leave guard goes only in a
\* navigation that asked it (router.rs:1093-1117).
THEOREM EveryGuardWasAsked == Steady /\ AskedAlone => (Spec => []EveryGuardIsAsked)
<1>1. SUFFICES ASSUME Steady, AskedAlone PROVE Spec => []EveryGuardIsAsked
  OBVIOUS
<1>2. Init => SteadyInv /\ AskedInv
  <2>1. Init => AskedInv
    BY DEF Init, AskedInv, Idle, WasAsked, NoChain
  <2> QED
    BY <2>1, SteadyBegins
<1>3. SteadyInv /\ AskedInv /\ [Next]_vars => (SteadyInv /\ AskedInv)'
  <2>1. ASSUME SteadyInv, AskedInv, Next PROVE AskedInv'
    BY <1>1, <2>1, AskedInvKept
  <2>2. ASSUME AskedInv, UNCHANGED vars PROVE AskedInv'
    BY <2>2 DEF vars, AskedInv, Idle, Running
  <2> QED
    BY <1>1, <2>1, <2>2, SteadyInductive
<1>4. SteadyInv /\ AskedInv => EveryGuardIsAsked
  BY AllWereAsked
<1> QED
  BY <1>2, <1>3, <1>4, PTL DEF Spec

(***************************************************************************)
(* Nothing comes apart underneath a frame                                  *)
(***************************************************************************)
\* What a frame draws, a navigation under way is still being decided.
DrawingInv == drawing /\ ~Idle => Running.at \in {"enter", "leave"}
FrameStays == drawing => UNCHANGED active /\ \A s \in ToSet(active.scopes) : s \in DOMAIN scope'

LEMMA WhileDrawing ==
  ASSUME BaseInv, Alone, DrawingInv, Next, Steady, "answerInFrame" \notin Habit, drawing
  PROVE  /\ UNCHANGED <<active, scope>>
         /\ EnterAllowed \/ Idle' \/ Navigates \/ ~drawing'
         /\ EnterAllowed => Running'.at = "leave"
<1>1. Types
  BY DEF BaseInv
<1>2. ~(LeaveAllowed /\ ~HoldsBack)
  BY DEF HoldsBack
<1>3. ASSUME Take \/ Snapshot \/ LeaveChain \/ TakeSleeper \/ Install \/ Rollback \/ Stand \/ Wake \/ Arrive
             \/ GiveUp \/ FallBack \/ Tell
      PROVE  FALSE
  <2>1. ~Idle /\ Running.at \notin {"enter", "leave"}
    <3>1. CASE Take \/ Snapshot \/ LeaveChain \/ Tell
      BY <3>1 DEF Take, Snapshot, LeaveChain, Tell
    <3>2. CASE TakeSleeper \/ Install \/ Rollback \/ GiveUp
      BY <3>2 DEF TakeSleeper, Install, Rollback, GiveUp, Building
    <3>3. CASE Stand
      BY <3>3 DEF Stand
    <3>4. CASE Wake \/ Arrive \/ FallBack
      <4>1. Wake => Waking
        BY DEF Wake
      <4>2. Arrive \/ FallBack => Waking
        BY DEF Arrive, FallBack
      <4> QED
        BY <3>4, <4>1, <4>2 DEF Waking
    <3> QED
      BY <1>3, <3>1, <3>2, <3>3, <3>4
  <2> QED
    BY <2>1 DEF DrawingInv
<1>4. ASSUME NEW n, NEW allowed, Answer(n, allowed) PROVE FALSE
  BY <1>4 DEF Answer
<1>5. ASSUME Deactivate \/ (\E r \in Route : Activate(r)) PROVE FALSE
  BY <1>5 DEF Deactivate, Activate
<1>6. CASE EnterAllowed
  BY <1>1, <1>6, Moves DEF EnterAllowed, chainVars, GoneOn
<1>7. CASE (LeaveAllowed /\ HoldsBack) \/ Block \/ Ask
  <2>1. ~Idle /\ Returns /\ UNCHANGED <<active, scope>>
    BY <1>7 DEF LeaveAllowed, Block, Ask, chainVars
  <2>2. Idle'
    BY <1>1, <2>1, TheOnly DEF Alone, Types
  <2>3. ~EnterAllowed
    BY <1>1, <2>2, Moves DEF GoneOn
  <2> QED
    BY <2>1, <2>2, <2>3
<1>8. CASE Navigates
  <2>1. PICK step \in {"start", "to", "back", "forward"}, r \in Route, h \in Histories : NavigateThen(step, r, h)
    BY <1>8 DEF Navigates
  <2>2. Idle /\ UNCHANGED <<active, scope>>
    BY <1>8, <2>1, CalledFromIdle DEF Steady, NavigateThen, chainVars
  <2>3. ~EnterAllowed
    BY <2>2 DEF EnterAllowed
  <2> QED
    BY <1>8, <2>2, <2>3
<1>9. CASE BeginFrame \/ EndFrame
  <2>1. ~drawing' /\ Idle /\ UNCHANGED <<active, scope>>
    BY <1>9 DEF BeginFrame, EndFrame, chainVars
  <2>2. ~EnterAllowed
    BY <2>1 DEF EnterAllowed
  <2> QED
    BY <2>1, <2>2
<1> QED
  BY <1>1, <1>2, <1>3, <1>4, <1>5, <1>6, <1>7, <1>8, <1>9, Steps

LEMMA DrawingInvKept ==
  ASSUME BaseInv, Alone, DrawingInv, Next, Steady, "answerInFrame" \notin Habit
  PROVE  DrawingInv'
<1>1. CASE drawing
  <2>1. CASE EnterAllowed \/ Idle' \/ ~drawing'
    BY <1>1, <2>1, WhileDrawing DEF DrawingInv
  <2>2. CASE Navigates
    <3>1. PICK step \in {"start", "to", "back", "forward"}, r \in Route, h \in Histories : NavigateThen(step, r, h)
      BY <2>2 DEF Navigates
    <3>2. stack = <<>>
      BY <2>2, CalledFromIdle DEF Steady, Idle
    <3>3. stack' = <<Frame(generation + 1, "enter")>>
      BY <3>1, <3>2 DEF NavigateThen
    <3>4. Running'.at = "enter"
      BY <3>3 DEF Running, Last, Frame
    <3> QED
      BY <3>4 DEF DrawingInv
  <2> QED
    BY <1>1, <2>1, <2>2, WhileDrawing
<1>2. CASE ~drawing
  <2>1. CASE BeginFrame
    BY <2>1 DEF BeginFrame, DrawingInv, Idle
  <2>2. CASE ~BeginFrame
    <3>1. drawing \in BOOLEAN /\ Types
      BY DEF BaseInv, Types, CallTypes
    <3>2. UNCHANGED drawing
      <4>1. CASE \/ EnterAllowed \/ Block \/ Take \/ Snapshot \/ LeaveChain \/ TakeSleeper \/ Install \/ Rollback
                 \/ GiveUp \/ Stand \/ Wake \/ Arrive \/ FallBack \/ Tell \/ (\E r \in Route : Activate(r)) \/ Deactivate
        <5>1. CASE \/ EnterAllowed \/ Block \/ Take \/ Snapshot \/ LeaveChain \/ Stand \/ Arrive \/ FallBack \/ Tell
                   \/ (\E r \in Route : Activate(r)) \/ Deactivate
          BY <5>1 DEF EnterAllowed, Block, Take, Snapshot, LeaveChain, Stand, Arrive, FallBack, Tell, Activate,
             Deactivate, askVars
        <5>2. CASE TakeSleeper \/ Install \/ Rollback \/ GiveUp
          BY <5>2 DEF TakeSleeper, Install, Rollback, GiveUp, askVars
        <5>3. CASE Wake
          BY <5>3 DEF Wake, askVars
        <5> QED
          BY <4>1, <5>1, <5>2, <5>3
      <4>4. CASE LeaveAllowed \/ Ask
        BY <4>4 DEF LeaveAllowed, Ask
      <4>5. CASE EndFrame
        BY <1>2, <4>5 DEF EndFrame
      <4>2. CASE Navigates
        BY <4>2 DEF Navigates, NavigateThen
      <4>3. CASE \E n \in asking, allowed \in BOOLEAN : Answer(n, allowed)
        BY <4>3 DEF Answer
      <4> QED
        BY <2>2, <3>1, <4>1, <4>2, <4>3, <4>4, <4>5, Steps
    <3> QED
      BY <1>2, <3>2 DEF DrawingInv
  <2> QED
    BY <2>1, <2>2
<1> QED
  BY <1>1, <1>2

LEMMA FrameStaysUp ==
  ASSUME SteadyInv, DrawingInv, Next, Steady, "answerInFrame" \notin Habit
  PROVE  FrameStays
<1>1. BaseInv /\ Alone /\ ScopesInv
  BY DEF SteadyInv, CalmInv
<1>2. SUFFICES ASSUME drawing PROVE UNCHANGED active /\ \A s \in ToSet(active.scopes) : s \in DOMAIN scope'
  BY DEF FrameStays
<1>3. UNCHANGED <<active, scope>>
  BY <1>1, <1>2, WhileDrawing
<1>4. ~Underway
  BY <1>2 DEF DrawingInv, Underway
<1>5. Built(active.scopes, active.chain, scope)
  BY <1>1, <1>4 DEF ScopesInv, Standing, StandingChain, Sound
<1> QED
  BY <1>3, <1>5 DEF Built, ToSet

\* Where, besides, nothing a frame draws makes a decision: no scope of the
\* chain goes, and the chain stays, until the frame has ended
\* (router.rs:1125-1176, 1191-1210).
THEOREM FramesStayUndisturbed ==
  Steady /\ "answerInFrame" \notin Habit => (Spec => FrameUndisturbed)
<1>1. SUFFICES ASSUME Steady, "answerInFrame" \notin Habit PROVE Spec => FrameUndisturbed
  OBVIOUS
<1>2. Init => SteadyInv /\ DrawingInv
  BY SteadyBegins DEF Init, DrawingInv
<1>3. SteadyInv /\ DrawingInv /\ [Next]_vars => (SteadyInv /\ DrawingInv)'
  <2>1. ASSUME SteadyInv, DrawingInv, Next PROVE DrawingInv'
    BY <1>1, <2>1, DrawingInvKept DEF SteadyInv, CalmInv
  <2>2. ASSUME DrawingInv, UNCHANGED vars PROVE DrawingInv'
    BY <2>2 DEF vars, DrawingInv, Idle, Running
  <2> QED
    BY <1>1, <2>1, <2>2, SteadyInductive
<1>4. SteadyInv /\ DrawingInv /\ [Next]_vars => [FrameStays]_vars
  BY <1>1, FrameStaysUp
<1>5. FrameUndisturbed <=> [][FrameStays]_vars
  BY DEF FrameUndisturbed, FrameStays
<1> QED
  BY <1>2, <1>3, <1>4, <1>5, PTL DEF Spec

(***************************************************************************)
(* The history a browser keeps                                             *)
(***************************************************************************)
\* What becomes of a history when a call is refused, and when it is told of.
RefusedOf(h, c) ==
  CASE c.step = "back"    -> [back |-> Append(h.back, c.route), forward |-> Pop(h.forward)]
    [] c.step = "forward" -> [back |-> Pop(h.back), forward |-> Append(h.forward, c.route)]
    [] OTHER -> h
RememberedOf(h, c) ==
  IF c.step = "to" /\ c.leaving # Nowhere
  THEN [back |-> Append(h.back, c.leaving), forward |-> <<>>]
  ELSE h

\* Of some calls, those that step through the history.
Stepping(cs) == {n \in DOMAIN cs : cs[n].step \in {"back", "forward"}}

\* The history without what steps have taken out of it.
Put(h, cs) == IF Stepping(cs) # {} THEN RefusedOf(h, cs[CHOOSE n \in Stepping(cs) : TRUE]) ELSE h

\* Only one step is taken at a time, and it has left where it stepped from on
\* the other side.
Stepped(h, cs, at) ==
  /\ \A m, n \in Stepping(cs) : m = n
  /\ \A n \in Stepping(cs) :
       /\ at # Nowhere
       /\ IF cs[n].step = "back" THEN h.forward # <<>> /\ Last(h.forward) = at
          ELSE h.back # <<>> /\ Last(h.back) = at

LEMMA BackAndForth ==
  ASSUME NEW s \in Seq(Route), NEW r \in Route
  PROVE  /\ Append(s, r) \in Seq(Route) /\ Append(s, r) # <<>> /\ Last(Append(s, r)) = r
         /\ Front(Append(s, r)) = s /\ Pop(Append(s, r)) = s
         /\ s \o <<r>> = Append(s, r)
         /\ s # <<>> => /\ Front(s) \in Seq(Route) /\ Last(s) \in Route
                        /\ Append(Front(s), Last(s)) = s /\ Pop(s) = Front(s)
<1>1. /\ Append(s, r) \in Seq(Route) /\ Len(Append(s, r)) = Len(s) + 1 /\ Len(s) \in Nat
      /\ Append(s, r)[Len(s) + 1] = r /\ \A i \in 1..Len(s) : Append(s, r)[i] = s[i]
  OBVIOUS
<1>2. Append(s, r) # <<>> /\ Last(Append(s, r)) = r
  BY <1>1 DEF Last
<1>3. Front(Append(s, r)) = s
  <2> DEFINE t == Append(s, r)
  <2>1. t \in Seq(Route) /\ t # <<>> /\ Len(t) = Len(s) + 1 /\ \A i \in 1..Len(s) : t[i] = s[i]
    BY <1>1, <1>2
  <2> HIDE DEF t
  <2>2. /\ Front(t) \in Seq(Route) /\ Len(Front(t)) = Len(t) - 1
        /\ \A i \in 1..(Len(t) - 1) : Front(t)[i] = t[i]
    BY <2>1, FrontOf
  <2>3. Len(Front(t)) = Len(s) /\ \A i \in 1..Len(s) : Front(t)[i] = s[i]
    BY <1>1, <2>1, <2>2
  <2>4. Front(t) = [i \in 1..Len(s) |-> Front(t)[i]] /\ s = [i \in 1..Len(s) |-> s[i]]
    BY <2>2, <2>3
  <2>5. Front(t) = s
    BY <2>3, <2>4
  <2> QED
    BY <2>5 DEF t
<1>4. ASSUME s # <<>> PROVE Append(Front(s), Last(s)) = s /\ Front(s) \in Seq(Route) /\ Last(s) \in Route
  <2>1. /\ Front(s) \in Seq(Route) /\ Len(Front(s)) = Len(s) - 1 /\ Len(s) \in Nat \ {0}
        /\ \A i \in 1..(Len(s) - 1) : Front(s)[i] = s[i]
    BY <1>4, FrontOf
  <2>2. Last(s) = s[Len(s)] /\ Last(s) \in Route
    BY <2>1 DEF Last
  <2> DEFINE u == Append(Front(s), Last(s))
  <2>3. u \in Seq(Route) /\ Len(u) = Len(s) /\ \A i \in 1..Len(s) : u[i] = s[i]
    BY <2>1, <2>2
  <2> HIDE DEF u
  <2>4. u = [i \in 1..Len(s) |-> u[i]] /\ s = [i \in 1..Len(s) |-> s[i]]
    BY <2>3
  <2>5. u = s
    BY <2>3, <2>4
  <2> QED
    BY <2>1, <2>2, <2>5 DEF u
<1>5. s \o <<r>> = Append(s, r)
  OBVIOUS
<1> QED
  BY <1>1, <1>2, <1>3, <1>4, <1>5 DEF Pop

\* The step there is is the one that is put back.
LEMMA TheStep ==
  ASSUME NEW h, NEW cs, NEW at, Stepped(h, cs, at)
  PROVE  /\ Stepping(cs) = {} => Put(h, cs) = h
         /\ \A n \in Stepping(cs) : Put(h, cs) = RefusedOf(h, cs[n]) /\ Stepping(cs) = {n}
<1>1. ASSUME NEW n \in Stepping(cs) PROVE (CHOOSE m \in Stepping(cs) : TRUE) = n
  BY <1>1 DEF Stepped
<1> QED
  BY <1>1 DEF Put, Stepped

\* Calls that stay what they are, but for those that are settled.
Stays(X, cs, ccs) ==
  /\ Stepping(ccs) = Stepping(cs) \ X
  /\ \A n \in Stepping(ccs) : ccs[n].step = cs[n].step /\ ccs[n].route = cs[n].route
PutsBack(X, h, cs, hh) == IF X = {} THEN hh = h ELSE \E n \in X : hh = RefusedOf(h, cs[n])
Settling(h, cs, hh, ccs) == \E X \in SUBSET Stepping(cs) : Stays(X, cs, ccs) /\ PutsBack(X, h, cs, hh)

LEMMA SettlingPutsBack ==
  ASSUME NEW h, NEW cs, NEW hh, NEW ccs, NEW at, Stepped(h, cs, at), Settling(h, cs, hh, ccs)
  PROVE  /\ Stepped(hh, ccs, at) /\ Put(hh, ccs) = Put(h, cs)
         /\ at = Nowhere => hh = h
<1>1. PICK X \in SUBSET Stepping(cs) :
        /\ Stepping(ccs) = Stepping(cs) \ X
        /\ \A n \in Stepping(ccs) : ccs[n].step = cs[n].step /\ ccs[n].route = cs[n].route
        /\ IF X = {} THEN hh = h ELSE \E n \in X : hh = RefusedOf(h, cs[n])
  BY DEF Settling, Stays, PutsBack
<1>2. CASE X = {}
  <2>1. Stepping(ccs) = Stepping(cs) /\ hh = h
    BY <1>1, <1>2
  <2>2. Stepped(hh, ccs, at)
    <3>1. ASSUME NEW n \in Stepping(ccs)
          PROVE  /\ at # Nowhere
                 /\ IF ccs[n].step = "back" THEN hh.forward # <<>> /\ Last(hh.forward) = at
                    ELSE hh.back # <<>> /\ Last(hh.back) = at
      <4>1. n \in Stepping(cs) /\ ccs[n].step = cs[n].step
        BY <1>1, <2>1
      <4> QED
        BY <2>1, <4>1 DEF Stepped
    <3> QED
      BY <2>1, <3>1 DEF Stepped
  <2>3. CASE Stepping(cs) = {}
    BY <2>1, <2>2, <2>3 DEF Put
  <2>4. CASE Stepping(cs) # {}
    <3>1. PICK n \in Stepping(cs) : TRUE
      BY <2>4
    <3>2. Put(h, cs) = RefusedOf(h, cs[n]) /\ Put(hh, ccs) = RefusedOf(hh, ccs[n])
      BY <2>1, <2>2, <3>1, TheStep
    <3>3. ccs[n].step = cs[n].step /\ ccs[n].route = cs[n].route
      BY <1>1, <2>1, <3>1
    <3> QED
      BY <2>1, <2>2, <3>2, <3>3 DEF RefusedOf
  <2> QED
    BY <2>1, <2>2, <2>3, <2>4
<1>3. CASE X # {}
  <2>1. PICK n \in X : hh = RefusedOf(h, cs[n])
    BY <1>1, <1>3
  <2>2. n \in Stepping(cs)
    BY <1>1, <2>1
  <2>3. Put(h, cs) = hh /\ Stepping(cs) = {n}
    BY <2>1, <2>2, TheStep
  <2>4. at # Nowhere
    BY <2>2 DEF Stepped
  <2>5. Stepping(ccs) = {}
    BY <1>1, <2>1, <2>3
  <2> QED
    BY <2>3, <2>4, <2>5 DEF Put, Stepped
<1> QED
  BY <1>2, <1>3

SettledOf(h, cs, st) ==
  LET unarrived == {n \in DOMAIN cs : cs[n].step \in {"back", "forward"}
                      /\ ~\E f \in DOMAIN st : st[f].nav = n /\ st[f].at = "telling"}
      arrived   == {st[f].nav : f \in {g \in DOMAIN st : st[g].at = "telling"}}
  IN  IF unarrived # {} THEN RefusedOf(h, cs[CHOOSE n \in unarrived : TRUE])
      ELSE IF arrived # {} THEN RememberedOf(h, cs[CHOOSE n \in arrived : TRUE])
      ELSE h

LEMMA TheSettled ==
  /\ Settled = SettledOf(hist, calls, stack)
  /\ Settled' = SettledOf(hist', calls', stack')
<1>1. \A n : Refused(hist, n) = RefusedOf(hist, calls[n]) /\ Remembered(hist, n) = RememberedOf(hist, calls[n])
  BY DEF Refused, Remembered, RefusedOf, RememberedOf
<1>2. \A n : /\ Refused(hist, n)' = RefusedOf(hist', calls'[n])
             /\ Remembered(hist, n)' = RememberedOf(hist', calls'[n])
  BY DEF Refused, Remembered, RefusedOf, RememberedOf
<1>3. Settled = SettledOf(hist, calls, stack)
  BY <1>1 DEF Settled, SettledOf, Unarrived, Arrived
<1>4. Settled' = SettledOf(hist', calls', stack')
  BY <1>2 DEF Settled, SettledOf, Unarrived, Arrived
<1> QED
  BY <1>3, <1>4

LEMMA SettledUntold ==
  ASSUME NEW h, NEW cs, NEW st, \A f \in DOMAIN st : st[f].at # "telling"
  PROVE  SettledOf(h, cs, st) = Put(h, cs)
<1> DEFINE U == {n \in DOMAIN cs : cs[n].step \in {"back", "forward"}
                   /\ ~\E f \in DOMAIN st : st[f].nav = n /\ st[f].at = "telling"}
           A == {st[f].nav : f \in {g \in DOMAIN st : st[g].at = "telling"}}
<1>1. SettledOf(h, cs, st) = IF U # {} THEN RefusedOf(h, cs[CHOOSE n \in U : TRUE])
                             ELSE IF A # {} THEN RememberedOf(h, cs[CHOOSE n \in A : TRUE])
                             ELSE h
  BY DEF SettledOf
<1>2. U = Stepping(cs)
  BY DEF Stepping
<1>3. A = {}
  OBVIOUS
<1> HIDE DEF U, A
<1> QED
  BY <1>1, <1>2, <1>3 DEF Put

LEMMA SettledWhileTold ==
  ASSUME NEW h, NEW cs, NEW st, NEW f, DOMAIN st = {1}, st[1] = f, f.at = "telling", DOMAIN cs = {f.nav}
  PROVE  SettledOf(h, cs, st) = RememberedOf(h, cs[f.nav])
<1> DEFINE U == {n \in DOMAIN cs : cs[n].step \in {"back", "forward"}
                   /\ ~\E g \in DOMAIN st : st[g].nav = n /\ st[g].at = "telling"}
           A == {st[g].nav : g \in {e \in DOMAIN st : st[e].at = "telling"}}
<1>1. SettledOf(h, cs, st) = IF U # {} THEN RefusedOf(h, cs[CHOOSE n \in U : TRUE])
                             ELSE IF A # {} THEN RememberedOf(h, cs[CHOOSE n \in A : TRUE])
                             ELSE h
  BY DEF SettledOf
<1>2. U = {}
  OBVIOUS
<1>3. A = {f.nav}
  OBVIOUS
<1> HIDE DEF U, A
<1>4. (CHOOSE n \in A : TRUE) = f.nav
  BY <1>3
<1> QED
  BY <1>1, <1>2, <1>3, <1>4

\* What has arrived is being told of.
Telling == ~Idle /\ Running.at = "telling"

HistInv ==
  /\ prevRoute = Nowhere => hist.back = <<>> /\ hist.forward = <<>>
  /\ ~Telling => Stepped(hist, calls, prevRoute)
  /\ ~Telling => \A n \in DOMAIN calls : calls[n].leaving = prevRoute
  /\ generation = 0 => prevRoute = Nowhere
  /\ \A n \in DOMAIN calls : calls[n].step = "start" => calls[n].leaving = Nowhere

\* A chain that stands for a route can be made again.
AgainInv ==
  /\ prevRoute # Nowhere => IF Underway THEN Running.old.again ELSE active.again
  /\ ~Idle /\ Running.at \in {"waking", "woken", "telling"} => active.again

\* Where, besides, back and forward come one at a time, a chain that failed
\* can be put back, and the router is never deactivated.
Remembering == Steady /\ Habit \cap {"stepAgain", "failBack", "deactivate"} = {}

LEMMA SettledIs ==
  ASSUME BaseInv, QuestionInv, Alone, InHand
  PROVE  Settled = IF Telling THEN RememberedOf(hist, calls[Running.nav]) ELSE Put(hist, calls)
<1>1. CASE Idle
  <2>1. DOMAIN stack = {} /\ ~Telling
    BY <1>1 DEF Idle, Telling
  <2> QED
    BY <2>1, SettledUntold, TheSettled
<1>2. CASE ~Idle
  <2>1. DOMAIN stack = {1} /\ stack[1] = Running /\ Running.nav \in DOMAIN calls
    BY <1>2, TheOnly, TheCall DEF Alone, BaseInv, Types
  <2>2. CASE Telling
    <3>1. Running.nav # Activation /\ Running.at \notin {"enter", "leave"}
      BY <2>1, <2>2 DEF InHand, Telling
    <3>2. DOMAIN calls = {Running.nav}
      BY <1>2, <3>1, TheOnlyCall
    <3>3. SettledOf(hist, calls, stack) = RememberedOf(hist, calls[Running.nav])
      BY <2>1, <2>2, <3>2, SettledWhileTold DEF Telling
    <3> QED
      BY <2>2, <3>3, TheSettled
  <2>3. CASE ~Telling
    <3>1. \A f \in DOMAIN stack : stack[f].at # "telling"
      BY <1>2, <2>1, <2>3 DEF Telling
    <3> QED
      BY <2>3, <3>1, SettledUntold, TheSettled
  <2> QED
    BY <2>2, <2>3
<1> QED
  BY <1>1, <1>2

LEMMA RefusedSettles ==
  ASSUME CallTypes, NEW n \in DOMAIN calls, NEW h
  PROVE  Settling(h, calls, Refused(h, n), Without(calls, {n}))
<1> DEFINE cs == Without(calls, {n})
           X  == Stepping(calls) \cap {n}
<1>1. DOMAIN cs = DOMAIN calls \ {n} /\ \A m \in DOMAIN calls \ {n} : cs[m] = calls[m]
  BY FewerCalls
<1>2. Refused(h, n) = RefusedOf(h, calls[n])
  BY DEF Refused, RefusedOf
<1> HIDE DEF cs
<1>3. Stepping(cs) = Stepping(calls) \ X
  BY <1>1 DEF Stepping
<1>4. \A m \in Stepping(cs) : cs[m].step = calls[m].step /\ cs[m].route = calls[m].route
  BY <1>1 DEF Stepping
<1>5. IF X = {} THEN Refused(h, n) = h ELSE \E m \in X : Refused(h, n) = RefusedOf(h, calls[m])
  BY <1>2 DEF Stepping, RefusedOf
<1>6. X \in SUBSET Stepping(calls)
  OBVIOUS
<1> HIDE DEF X
<1>7. Settling(h, calls, Refused(h, n), cs)
  BY <1>3, <1>4, <1>5, <1>6 DEF Settling, Stays, PutsBack
<1> QED
  BY <1>7 DEF cs

\* Steps that are there stay.
Similar(cs, ccs) ==
  /\ Stepping(ccs) = Stepping(cs)
  /\ \A n \in Stepping(cs) : ccs[n].step = cs[n].step /\ ccs[n].route = cs[n].route

LEMMA SimilarSettles ==
  ASSUME NEW h, NEW cs, NEW hh, NEW ccs, NEW cccs, Settling(h, cs, hh, ccs), Similar(ccs, cccs)
  PROVE  Settling(h, cs, hh, cccs)
<1>1. PICK X \in SUBSET Stepping(cs) : Stays(X, cs, ccs) /\ PutsBack(X, h, cs, hh)
  BY DEF Settling
<1>2. Stays(X, cs, cccs)
  BY <1>1 DEF Similar, Stays
<1> QED
  BY <1>1, <1>2 DEF Settling

LEMMA NothingSettles ==
  ASSUME NEW h, NEW cs
  PROVE  Settling(h, cs, h, cs) /\ Similar(cs, cs)
<1>1. Stays({}, cs, cs) /\ PutsBack({}, h, cs, h) /\ {} \in SUBSET Stepping(cs)
  BY DEF Stays, PutsBack
<1>2. Settling(h, cs, h, cs)
  BY <1>1 DEF Settling
<1> QED
  BY <1>2 DEF Similar

LEMMA NavigatesQuietly ==
  ASSUME BaseInv, NEW r \in Route, NEW step \in {"start", "to"}, NavigateThen(step, r, hist)
  PROVE  Settling(hist, calls, hist', calls')
<1>1. Types /\ CallTypes
  BY DEF BaseInv, Types
<1>2. /\ generation + 1 \in 1..MaxNavigations
      /\ DOMAIN calls' = (DOMAIN calls \ {pending}) \cup {generation + 1}
      /\ calls'[generation + 1] = NewCall(step, r)
      /\ \A n \in DOMAIN calls \ {pending} : n # generation + 1 => calls'[n] = calls[n]
  BY <1>1, NavigatesTo
<1>3. generation + 1 \notin DOMAIN calls
  <2>1. generation + 1 # Activation /\ generation + 1 \notin 1..generation
    BY <1>1, <1>2, RouterAssumption DEF Activation, CallTypes
  <2> QED
    BY <2>1 DEF BaseInv, Apart
<1>4. calls'[generation + 1].step \notin {"back", "forward"}
  BY <1>2 DEF NewCall
<1>5. /\ Stepping(calls') = Stepping(calls) \ {pending}
      /\ \A n \in Stepping(calls') : calls'[n] = calls[n]
  BY <1>2, <1>3, <1>4 DEF Stepping
<1>6. hist' = IF pending = NoCall THEN hist ELSE Refused(hist, pending)
  BY DEF NavigateThen
<1>7. CASE pending \notin Stepping(calls)
  <2>1. hist' = hist
    <3>1. pending # NoCall => pending \in DOMAIN calls
      BY DEF BaseInv, Apart
    <3>2. pending # NoCall => calls[pending].step \notin {"back", "forward"}
      BY <1>7, <3>1 DEF Stepping
    <3> QED
      BY <1>6, <3>2 DEF Refused
  <2>2. Stays({}, calls, calls') /\ PutsBack({}, hist, calls, hist') /\ {} \in SUBSET Stepping(calls)
    BY <1>5, <1>7, <2>1 DEF Stays, PutsBack
  <2> QED
    BY <2>2 DEF Settling
<1>8. CASE pending \in Stepping(calls)
  <2>1. pending # NoCall
    <3>1. NoCall \notin Call
      BY DEF NoCall, Call
    <3> QED
      BY <1>1, <1>8, <3>1 DEF Stepping, CallTypes, Partial
  <2>2. hist' = RefusedOf(hist, calls[pending])
    BY <1>6, <2>1 DEF Refused, RefusedOf
  <2>3. Stays({pending}, calls, calls') /\ PutsBack({pending}, hist, calls, hist') /\ {pending} \in SUBSET Stepping(calls)
    BY <1>5, <1>8, <2>2 DEF Stays, PutsBack
  <2> QED
    BY <2>3 DEF Settling
<1> QED
  BY <1>7, <1>8

LEMMA SmallSteps ==
  ASSUME Next, ~Back, ~Forward
  PROVE  \/ EnterAllowed \/ LeaveAllowed \/ Block \/ Ask
         \/ Take \/ Snapshot \/ LeaveChain
         \/ TakeSleeper \/ Install \/ Rollback \/ GiveUp \/ Stand
         \/ Wake \/ Arrive \/ FallBack \/ Tell
         \/ \E r \in Route : Start(r) \/ To(r)
         \/ \E r \in Route : Activate(r)
         \/ \E n \in asking, allowed \in BOOLEAN : Answer(n, allowed)
         \/ BeginFrame \/ EndFrame \/ Deactivate
BY DEF Next, Run

\* But for steps and arrivals, a navigation is made, goes on or is refused.
LEMMA QuietSteps ==
  ASSUME SteadyInv, AgainInv, Next, Remembering, ~Telling, ~Back, ~Forward, ~Arrive
  PROVE  Settling(hist, calls, hist', calls') /\ UNCHANGED prevRoute
<1>1. BaseInv /\ Types /\ CallTypes /\ Alone /\ QuestionInv /\ InHand
  BY DEF SteadyInv, CalmInv, BaseInv, Types
<1>2. ASSUME UNCHANGED <<hist, calls, prevRoute>> PROVE Settling(hist, calls, hist', calls') /\ UNCHANGED prevRoute
  BY <1>2, NothingSettles
<1>3. ASSUME NEW n \in DOMAIN calls, SettleRefused(n), UNCHANGED prevRoute
      PROVE  Settling(hist, calls, hist', calls') /\ UNCHANGED prevRoute
  BY <1>1, <1>3, RefusedSettles DEF SettleRefused
<1>4. CASE EnterAllowed \/ Ask
  <2>1. UNCHANGED <<hist, prevRoute>> /\ DOMAIN calls' = DOMAIN calls
    BY <1>4 DEF EnterAllowed, Ask
  <2>2. ~\E r \in Route : Activate(r)
    BY DEF Remembering, Steady, Activate
  <2>3. \A n \in DOMAIN calls : calls'[n].step = calls[n].step /\ calls'[n].route = calls[n].route
    BY <1>1, <2>1, <2>2, CallsKept
  <2>4. Similar(calls, calls')
    BY <2>1, <2>3 DEF Similar, Stepping
  <2>5. Settling(hist, calls, hist, calls')
    BY <2>4, NothingSettles, SimilarSettles
  <2> QED
    BY <2>1, <2>5
<1>5. CASE Take \/ Snapshot \/ LeaveChain \/ TakeSleeper \/ Install \/ Rollback \/ Stand \/ Wake \/ BeginFrame \/ EndFrame
  <2>1. CASE Take \/ Snapshot \/ LeaveChain \/ Stand \/ BeginFrame \/ EndFrame
    BY <1>2, <2>1 DEF Take, Snapshot, LeaveChain, Stand, BeginFrame, EndFrame
  <2>2. CASE TakeSleeper \/ Install \/ Rollback
    BY <1>2, <2>2 DEF TakeSleeper, Install, Rollback
  <2>3. CASE Wake
    BY <1>2, <2>3 DEF Wake
  <2> QED
    BY <1>5, <2>1, <2>2, <2>3
<1>6. CASE LeaveAllowed
  <2>1. UNCHANGED prevRoute
    BY <1>6 DEF LeaveAllowed
  <2>2. CASE HoldsBack /\ held # NoCall
    <3>1. held \in DOMAIN calls
      BY <1>1, <2>2 DEF BaseInv, Apart
    <3>2. SettleRefused(held)
      BY <1>6, <2>2 DEF LeaveAllowed
    <3> QED
      BY <1>3, <2>1, <3>1, <3>2
  <2>3. CASE ~(HoldsBack /\ held # NoCall)
    <3>1. UNCHANGED <<hist, calls>>
      BY <1>6, <2>3 DEF LeaveAllowed
    <3> QED
      BY <1>2, <2>1, <3>1
  <2> QED
    BY <2>2, <2>3
<1>7. CASE Block \/ FallBack
  <2>1. ~Idle /\ SettleRefused(Running.nav) /\ UNCHANGED prevRoute
    BY <1>7 DEF Block, FallBack, Waking
  <2>2. Running.nav \in DOMAIN calls
    BY <1>1, <2>1, TheCall
  <2> QED
    BY <1>3, <2>1, <2>2
<1>8. CASE GiveUp
  <2>1. ~Idle /\ SettleRefused(Running.nav) /\ prevRoute' = Nowhere /\ Running.at = "building"
    BY <1>8 DEF GiveUp, Building
  <2>2. Running.nav \in DOMAIN calls
    BY <1>1, <2>1, TheCall
  <2>3. ~Running.old.again
    <3>1. "failBack" \notin Habit
      BY DEF Remembering
    <3> QED
      BY <1>8, <3>1 DEF GiveUp
  <2>4. prevRoute = Nowhere
    BY <2>1, <2>3 DEF AgainInv, Underway
  <2> QED
    BY <1>3, <2>1, <2>2, <2>4
<1>9. CASE \E r \in Route : Start(r) \/ To(r)
  <2>1. PICK r \in Route, step \in {"start", "to"} : NavigateThen(step, r, hist)
    BY <1>9 DEF Start, To
  <2>2. UNCHANGED prevRoute
    BY <2>1 DEF NavigateThen
  <2> QED
    BY <1>1, <2>1, <2>2, NavigatesQuietly
<1>10. CASE \E n \in asking, allowed \in BOOLEAN : Answer(n, allowed)
  <2>1. PICK n \in asking, allowed \in BOOLEAN : Answer(n, allowed)
    BY <1>10
  <2>2. UNCHANGED prevRoute /\ (UNCHANGED <<hist, calls>> \/ (pending # NoCall /\ SettleRefused(pending)))
    BY <2>1 DEF Answer
  <2>3. pending # NoCall => pending \in DOMAIN calls
    BY <1>1 DEF BaseInv, Apart
  <2> QED
    BY <1>2, <1>3, <2>2, <2>3
<1>11. ~Tell /\ ~Deactivate /\ ~\E r \in Route : Activate(r)
  BY DEF Tell, Telling, Deactivate, Activate, Remembering, Steady
<1> QED
  BY <1>4, <1>5, <1>6, <1>7, <1>8, <1>9, <1>10, <1>11, SmallSteps

\* Only an arrival is told of.
LEMMA ToldOnArrival ==
  ASSUME BaseInv, Alone, Steady, Next, ~Telling, ~Arrive
  PROVE  ~Telling'
<1>1. CASE Idle'
  BY <1>1 DEF Telling
<1>2. CASE Begins
  BY <1>2, JustBegun DEF Telling
<1>3. CASE GoesOnStep
  <2>1. CASE EnterAllowed \/ (LeaveAllowed /\ ~HoldsBack) \/ Take
    BY <2>1, Moves DEF GoneOn, Telling
  <2>2. CASE Snapshot \/ LeaveChain \/ TakeSleeper \/ Install \/ Rollback \/ Stand
    BY <2>2, Moves DEF GoneOn, Telling
  <2>3. CASE Wake
    BY <2>3, Moves DEF GoneOn, Telling
  <2> QED
    BY <1>3, <2>1, <2>2, <2>3 DEF GoesOnStep
<1> QED
  BY <1>1, <1>2, <1>3, HowItGoes

LEMMA AgainInvKept ==
  ASSUME SteadyInv, AgainInv, Next, Remembering
  PROVE  AgainInv'
<1>1. BaseInv /\ Types /\ Alone /\ QuestionInv /\ InHand /\ Steady
  BY DEF SteadyInv, CalmInv, BaseInv, Remembering
<1>2. CASE EnterAllowed \/ (LeaveAllowed /\ ~HoldsBack)
  <2>1. ~Idle' /\ Running'.at \in {"leave", "commit"} /\ UNCHANGED <<active, prevRoute>>
    BY <1>1, <1>2, Moves DEF GoneOn, EnterAllowed, LeaveAllowed, chainVars
  <2>2. Running.at \in {"enter", "leave"}
    BY <1>2 DEF EnterAllowed, LeaveAllowed
  <2>3. prevRoute # Nowhere => active.again
    BY <2>2 DEF AgainInv, Underway
  <2> QED
    BY <2>1, <2>3 DEF AgainInv, Underway
<1>3. CASE Take
  <2>1. ~Idle' /\ Running'.at = "leaving" /\ Running'.old = active
    BY <1>1, <1>3, Moves DEF GoneOn
  <2>2. UNCHANGED prevRoute /\ Running.at = "commit"
    BY <1>3 DEF Take
  <2>3. prevRoute # Nowhere => active.again
    BY <2>2 DEF AgainInv, Underway
  <2> QED
    BY <2>1, <2>2, <2>3 DEF AgainInv, Underway
<1>4. CASE Snapshot \/ LeaveChain \/ TakeSleeper \/ Install \/ Rollback
  <2>1. /\ ~Idle /\ ~Idle' /\ Running.at \in {"leaving", "building"} /\ Running'.at \in {"leaving", "building"}
        /\ Running'.old = Running.old
    BY <1>1, <1>4, FloorKept
  <2>2. UNCHANGED prevRoute
    BY <1>4 DEF Snapshot, LeaveChain, TakeSleeper, Install, Rollback
  <2>3. prevRoute # Nowhere => Running.old.again
    BY <2>1 DEF AgainInv, Underway
  <2> QED
    BY <2>1, <2>2, <2>3 DEF AgainInv, Underway
<1>5. CASE Stand
  <2>1. ~Idle' /\ Running'.at = "waking"
    BY <1>1, <1>5, Moves DEF GoneOn
  <2>2. Running.nav # Activation
    BY <1>1, <1>5, TheCall DEF Stand, InHand
  <2>3. active'.again
    BY <1>5, <2>2 DEF Stand
  <2> QED
    BY <2>1, <2>3 DEF AgainInv, Underway
<1>6. CASE Wake \/ (Arrive /\ UNCHANGED calls)
  <2>1. ~Idle' /\ Running'.at \in {"waking", "woken", "telling"}
    BY <1>1, <1>6, Moves DEF GoneOn
  <2>2. Waking /\ UNCHANGED active
    <3>1. CASE Wake
      BY <3>1 DEF Wake
    <3>2. CASE Arrive
      BY <3>2 DEF Arrive, chainVars
    <3> QED
      BY <1>6, <3>1, <3>2
  <2>3. active.again
    BY <2>2 DEF AgainInv, Waking
  <2> QED
    BY <2>1, <2>2, <2>3 DEF AgainInv, Underway
<1>7. CASE StepsBack /\ Idle' /\ UNCHANGED active
  <2>1. CASE GiveUp
    BY <1>7, <2>1 DEF GiveUp, AgainInv, Underway
  <2>2. CASE FallBack \/ Tell \/ Arrive
    <3>1. ~Idle /\ Running.at \in {"waking", "woken", "telling"}
      BY <2>2 DEF FallBack, Tell, Arrive, Waking
    <3>2. active.again
      BY <3>1 DEF AgainInv
    <3> QED
      BY <1>7, <3>2 DEF AgainInv, Underway
  <2>3. CASE LeaveAllowed \/ Block \/ Ask
    <3>1. ~Underway /\ UNCHANGED prevRoute
      BY <2>3 DEF LeaveAllowed, Block, Ask, Refusers, Underway
    <3>2. prevRoute # Nowhere => active.again
      BY <3>1 DEF AgainInv
    <3> QED
      BY <1>7, <3>1, <3>2 DEF AgainInv, Underway
  <2> QED
    BY <1>7, <2>1, <2>2, <2>3 DEF StepsBack
<1>8. ~Deactivate
  BY DEF Remembering, Deactivate
<1>9. CASE (Navigates \/ (\E n \in asking, allowed \in BOOLEAN : Answer(n, allowed)) \/ BeginFrame \/ EndFrame)
            /\ UNCHANGED active /\ Idle /\ (Idle' \/ Begins)
  <2>1. UNCHANGED prevRoute
    <3>1. CASE Navigates
      BY <3>1 DEF Navigates, NavigateThen
    <3>2. CASE (\E n \in asking, allowed \in BOOLEAN : Answer(n, allowed)) \/ BeginFrame \/ EndFrame
      BY <3>2 DEF Answer, BeginFrame, EndFrame
    <3> QED
      BY <1>9, <3>1, <3>2
  <2>2. prevRoute # Nowhere => active.again
    BY <1>9 DEF AgainInv, Underway
  <2>3. Idle' \/ (~Idle' /\ Running'.at \in {"enter", "commit"})
    BY <1>9, JustBegun
  <2> QED
    BY <1>9, <2>1, <2>2, <2>3 DEF AgainInv, Underway
<1> QED
  BY <1>1, <1>2, <1>3, <1>4, <1>5, <1>6, <1>7, <1>8, <1>9, HowItGoes DEF GoesOnStep

\* New calls leave the route the router is at.
LEMMA CallsLeave ==
  ASSUME BaseInv, HistInv, Next, Steady, ~Telling, UNCHANGED prevRoute
  PROVE  /\ \A n \in DOMAIN calls' : /\ calls'[n].leaving = prevRoute'
                                     /\ calls'[n].step = "start" => calls'[n].leaving = Nowhere
         /\ generation' = 0 => prevRoute' = Nowhere
<1>1. Types /\ CallTypes /\ generation \in Nat
  BY RouterAssumption DEF BaseInv, Types, CallTypes
<1>2. ~\E r \in Route : Activate(r)
  BY DEF Steady, Activate
<1>3. ASSUME NEW n \in DOMAIN calls', n \in DOMAIN calls
      PROVE  calls'[n].leaving = prevRoute' /\ (calls'[n].step = "start" => calls'[n].leaving = Nowhere)
  <2>1. calls'[n].leaving = calls[n].leaving /\ calls'[n].step = calls[n].step
    BY <1>2, <1>3, CallsKept
  <2> QED
    BY <1>3, <2>1 DEF HistInv
<1>4. CASE Navigates
  <2>1. PICK step \in {"start", "to", "back", "forward"}, r \in Route, h \in Histories :
          NavigateThen(step, r, h) /\ (step = "start" => generation = 0)
    BY <1>4 DEF Navigates
  <2>2. /\ DOMAIN calls' = (DOMAIN calls \ {pending}) \cup {generation + 1}
        /\ calls'[generation + 1] = NewCall(step, r) /\ generation' = generation + 1
    BY <1>1, <2>1, NavigatesTo
  <2>3. calls'[generation + 1].step = step /\ calls'[generation + 1].leaving = prevRoute
    BY <2>2 DEF NewCall
  <2>4. step = "start" => prevRoute = Nowhere
    BY <2>1 DEF HistInv
  <2>5. generation' # 0
    BY <1>1, <2>2
  <2> QED
    BY <1>3, <2>2, <2>3, <2>4, <2>5
<1>5. CASE ~Navigates
  <2>1. UNCHANGED generation
    <3>1. CASE EnterAllowed \/ Block \/ Take \/ Snapshot \/ LeaveChain \/ Stand \/ Arrive \/ FallBack \/ Tell \/ Deactivate
      BY <3>1 DEF EnterAllowed, Block, Take, Snapshot, LeaveChain, Stand, Arrive, FallBack, Tell, Deactivate, askVars
    <3>2. CASE TakeSleeper \/ Install \/ Rollback \/ GiveUp
      BY <3>2 DEF TakeSleeper, Install, Rollback, GiveUp, askVars
    <3>3. CASE Wake
      BY <3>3 DEF Wake, askVars
    <3>4. CASE LeaveAllowed \/ Ask \/ BeginFrame \/ EndFrame
      BY <3>4 DEF LeaveAllowed, Ask, BeginFrame, EndFrame
    <3>5. CASE \E n \in asking, allowed \in BOOLEAN : Answer(n, allowed)
      BY <3>5 DEF Answer
    <3> QED
      BY <1>1, <1>2, <1>5, <3>1, <3>2, <3>3, <3>4, <3>5, Steps
  <2>2. generation' = 0 => prevRoute' = Nowhere
    BY <2>1 DEF HistInv
  <2>3. DOMAIN calls' \subseteq DOMAIN calls
    BY <1>2, <1>5, CallsStay
  <2> QED
    BY <1>3, <2>2, <2>3
<1> QED
  BY <1>4, <1>5

\* A step is taken when nothing else is to be settled.
LEMMA StepsOut ==
  ASSUME SteadyInv, HistInv, Remembering, Back \/ Forward
  PROVE  /\ Stepped(hist', calls', prevRoute) /\ Put(hist', calls') = Put(hist, calls)
         /\ UNCHANGED prevRoute /\ ~Telling /\ ~Telling' /\ prevRoute # Nowhere
<1>1. BaseInv /\ Types /\ CallTypes /\ QuestionInv
  BY DEF SteadyInv, CalmInv, BaseInv, Types
<1>2. MayStep /\ Idle /\ pending = NoCall /\ held = NoCall /\ ~Telling
  BY DEF Remembering, Back, Forward, MayStep, Telling
<1>3. DOMAIN calls = {}
  BY <1>1, <1>2 DEF QuestionInv, NavigationsAccountedFor, NoNavigationForgotten, Idle
<1>4. Put(hist, calls) = hist
  BY <1>3 DEF Put, Stepping
<1>5. hist \in Histories /\ hist.back \in Seq(Route) /\ hist.forward \in Seq(Route)
  BY <1>1 DEF Types, HistTypes, Histories
<1>6. prevRoute # Nowhere /\ prevRoute \in Route /\ Leaving = <<prevRoute>>
  BY <1>1 DEF HistInv, Back, Forward, Leaving, Types, ChainTypes
<1>7. ASSUME NEW step \in {"back", "forward"}, NEW r \in Route, NEW h, NavigateThen(step, r, h)
      PROVE  /\ hist' = h /\ UNCHANGED prevRoute /\ ~Telling'
             /\ Stepping(calls') = {generation + 1}
             /\ calls'[generation + 1].step = step /\ calls'[generation + 1].route = r
  <2>1. /\ DOMAIN calls' = (DOMAIN calls \ {pending}) \cup {generation + 1}
        /\ calls'[generation + 1] = NewCall(step, r)
    BY <1>1, <1>7, NavigatesTo
  <2>2. DOMAIN calls' = {generation + 1} /\ calls'[generation + 1].step = step /\ calls'[generation + 1].route = r
    BY <1>3, <2>1 DEF NewCall
  <2>3. hist' = h /\ UNCHANGED prevRoute /\ stack' = Append(stack, Frame(generation + 1, "enter"))
    BY <1>2, <1>7 DEF NavigateThen
  <2>4. stack' = <<Frame(generation + 1, "enter")>>
    BY <1>2, <2>3 DEF Idle
  <2>5. ~Telling'
    BY <2>4 DEF Telling, Running, Last, Frame
  <2> QED
    BY <2>2, <2>3, <2>5 DEF Stepping
<1>8. CASE Back
  <2> DEFINE r == Last(hist.back)
             h == [back |-> Front(hist.back), forward |-> hist.forward \o Leaving]
  <2>1. hist.back # <<>> /\ NavigateThen("back", r, h)
    BY <1>8 DEF Back
  <2>2. /\ r \in Route /\ Append(Front(hist.back), r) = hist.back
        /\ h = [back |-> Front(hist.back), forward |-> Append(hist.forward, prevRoute)]
    BY <1>5, <1>6, <2>1, BackAndForth
  <2> HIDE DEF r, h
  <2>3. /\ hist' = h /\ UNCHANGED prevRoute /\ ~Telling'
        /\ Stepping(calls') = {generation + 1}
        /\ calls'[generation + 1].step = "back" /\ calls'[generation + 1].route = r
    BY <1>7, <2>1, <2>2
  <2>4. /\ h.forward # <<>> /\ Last(h.forward) = prevRoute /\ Pop(h.forward) = hist.forward
        /\ h.back = Front(hist.back)
    BY <1>5, <1>6, <2>2, BackAndForth
  <2>5. Stepped(hist', calls', prevRoute)
    BY <1>6, <2>3, <2>4 DEF Stepped
  <2>6. Put(hist', calls') = RefusedOf(h, calls'[generation + 1])
    BY <2>3, <2>5, TheStep
  <2>7. Put(hist', calls') = [back |-> hist.back, forward |-> hist.forward]
    BY <2>2, <2>3, <2>4, <2>6 DEF RefusedOf
  <2>8. Put(hist', calls') = hist
    BY <1>5, <2>7 DEF Histories
  <2> QED
    BY <1>2, <1>4, <1>6, <2>3, <2>5, <2>8
<1>9. CASE Forward
  <2> DEFINE r == Last(hist.forward)
             h == [back |-> hist.back \o Leaving, forward |-> Front(hist.forward)]
  <2>1. hist.forward # <<>> /\ NavigateThen("forward", r, h)
    BY <1>9 DEF Forward
  <2>2. /\ r \in Route /\ Append(Front(hist.forward), r) = hist.forward
        /\ h = [back |-> Append(hist.back, prevRoute), forward |-> Front(hist.forward)]
    BY <1>5, <1>6, <2>1, BackAndForth
  <2> HIDE DEF r, h
  <2>3. /\ hist' = h /\ UNCHANGED prevRoute /\ ~Telling'
        /\ Stepping(calls') = {generation + 1}
        /\ calls'[generation + 1].step = "forward" /\ calls'[generation + 1].route = r
    BY <1>7, <2>1, <2>2
  <2>4. /\ h.back # <<>> /\ Last(h.back) = prevRoute /\ Pop(h.back) = hist.back
        /\ h.forward = Front(hist.forward)
    BY <1>5, <1>6, <2>2, BackAndForth
  <2>5. Stepped(hist', calls', prevRoute)
    BY <1>6, <2>3, <2>4 DEF Stepped
  <2>6. Put(hist', calls') = RefusedOf(h, calls'[generation + 1])
    BY <2>3, <2>5, TheStep
  <2>7. Put(hist', calls') = [back |-> hist.back, forward |-> hist.forward]
    BY <2>2, <2>3, <2>4, <2>6 DEF RefusedOf
  <2>8. Put(hist', calls') = hist
    BY <1>5, <2>7 DEF Histories
  <2> QED
    BY <1>2, <1>4, <1>6, <2>3, <2>5, <2>8
<1> QED
  BY <1>8, <1>9

LEMMA Arrives ==
  ASSUME SteadyInv, HistInv, Next, Steady, Arrive
  PROVE  /\ ~Telling /\ DOMAIN calls = {Running.nav} /\ UNCHANGED <<hist, generation>> /\ generation # 0
         /\ prevRoute' = calls[Running.nav].route /\ prevRoute' \in Route /\ prevRoute' # Nowhere
         /\ calls[Running.nav].leaving = prevRoute
         /\ \/ calls[Running.nav].step = "start" /\ DOMAIN calls' = {} /\ ~Telling' /\ prevRoute = Nowhere
            \/ /\ calls[Running.nav].step \in {"to", "back", "forward"} /\ UNCHANGED calls
               /\ Telling' /\ Running'.nav = Running.nav
<1>1. BaseInv /\ Types /\ CallTypes /\ QuestionInv /\ Alone /\ InHand /\ StepsNamed
  BY DEF SteadyInv, CalmInv, BaseInv, Types
<1>2. ~Idle /\ Running.at \in {"waking", "woken"} /\ ~Telling
  BY DEF Arrive, Waking, Telling
<1>3. Running.nav \in DOMAIN calls /\ calls[Running.nav] \in CallType /\ Running.nav \in 1..generation \cup {Activation}
  BY <1>1, <1>2, TheCall
<1>4. Running.nav # Activation
  BY <1>1, <1>3 DEF InHand
<1>5. DOMAIN calls = {Running.nav}
  BY <1>1, <1>2, <1>4, TheOnlyCall
<1>6. UNCHANGED <<hist, generation>> /\ prevRoute' = calls[Running.nav].route
  BY <1>4 DEF Arrive, askVars
<1>7. prevRoute' \in Route /\ prevRoute' # Nowhere
  BY <1>3, <1>6, RouterAssumption DEF CallType
<1>8. generation # 0
  BY <1>3, <1>4
<1>9. calls[Running.nav].leaving = prevRoute
  BY <1>2, <1>3 DEF HistInv
<1>10. CASE calls[Running.nav].step \in {"to", "back", "forward"}
  <2>1. UNCHANGED calls
    BY <1>10 DEF Arrive
  <2>2. ~Idle' /\ Running'.at = "telling" /\ Running'.nav = Running.nav
    BY <1>1, <2>1, Moves DEF GoneOn
  <2> QED
    BY <1>2, <1>5, <1>6, <1>7, <1>8, <1>9, <1>10, <2>1, <2>2 DEF Telling
<1>11. CASE calls[Running.nav].step \notin {"to", "back", "forward"}
  <2>1. calls[Running.nav].step = "start"
    BY <1>1, <1>3, <1>4, <1>11 DEF StepsNamed, CallType
  <2>2. calls' = Without(calls, {Running.nav}) /\ Returns
    BY <1>11 DEF Arrive
  <2>3. DOMAIN calls' = {}
    BY <1>1, <2>2, NoneLeft
  <2>4. ~Telling'
    BY <1>1, <1>2, <2>2, TheOnly DEF Alone, Types, Telling
  <2>5. prevRoute = Nowhere
    BY <1>3, <1>9, <2>1 DEF HistInv
  <2> QED
    BY <1>2, <1>5, <1>6, <1>7, <1>8, <1>9, <2>1, <2>3, <2>4, <2>5
<1> QED
  BY <1>10, <1>11

LEMMA Tells ==
  ASSUME SteadyInv, HistInv, Next, Steady, Telling
  PROVE  /\ Tell /\ hist' = RememberedOf(hist, calls[Running.nav]) /\ DOMAIN calls' = {}
         /\ UNCHANGED <<prevRoute, generation>> /\ ~Telling' /\ prevRoute # Nowhere /\ generation # 0
<1>1. BaseInv /\ Types /\ CallTypes /\ QuestionInv /\ Alone /\ InHand /\ AtARoute
  BY DEF SteadyInv, CalmInv, BaseInv, Types
<1>2. ~Idle /\ Running.at = "telling"
  BY DEF Telling
<1>3. Running.nav \in DOMAIN calls /\ calls[Running.nav] \in CallType /\ Running.nav \in 1..generation \cup {Activation}
  BY <1>1, <1>2, TheCall
<1>4. Tell
  <2>1. ~EnterAllowed /\ ~LeaveAllowed /\ ~Block /\ ~Ask
    BY <1>2 DEF EnterAllowed, LeaveAllowed, Block, Ask, Refusers
  <2>2. ~Take /\ ~Snapshot /\ ~LeaveChain /\ ~Stand
    BY <1>2 DEF Take, Snapshot, LeaveChain, Stand
  <2>3. ~TakeSleeper /\ ~Install /\ ~Rollback /\ ~GiveUp
    BY <1>2 DEF TakeSleeper, Install, Rollback, GiveUp, Building
  <2>4. ~Wake
    BY <1>2 DEF Wake, Waking
  <2>5. ~Arrive /\ ~FallBack
    BY <1>2 DEF Arrive, FallBack, Waking
  <2>6. ~Navigates /\ ~\E n \in asking, allowed \in BOOLEAN : Answer(n, allowed)
    BY <1>2, CalledFromIdle DEF Steady
  <2>7. ~BeginFrame /\ ~EndFrame /\ ~Deactivate /\ ~\E r \in Route : Activate(r)
    BY <1>2 DEF BeginFrame, EndFrame, Deactivate, Activate
  <2> QED
    BY <1>1, <2>1, <2>2, <2>3, <2>4, <2>5, <2>6, <2>7, Steps
<1>5. /\ hist' = RememberedOf(hist, calls[Running.nav]) /\ UNCHANGED <<prevRoute, generation>> /\ Returns
  BY <1>4 DEF Tell, Remembered, RememberedOf, askVars
<1>6. DOMAIN calls' = {}
  BY <1>1, <1>4, NoneLeft
<1>7. ~Telling'
  BY <1>1, <1>2, <1>5, TheOnly DEF Alone, Types, Telling
<1>8. prevRoute # Nowhere
  BY <1>1, <1>2, <1>3, RouterAssumption DEF AtARoute, CallType
<1>9. generation # 0
  BY <1>8 DEF HistInv
<1> QED
  BY <1>4, <1>5, <1>6, <1>7, <1>8, <1>9

LEMMA HistInvKept ==
  ASSUME SteadyInv, HistInv, AgainInv, Next, Remembering
  PROVE  HistInv'
<1>1. BaseInv /\ Steady
  BY DEF SteadyInv, CalmInv, Remembering
<1>2. CASE Telling
  <2>1. /\ DOMAIN calls' = {} /\ ~Telling' /\ UNCHANGED <<prevRoute, generation>>
        /\ prevRoute # Nowhere /\ generation # 0
    BY <1>1, <1>2, Tells
  <2> QED
    BY <2>1 DEF HistInv, Stepped, Stepping
<1>3. CASE Arrive
  <2>1. /\ prevRoute' # Nowhere /\ UNCHANGED generation /\ generation # 0 /\ DOMAIN calls = {Running.nav}
        /\ (DOMAIN calls' = {} /\ ~Telling') \/ (UNCHANGED calls /\ Telling')
    BY <1>1, <1>3, Arrives
  <2>2. CASE DOMAIN calls' = {} /\ ~Telling'
    BY <2>1, <2>2 DEF HistInv, Stepped, Stepping
  <2>3. CASE UNCHANGED calls /\ Telling'
    BY <2>1, <2>3 DEF HistInv
  <2> QED
    BY <2>1, <2>2, <2>3
<1>4. CASE Back \/ Forward
  <2>1. Stepped(hist', calls', prevRoute') /\ UNCHANGED prevRoute /\ ~Telling /\ ~Telling' /\ prevRoute' # Nowhere
    BY <1>4, StepsOut
  <2> QED
    BY <1>1, <2>1, CallsLeave DEF HistInv
<1>5. CASE ~Telling /\ ~Arrive /\ ~Back /\ ~Forward
  <2>1. Settling(hist, calls, hist', calls') /\ UNCHANGED prevRoute
    BY <1>5, QuietSteps
  <2>2. ~Telling'
    BY <1>1, <1>5, ToldOnArrival DEF SteadyInv, CalmInv
  <2>3. Stepped(hist, calls, prevRoute)
    BY <1>5 DEF HistInv
  <2>4. Stepped(hist', calls', prevRoute') /\ (prevRoute = Nowhere => hist' = hist)
    BY <2>1, <2>3, SettlingPutsBack
  <2> QED
    BY <1>1, <1>5, <2>1, <2>2, <2>4, CallsLeave DEF HistInv
<1> QED
  BY <1>2, <1>3, <1>4, <1>5

RememberingInv == SteadyInv /\ HistInv /\ AgainInv
SettledAs == Settled = IF Telling THEN RememberedOf(hist, calls[Running.nav]) ELSE Put(hist, calls)

LEMMA RememberingBegins ==
  ASSUME Init
  PROVE  RememberingInv /\ Settled = hist
<1>1. /\ hist.back = <<>> /\ hist.forward = <<>> /\ prevRoute = Nowhere /\ DOMAIN calls = {} /\ Idle
  BY DEF Init, Idle
<1>2. HistInv /\ AgainInv /\ ~Telling
  BY <1>1 DEF HistInv, AgainInv, Stepped, Stepping, Telling
<1>3. SteadyInv
  BY SteadyBegins
<1>4. Settled = Put(hist, calls)
  BY <1>2, <1>3, SettledIs DEF SteadyInv, CalmInv
<1> QED
  BY <1>1, <1>2, <1>3, <1>4 DEF RememberingInv, Put, Stepping

LEMMA RememberingInductive ==
  ASSUME RememberingInv, [Next]_vars, Remembering
  PROVE  RememberingInv'
<1>1. SteadyInv'
  BY SteadyInductive DEF RememberingInv, Remembering
<1>2. CASE Next
  BY <1>1, <1>2, HistInvKept, AgainInvKept DEF RememberingInv
<1>3. CASE UNCHANGED vars
  BY <1>1, <1>3 DEF vars, RememberingInv, HistInv, AgainInv, Telling, Underway, Idle, Running
<1> QED
  BY <1>2, <1>3

\* What the history becomes in between an arrival and its being told of is
\* what a browser's becomes.
LEMMA WhatArrivalDoes ==
  ASSUME NEW h \in Histories, NEW cs, NEW n, DOMAIN cs = {n}, cs[n] \in CallType,
         NEW p \in Route \cup {Nowhere}, cs[n].leaving = p, Stepped(h, cs, p),
         cs[n].step \in {"to", "back", "forward"}
  PROVE  LET s == Put(h, cs)
             t == RememberedOf(h, cs[n])
         IN  \/ cs[n].step = "to" /\ p = Nowhere /\ s = h /\ t = h
             \/ /\ cs[n].step = "to" /\ p # Nowhere /\ s = h
                /\ t.back = Append(s.back, p) /\ t.forward = <<>>
             \/ /\ p # Nowhere /\ s.back # <<>> /\ t.back = Front(s.back)
                /\ cs[n].route = Last(s.back) /\ t.forward = Append(s.forward, p)
             \/ /\ p # Nowhere /\ s.forward # <<>> /\ t.back = Append(s.back, p)
                /\ cs[n].route = Last(s.forward) /\ t.forward = Front(s.forward)
<1> DEFINE s == Put(h, cs)
           t == RememberedOf(h, cs[n])
           r == cs[n].route
<1>1. h.back \in Seq(Route) /\ h.forward \in Seq(Route)
  BY DEF Histories
<1>2. r \in Route
  BY DEF CallType
<1>3. CASE cs[n].step = "to"
  <2>1. s = h
    BY <1>3 DEF Put, Stepping
  <2>2. t = IF p # Nowhere THEN [back |-> Append(h.back, p), forward |-> <<>>] ELSE h
    BY <1>3 DEF RememberedOf
  <2> HIDE DEF s, t
  <2>3. \/ p = Nowhere /\ s = h /\ t = h
        \/ p # Nowhere /\ s = h /\ t.back = Append(s.back, p) /\ t.forward = <<>>
    BY <2>1, <2>2
  <2> QED
    BY <1>3, <2>3 DEF s, t
<1>4. CASE cs[n].step = "back"
  <2>1. Stepping(cs) = {n} /\ t = h
    BY <1>4 DEF Stepping, RememberedOf
  <2>2. s = RefusedOf(h, cs[n])
    BY <2>1, TheStep
  <2>3. s.back = Append(h.back, r) /\ s.forward = Pop(h.forward)
    BY <1>4, <2>2 DEF RefusedOf
  <2>4. p # Nowhere /\ p \in Route /\ h.forward # <<>> /\ Last(h.forward) = p
    BY <1>4, <2>1 DEF Stepped
  <2> HIDE DEF s, t, r
  <2>5. s.back # <<>> /\ Last(s.back) = r /\ Front(s.back) = h.back
    BY <1>1, <1>2, <2>3, BackAndForth
  <2>6. Append(s.forward, p) = h.forward
    BY <1>1, <2>3, <2>4, BackAndForth
  <2>7. /\ p # Nowhere /\ s.back # <<>> /\ t.back = Front(s.back)
        /\ r = Last(s.back) /\ t.forward = Append(s.forward, p)
    BY <2>1, <2>4, <2>5, <2>6
  <2> QED
    BY <2>7 DEF s, t, r
<1>5. CASE cs[n].step = "forward"
  <2>1. Stepping(cs) = {n} /\ t = h
    BY <1>5 DEF Stepping, RememberedOf
  <2>2. s = RefusedOf(h, cs[n])
    BY <2>1, TheStep
  <2>3. s.forward = Append(h.forward, r) /\ s.back = Pop(h.back)
    BY <1>5, <2>2 DEF RefusedOf
  <2>4. p # Nowhere /\ p \in Route /\ h.back # <<>> /\ Last(h.back) = p
    BY <1>5, <2>1 DEF Stepped
  <2> HIDE DEF s, t, r
  <2>5. s.forward # <<>> /\ Last(s.forward) = r /\ Front(s.forward) = h.forward
    BY <1>1, <1>2, <2>3, BackAndForth
  <2>6. Append(s.back, p) = h.back
    BY <1>1, <2>3, <2>4, BackAndForth
  <2>7. /\ p # Nowhere /\ s.forward # <<>> /\ t.back = Append(s.back, p)
        /\ r = Last(s.forward) /\ t.forward = Front(s.forward)
    BY <2>1, <2>4, <2>5, <2>6
  <2> QED
    BY <2>7 DEF s, t, r
<1> QED
  BY <1>3, <1>4, <1>5

\* An arrival is a step of the browser's.
LEMMA ArrivalsMove ==
  ASSUME RememberingInv, SettledAs, SettledAs', Next, Remembering, Arrive
  PROVE  Browser!Next
<1>1. SteadyInv /\ HistInv /\ Steady /\ BaseInv /\ Types
  BY DEF RememberingInv, Remembering, SteadyInv, CalmInv, BaseInv
<1> DEFINE n == Running.nav
           r == calls[n].route
<1>2. /\ ~Telling /\ DOMAIN calls = {n} /\ UNCHANGED hist
      /\ prevRoute' = r /\ r \in Route /\ r # Nowhere /\ calls[n].leaving = prevRoute
      /\ \/ calls[n].step = "start" /\ DOMAIN calls' = {} /\ ~Telling' /\ prevRoute = Nowhere
         \/ /\ calls[n].step \in {"to", "back", "forward"} /\ UNCHANGED calls
            /\ Telling' /\ Running'.nav = n
  BY <1>1, Arrives
<1>3. Settled = Put(hist, calls)
  BY <1>2 DEF SettledAs
<1>4. /\ hist \in Histories /\ hist.back \in Seq(Route) /\ hist.forward \in Seq(Route)
      /\ prevRoute \in Route \cup {Nowhere}
  BY <1>1 DEF Types, HistTypes, Histories, ChainTypes
<1>5. CASE calls[n].step = "start"
  <2>1. Settled = hist
    BY <1>2, <1>3, <1>5 DEF Put, Stepping
  <2>2. Settled' = hist'
    BY <1>2, <1>5 DEF SettledAs, Put, Stepping
  <2>3. Browser!Begin(r)
    BY <1>2, <1>5, <2>1, <2>2 DEF Browser!Begin
  <2> QED
    BY <1>2, <2>3 DEF Browser!Next
<1>6. CASE calls[n].step # "start"
  <2>1. Settled' = RememberedOf(hist, calls[n])
    BY <1>2, <1>6 DEF SettledAs
  <2>2. calls[n] \in CallType
    BY <1>1, <1>2 DEF Types, CallTypes, Partial
  <2>3. Stepped(hist, calls, prevRoute)
    BY <1>1, <1>2 DEF HistInv
  <2> HIDE DEF n
  <2>4. \/ calls[n].step = "to" /\ prevRoute = Nowhere /\ Settled = hist /\ Settled' = hist
        \/ /\ calls[n].step = "to" /\ prevRoute # Nowhere /\ Settled = hist
           /\ Settled'.back = Append(Settled.back, prevRoute) /\ Settled'.forward = <<>>
        \/ /\ prevRoute # Nowhere /\ Settled.back # <<>> /\ Settled'.back = Front(Settled.back)
           /\ r = Last(Settled.back) /\ Settled'.forward = Append(Settled.forward, prevRoute)
        \/ /\ prevRoute # Nowhere /\ Settled.forward # <<>> /\ Settled'.back = Append(Settled.back, prevRoute)
           /\ r = Last(Settled.forward) /\ Settled'.forward = Front(Settled.forward)
    BY <1>2, <1>3, <1>4, <1>6, <2>1, <2>2, <2>3, WhatArrivalDoes
  <2>5. CASE calls[n].step = "to" /\ prevRoute = Nowhere /\ Settled = hist /\ Settled' = hist
    <3>1. Browser!Begin(r)
      BY <1>2, <2>5 DEF Browser!Begin
    <3> QED
      BY <1>2, <3>1 DEF Browser!Next
  <2>6. CASE /\ calls[n].step = "to" /\ prevRoute # Nowhere /\ Settled = hist
             /\ Settled'.back = Append(Settled.back, prevRoute) /\ Settled'.forward = <<>>
    <3>1. Browser!Visit(r)
      BY <1>2, <2>6 DEF Browser!Visit
    <3> QED
      BY <1>2, <3>1 DEF Browser!Next
  <2>7. CASE /\ prevRoute # Nowhere /\ Settled.back # <<>> /\ Settled'.back = Front(Settled.back)
             /\ r = Last(Settled.back) /\ Settled'.forward = Append(Settled.forward, prevRoute)
    <3>1. Browser!StepBack
      BY <1>2, <2>7 DEF Browser!StepBack, Browser!Last, Browser!Front, Last, Front
    <3> QED
      BY <3>1 DEF Browser!Next
  <2>8. CASE /\ prevRoute # Nowhere /\ Settled.forward # <<>> /\ Settled'.back = Append(Settled.back, prevRoute)
             /\ r = Last(Settled.forward) /\ Settled'.forward = Front(Settled.forward)
    <3>1. Browser!StepForward
      BY <1>2, <2>8 DEF Browser!StepForward, Browser!Last, Browser!Front, Last, Front
    <3> QED
      BY <3>1 DEF Browser!Next
  <2> QED
    BY <2>4, <2>5, <2>6, <2>7, <2>8
<1> QED
  BY <1>5, <1>6

\* Nothing else is.
LEMMA BrowserSteps ==
  ASSUME RememberingInv, SettledAs, SettledAs', [Next]_vars, Remembering
  PROVE  [Browser!Next]_(Browser!vars)
<1>1. SteadyInv /\ HistInv /\ AgainInv /\ Steady
  BY DEF RememberingInv, Remembering
<1>2. CASE UNCHANGED vars
  <2>1. UNCHANGED <<hist, calls, stack, prevRoute>>
    BY <1>2 DEF vars
  <2>2. UNCHANGED <<Settled, prevRoute>>
    BY <2>1, TheSettled
  <2> QED
    BY <2>2 DEF Browser!vars
<1>3. CASE Next /\ Arrive
  BY <1>3, ArrivalsMove
<1>4. CASE Next /\ Telling
  <2>1. hist' = RememberedOf(hist, calls[Running.nav]) /\ DOMAIN calls' = {} /\ ~Telling' /\ UNCHANGED prevRoute
    BY <1>1, <1>4, Tells
  <2>2. Settled' = hist' /\ Settled = hist'
    BY <1>4, <2>1 DEF SettledAs, Put, Stepping
  <2> QED
    BY <2>1, <2>2 DEF Browser!vars
<1>5. CASE Next /\ (Back \/ Forward)
  <2>1. /\ Put(hist', calls') = Put(hist, calls) /\ UNCHANGED prevRoute /\ ~Telling /\ ~Telling'
    BY <1>1, <1>5, StepsOut
  <2>2. UNCHANGED Settled
    BY <2>1 DEF SettledAs
  <2> QED
    BY <2>1, <2>2 DEF Browser!vars
<1>6. CASE Next /\ ~Telling /\ ~Arrive /\ ~Back /\ ~Forward
  <2>1. Settling(hist, calls, hist', calls') /\ UNCHANGED prevRoute
    BY <1>1, <1>6, QuietSteps
  <2>2. ~Telling'
    BY <1>1, <1>6, ToldOnArrival DEF SteadyInv, CalmInv
  <2>3. Stepped(hist, calls, prevRoute)
    BY <1>1, <1>6 DEF HistInv
  <2>4. Put(hist', calls') = Put(hist, calls)
    BY <2>1, <2>3, SettlingPutsBack
  <2>5. UNCHANGED Settled
    BY <1>6, <2>2, <2>4 DEF SettledAs
  <2> QED
    BY <2>1, <2>5 DEF Browser!vars
<1> QED
  BY <1>2, <1>3, <1>4, <1>5, <1>6

\* Where, besides, back and forward come one at a time, what failed can be put
\* back and the router is not deactivated: the history is a browser's, which
\* moves as a navigation arrives and is what it was when one is refused, fails
\* or is superseded (router.rs:443-569, 1605-1643).
THEOREM HistoryIsABrowsers == Remembering => (Spec => ImplementsHistory)
<1>1. SUFFICES ASSUME Remembering PROVE Spec => ImplementsHistory
  OBVIOUS
<1>2. Init => RememberingInv /\ Browser!Init
  <2>1. SUFFICES ASSUME Init PROVE RememberingInv /\ Browser!Init
    OBVIOUS
  <2>2. RememberingInv /\ Settled = hist
    BY <2>1, RememberingBegins
  <2>3. hist.back = <<>> /\ hist.forward = <<>> /\ prevRoute = Nowhere
    BY <2>1 DEF Init
  <2> QED
    BY <2>2, <2>3 DEF Browser!Init
<1>3. RememberingInv /\ [Next]_vars => RememberingInv'
  BY <1>1, RememberingInductive
<1>4. RememberingInv => SettledAs
  BY SettledIs DEF RememberingInv, SteadyInv, CalmInv, SettledAs
<1>5. RememberingInv /\ SettledAs /\ SettledAs' /\ [Next]_vars => [Browser!Next]_(Browser!vars)
  BY <1>1, BrowserSteps
<1> QED
  BY <1>2, <1>3, <1>4, <1>5, PTL DEF Spec, ImplementsHistory, Browser!Spec
=============================================================================

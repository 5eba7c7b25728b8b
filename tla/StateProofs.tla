---------------------------- MODULE StateProofs ----------------------------
(***************************************************************************)
(* Where state lives: the arena the scopes of an application are in, and   *)
(* the store iced keeps the nodes of its pages in.  What holds of the      *)
(* arena is proved for any number of scopes, trees and resources, what     *)
(* holds of the store for any routes.                                      *)
(***************************************************************************)
EXTENDS ScopeTree, Nodes, SequenceTheorems, FiniteSetTheorems, WellFoundedInduction, TLAPS

-----------------------------------------------------------------------------
(* Sequences, and what collect returns. *)

\* What is left of a sequence without its last element.
LEMMA FrontLast ==
  ASSUME NEW S, NEW s \in Seq(S), s # <<>>
  PROVE  /\ Front(s) \in Seq(S)
         /\ Last(s) \in S
         /\ Len(s) \in Nat \ {0}
         /\ Last(s) = s[Len(s)]
         /\ Len(Front(s)) = Len(s) - 1
         /\ \A k \in 1..(Len(s) - 1) : Front(s)[k] = s[k]
<1>1. Len(s) \in Nat \ {0}
  BY EmptySeq
<1>2. \A k \in 1..(Len(s) - 1) : s[k] \in S
  BY <1>1, ElementOfSeq
<1>3. /\ SubSeq(s, 1, Len(s) - 1) \in Seq(S)
      /\ Len(SubSeq(s, 1, Len(s) - 1)) = IF 1 <= Len(s) - 1 THEN Len(s) - 1 - 1 + 1 ELSE 0
      /\ \A k \in 1..(Len(s) - 1 - 1 + 1) : SubSeq(s, 1, Len(s) - 1)[k] = s[1 + k - 1]
  <2>1. 1 \in Int /\ Len(s) - 1 \in Int
    BY <1>1
  <2>. QED
    BY <1>1, <1>2, <2>1, SubSeqProperties
<1>4. Front(s) = SubSeq(s, 1, Len(s) - 1) /\ Last(s) = s[Len(s)]
  BY DEF Front, Last
<1>5. s[Len(s)] \in S
  BY <1>1, ElementOfSeq
<1>6. Front(s) \in Seq(S) /\ Len(Front(s)) = Len(s) - 1
  <2> DEFINE n == Len(s)
             f == SubSeq(s, 1, n - 1)
  <2>1. Len(f) = IF 1 <= n - 1 THEN n - 1 - 1 + 1 ELSE 0
    BY <1>3
  <2>2. n \in Nat \ {0}
    BY <1>1
  <2> HIDE DEF n, f
  <2>3. Len(f) = n - 1
    BY <2>1, <2>2
  <2>. QED
    BY <1>3, <1>4, <2>3 DEF n, f
<1>7. \A k \in 1..(Len(s) - 1) : Front(s)[k] = s[k]
  <2> SUFFICES ASSUME NEW k \in 1..(Len(s) - 1)
               PROVE  Front(s)[k] = s[k]
    OBVIOUS
  <2>1. k \in 1..(Len(s) - 1 - 1 + 1) /\ 1 + k - 1 = k
    BY <1>1
  <2>. QED
    BY <1>3, <1>4, <2>1
<1>. QED
  BY <1>1, <1>4, <1>5, <1>6, <1>7

\* The slots are finitely many, and so is what is under one of them.
LEMMA UnderFinite ==
  ASSUME NEW s \in Slot
  PROVE  /\ Under(s) \subseteq Slot
         /\ Cardinality(Under(s)) \in Nat
<1>1. Under(s) \subseteq Slot
  BY DEF Under, UnderIn
<1>2. IsFiniteSet(Slot)
  <2>1. 1 \in Int /\ MaxTrees \in Int /\ MaxSerial \in Int
    BY ScopeTreeAssumption
  <2>2. IsFiniteSet(Place) /\ IsFiniteSet(Index)
    BY <2>1, FS_Interval DEF Place, Index
  <2>. QED
    BY <2>2, FS_Product DEF Slot
<1>. QED
  BY <1>1, <1>2, FS_Subset, FS_CardinalityType

\* collect lists what is under s, each slot once.
LEMMA CollectListsUnder ==
  ASSUME NEW s \in Slot, NEW visit \in Collect(s)
  PROVE  /\ Cardinality(Under(s)) \in Nat
         /\ visit \in [1..Cardinality(Under(s)) -> Under(s)]
         /\ visit \in Seq(Slot)
         /\ {visit[k] : k \in DOMAIN visit} = Under(s)
         /\ \A k, l \in DOMAIN visit : visit[k] = visit[l] => k = l
<1>1. Cardinality(Under(s)) \in Nat /\ Under(s) \subseteq Slot
  BY UnderFinite
<1>2. visit \in Bijection(1..Cardinality(Under(s)), Under(s))
  BY DEF Collect, CollectIn, Under
<1>3. /\ visit \in [1..Cardinality(Under(s)) -> Under(s)]
      /\ \A k, l \in DOMAIN visit : visit[k] = visit[l] => k = l
      /\ \A u \in Under(s) : \E k \in 1..Cardinality(Under(s)) : visit[k] = u
  BY <1>2 DEF Bijection, Injection, Surjection, IsInjective
<1>. QED
  BY <1>1, <1>3

-----------------------------------------------------------------------------
(* Types.  A tree has fewer nodes than scopes were made, so the index of a  *)
(* new node is an index; serials are numbers already given.                 *)

SerialsUsed ==
  /\ \A t \in Place : len[t] < nextSerial
  /\ \A s \in Slot : serial[s] < nextSerial
  /\ \A n \in names : n.serial # 0 /\ n.serial < nextSerial

TypeInv == TypeOK /\ SerialsUsed

\* Where insert puts a scope.
LEMMA NextIndexType ==
  ASSUME TypeInv, nextSerial <= MaxSerial, NEW t \in Place
  PROVE  /\ NextIndex(t) \in Index
         /\ free[t] = <<>> => NextIndex(t) = len[t] + 1
         /\ free[t] # <<>> => NextIndex(t) = Last(free[t]) /\ Front(free[t]) \in Seq(Index)
<1>1. CASE free[t] = <<>>
  <2>1. len[t] \in Nat /\ len[t] < nextSerial /\ nextSerial \in Nat
    BY DEF TypeInv, TypeOK, SerialsUsed
  <2>. QED
    BY <1>1, <2>1, ScopeTreeAssumption DEF NextIndex, Index
<1>2. CASE free[t] # <<>>
  <2>1. free[t] \in Seq(Index)
    BY DEF TypeInv, TypeOK
  <2>. QED
    BY <1>2, <2>1, FrontLast DEF NextIndex
<1>. QED
  BY <1>1, <1>2

\* A new scope in a tree: its slot is one, and only that slot, its parent's
\* children and the free list change.
LEMMA InsertType ==
  ASSUME TypeInv, NEW t \in Place, NEW p \in Slot, p[1] = t, Insert(t, p),
         UNCHANGED <<held, stack, torn, given>>
  PROVE  TypeInv'
<1> DEFINE s == <<t, NextIndex(t)>>
<1>1. s \in Slot /\ nextSerial <= MaxSerial
  BY NextIndexType DEF Insert, Slot
<1> HIDE DEF s
<1>2. /\ serial' = [serial EXCEPT ![s] = nextSerial]
      /\ parent' = [parent EXCEPT ![s] = p]
      /\ children' = [children EXCEPT ![p] = @ \cup {s}]
      /\ owns' = [owns EXCEPT ![s] = <<>>]
      /\ nextSerial' = nextSerial + 1
      /\ names' = names \cup {[slot |-> s, serial |-> nextSerial]}
  BY DEF Insert, s
<1>3. len' \in [Place -> Nat] /\ \A u \in Place : len'[u] < nextSerial + 1
  BY DEF Insert, TypeInv, TypeOK, SerialsUsed
<1>4. free' \in [Place -> Seq(Index)]
  <2>1. CASE free[t] = <<>>
    BY <2>1 DEF Insert, TypeInv, TypeOK
  <2>2. CASE free[t] # <<>>
    BY <1>1, <2>2, NextIndexType DEF Insert, TypeInv, TypeOK
  <2>. QED
    BY <2>1, <2>2
<1>5. /\ serial' \in [Slot -> Nat]
      /\ \A u \in Slot : serial'[u] < nextSerial + 1
  BY <1>1, <1>2 DEF TypeInv, TypeOK, SerialsUsed
<1>6. parent' \in [Slot -> Slot \cup {NoSlot}] /\ children' \in [Slot -> SUBSET Slot]
  BY <1>1, <1>2 DEF TypeInv, TypeOK
<1>7. owns' \in [Slot -> Seq(Resource)]
  BY <1>1, <1>2 DEF TypeInv, TypeOK
<1>8. /\ names' \subseteq Name
      /\ \A n \in names' : n.serial # 0 /\ n.serial < nextSerial + 1
  BY <1>1, <1>2 DEF TypeInv, TypeOK, SerialsUsed, Name
<1>9. nextSerial' \in Nat \ {0}
  BY <1>2 DEF TypeInv, TypeOK
<1>. QED
  BY <1>2, <1>3, <1>4, <1>5, <1>6, <1>7, <1>8, <1>9 DEF TypeInv, TypeOK, SerialsUsed

\* Taking a subtree out.
LEMMA RemoveType ==
  ASSUME TypeInv, NEW s \in Slot, NEW drops \in Place \cup {NoTree}, RemoveWith(s, drops)
  PROVE  TypeInv'
<1>1. PICK visit \in Collect(s) :
        /\ Detach(s, visit)
        /\ stack' = Append(stack, [detached |-> [k \in DOMAIN visit |-> owns[visit[k]]],
                                   drops |-> drops])
  BY DEF RemoveWith
<1>2. /\ visit \in Seq(Slot)
      /\ Cardinality(Under(s)) \in Nat
      /\ visit \in [1..Cardinality(Under(s)) -> Slot]
  BY CollectListsUnder, UnderFinite
<1>3. UNCHANGED <<held, len, nextSerial, torn, names, given>>
  BY DEF RemoveWith
<1>4. /\ serial' \in [Slot -> Nat]
      /\ \A u \in Slot : serial'[u] < nextSerial
  BY <1>1 DEF Detach, TypeInv, TypeOK, SerialsUsed
<1>5. parent' \in [Slot -> Slot \cup {NoSlot}] /\ children' \in [Slot -> SUBSET Slot]
  BY <1>1 DEF Detach, TypeInv, TypeOK
<1>6. owns' \in [Slot -> Seq(Resource)]
  BY <1>1 DEF Detach, TypeInv, TypeOK
<1>7. free' \in [Place -> Seq(Index)]
  <2>1. s[1] \in Place
    BY DEF Slot
  <2>2. \A k \in 1..Cardinality(Under(s)) : visit[k][2] \in Index
    BY <1>2 DEF Slot
  <2>3. [k \in DOMAIN visit |-> visit[k][2]] \in Seq(Index)
    BY <1>2, <2>2
  <2>4. free[s[1]] \o [k \in DOMAIN visit |-> visit[k][2]] \in Seq(Index)
    BY <2>1, <2>3, ConcatProperties DEF TypeInv, TypeOK
  <2>. QED
    BY <1>1, <2>1, <2>4 DEF Detach, TypeInv, TypeOK
<1>8. stack' \in Seq(Frame)
  <2>1. [k \in DOMAIN visit |-> owns[visit[k]]] \in Seq(Seq(Resource))
    <3>1. \A k \in 1..Cardinality(Under(s)) : owns[visit[k]] \in Seq(Resource)
      BY <1>2 DEF TypeInv, TypeOK
    <3>. QED
      BY <1>2, <3>1
  <2>2. [detached |-> [k \in DOMAIN visit |-> owns[visit[k]]], drops |-> drops] \in Frame
    BY <2>1 DEF Frame
  <2>. QED
    BY <1>1, <2>2 DEF TypeInv, TypeOK
<1>. QED
  BY <1>3, <1>4, <1>5, <1>6, <1>7, <1>8 DEF TypeInv, TypeOK, SerialsUsed

LEMMA NewTreeType ==
  ASSUME TypeInv, NEW t \in Place, NewTree(t)
  PROVE  TypeInv'
<1>1. <<t, 1>> \in Slot
  BY ScopeTreeAssumption DEF Slot, Index
<1>2. /\ held' \in [Place -> BOOLEAN]
      /\ len' \in [Place -> Nat]
      /\ \A u \in Place : len'[u] < nextSerial + 1
  BY DEF NewTree, TypeInv, TypeOK, SerialsUsed
<1>3. free' \in [Place -> Seq(Index)]
  BY DEF NewTree, TypeInv, TypeOK
<1>4. /\ serial' \in [Slot -> Nat]
      /\ \A u \in Slot : serial'[u] < nextSerial + 1
  BY DEF NewTree, TypeInv, TypeOK, SerialsUsed
<1>5. /\ parent' \in [Slot -> Slot \cup {NoSlot}]
      /\ children' \in [Slot -> SUBSET Slot]
      /\ owns' \in [Slot -> Seq(Resource)]
  BY DEF NewTree, TypeInv, TypeOK
<1>6. /\ names' \subseteq Name
      /\ \A n \in names' : n.serial # 0 /\ n.serial < nextSerial + 1
  <2> DEFINE root == <<t, 1>>
  <2>1. root \in Slot /\ names' = names \cup {[slot |-> root, serial |-> nextSerial]}
    BY <1>1 DEF NewTree
  <2> HIDE DEF root
  <2>. QED
    BY <2>1 DEF TypeInv, TypeOK, SerialsUsed, Name
<1>. QED
  BY <1>2, <1>3, <1>4, <1>5, <1>6 DEF NewTree, TypeInv, TypeOK, SerialsUsed

LEMMA TearDownType ==
  ASSUME TypeInv, TearDown
  PROVE  TypeInv'
<1> DEFINE frame == Last(stack)
           left == frame.detached
<1>1. stack \in Seq(Frame) /\ stack # <<>> /\ Len(stack) \in 1..Len(stack)
  BY EmptySeq DEF TypeInv, TypeOK, TearDown
<1>2. frame \in Frame /\ frame = stack[Len(stack)]
  BY <1>1, FrontLast
<1>3. left \in Seq(Seq(Resource))
  BY <1>2 DEF Frame
<1>4. PICK k \in DOMAIN left :
        /\ left[k] # <<>>
        /\ torn' = Append(torn, Last(left[k]))
        /\ stack' = [stack EXCEPT ![Len(stack)] =
                       [@ EXCEPT !.detached = [left EXCEPT ![k] = Front(left[k])]]]
  BY DEF TearDown
<1>5. k \in 1..Len(left) /\ left[k] \in Seq(Resource)
  BY <1>3, <1>4
<1>6. Last(left[k]) \in Resource /\ Front(left[k]) \in Seq(Resource)
  BY <1>4, <1>5, FrontLast
<1>7. [left EXCEPT ![k] = Front(left[k])] \in Seq(Seq(Resource))
  BY <1>3, <1>5, <1>6, ExceptSeq
<1>8. [stack[Len(stack)] EXCEPT !.detached = [left EXCEPT ![k] = Front(left[k])]] \in Frame
  BY <1>2, <1>7 DEF Frame
<1>9. stack' \in Seq(Frame)
  BY <1>1, <1>4, <1>8, ExceptSeq
<1>10. torn' \in Seq(Resource)
  BY <1>4, <1>6 DEF TypeInv, TypeOK
<1>. QED
  BY <1>9, <1>10 DEF TearDown, TypeInv, TypeOK, SerialsUsed, arena

LEMMA ReturnType ==
  ASSUME TypeInv, Return
  PROVE  TypeInv'
<1>1. stack' \in Seq(Frame)
  BY FrontLast DEF Return, TypeInv, TypeOK
<1>2. held' \in [Place -> BOOLEAN]
  BY DEF Return, TypeInv, TypeOK
<1>. QED
  BY <1>1, <1>2 DEF Return, TypeInv, TypeOK, SerialsUsed

LEMMA OwnType ==
  ASSUME TypeInv, NEW n \in names, NEW r \in Resource, Own(n, r)
  PROVE  TypeInv'
<1>1. n \in Name /\ n.slot \in Slot
  BY DEF TypeInv, TypeOK, Name
<1>2. owns' \in [Slot -> Seq(Resource)]
  BY <1>1 DEF Own, TypeInv, TypeOK
<1>3. torn' \in Seq(Resource)
  BY DEF Own, TypeInv, TypeOK
<1>4. given' \in Seq(Name \X Resource)
  BY <1>1 DEF Own, TypeInv, TypeOK
<1>. QED
  BY <1>2, <1>3, <1>4 DEF Own, TypeInv, TypeOK, SerialsUsed

\* Every name and every node stays of its type, and no serial is ever given
\* before its turn.
LEMMA TypeInductive == TypeInv /\ [Next]_vars => TypeInv'
<1> SUFFICES ASSUME TypeInv, [Next]_vars
             PROVE  TypeInv'
  OBVIOUS
<1>1. CASE TearDown
  BY <1>1, TearDownType
<1>2. CASE Return
  BY <1>2, ReturnType
<1>3. ASSUME NEW t \in Place, NewTree(t)
      PROVE  TypeInv'
  BY <1>3, NewTreeType
<1>4. ASSUME NEW t \in Place, DropTree(t)
      PROVE  TypeInv'
  <2>1. <<t, 1>> \in Slot
    BY ScopeTreeAssumption DEF Slot, Index
  <2>. QED
    BY <1>4, <2>1, RemoveType DEF DropTree
<1>5. ASSUME NEW t \in Place, DropEmptyTree(t)
      PROVE  TypeInv'
  BY <1>5 DEF DropEmptyTree, TypeInv, TypeOK, SerialsUsed
<1>6. ASSUME NEW n \in names
      PROVE  n.slot \in Slot /\ n.slot[1] \in Place
  BY DEF TypeInv, TypeOK, Name, Slot
<1>7. ASSUME NEW n \in names, Child(n)
      PROVE  TypeInv'
  BY <1>6, <1>7, InsertType DEF Child
<1>8. ASSUME NEW n \in names, RemoveScope(n)
      PROVE  TypeInv'
  BY <1>6, <1>8, RemoveType DEF RemoveScope
<1>9. ASSUME NEW n \in names, NEW r \in Resource, Own(n, r)
      PROVE  TypeInv'
  BY <1>9, OwnType
<1>10. CASE UNCHANGED vars
  BY <1>10 DEF vars, arena, TypeInv, TypeOK, SerialsUsed
<1>. QED
  BY <1>1, <1>2, <1>3, <1>4, <1>5, <1>7, <1>8, <1>9, <1>10 DEF Next

LEMMA TypeInit == Init => TypeInv
<1> SUFFICES ASSUME Init
             PROVE  TypeInv
  OBVIOUS
<1>1. \A S : <<>> \in Seq(S)
  BY EmptySeq
<1>. QED
  BY <1>1 DEF Init, TypeInv, TypeOK, SerialsUsed, NoSlot

\* The arena is always well typed, whatever the program does with names of
\* scopes that are gone.
THEOREM TypeCorrect == Spec => []TypeOK
<1>1. Spec => []TypeInv
  BY TypeInit, TypeInductive, PTL DEF Spec
<1>2. TypeInv => TypeOK
  BY DEF TypeInv
<1>. QED
  BY <1>1, <1>2, PTL

-----------------------------------------------------------------------------
(* Names.                                                                   *)

\* Whatever a step does to the slot of a name, the serial it leaves there is
\* the one it found, none, or one never given before.
LEMMA SerialsAreKeptClearedOrFresh ==
  ASSUME TypeInv, [Next]_vars, NEW n \in names, IsAlive(n)'
  PROVE  IsAlive(n)
<1>0. n \in Name /\ n.slot \in Slot /\ n.slot[1] \in Place
  BY DEF TypeInv, TypeOK, Name, Slot
<1>1. n.serial # 0 /\ n.serial # nextSerial
  BY DEF TypeInv, TypeOK, SerialsUsed, Name
<1>2. held'[n.slot[1]] /\ serial'[n.slot] = n.serial
  BY DEF IsAlive
<1>3. ASSUME NEW s \in Slot, NEW drops, RemoveWith(s, drops)
      PROVE  IsAlive(n)
  BY <1>0, <1>1, <1>2, <1>3 DEF RemoveWith, Detach, IsAlive
<1>4. CASE TearDown
  BY <1>1, <1>2, <1>4 DEF TearDown, arena, IsAlive
<1>5. CASE Return
  BY <1>0, <1>1, <1>2, <1>5 DEF Return, IsAlive
<1>6. ASSUME NEW t \in Place, NewTree(t)
      PROVE  IsAlive(n)
  BY <1>0, <1>1, <1>2, <1>6 DEF NewTree, IsAlive, TypeInv, TypeOK
<1>7. ASSUME NEW t \in Place, DropTree(t)
      PROVE  IsAlive(n)
  <2>1. <<t, 1>> \in Slot
    BY ScopeTreeAssumption DEF Slot, Index
  <2>. QED
    BY <1>3, <1>7, <2>1 DEF DropTree
<1>8. ASSUME NEW t \in Place, DropEmptyTree(t)
      PROVE  IsAlive(n)
  BY <1>0, <1>1, <1>2, <1>8 DEF DropEmptyTree, IsAlive, TypeInv, TypeOK
<1>9. ASSUME NEW m \in names, Child(m)
      PROVE  IsAlive(n)
  <2>1. serial' = [serial EXCEPT ![<<m.slot[1], NextIndex(m.slot[1])>>] = nextSerial]
    BY <1>9 DEF Child, Insert
  <2>2. n.slot # <<m.slot[1], NextIndex(m.slot[1])>>
    BY <1>0, <1>1, <1>2, <2>1 DEF TypeInv, TypeOK
  <2>3. serial'[n.slot] = serial[n.slot] /\ held' = held
    BY <1>0, <1>9, <2>1, <2>2 DEF Child, TypeInv, TypeOK
  <2>. QED
    BY <1>1, <1>2, <2>3 DEF IsAlive
<1>10. ASSUME NEW m \in names, RemoveScope(m)
       PROVE  IsAlive(n)
  <2>1. m.slot \in Slot
    BY DEF TypeInv, TypeOK, Name
  <2>. QED
    BY <1>3, <1>10, <2>1 DEF RemoveScope
<1>11. ASSUME NEW m \in names, NEW r \in Resource, Own(m, r)
       PROVE  IsAlive(n)
  BY <1>1, <1>2, <1>11 DEF Own, IsAlive
<1>12. CASE UNCHANGED vars
  BY <1>1, <1>2, <1>12 DEF vars, arena, IsAlive
<1>. QED
  BY <1>4, <1>5, <1>6, <1>7, <1>8, <1>9, <1>10, <1>11, <1>12 DEF Next

\* "A removed scope's name never comes back", for any number of trees and
\* scopes: a name that is dead is dead for good.
THEOREM DeadNamesStayDead == Spec => NameNeverComesBack
<1>1. TypeInv /\ [Next]_vars => [\A n \in names : ~IsAlive(n) => ~IsAlive(n)']_vars
  BY SerialsAreKeptClearedOrFresh
<1>2. Spec => []TypeInv
  BY TypeInit, TypeInductive, PTL DEF Spec
<1>. QED
  BY <1>1, <1>2, PTL DEF Spec, NameNeverComesBack

-----------------------------------------------------------------------------
(* The arena stays in step.                                                *)

Root(t) == <<t, 1>>

\* What the free list and the links rest on: the first node of a tree is its
\* root and has no parent, nothing hangs from another tree, and every scope of
\* a tree hangs from its root, so that a tree whose root is gone has none left
\* to insert under and the first node is never given to another scope.
Rooted ==
  /\ \A c \in Live : parent[c] # NoSlot => parent[c][1] = c[1]
  /\ \A t \in Place : parent[Root(t)] = NoSlot
  /\ \A s \in Live : s \in Under(Root(s[1]))

ArenaInv ==
  /\ TypeInv
  /\ nextSerial <= MaxSerial + 1
  /\ ArenaInStep
  /\ Rooted

\* What is under a live scope: itself, and nothing but live scopes of its tree
\* whose parents are under it too; and whatever hangs from what is under it.
LEMMA UnderALiveScope ==
  ASSUME ArenaInv, NEW s \in Live
  PROVE  /\ s \in Under(s)
         /\ \A u \in Under(s) : u \in Live /\ u[1] = s[1]
         /\ \A u \in Under(s) : children[u] \subseteq Under(s)
         /\ \A u \in Under(s) : u # s => parent[u] \in Under(s)
<1> DEFINE tree == {u \in Slot : u[1] = s[1]}
           Closed(S) == s \in S /\ \A p \in S : children[p] \subseteq S
<1>0. Live \subseteq Slot /\ s \in tree
  BY DEF Live
<1>1. \A u : u \in Under(s) <=> u \in tree /\ \A S \in SUBSET tree : Closed(S) => u \in S
  BY DEF Under, UnderIn
<1>2. \A u \in Slot : \A c \in children[u] : c \in Live /\ u \in Live /\ parent[c] = u
  BY DEF ArenaInv, ArenaInStep, Linked
<1>3. \A u \in tree : children[u] \subseteq tree
  <2>1. \A u \in Slot : u # NoSlot
    BY ScopeTreeAssumption DEF Slot, Place, Index, NoSlot
  <2>. QED
    BY <1>0, <1>2, <2>1 DEF ArenaInv, Rooted
<1>4. s \in Under(s)
  BY <1>0, <1>1
<1>5. \A u \in Under(s) : children[u] \subseteq Under(s)
  BY <1>1, <1>3
<1>6. Under(s) \subseteq tree
  BY <1>1
<1>7. \A u \in Under(s) : u \in Live /\ (u # s => parent[u] \in Under(s))
  <2> DEFINE V == {u \in Under(s) : u \in Live /\ (u # s => parent[u] \in Under(s))}
  <2>1. s \in V
    BY <1>4
  <2>2. ASSUME NEW p \in V, NEW c \in children[p]
        PROVE  c \in V
    <3>1. p \in Slot /\ p \in Under(s)
      BY <1>6
    <3>2. c \in Under(s)
      BY <1>5, <3>1
    <3>3. c \in Live /\ parent[c] = p
      BY <1>2, <3>1
    <3>. QED
      BY <3>1, <3>2, <3>3
  <2>3. V \in SUBSET tree
    BY <1>6
  <2> HIDE DEF V
  <2>4. Under(s) \subseteq V
    BY <1>1, <2>1, <2>2, <2>3
  <2>. QED
    BY <2>4 DEF V
<1>. QED
  BY <1>4, <1>5, <1>6, <1>7

\* A tree that has a scope has its root, and the root has no parent: so the
\* first node is under no other scope.
LEMMA TheRootIsThere ==
  ASSUME ArenaInv, NEW s \in Live
  PROVE  /\ s[1] \in Place
         /\ Root(s[1]) \in Live
         /\ \A u \in Live : u # Root(u[1]) => Root(u[1]) \notin Under(u)
<1>1. s \in Slot /\ s[1] \in Place /\ Root(s[1]) \in Slot
  BY ScopeTreeAssumption DEF Live, Slot, Index, Root
<1>2. Root(s[1]) \in Live
  <2> DEFINE r == Root(s[1])
  <2>1. s \in Under(r)
    BY DEF ArenaInv, Rooted
  <2>2. SUFFICES ASSUME r \notin Live
                 PROVE  FALSE
    OBVIOUS
  <2>3. r \in Slot /\ r[1] = s[1]
    BY <1>1 DEF Root
  <2>4. children[r] = {}
    BY <2>2, <2>3 DEF ArenaInv, ArenaInStep, Linked
  <2> HIDE DEF r
  <2>5. {r} \in SUBSET {u \in Slot : u[1] = r[1]}
    BY <2>3
  <2>6. s = r
    BY <2>1, <2>4, <2>5 DEF Under, UnderIn
  <2>. QED
    BY <2>2, <2>6
<1>3. ASSUME NEW u \in Live, u # Root(u[1]), Root(u[1]) \in Under(u)
      PROVE  FALSE
  <2>1. u \in Slot /\ u[1] \in Place
    BY DEF Live, Slot
  <2>2. parent[Root(u[1])] \in Under(u) /\ parent[Root(u[1])] = NoSlot
    BY <1>3, <2>1, UnderALiveScope DEF ArenaInv, Rooted
  <2>3. NoSlot \in Slot
    BY <2>1, <2>2, UnderFinite
  <2>. QED
    BY <2>3, ScopeTreeAssumption DEF NoSlot, Slot, Place, Index
<1>. QED
  BY <1>1, <1>2, <1>3

\* A set of slots of its tree that holds a slot and is closed under children
\* holds all that is under it.
LEMMA UnderIsLeast ==
  ASSUME NEW s \in Slot, NEW S \in SUBSET {u \in Slot : u[1] = s[1]}, s \in S,
         \A p \in S : children[p] \subseteq S
  PROVE  Under(s) \subseteq S
BY DEF Under, UnderIn

\* A new scope: it takes an empty node, never the first, and hangs from a scope
\* that is there.
LEMMA InsertInStep ==
  ASSUME ArenaInv, NEW t \in Place, NEW p \in Live, p[1] = t, Insert(t, p)
  PROVE  ArenaInStep' /\ Rooted'
<1> DEFINE i == NextIndex(t)
           s == <<t, i>>
<1>0. /\ TypeInv /\ p \in Slot /\ nextSerial <= MaxSerial
      /\ nextSerial \in Nat \ {0} /\ len[t] \in Nat /\ free[t] \in Seq(Index)
  BY DEF ArenaInv, TypeInv, TypeOK, Live, Insert
<1>1. /\ i \in Index
      /\ free[t] = <<>> => i = len[t] + 1
      /\ free[t] # <<>> => i = Last(free[t]) /\ Front(free[t]) \in Seq(Index)
  BY <1>0, NextIndexType
<1>2. /\ s \in Slot /\ s[1] = t /\ s[2] = i
  BY <1>1 DEF Slot
<1>3. serial[s] = 0 /\ (free[t] # <<>> => i \in 1..len[t])
  <2>1. CASE free[t] = <<>>
    BY <1>0, <1>1, <2>1 DEF ArenaInv, ArenaInStep, FreeIsEmptySlots
  <2>2. CASE free[t] # <<>>
    <3>1. Len(free[t]) \in DOMAIN free[t] /\ i = free[t][Len(free[t])]
      BY <1>0, <1>1, <2>2, FrontLast, LenProperties
    <3>2. i \in {free[t][k] : k \in DOMAIN free[t]}
      BY <3>1
    <3>. QED
      BY <3>2 DEF ArenaInv, ArenaInStep, FreeIsEmptySlots
  <2>. QED
    BY <2>1, <2>2
<1>4. i # 1
  <2>1. Root(t) \in Live /\ Root(t) = <<t, 1>>
    BY TheRootIsThere DEF Root
  <2>. QED
    BY <1>3, <2>1 DEF Live
<1>5. /\ serial' = [serial EXCEPT ![s] = nextSerial]
      /\ parent' = [parent EXCEPT ![s] = p]
      /\ children' = [children EXCEPT ![p] = @ \cup {s}]
      /\ len' = IF free[t] = <<>> THEN [len EXCEPT ![t] = @ + 1] ELSE len
      /\ free' = IF free[t] = <<>> THEN free ELSE [free EXCEPT ![t] = Front(@)]
  BY DEF Insert
<1> HIDE DEF i, s
<1>6. /\ s \notin Live
      /\ Live' = Live \cup {s}
      /\ \A u \in Slot : u # s => serial'[u] = serial[u] /\ parent'[u] = parent[u]
      /\ serial'[s] # 0 /\ parent'[s] = p
      /\ \A u \in Slot : u # p => children'[u] = children[u]
      /\ children'[p] = children[p] \cup {s}
  BY <1>0, <1>2, <1>3, <1>5 DEF Live, TypeInv, TypeOK
<1>7. FreeIsEmptySlots'
  <2> DEFINE Free(u) == {free[u][k] : k \in DOMAIN free[u]}
             FreeAfter(u) == {free'[u][k] : k \in DOMAIN free'[u]}
             Empty(u) == {j \in 1..len[u] : serial[<<u, j>>] = 0}
             EmptyAfter(u) == {j \in 1..len'[u] : serial'[<<u, j>>] = 0}
  <2>1. ASSUME NEW u \in Place
        PROVE  /\ \A k, l \in DOMAIN free[u] : free[u][k] = free[u][l] => k = l
               /\ Free(u) = Empty(u)
               /\ \A j \in Index : j > len[u] => serial[<<u, j>>] = 0
    BY DEF ArenaInv, ArenaInStep, FreeIsEmptySlots
  <2>2. ASSUME NEW u \in Place, u # t
        PROVE  /\ free'[u] = free[u] /\ len'[u] = len[u]
               /\ \A j : serial'[<<u, j>>] = serial[<<u, j>>]
    BY <1>0, <1>2, <1>5, <2>2 DEF TypeInv, TypeOK
  <2>3. ASSUME NEW u \in Place
        PROVE  /\ \A k, l \in DOMAIN free'[u] : free'[u][k] = free'[u][l] => k = l
               /\ FreeAfter(u) = EmptyAfter(u)
               /\ \A j \in Index : j > len'[u] => serial'[<<u, j>>] = 0
    <3>1. CASE u # t
      BY <2>1, <2>2, <3>1
    <3>2. CASE u = t /\ free[t] = <<>>
      <4>1. free'[t] = <<>> /\ len'[t] = len[t] + 1 /\ i = len[t] + 1
        BY <1>0, <1>1, <1>5, <3>2 DEF TypeInv, TypeOK
      <4>2. \A j \in Index : <<t, j>> \in Slot /\ (j # i => serial'[<<t, j>>] = serial[<<t, j>>])
        BY <1>2, <1>6 DEF Slot
      <4>3. serial'[<<t, i>>] # 0
        BY <1>6 DEF s
      <4>4. Empty(t) = {}
        BY <2>1, <3>2
      <4>5. EmptyAfter(t) = {}
        <5>1. SUFFICES ASSUME NEW j \in 1..(len[t] + 1), serial'[<<t, j>>] = 0
                       PROVE  FALSE
          BY <4>1
        <5>2. j \in 1..len[t]
          <6>1. j # i
            BY <4>3, <5>1
          <6>2. j # len[t] + 1
            BY <4>1, <6>1
          <6>. QED
            BY <1>0, <5>1, <6>2
        <5>3. j \in Index
          BY <1>0, <1>1, <4>1, <5>2, ScopeTreeAssumption DEF Index
        <5>4. serial[<<t, j>>] = 0
          BY <1>0, <4>1, <4>2, <5>1, <5>2, <5>3
        <5>. QED
          BY <4>4, <5>2, <5>4
      <4>6. \A j \in Index : j > len'[t] => serial'[<<t, j>>] = 0
        <5> SUFFICES ASSUME NEW j \in Index, j > len'[t]
                     PROVE  serial'[<<t, j>>] = 0
          OBVIOUS
        <5>1. j > len[t] /\ j # i
          BY <1>0, <4>1 DEF Index
        <5>. QED
          BY <2>1, <4>2, <5>1
      <4>. QED
        BY <3>2, <4>1, <4>5, <4>6
    <3>3. CASE u = t /\ free[t] # <<>>
      <4>1. free'[t] = Front(free[t]) /\ len'[t] = len[t]
        BY <1>0, <1>5, <3>3 DEF TypeInv, TypeOK
      <4>2. /\ Len(free[t]) \in Nat \ {0} /\ DOMAIN free[t] = 1..Len(free[t])
            /\ DOMAIN free'[t] = 1..(Len(free[t]) - 1)
            /\ \A k \in 1..(Len(free[t]) - 1) : free'[t][k] = free[t][k]
            /\ free[t][Len(free[t])] = i
        BY <1>0, <1>1, <3>3, <4>1, FrontLast, LenProperties
      <4>3. \A k, l \in DOMAIN free'[t] : free'[t][k] = free'[t][l] => k = l
        BY <2>1, <4>2
      <4>4. FreeAfter(t) = Free(t) \ {i}
        <5>1. ASSUME NEW j \in FreeAfter(t)
              PROVE  j \in Free(t) /\ j # i
          <6>1. PICK k \in 1..(Len(free[t]) - 1) : j = free'[t][k]
            BY <4>2
          <6>2. k \in DOMAIN free[t] /\ Len(free[t]) \in DOMAIN free[t] /\ k # Len(free[t]) /\ j = free[t][k]
            BY <4>2, <6>1
          <6>. QED
            BY <2>1, <4>2, <6>2
        <5>2. ASSUME NEW j \in Free(t), j # i
              PROVE  j \in FreeAfter(t)
          <6>1. PICK k \in 1..Len(free[t]) : j = free[t][k]
            BY <4>2
          <6>2. k \in 1..(Len(free[t]) - 1)
            BY <4>2, <5>2, <6>1
          <6>. QED
            BY <4>2, <6>1, <6>2
        <5>. QED
          BY <5>1, <5>2
      <4>5. \A j \in Index : <<t, j>> \in Slot /\ (j # i => serial'[<<t, j>>] = serial[<<t, j>>])
        BY <1>2, <1>6 DEF Slot
      <4>6. \A j \in 1..len[t] : j \in Index
        BY <1>0, ScopeTreeAssumption DEF Index, TypeInv, SerialsUsed
      <4>7. EmptyAfter(t) = Empty(t) \ {i}
        <5>1. serial'[<<t, i>>] # 0
          BY <1>6 DEF s
        <5>. QED
          BY <4>1, <4>5, <4>6, <5>1
      <4>8. \A j \in Index : j > len[t] => j # i
        BY <1>0, <1>3, <3>3 DEF Index
      <4>9. \A j \in Index : j > len'[t] => serial'[<<t, j>>] = 0
        BY <2>1, <4>1, <4>5, <4>8
      <4>. QED
        BY <2>1, <3>3, <4>3, <4>4, <4>7, <4>9
    <3>. QED
      BY <3>1, <3>2, <3>3
  <2>. QED
    BY <2>3 DEF FreeIsEmptySlots
<1>8. Linked'
  <2>1. \A u \in Slot : children[u] = {c \in Live : u \in Live /\ parent[c] = u}
    BY DEF ArenaInv, ArenaInStep, Linked
  <2>2. \A u \in Live : u[2] # 1 => parent[u] \in Live
    BY DEF ArenaInv, ArenaInStep, Linked, Live
  <2>3. \A c \in Live : parent[c] # s
    <3> SUFFICES ASSUME NEW c \in Live, parent[c] = s
                 PROVE  FALSE
      OBVIOUS
    <3>1. c \in Slot /\ c[2] = 1
      BY <1>6, <2>2 DEF Live
    <3>2. c = Root(c[1]) /\ c[1] \in Place
      BY <3>1 DEF Slot, Root
    <3>3. parent[c] = NoSlot
      BY <3>2 DEF ArenaInv, Rooted
    <3>. QED
      BY <1>2, <3>3, ScopeTreeAssumption DEF NoSlot, Slot, Place, Index
  <2>4. \A c \in Slot : c \in Live => c # s
    BY <1>6
  <2>5. ASSUME NEW u \in Slot
        PROVE  children'[u] = {c \in Live' : u \in Live' /\ parent'[c] = u}
    <3>1. Live \subseteq Slot
      BY DEF Live
    <3>2. CASE u = p
      BY <1>2, <1>6, <2>1, <2>4, <3>1, <3>2
    <3>3. CASE u = s
      <4>1. u # p /\ children[u] = {}
        BY <1>6, <2>1, <3>3
      <4>2. \A c \in Live' : parent'[c] # s
        BY <1>6, <2>3, <3>1, <3>3, <4>1
      <4>. QED
        BY <1>6, <3>3, <4>1, <4>2
    <3>4. CASE u # p /\ u # s
      BY <1>6, <2>1, <3>1, <3>4
    <3>. QED
      BY <3>2, <3>3, <3>4
  <2>6. ASSUME NEW u \in Live', u[2] # 1
        PROVE  parent'[u] \in Live'
    BY <1>2, <1>6, <2>2, <2>6 DEF Live
  <2>. QED
    BY <2>5, <2>6 DEF Linked
<1>9. Rooted'
  <2>1. ASSUME NEW c \in Live', parent'[c] # NoSlot
        PROVE  parent'[c][1] = c[1]
    <3>1. CASE c = s
      BY <1>2, <1>6, <3>1
    <3>2. CASE c # s
      <4>1. c \in Live /\ c \in Slot /\ parent'[c] = parent[c]
        BY <1>6, <3>2 DEF Live
      <4>. QED
        BY <2>1, <4>1 DEF ArenaInv, Rooted
    <3>. QED
      BY <3>1, <3>2
  <2>2. ASSUME NEW u \in Place
        PROVE  parent'[Root(u)] = NoSlot
    <3>1. Root(u) \in Slot /\ Root(u) # s
      BY <1>2, <1>4, ScopeTreeAssumption DEF Root, Slot, Index
    <3>. QED
      BY <1>6, <3>1 DEF ArenaInv, Rooted
  <2>3. ASSUME NEW u \in Live'
        PROVE  u \in Under(Root(u[1]))'
    <3> DEFINE r == Root(u[1])
               tree == {v \in Slot : v[1] = r[1]}
    <3>1. u \in Slot /\ r[1] = u[1] /\ r \in Slot
      BY <1>2, <1>6, ScopeTreeAssumption DEF Live, Root, Slot, Index
    <3>2. ASSUME NEW S \in SUBSET tree, r \in S, \A v \in S : children'[v] \subseteq S
          PROVE  u \in S
      <4>1. \A v \in S : children[v] \subseteq S
        BY <1>6, <3>2
      <4> HIDE DEF r
      <4>2. Under(r) \subseteq S
        BY <3>1, <3>2, <4>1, UnderIsLeast
      <4>3. \A v \in Live : v[1] = u[1] => v \in S
        BY <4>2 DEF ArenaInv, Rooted, r
      <4>4. CASE u = s
        <5>1. p \in S
          BY <1>2, <4>3, <4>4
        <5>. QED
          BY <1>6, <3>2, <4>4, <5>1
      <4>. QED
        BY <1>6, <4>3, <4>4
    <3>3. u \in tree
      BY <3>1
    <3>4. Under(r)' = {v \in tree : \A S \in SUBSET tree : r \in S /\ (\A q \in S : children'[q] \subseteq S) => v \in S}
      BY DEF Under, UnderIn, Root
    <3> HIDE DEF r, tree
    <3>5. u \in Under(r)'
      BY <3>2, <3>3, <3>4
    <3>. QED
      BY <3>5 DEF r
  <2>. QED
    BY <2>1, <2>2, <2>3 DEF Rooted, Root
<1>. QED
  BY <1>7, <1>8, <1>9 DEF ArenaInStep

\* A removal: what is under the scope leaves the arena as a whole, and all
\* that stays still hangs from its root.
LEMMA RemoveInStep ==
  ASSUME ArenaInv, NEW s \in Live, NEW drops, RemoveWith(s, drops)
  PROVE  ArenaInStep' /\ Rooted'
<1> DEFINE U == Under(s)
           t == s[1]
<1>0. /\ TypeInv /\ s \in Slot /\ t \in Place /\ U \subseteq Slot
      /\ free \in [Place -> Seq(Index)] /\ len \in [Place -> Nat]
  BY UnderFinite DEF ArenaInv, TypeInv, TypeOK, Live, Slot
<1>1. PICK visit \in Collect(s) : Detach(s, visit)
  BY DEF RemoveWith
<1>2. /\ len' = len
      /\ Cardinality(U) \in Nat
      /\ visit \in [1..Cardinality(U) -> U]
      /\ {visit[k] : k \in DOMAIN visit} = U
      /\ \A k, l \in DOMAIN visit : visit[k] = visit[l] => k = l
  BY <1>0, CollectListsUnder DEF RemoveWith
<1>3. /\ \A u \in Slot : serial'[u] = IF u \in U THEN 0 ELSE serial[u]
      /\ \A u \in Slot : parent'[u] = IF u \in U THEN NoSlot ELSE parent[u]
      /\ \A u \in Slot : children'[u] = IF u \in U THEN {} ELSE children[u] \ {s}
      /\ free' = [free EXCEPT ![t] = @ \o [k \in DOMAIN visit |-> visit[k][2]]]
  BY <1>1, <1>2 DEF Detach
<1>4. /\ s \in U
      /\ \A u \in U : u \in Live /\ u[1] = t
      /\ \A u \in U : children[u] \subseteq U
      /\ \A u \in U : u # s => parent[u] \in U
  BY UnderALiveScope
<1> HIDE DEF U, t
<1>5. Live' = Live \ U
  BY <1>0, <1>3 DEF Live
<1>6. /\ \A u \in Slot : children[u] = {c \in Live : u \in Live /\ parent[c] = u}
      /\ \A u \in Live : u[2] # 1 => parent[u] \in Live
      /\ Live \subseteq Slot
  BY DEF ArenaInv, ArenaInStep, Linked, Live
<1>7. FreeIsEmptySlots'
  <2> DEFINE more == [k \in DOMAIN visit |-> visit[k][2]]
             Free(u) == {free[u][k] : k \in DOMAIN free[u]}
             FreeAfter(u) == {free'[u][k] : k \in DOMAIN free'[u]}
             Empty(u) == {j \in 1..len[u] : serial[<<u, j>>] = 0}
             EmptyAfter(u) == {j \in 1..len'[u] : serial'[<<u, j>>] = 0}
  <2>1. ASSUME NEW u \in Place
        PROVE  /\ \A k, l \in DOMAIN free[u] : free[u][k] = free[u][l] => k = l
               /\ Free(u) = Empty(u)
               /\ \A j \in Index : j > len[u] => serial[<<u, j>>] = 0
    BY DEF ArenaInv, ArenaInStep, FreeIsEmptySlots
  <2>2. ASSUME NEW u \in Place, NEW j \in Index
        PROVE  <<u, j>> \in Slot /\ serial'[<<u, j>>] = IF <<u, j>> \in U THEN 0 ELSE serial[<<u, j>>]
    BY <1>3 DEF Slot
  <2>3. \A u \in Place : \A j \in 1..len[u] : j \in Index
    <3>1. \A u \in Place : len[u] \in Nat /\ len[u] <= MaxSerial
      BY <1>0, ScopeTreeAssumption DEF ArenaInv, TypeInv, TypeOK, SerialsUsed
    <3>. QED
      BY <3>1, ScopeTreeAssumption DEF Index
  <2>4. ASSUME NEW u \in Place, u # t
        PROVE  /\ \A k, l \in DOMAIN free'[u] : free'[u][k] = free'[u][l] => k = l
               /\ FreeAfter(u) = EmptyAfter(u)
    <3>1. free'[u] = free[u] /\ len'[u] = len[u]
      BY <1>0, <1>2, <1>3, <2>4
    <3>2. \A j \in Index : serial'[<<u, j>>] = serial[<<u, j>>]
      BY <1>4, <2>2, <2>4
    <3>. QED
      BY <2>1, <2>3, <3>1, <3>2
  <2>5. ASSUME NEW u \in Place
        PROVE  \A j \in Index : j > len'[u] => serial'[<<u, j>>] = 0
    BY <1>2, <2>1, <2>2
  <2>6. /\ more \in [1..Cardinality(U) -> Index]
        /\ \A k \in 1..Cardinality(U) : visit[k] = <<t, more[k]>>
    <3>1. \A k \in 1..Cardinality(U) : visit[k] \in U /\ visit[k] \in Slot
      BY <1>0, <1>2
    <3>2. \A k \in 1..Cardinality(U) : visit[k][2] \in Index /\ visit[k] = <<t, visit[k][2]>>
      BY <1>4, <3>1 DEF Slot
    <3>. QED
      BY <1>2, <3>2
  <2>7. more \in Seq(Index) /\ Len(more) = Cardinality(U)
    BY <1>2, <2>6
  <2>8. /\ free'[t] = free[t] \o more
        /\ free[t] \in Seq(Index)
    BY <1>0, <1>3
  <2> HIDE DEF more
  <2>9. /\ Len(free[t]) \in Nat
        /\ DOMAIN free[t] = 1..Len(free[t])
        /\ DOMAIN free'[t] = 1..(Len(free[t]) + Cardinality(U))
        /\ \A k \in 1..(Len(free[t]) + Cardinality(U)) :
              free'[t][k] = IF k <= Len(free[t]) THEN free[t][k] ELSE more[k - Len(free[t])]
    <3>1. free[t] \o more \in Seq(Index) /\ Len(free[t] \o more) = Len(free[t]) + Len(more)
      BY <2>7, <2>8, ConcatProperties
    <3>2. \A k \in 1..(Len(free[t]) + Len(more)) :
             (free[t] \o more)[k] = IF k <= Len(free[t]) THEN free[t][k] ELSE more[k - Len(free[t])]
      BY <2>7, <2>8, ConcatProperties
    <3>. QED
      BY <2>7, <2>8, <3>1, <3>2, LenProperties
  <2>10. \A k \in 1..Len(free[t]) : serial[<<t, free[t][k]>>] = 0
    BY <1>0, <2>1, <2>9
  <2>11. \A k \in 1..Cardinality(U) : serial[<<t, more[k]>>] # 0 /\ more[k] \in 1..len[t]
    <3> SUFFICES ASSUME NEW k \in 1..Cardinality(U)
                 PROVE  serial[<<t, more[k]>>] # 0 /\ more[k] \in 1..len[t]
      OBVIOUS
    <3>1. visit[k] \in Live /\ more[k] \in Index
      BY <1>2, <1>4, <2>6
    <3>2. serial[<<t, more[k]>>] # 0
      BY <2>6, <3>1 DEF Live
    <3>3. ~(more[k] > len[t])
      BY <1>0, <2>1, <3>1, <3>2
    <3>. QED
      BY <1>0, <3>1, <3>2, <3>3 DEF Index
  <2>12. \A k, l \in 1..Cardinality(U) : more[k] = more[l] => k = l
    BY <1>2, <2>6
  <2>13. ASSUME NEW k \in DOMAIN free'[t], NEW l \in DOMAIN free'[t], free'[t][k] = free'[t][l]
         PROVE  k = l
    <3>1. k \in Nat /\ l \in Nat /\ Len(free[t]) \in Nat /\ Cardinality(U) \in Nat
      BY <1>2, <2>9
    <3>2. CASE k <= Len(free[t]) /\ l <= Len(free[t])
      <4>1. k \in DOMAIN free[t] /\ l \in DOMAIN free[t] /\ free[t][k] = free[t][l]
        BY <2>9, <2>13, <3>1, <3>2
      <4>. QED
        BY <1>0, <2>1, <4>1
    <3>3. CASE ~(k <= Len(free[t])) /\ ~(l <= Len(free[t]))
      <4>1. /\ k - Len(free[t]) \in 1..Cardinality(U) /\ l - Len(free[t]) \in 1..Cardinality(U)
            /\ more[k - Len(free[t])] = more[l - Len(free[t])]
        BY <2>9, <2>13, <3>1, <3>3
      <4>2. k - Len(free[t]) = l - Len(free[t])
        BY <2>12, <4>1
      <4>. QED
        BY <3>1, <4>2
    <3>4. CASE k <= Len(free[t]) /\ ~(l <= Len(free[t]))
      <4>1. k \in 1..Len(free[t]) /\ l - Len(free[t]) \in 1..Cardinality(U)
        BY <2>9, <3>1, <3>4
      <4>. QED
        BY <2>9, <2>10, <2>11, <2>13, <3>4, <4>1
    <3>5. CASE ~(k <= Len(free[t])) /\ l <= Len(free[t])
      <4>1. l \in 1..Len(free[t]) /\ k - Len(free[t]) \in 1..Cardinality(U)
        BY <2>9, <3>1, <3>5
      <4>. QED
        BY <2>9, <2>10, <2>11, <2>13, <3>5, <4>1
    <3>. QED
      BY <3>2, <3>3, <3>4, <3>5
  <2>14. FreeAfter(t) = EmptyAfter(t)
    <3>1. ASSUME NEW k \in DOMAIN free'[t]
          PROVE  free'[t][k] \in EmptyAfter(t)
      <4>1. CASE k <= Len(free[t])
        <5>1. k \in DOMAIN free[t] /\ free'[t][k] = free[t][k]
          BY <2>9, <3>1, <4>1
        <5>2. free[t][k] \in Empty(t)
          BY <1>0, <2>1, <5>1
        <5>. QED
          BY <1>0, <1>2, <2>2, <2>3, <5>1, <5>2
      <4>2. CASE ~(k <= Len(free[t]))
        <5>1. k - Len(free[t]) \in 1..Cardinality(U) /\ free'[t][k] = more[k - Len(free[t])]
          BY <1>2, <2>9, <3>1, <4>2
        <5>2. <<t, free'[t][k]>> \in U /\ free'[t][k] \in 1..len[t]
          BY <1>2, <2>6, <2>11, <5>1
        <5>. QED
          BY <1>0, <1>2, <2>2, <2>3, <5>2
      <4>. QED
        BY <4>1, <4>2
    <3>2. ASSUME NEW j \in EmptyAfter(t)
          PROVE  \E k \in DOMAIN free'[t] : free'[t][k] = j
      <4>1. j \in 1..len[t] /\ j \in Index /\ serial'[<<t, j>>] = 0
        BY <1>0, <1>2, <2>3
      <4>2. CASE <<t, j>> \in U
        <5>1. PICK k \in 1..Cardinality(U) : visit[k] = <<t, j>>
          BY <1>2, <4>2
        <5>2. more[k] = j
          BY <2>6, <5>1
        <5>3. Len(free[t]) + k \in DOMAIN free'[t] /\ free'[t][Len(free[t]) + k] = more[k]
          <6>1. Len(free[t]) + k - Len(free[t]) = k /\ ~(Len(free[t]) + k <= Len(free[t]))
            BY <1>2, <2>9
          <6>2. Len(free[t]) + k \in 1..(Len(free[t]) + Cardinality(U))
            BY <1>2, <2>9
          <6>. QED
            BY <2>9, <6>1, <6>2
        <5>. QED
          BY <5>2, <5>3
      <4>3. CASE <<t, j>> \notin U
        <5>1. j \in Empty(t)
          BY <1>0, <2>2, <4>1, <4>3
        <5>2. PICK k \in DOMAIN free[t] : free[t][k] = j
          BY <1>0, <2>1, <5>1
        <5>3. k \in DOMAIN free'[t] /\ free'[t][k] = free[t][k]
          BY <1>2, <2>9
        <5>. QED
          BY <5>2, <5>3
      <4>. QED
        BY <4>2, <4>3
    <3>. QED
      BY <3>1, <3>2
  <2>. QED
    BY <2>4, <2>5, <2>13, <2>14 DEF FreeIsEmptySlots
<1>8. Linked'
  <2>1. ASSUME NEW u \in Slot
        PROVE  children'[u] = {c \in Live' : u \in Live' /\ parent'[c] = u}
    <3>1. CASE u \in U
      BY <1>3, <1>5, <3>1
    <3>2. CASE u \notin U
      <4>1. children'[u] = {c \in Live : u \in Live /\ parent[c] = u} \ {s}
        BY <1>3, <1>6, <3>2
      <4>2. {c \in Live' : u \in Live' /\ parent'[c] = u} = {c \in Live \ U : u \in Live /\ parent[c] = u}
        BY <1>3, <1>5, <1>6, <3>2
      <4>3. \A c \in U : c # s => parent[c] # u
        BY <1>4, <3>2
      <4>. QED
        BY <1>4, <4>1, <4>2, <4>3
    <3>. QED
      BY <3>1, <3>2
  <2>2. ASSUME NEW u \in Live', u[2] # 1
        PROVE  parent'[u] \in Live'
    <3>1. u \in Live /\ u \notin U /\ u \in Slot /\ parent'[u] = parent[u]
      BY <1>3, <1>5, <1>6
    <3>2. parent[u] \in Live /\ parent[u] \in Slot
      BY <1>6, <2>2, <3>1
    <3>3. u \in children[parent[u]]
      BY <1>6, <3>1, <3>2
    <3>4. parent[u] \notin U
      BY <1>4, <3>1, <3>3
    <3>. QED
      BY <1>5, <3>1, <3>2, <3>4
  <2>. QED
    BY <2>1, <2>2 DEF Linked, Live
<1>9. Rooted'
  <2>1. \A c \in Live' : parent'[c] # NoSlot => parent'[c][1] = c[1]
    BY <1>3, <1>5, <1>6 DEF ArenaInv, Rooted
  <2>2. \A u \in Place : parent'[Root(u)] = NoSlot
    <3> SUFFICES ASSUME NEW u \in Place
                 PROVE  parent'[Root(u)] = NoSlot
      OBVIOUS
    <3>1. Root(u) \in Slot
      BY ScopeTreeAssumption DEF Root, Slot, Index
    <3>. QED
      BY <1>3, <3>1 DEF ArenaInv, Rooted
  <2>3. ASSUME NEW u \in Live'
        PROVE  u \in Under(Root(u[1]))'
    <3> DEFINE r == Root(u[1])
               tree == {v \in Slot : v[1] = r[1]}
    <3>1. u \in Slot /\ u \in Live /\ u \notin U /\ u[1] \in Place /\ r[1] = u[1] /\ r \in Slot
      BY <1>5, <1>6, ScopeTreeAssumption DEF Root, Slot, Index
    <3>2. u \in Under(r)
      BY <3>1 DEF ArenaInv, Rooted
    <3>3. ASSUME NEW S \in SUBSET tree, r \in S, \A v \in S : children'[v] \subseteq S
          PROVE  u \in S
      <4> DEFINE V == S \cup {v \in U : v[1] = u[1]}
      <4>1. r \in V /\ V \in SUBSET tree
        BY <1>0, <3>1, <3>3
      <4>2. ASSUME NEW v \in V, NEW c \in children[v]
            PROVE  c \in V
        <5>1. CASE v \in U
          <6>1. v[1] = u[1] /\ c \in U
            BY <1>4, <3>1, <3>3, <5>1
          <6>2. c[1] = u[1]
            BY <1>4, <5>1, <6>1
          <6>. QED
            BY <6>1, <6>2
        <5>2. CASE v \notin U
          <6>1. v \in S /\ v \in Slot /\ v[1] = u[1]
            BY <3>1, <3>3, <5>2
          <6>2. c = s \/ c \in children'[v]
            BY <1>3, <4>2, <5>2, <6>1
          <6>3. CASE c = s
            <7>1. parent[c] = v /\ c \in Live
              BY <1>6, <4>2, <6>1
            <7>2. v # NoSlot
              BY <6>1, ScopeTreeAssumption DEF NoSlot, Slot, Place, Index
            <7>3. c[1] = u[1]
              BY <6>1, <7>1, <7>2 DEF ArenaInv, Rooted
            <7>. QED
              BY <1>4, <6>3, <7>3
          <6>4. CASE c \in children'[v]
            BY <3>3, <6>1, <6>4
          <6>. QED
            BY <6>2, <6>3, <6>4
        <5>. QED
          BY <5>1, <5>2
      <4> HIDE DEF V, r
      <4>3. V \in SUBSET {v \in Slot : v[1] = r[1]} /\ \A v \in V : children[v] \subseteq V
        BY <4>1, <4>2
      <4>4. u \in V
        BY <3>1, <3>2, <4>1, <4>3, UnderIsLeast
      <4>. QED
        BY <3>1, <4>4 DEF V
    <3>4. u \in tree
      BY <3>1
    <3>5. Under(r)' = {v \in tree : \A S \in SUBSET tree : r \in S /\ (\A q \in S : children'[q] \subseteq S) => v \in S}
      BY DEF Under, UnderIn, Root
    <3> HIDE DEF r, tree
    <3>6. u \in Under(r)'
      BY <3>3, <3>4, <3>5
    <3>. QED
      BY <3>6 DEF r
  <2>. QED
    BY <2>1, <2>2, <2>3 DEF Rooted, Root
<1>. QED
  BY <1>7, <1>8, <1>9 DEF ArenaInStep

\* A tree in the place of one that is gone: what is left of the old one goes
\* with it, and no other tree hangs from it.
LEMMA NewTreeInStep ==
  ASSUME ArenaInv, NEW t \in Place, NewTree(t)
  PROVE  ArenaInStep' /\ Rooted'
<1>0. /\ Root(t) \in Slot /\ Root(t)[1] = t /\ Root(t)[2] = 1 /\ Root(t) = <<t, 1>>
      /\ nextSerial \in Nat \ {0} /\ TypeInv
      /\ NoSlot \notin Slot
  <2>1. nextSerial \in Nat \ {0} /\ TypeInv
    BY DEF ArenaInv, TypeInv, TypeOK
  <2>2. NoSlot \notin Slot
    BY ScopeTreeAssumption DEF NoSlot, Slot, Place, Index
  <2>3. Root(t) \in Slot /\ Root(t) = <<t, 1>>
    BY ScopeTreeAssumption DEF Root, Slot, Index
  <2>. QED
    BY <2>1, <2>2, <2>3 DEF Root
<1>1. /\ len' = [len EXCEPT ![t] = 1]
      /\ free' = [free EXCEPT ![t] = <<>>]
      /\ \A u \in Slot : serial'[u] = IF u = Root(t) THEN nextSerial ELSE IF u[1] = t THEN 0 ELSE serial[u]
      /\ \A u \in Slot : parent'[u] = IF u[1] = t THEN NoSlot ELSE parent[u]
      /\ \A u \in Slot : children'[u] = IF u[1] = t THEN {} ELSE children[u]
  BY DEF NewTree, Root
<1>2. Live' = {u \in Live : u[1] # t} \cup {Root(t)}
  BY <1>0, <1>1 DEF Live
<1>3. /\ \A u \in Slot : children[u] = {c \in Live : u \in Live /\ parent[c] = u}
      /\ \A u \in Live : u[2] # 1 => parent[u] \in Live
      /\ \A c \in Live : parent[c] # NoSlot => parent[c][1] = c[1]
      /\ Live \subseteq Slot
  BY DEF ArenaInv, ArenaInStep, Linked, Rooted, Live
<1>4. FreeIsEmptySlots'
  <2>1. ASSUME NEW u \in Place, u # t
        PROVE  /\ free'[u] = free[u] /\ len'[u] = len[u]
               /\ \A j \in Index : serial'[<<u, j>>] = serial[<<u, j>>]
               /\ \A j \in 1..len[u] : j \in Index
    <3>1. len[u] \in Nat /\ len[u] <= MaxSerial
      BY <1>0, ScopeTreeAssumption DEF ArenaInv, TypeInv, TypeOK, SerialsUsed
    <3>2. \A j \in 1..len[u] : j \in Index
      BY <3>1, ScopeTreeAssumption DEF Index
    <3>3. ASSUME NEW j \in Index
          PROVE  serial'[<<u, j>>] = serial[<<u, j>>]
      <4>1. <<u, j>> \in Slot /\ <<u, j>>[1] = u /\ <<u, j>> # Root(t)
        BY <1>0, <2>1 DEF Slot
      <4>. QED
        BY <1>1, <2>1, <4>1
    <3>4. free'[u] = free[u] /\ len'[u] = len[u]
      BY <1>1, <2>1 DEF ArenaInv, TypeInv, TypeOK
    <3>. QED
      BY <3>2, <3>3, <3>4
  <2>2. ASSUME NEW u \in Place, u # t
        PROVE  /\ \A k, l \in DOMAIN free'[u] : free'[u][k] = free'[u][l] => k = l
               /\ {free'[u][k] : k \in DOMAIN free'[u]} = {j \in 1..len'[u] : serial'[<<u, j>>] = 0}
               /\ \A j \in Index : j > len'[u] => serial'[<<u, j>>] = 0
    <3>1. /\ \A k, l \in DOMAIN free[u] : free[u][k] = free[u][l] => k = l
          /\ {free[u][k] : k \in DOMAIN free[u]} = {j \in 1..len[u] : serial[<<u, j>>] = 0}
          /\ \A j \in Index : j > len[u] => serial[<<u, j>>] = 0
      BY DEF ArenaInv, ArenaInStep, FreeIsEmptySlots
    <3>. QED
      BY <2>1, <2>2, <3>1
  <2>3. /\ free'[t] = <<>> /\ len'[t] = 1
        /\ \A j \in Index : serial'[<<t, j>>] = IF j = 1 THEN nextSerial ELSE 0
        /\ 1 \in Index
    <3>1. 1 \in Index
      BY ScopeTreeAssumption DEF Index
    <3>2. ASSUME NEW j \in Index
          PROVE  serial'[<<t, j>>] = IF j = 1 THEN nextSerial ELSE 0
      <4>1. <<t, j>> \in Slot /\ <<t, j>>[1] = t /\ (<<t, j>> = Root(t) <=> j = 1)
        BY <1>0 DEF Slot
      <4>. QED
        BY <1>1, <4>1
    <3>. QED
      BY <1>1, <3>1, <3>2 DEF ArenaInv, TypeInv, TypeOK
  <2>4. /\ \A k, l \in DOMAIN free'[t] : free'[t][k] = free'[t][l] => k = l
        /\ {free'[t][k] : k \in DOMAIN free'[t]} = {}
    BY <2>3
  <2>5. {j \in 1..len'[t] : serial'[<<t, j>>] = 0} = {}
    BY <1>0, <2>3
  <2>6. \A j \in Index : j > len'[t] => serial'[<<t, j>>] = 0
    BY <2>3 DEF Index
  <2>. QED
    BY <2>2, <2>4, <2>5, <2>6 DEF FreeIsEmptySlots
<1>5. Linked'
  <2>1. ASSUME NEW u \in Slot
        PROVE  children'[u] = {c \in Live' : u \in Live' /\ parent'[c] = u}
    <3>1. u # NoSlot
      BY <1>0
    <3>2. CASE u[1] = t
      <4>1. \A c \in Live' : parent'[c] # u
        BY <1>0, <1>1, <1>2, <1>3, <3>1, <3>2
      <4>. QED
        BY <1>1, <3>2, <4>1
    <3>3. CASE u[1] # t
      <4>1. children'[u] = {c \in Live : u \in Live /\ parent[c] = u}
        BY <1>1, <1>3, <3>3
      <4>2. \A c \in Live : parent[c] = u => c[1] # t
        BY <1>3, <3>1, <3>3
      <4>3. \A c \in Live' : parent'[c] = u <=> c[1] # t /\ parent[c] = u
        BY <1>0, <1>1, <1>2, <1>3, <3>1
      <4>4. u \in Live' <=> u \in Live
        BY <1>0, <1>2, <3>3
      <4>. QED
        BY <1>0, <1>2, <4>1, <4>2, <4>3, <4>4
    <3>. QED
      BY <3>2, <3>3
  <2>2. ASSUME NEW u \in Live', u[2] # 1
        PROVE  parent'[u] \in Live'
    <3>1. u \in Live /\ u \in Slot /\ u[1] # t
      BY <1>0, <1>2, <1>3, <2>2
    <3>2. parent'[u] = parent[u] /\ parent[u] \in Live
      BY <1>1, <1>3, <2>2, <3>1
    <3>3. parent[u][1] = u[1]
      BY <1>0, <1>3, <3>1, <3>2
    <3>. QED
      BY <1>2, <3>1, <3>2, <3>3
  <2>. QED
    BY <2>1, <2>2 DEF Linked, Live
<1>6. Rooted'
  <2>1. \A c \in Live' : parent'[c] # NoSlot => parent'[c][1] = c[1]
    BY <1>0, <1>1, <1>2, <1>3
  <2>2. \A u \in Place : parent'[Root(u)] = NoSlot
    <3> SUFFICES ASSUME NEW u \in Place
                 PROVE  parent'[Root(u)] = NoSlot
      OBVIOUS
    <3>1. Root(u) \in Slot
      BY ScopeTreeAssumption DEF Root, Slot, Index
    <3>. QED
      BY <1>1, <3>1 DEF ArenaInv, Rooted
  <2>3. ASSUME NEW u \in Live'
        PROVE  u \in Under(Root(u[1]))'
    <3> DEFINE r == Root(u[1])
               tree == {v \in Slot : v[1] = r[1]}
    <3>1. u \in Slot /\ r[1] = u[1] /\ u \in tree
      BY <1>0, <1>2, <1>3 DEF Root
    <3>2. ASSUME NEW S \in SUBSET tree, r \in S, \A v \in S : children'[v] \subseteq S
          PROVE  u \in S
      <4>1. CASE u[1] = t
        <5>1. u = r
          BY <1>0, <1>2, <4>1
        <5>. QED
          BY <3>2, <5>1
      <4>2. CASE u[1] # t
        <5>1. u \in Under(r)
          BY <1>0, <1>2, <4>2 DEF ArenaInv, Rooted
        <5>2. \A v \in S : v \in Slot /\ v[1] # t /\ children'[v] = children[v]
          BY <1>1, <3>1, <3>2, <4>2
        <5>3. r \in Slot
          BY <3>2
        <5> HIDE DEF r
        <5>4. S \in SUBSET {v \in Slot : v[1] = r[1]} /\ \A v \in S : children[v] \subseteq S
          BY <3>2, <5>2
        <5>. QED
          BY <3>2, <5>1, <5>3, <5>4, UnderIsLeast
      <4>. QED
        BY <4>1, <4>2
    <3>3. Under(r)' = {v \in tree : \A S \in SUBSET tree : r \in S /\ (\A q \in S : children'[q] \subseteq S) => v \in S}
      BY DEF Under, UnderIn, Root
    <3> HIDE DEF r, tree
    <3>4. u \in Under(r)'
      BY <3>1, <3>2, <3>3
    <3>. QED
      BY <3>4 DEF r
  <2>. QED
    BY <2>1, <2>2, <2>3 DEF Rooted, Root
<1>. QED
  BY <1>4, <1>5, <1>6 DEF ArenaInStep

\* What the arena's visit is about: a step that leaves these alone leaves it.
LEMMA LinksUntouched ==
  ASSUME ArenaInv, UNCHANGED <<len, free, serial, parent, children>>
  PROVE  ArenaInStep' /\ Rooted'
<1>1. Live' = Live /\ \A s : Under(s)' = Under(s)
  BY DEF Live, Under, UnderIn
<1>2. FreeIsEmptySlots' /\ Linked'
  BY <1>1 DEF ArenaInv, ArenaInStep, FreeIsEmptySlots, Linked
<1>3. Rooted'
  BY <1>1 DEF ArenaInv, Rooted, Root
<1>. QED
  BY <1>2, <1>3 DEF ArenaInStep

LEMMA ArenaInductive == ArenaInv /\ [Next]_vars => ArenaInv'
<1> SUFFICES ASSUME ArenaInv, [Next]_vars
             PROVE  ArenaInv'
  OBVIOUS
<1>0. /\ TypeInv' /\ nextSerial \in Nat /\ MaxSerial \in Nat /\ nextSerial <= MaxSerial + 1
      /\ \A n \in names : n.slot \in Slot /\ n.slot[1] \in Place
  <2>1. TypeInv
    BY DEF ArenaInv
  <2>. QED
    BY <2>1, TypeInductive, ScopeTreeAssumption DEF ArenaInv, TypeInv, TypeOK, Name, Slot
<1>1. CASE TearDown
  BY <1>0, <1>1, LinksUntouched DEF TearDown, arena, ArenaInv
<1>2. CASE Return
  BY <1>0, <1>2, LinksUntouched DEF Return, ArenaInv
<1>3. ASSUME NEW t \in Place, NewTree(t)
      PROVE  ArenaInv'
  <2>1. nextSerial' <= MaxSerial + 1
    BY <1>0, <1>3 DEF NewTree
  <2>. QED
    BY <1>0, <1>3, <2>1, NewTreeInStep DEF ArenaInv
<1>4. ASSUME NEW s \in Live, NEW drops, RemoveWith(s, drops)
      PROVE  ArenaInv'
  <2>1. nextSerial' = nextSerial
    BY <1>4 DEF RemoveWith
  <2>. QED
    BY <1>0, <1>4, <2>1, RemoveInStep DEF ArenaInv
<1>5. ASSUME NEW t \in Place, DropTree(t)
      PROVE  ArenaInv'
  <2>1. <<t, 1>> \in Live
    BY <1>5, ScopeTreeAssumption DEF DropTree, Live, Slot, Index
  <2>. QED
    BY <1>4, <1>5, <2>1 DEF DropTree
<1>6. ASSUME NEW t \in Place, DropEmptyTree(t)
      PROVE  ArenaInv'
  BY <1>0, <1>6, LinksUntouched DEF DropEmptyTree, ArenaInv
<1>7. ASSUME NEW n \in names, Child(n)
      PROVE  ArenaInv'
  <2>1. n.slot \in Live /\ n.slot[1] \in Place
    BY <1>0, <1>7 DEF Child, IsAlive, Live
  <2>2. Insert(n.slot[1], n.slot)
    BY <1>7 DEF Child
  <2>3. nextSerial' <= MaxSerial + 1
    BY <1>0, <2>2 DEF Insert
  <2>4. ArenaInStep' /\ Rooted'
    BY <2>1, <2>2, InsertInStep
  <2>. QED
    BY <1>0, <2>3, <2>4 DEF ArenaInv
<1>8. ASSUME NEW n \in names, RemoveScope(n)
      PROVE  ArenaInv'
  BY <1>0, <1>4, <1>8 DEF RemoveScope, IsAlive, Live
<1>9. ASSUME NEW n \in names, NEW r \in Resource, Own(n, r)
      PROVE  ArenaInv'
  BY <1>0, <1>9, LinksUntouched DEF Own, ArenaInv
<1>10. CASE UNCHANGED vars
  BY <1>0, <1>10, LinksUntouched DEF vars, arena, ArenaInv
<1>. QED
  BY <1>1, <1>2, <1>3, <1>5, <1>6, <1>7, <1>8, <1>9, <1>10 DEF Next

LEMMA ArenaInit == Init => ArenaInv
<1> SUFFICES ASSUME Init
             PROVE  ArenaInv
  OBVIOUS
<1>1. Live = {}
  BY DEF Init, Live
<1>2. FreeIsEmptySlots
  BY DEF Init, FreeIsEmptySlots, Slot
<1>3. Linked
  BY <1>1 DEF Init, Linked
<1>4. Rooted
  <2>1. \A t \in Place : Root(t) \in Slot
    BY ScopeTreeAssumption DEF Root, Slot, Index
  <2>. QED
    BY <1>1, <2>1 DEF Init, Rooted
<1>5. nextSerial <= MaxSerial + 1
  BY ScopeTreeAssumption DEF Init
<1>. QED
  BY <1>2, <1>3, <1>4, <1>5, TypeInit DEF ArenaInv, ArenaInStep

\* The free list, the serials and the links say the same of every tree, for
\* any number of trees and scopes, however insertions and removals are nested
\* in one another's teardowns.
THEOREM ArenaStaysInStep == Spec => []ArenaInStep
<1>1. Spec => []ArenaInv
  BY ArenaInit, ArenaInductive, PTL DEF Spec
<1>2. ArenaInv => ArenaInStep
  BY DEF ArenaInv
<1>. QED
  BY <1>1, <1>2, PTL

-----------------------------------------------------------------------------
(* The arena is a forest.  First, what is left of a removal read as one     *)
(* sequence.                                                                *)

\* A set of numbers that is not empty has a least one.
LEMMA LeastNumber ==
  ASSUME NEW S, S \subseteq Nat, S # {}
  PROVE  \E n \in S : \A m \in S : n <= m
<1>1. PICK n \in S : \A m \in S : <<m, n>> \notin OpToRel(<, Nat)
  BY WFMin, NatLessThanWellFounded
<1>2. \A m \in S : ~(m < n)
  BY <1>1 DEF OpToRel
<1>3. \A m \in S : m \in Nat /\ n \in Nat
  OBVIOUS
<1>. QED
  BY <1>2, <1>3

\* What holds of a number if it holds of all before it holds of all numbers.
LEMMA Onwards ==
  ASSUME NEW n \in Nat, NEW S, \A m \in 0..n : (\A k \in 0..n : k < m => k \in S) => m \in S
  PROVE  \A m \in 0..n : m \in S
<1> DEFINE Not == {m \in 0..n : m \notin S}
<1> SUFFICES ASSUME Not # {}
             PROVE  FALSE
  OBVIOUS
<1>1. Not \subseteq Nat
  OBVIOUS
<1>2. PICK m \in Not : \A k \in Not : m <= k
  <2> HIDE DEF Not
  <2>. QED
    BY <1>1, LeastNumber
<1>3. ASSUME NEW k \in 0..n, k < m
      PROVE  k \in S
  <2>1. k \in Nat /\ m \in Nat /\ ~(m <= k)
    BY <1>1, <1>3
  <2>. QED
    BY <1>2, <2>1
<1>. QED
  BY <1>2, <1>3

LEMMA Flattened ==
  ASSUME NEW T, NEW seqs \in Seq(Seq(T)), seqs # <<>>
  PROVE  \E f \in [1..Len(seqs) -> Seq(T)] :
           /\ FlattenSeq(seqs) = f[Len(seqs)] /\ f[1] = seqs[1]
           /\ \A i \in 2..Len(seqs) : f[i] = f[i - 1] \o seqs[i]
<1> DEFINE n == Len(seqs)
           To(m) == \E f \in [1..m -> Seq(T)] : f[1] = seqs[1] /\ \A i \in 2..m : f[i] = f[i - 1] \o seqs[i]
           S == {m \in 0..n : m # 0 => To(m)}
           Is(f) == f = [i \in 1..n |-> IF i = 1 THEN seqs[i] ELSE f[i - 1] \o seqs[i]]
           flatten == CHOOSE f : Is(f)
<1>1. n \in Nat \ {0} /\ \A i \in 1..n : seqs[i] \in Seq(T)
  BY EmptySeq, LenProperties, ElementOfSeq
<1>2. To(1)
  <2> DEFINE f == [i \in 1..1 |-> seqs[1]]
  <2>1. f \in [1..1 -> Seq(T)] /\ f[1] = seqs[1]
    BY <1>1
  <2>2. 2..1 = {}
    OBVIOUS
  <2> HIDE DEF f, n
  <2>. QED
    BY <2>1, <2>2
<1>3. ASSUME NEW m \in 2..n, To(m - 1)
      PROVE  To(m)
  <2>1. PICK f \in [1..(m - 1) -> Seq(T)] : f[1] = seqs[1] /\ \A i \in 2..(m - 1) : f[i] = f[i - 1] \o seqs[i]
    BY <1>3
  <2> DEFINE g == [i \in 1..m |-> IF i = m THEN f[m - 1] \o seqs[m] ELSE f[i]]
  <2>2. m - 1 \in 1..(m - 1) /\ m \in 1..n /\ 1 \in 1..(m - 1) /\ m \in Nat
    BY <1>1
  <2>3. f[m - 1] \o seqs[m] \in Seq(T)
    BY <1>1, <2>1, <2>2, ConcatProperties
  <2>4. \A i \in 1..m : i = m \/ i \in 1..(m - 1)
    BY <2>2
  <2>5. g \in [1..m -> Seq(T)]
    BY <2>1, <2>3, <2>4
  <2>6. g[m] = f[m - 1] \o seqs[m] /\ \A i \in 1..(m - 1) : g[i] = f[i]
    <3>1. m \in 1..m /\ \A i \in 1..(m - 1) : i \in 1..m /\ i # m
      BY <2>2
    <3>. QED
      BY <3>1
  <2>7. ASSUME NEW i \in 2..m
        PROVE  g[i] = g[i - 1] \o seqs[i]
    <3>1. i - 1 \in 1..(m - 1) /\ (i # m => i \in 2..(m - 1) /\ i \in 1..(m - 1))
      BY <2>2
    <3> HIDE DEF g, n
    <3>. QED
      BY <2>1, <2>6, <3>1
  <2> HIDE DEF g, n
  <2>. QED
    BY <2>1, <2>2, <2>5, <2>6, <2>7
<1>4. \A m \in 0..n : m \in S
  <2> HIDE DEF To
  <2>1. ASSUME NEW m \in 0..n, \A k \in 0..n : k < m => k \in S
        PROVE  m \in S
    <3>1. CASE m = 0 \/ m = 1
      BY <1>2, <3>1
    <3>2. CASE m # 0 /\ m # 1
      <4>1. m \in 2..n /\ m - 1 \in 0..n /\ m - 1 < m /\ m - 1 # 0
        BY <1>1, <3>2
      <4>. QED
        BY <1>3, <2>1, <4>1
    <3>. QED
      BY <3>1, <3>2
  <2> HIDE DEF S, n
  <2>. QED
    BY <1>1, <2>1, Onwards
<1>5. PICK f \in [1..n -> Seq(T)] : f[1] = seqs[1] /\ \A i \in 2..n : f[i] = f[i - 1] \o seqs[i]
  <2>1. n \in 0..n /\ n # 0
    BY <1>1
  <2>2. To(n)
    <3> HIDE DEF To, n
    <3>. QED
      BY <1>4, <2>1
  <2> HIDE DEF n
  <2>. QED
    BY <2>2
<1>6. Is(f)
  <2>1. \A i \in 1..n : i = 1 \/ i \in 2..n
    BY <1>1
  <2> HIDE DEF n
  <2>. QED
    BY <1>5, <2>1
<1>7. Is(flatten)
  BY <1>6
<1>8. FlattenSeq(seqs) = flatten[n]
  BY <1>1 DEF FlattenSeq
<1> HIDE DEF flatten
<1>9. flatten[1] = seqs[1] /\ \A i \in 2..n : flatten[i] = flatten[i - 1] \o seqs[i]
  <2>1. 1 \in 1..n /\ \A i \in 2..n : i \in 1..n /\ i # 1
    BY <1>1
  <2> HIDE DEF n
  <2>. QED
    BY <1>7, <2>1
<1>10. \A i \in 0..n : i # 0 => flatten[i] \in Seq(T)
  <2> DEFINE V == {i \in 0..n : i # 0 => flatten[i] \in Seq(T)}
  <2>1. ASSUME NEW m \in 0..n, \A k \in 0..n : k < m => k \in V
        PROVE  m \in V
    <3>1. CASE m = 0 \/ m = 1
      BY <1>1, <1>9, <3>1
    <3>2. CASE m # 0 /\ m # 1
      <4>1. m \in 2..n /\ m - 1 \in 0..n /\ m - 1 < m /\ m - 1 # 0 /\ m \in 1..n
        BY <1>1, <3>2
      <4>2. flatten[m] = flatten[m - 1] \o seqs[m] /\ flatten[m - 1] \in Seq(T) /\ seqs[m] \in Seq(T)
        <5> HIDE DEF n
        <5>. QED
          BY <1>1, <1>9, <2>1, <4>1
      <4>3. flatten[m] \in Seq(T)
        BY <4>2, ConcatProperties
      <4>. QED
        BY <4>3
    <3>. QED
      BY <3>1, <3>2
  <2> HIDE DEF V, n
  <2>2. \A m \in 0..n : m \in V
    BY <1>1, <2>1, Onwards
  <2>. QED
    BY <2>2 DEF V
<1>11. flatten \in [1..n -> Seq(T)]
  <2>1. \A i \in 1..n : i \in 0..n /\ i # 0
    BY <1>1
  <2> HIDE DEF n
  <2>2. flatten = [i \in 1..n |-> flatten[i]]
    BY <1>7
  <2>. QED
    BY <1>10, <2>1, <2>2
<1>. QED
  BY <1>8, <1>9, <1>11

LEMMA ReverseIs ==
  ASSUME NEW T, NEW s \in Seq(T)
  PROVE  /\ Reverse(s) \in Seq(T) /\ Len(Reverse(s)) = Len(s)
         /\ \A i \in 1..Len(s) : Reverse(s)[i] = s[Len(s) - i + 1]
<1>1. Len(s) \in Nat /\ \A i \in 1..Len(s) : s[i] \in T
  BY LenProperties, ElementOfSeq
<1>2. \A i \in 1..Len(s) : Len(s) - i + 1 \in 1..Len(s)
  BY <1>1
<1>3. Reverse(s) = [i \in 1..Len(s) |-> s[Len(s) - i + 1]]
  BY DEF Reverse
<1>. QED
  BY <1>1, <1>2, <1>3, IsASeq

\* The last one goes first.
LEMMA ReverseFront ==
  ASSUME NEW T, NEW s \in Seq(T), s # <<>>
  PROVE  /\ Reverse(s) # <<>> /\ Head(Reverse(s)) = Last(s)
         /\ Tail(Reverse(s)) = Reverse(Front(s))
<1> DEFINE n == Len(s)
           r == Reverse(s)
           f == Reverse(Front(s))
<1>1. n \in Nat \ {0} /\ Front(s) \in Seq(T) /\ Len(Front(s)) = n - 1 /\ Last(s) = s[n]
      /\ \A k \in 1..(n - 1) : Front(s)[k] = s[k]
  BY FrontLast
<1>2. r \in Seq(T) /\ Len(r) = n /\ \A i \in 1..n : r[i] = s[n - i + 1]
  BY ReverseIs
<1>3. f \in Seq(T) /\ Len(f) = n - 1 /\ \A i \in 1..(n - 1) : f[i] = Front(s)[(n - 1) - i + 1]
  BY <1>1, ReverseIs
<1> HIDE DEF r, f, n
<1>4. r # <<>>
  BY <1>1, <1>2, EmptySeq
<1>5. Head(r) = s[n]
  <2>1. Head(r) = r[1] /\ 1 \in 1..n /\ n - 1 + 1 = n
    BY <1>1, <1>2, <1>4
  <2>. QED
    BY <1>2, <2>1
<1>6. Tail(r) \in Seq(T) /\ Len(Tail(r)) = n - 1 /\ \A i \in 1..(n - 1) : Tail(r)[i] = r[i + 1]
  BY <1>2, <1>4, HeadTailProperties
<1>7. ASSUME NEW i \in 1..(n - 1)
      PROVE  Tail(r)[i] = f[i]
  <2>1. i + 1 \in 1..n /\ n - (i + 1) + 1 = n - i /\ (n - 1) - i + 1 = n - i /\ n - i \in 1..(n - 1)
    BY <1>1
  <2>2. Tail(r)[i] = r[i + 1] /\ r[i + 1] = s[n - (i + 1) + 1]
    BY <1>2, <1>6, <2>1
  <2>3. f[i] = Front(s)[(n - 1) - i + 1]
    BY <1>3
  <2>4. Front(s)[n - i] = s[n - i]
    BY <1>1, <2>1
  <2>. QED
    BY <2>1, <2>2, <2>3, <2>4
<1>8. Tail(r) = f
  BY <1>3, <1>6, <1>7, SeqEqual
<1>. QED
  BY <1>1, <1>4, <1>5, <1>8 DEF r, f

LEMMA TailOfConcat ==
  ASSUME NEW T, NEW a \in Seq(T), NEW b \in Seq(T), a # <<>>
  PROVE  a \o b # <<>> /\ Head(a \o b) = Head(a) /\ Tail(a \o b) = Tail(a) \o b
<1> DEFINE c == a \o b
           t == Tail(a) \o b
<1>1. Len(a) \in Nat \ {0} /\ Len(b) \in Nat
  BY EmptySeq, LenProperties
<1>2. c \in Seq(T) /\ Len(c) = Len(a) + Len(b)
      /\ \A i \in 1..(Len(a) + Len(b)) : c[i] = IF i <= Len(a) THEN a[i] ELSE b[i - Len(a)]
  BY ConcatProperties
<1>3. Tail(a) \in Seq(T) /\ Len(Tail(a)) = Len(a) - 1 /\ \A i \in 1..(Len(a) - 1) : Tail(a)[i] = a[i + 1]
  BY HeadTailProperties
<1>4. t \in Seq(T) /\ Len(t) = Len(a) - 1 + Len(b)
      /\ \A i \in 1..(Len(a) - 1 + Len(b)) : t[i] = IF i <= Len(a) - 1 THEN Tail(a)[i] ELSE b[i - (Len(a) - 1)]
  BY <1>3, ConcatProperties
<1> HIDE DEF c, t
<1>5. c # <<>>
  BY <1>1, <1>2, EmptySeq
<1>6. Head(c) = Head(a)
  <2>1. Head(c) = c[1] /\ Head(a) = a[1] /\ 1 \in 1..(Len(a) + Len(b)) /\ 1 <= Len(a)
    BY <1>1, <1>2, <1>5
  <2>. QED
    BY <1>2, <2>1
<1>7. Tail(c) \in Seq(T) /\ Len(Tail(c)) = Len(a) + Len(b) - 1
      /\ \A i \in 1..(Len(a) + Len(b) - 1) : Tail(c)[i] = c[i + 1]
  BY <1>2, <1>5, HeadTailProperties
<1>8. ASSUME NEW i \in 1..(Len(a) + Len(b) - 1)
      PROVE  Tail(c)[i] = t[i]
  <2>1. i + 1 \in 1..(Len(a) + Len(b)) /\ i \in 1..(Len(a) - 1 + Len(b))
    BY <1>1
  <2>2. CASE i <= Len(a) - 1
    <3>1. i + 1 <= Len(a) /\ i \in 1..(Len(a) - 1)
      BY <1>1, <2>2
    <3>. QED
      BY <1>2, <1>3, <1>4, <1>7, <2>1, <2>2, <3>1
  <2>3. CASE ~(i <= Len(a) - 1)
    <3>1. ~(i + 1 <= Len(a)) /\ i + 1 - Len(a) = i - (Len(a) - 1)
      BY <1>1, <2>3
    <3>2. Tail(c)[i] = c[i + 1] /\ c[i + 1] = b[i + 1 - Len(a)]
      BY <1>2, <1>7, <2>1, <3>1
    <3>3. t[i] = b[i - (Len(a) - 1)]
      BY <1>4, <2>1, <2>3
    <3>. QED
      BY <3>1, <3>2, <3>3
  <2>. QED
    BY <2>2, <2>3
<1>9. Len(Tail(c)) = Len(t)
  BY <1>1, <1>4, <1>7
<1>10. Tail(c) = t
  <2>1. \A i \in 1..Len(Tail(c)) : Tail(c)[i] = t[i]
    BY <1>7, <1>8
  <2>. QED
    BY <1>4, <1>7, <1>9, <2>1, SeqEqual
<1>. QED
  BY <1>5, <1>6, <1>10 DEF c, t

\* What is left, each turned round.
LEMMA Turned ==
  ASSUME NEW T, NEW detached \in Seq(Seq(T)), detached # <<>>
  PROVE  LET turned == [k \in DOMAIN detached |-> Reverse(detached[k])]
         IN  turned \in Seq(Seq(T)) /\ turned # <<>> /\ Len(turned) = Len(detached)
             /\ DOMAIN detached = 1..Len(detached) /\ Len(detached) \in Nat \ {0}
             /\ \A k \in 1..Len(detached) : detached[k] \in Seq(T) /\ turned[k] = Reverse(detached[k])
<1> DEFINE turned == [k \in DOMAIN detached |-> Reverse(detached[k])]
<1>1. Len(detached) \in Nat \ {0} /\ DOMAIN detached = 1..Len(detached)
      /\ \A k \in 1..Len(detached) : detached[k] \in Seq(T)
  BY EmptySeq, LenProperties, ElementOfSeq
<1>2. \A k \in 1..Len(detached) : Reverse(detached[k]) \in Seq(T)
  BY <1>1, ReverseIs
<1>3. turned \in Seq(Seq(T)) /\ Len(turned) = Len(detached)
  BY <1>1, <1>2, IsASeq
<1>4. turned # <<>>
  <2> HIDE DEF turned
  <2>. QED
    BY <1>1, <1>3, EmptySeq
<1>. QED
  BY <1>1, <1>3, <1>4

\* Once nothing is left of any scope nothing is left of the removal.
LEMMA NothingLeft ==
  ASSUME NEW T, NEW detached \in Seq(Seq(T)), \A k \in DOMAIN detached : detached[k] = <<>>
  PROVE  LeftOf(detached) = <<>>
<1> DEFINE n == Len(detached)
           turned == [k \in DOMAIN detached |-> Reverse(detached[k])]
<1>1. CASE detached = <<>>
  <2>1. turned = <<>>
    BY <1>1
  <2>. QED
    BY <2>1 DEF LeftOf, FlattenSeq
<1>2. CASE detached # <<>>
  <2>1. turned \in Seq(Seq(T)) /\ turned # <<>> /\ Len(turned) = n /\ n \in Nat \ {0} /\ DOMAIN detached = 1..n
        /\ \A k \in 1..n : detached[k] \in Seq(T) /\ turned[k] = Reverse(detached[k])
    BY <1>2, Turned
  <2>2. \A k \in 1..n : turned[k] = <<>>
    <3>1. Reverse(<<>>) = <<>>
      BY DEF Reverse
    <3>. QED
      BY <2>1, <3>1
  <2>3. LeftOf(detached) = FlattenSeq(turned)
    BY DEF LeftOf
  <2> HIDE DEF turned, n
  <2>4. PICK f \in [1..n -> Seq(T)] :
          FlattenSeq(turned) = f[n] /\ f[1] = turned[1] /\ \A i \in 2..n : f[i] = f[i - 1] \o turned[i]
    <3>1. \E f \in [1..Len(turned) -> Seq(T)] :
            /\ FlattenSeq(turned) = f[Len(turned)] /\ f[1] = turned[1]
            /\ \A i \in 2..Len(turned) : f[i] = f[i - 1] \o turned[i]
      <4>1. turned \in Seq(Seq(T)) /\ turned # <<>>
        BY <2>1
      <4>. QED
        BY ONLY <4>1, Flattened
    <3>2. Len(turned) = n
      BY <2>1
    <3>. QED
      BY ONLY <3>1, <3>2
  <2> DEFINE V == {i \in 0..n : i # 0 => f[i] = <<>>}
  <2>5. ASSUME NEW m \in 0..n, \A k \in 0..n : k < m => k \in V
        PROVE  m \in V
    <3>1. CASE m = 0 \/ m = 1
      BY <2>1, <2>2, <2>4, <3>1
    <3>2. CASE m # 0 /\ m # 1
      <4>1. m \in 2..n /\ m - 1 \in 0..n /\ m - 1 < m /\ m - 1 # 0 /\ m \in 1..n
        BY <2>1, <3>2
      <4>2. f[m] = f[m - 1] \o turned[m] /\ f[m - 1] = <<>> /\ turned[m] = <<>>
        BY <2>2, <2>4, <2>5, <4>1
      <4>. QED
        BY <4>2
    <3>. QED
      BY <3>1, <3>2
  <2> HIDE DEF V
  <2>6. \A m \in 0..n : m \in V
    BY <2>1, <2>5, Onwards
  <2>. QED
    BY <2>1, <2>3, <2>4, <2>6 DEF V
<1>. QED
  BY <1>1, <1>2

\* What is let go of next is the last of the first scope that has any left.
LEMMA LetGoNext ==
  ASSUME NEW T, NEW detached \in Seq(Seq(T)), NEW k \in DOMAIN detached, detached[k] # <<>>,
         \A j \in 1..(k - 1) : detached[j] = <<>>
  PROVE  LET after == [detached EXCEPT ![k] = Front(detached[k])]
         IN  /\ LeftOf(detached) # <<>>
             /\ Head(LeftOf(detached)) = Last(detached[k])
             /\ Tail(LeftOf(detached)) = LeftOf(after)
<1> DEFINE n == Len(detached)
           after == [detached EXCEPT ![k] = Front(detached[k])]
           turned == [i \in DOMAIN detached |-> Reverse(detached[i])]
           turnedAfter == [i \in DOMAIN after |-> Reverse(after[i])]
<1>1. detached # <<>>
  OBVIOUS
<1>2. turned \in Seq(Seq(T)) /\ turned # <<>> /\ Len(turned) = n /\ n \in Nat \ {0} /\ DOMAIN detached = 1..n
      /\ \A i \in 1..n : detached[i] \in Seq(T) /\ turned[i] = Reverse(detached[i])
  BY <1>1, Turned
<1>3. k \in 1..n /\ Front(detached[k]) \in Seq(T)
  BY <1>2, FrontLast
<1>4. after \in Seq(Seq(T)) /\ Len(after) = n /\ after # <<>> /\ after[k] = Front(detached[k])
      /\ \A i \in 1..n : i # k => after[i] = detached[i]
  <2>1. after \in Seq(Seq(T)) /\ Len(after) = n
    BY <1>2, <1>3, ExceptSeq
  <2>2. after[k] = Front(detached[k]) /\ \A i \in 1..n : i # k => after[i] = detached[i]
    BY <1>2, <1>3
  <2> HIDE DEF after
  <2>3. after # <<>>
    BY <1>2, <2>1, EmptySeq
  <2>. QED
    BY <2>1, <2>2, <2>3
<1> HIDE DEF after
<1>5. turnedAfter \in Seq(Seq(T)) /\ turnedAfter # <<>> /\ Len(turnedAfter) = n
      /\ \A i \in 1..n : turnedAfter[i] = Reverse(after[i])
  BY <1>4, Turned
<1>6. LeftOf(detached) = FlattenSeq(turned) /\ LeftOf(after) = FlattenSeq(turnedAfter)
  BY DEF LeftOf
<1>7. /\ turned[k] # <<>> /\ Head(turned[k]) = Last(detached[k]) /\ Tail(turned[k]) = turnedAfter[k]
      /\ \A i \in 1..n : i < k => turned[i] = <<>>
      /\ \A i \in 1..n : i # k => turnedAfter[i] = turned[i]
  <2>1. Reverse(<<>>) = <<>>
    BY DEF Reverse
  <2>2. \A i \in 1..n : i < k => i \in 1..(k - 1)
    BY <1>2, <1>3
  <2>3. turned[k] # <<>> /\ Head(turned[k]) = Last(detached[k]) /\ Tail(turned[k]) = turnedAfter[k]
    <3>1. turned[k] = Reverse(detached[k]) /\ turnedAfter[k] = Reverse(Front(detached[k])) /\ detached[k] \in Seq(T)
      BY <1>2, <1>3, <1>4, <1>5
    <3> HIDE DEF turned, turnedAfter
    <3>. QED
      BY <3>1, ReverseFront
  <2> HIDE DEF turned, turnedAfter
  <2>. QED
    BY <1>2, <1>4, <1>5, <2>1, <2>2, <2>3
<1> HIDE DEF turned, turnedAfter, n
<1>8. PICK f \in [1..n -> Seq(T)] :
        FlattenSeq(turned) = f[n] /\ f[1] = turned[1] /\ \A i \in 2..n : f[i] = f[i - 1] \o turned[i]
  <2>1. \E h \in [1..Len(turned) -> Seq(T)] :
          /\ FlattenSeq(turned) = h[Len(turned)] /\ h[1] = turned[1]
          /\ \A i \in 2..Len(turned) : h[i] = h[i - 1] \o turned[i]
    <3>1. turned \in Seq(Seq(T)) /\ turned # <<>>
      BY <1>2
    <3>. QED
      BY ONLY <3>1, Flattened
  <2>2. Len(turned) = n
    BY <1>2
  <2>. QED
    BY ONLY <2>1, <2>2
<1>9. PICK g \in [1..n -> Seq(T)] :
        FlattenSeq(turnedAfter) = g[n] /\ g[1] = turnedAfter[1] /\ \A i \in 2..n : g[i] = g[i - 1] \o turnedAfter[i]
  <2>1. \E h \in [1..Len(turnedAfter) -> Seq(T)] :
          /\ FlattenSeq(turnedAfter) = h[Len(turnedAfter)] /\ h[1] = turnedAfter[1]
          /\ \A i \in 2..Len(turnedAfter) : h[i] = h[i - 1] \o turnedAfter[i]
    <3>1. turnedAfter \in Seq(Seq(T)) /\ turnedAfter # <<>>
      BY <1>5
    <3>. QED
      BY ONLY <3>1, Flattened
  <2>2. Len(turnedAfter) = n
    BY <1>5
  <2>. QED
    BY ONLY <2>1, <2>2
<1> DEFINE Same(i) == IF i < k THEN f[i] = <<>> /\ g[i] = <<>>
                      ELSE f[i] # <<>> /\ Head(f[i]) = Last(detached[k]) /\ Tail(f[i]) = g[i]
           V == {i \in 0..n : i # 0 => Same(i)}
<1>10. \A i \in 1..n : turned[i] \in Seq(T) /\ turnedAfter[i] \in Seq(T)
  BY <1>2, <1>5, ElementOfSeq
<1>11. ASSUME NEW m \in 0..n, \A j \in 0..n : j < m => j \in V
       PROVE  m \in V
  <2>1. CASE m = 0
    BY <2>1
  <2>2. CASE m = 1
    <3>1. 1 \in 1..n /\ f[1] = turned[1] /\ g[1] = turnedAfter[1]
      BY <1>2, <1>8, <1>9
    <3>2. Same(1)
      <4>1. CASE 1 < k
        BY <1>7, <3>1, <4>1
      <4>2. CASE ~(1 < k)
        <5>1. k = 1
          BY <1>2, <1>3, <4>2
        <5>. QED
          BY <1>7, <3>1, <5>1
      <4>. QED
        BY <4>1, <4>2
    <3>. QED
      BY <2>2, <3>2
  <2>3. CASE m # 0 /\ m # 1
    <3>1. m \in 2..n /\ m - 1 \in 0..n /\ m - 1 < m /\ m - 1 # 0 /\ m \in 1..n /\ m - 1 \in 1..n
      BY <1>2, <2>3
    <3>2. f[m] = f[m - 1] \o turned[m] /\ g[m] = g[m - 1] \o turnedAfter[m] /\ Same(m - 1)
      <4>1. m - 1 \in V
        BY <1>11, <3>1
      <4>. QED
        BY <1>8, <1>9, <3>1, <4>1
    <3>3. f[m - 1] \in Seq(T) /\ g[m - 1] \in Seq(T) /\ turned[m] \in Seq(T) /\ turnedAfter[m] \in Seq(T)
      BY <1>10, <3>1
    <3>4. CASE m < k
      <4>1. m - 1 < k /\ turned[m] = <<>> /\ turnedAfter[m] = <<>>
        <5>1. m \in Int /\ k \in Int
          BY <1>2, <1>3, <3>1
        <5>2. m # k /\ m - 1 < k
          BY <3>4, <5>1
        <5>. QED
          BY <1>7, <3>1, <3>4, <5>2
      <4>2. f[m] = <<>> /\ g[m] = <<>>
        BY <3>2, <4>1
      <4>. QED
        BY <3>4, <4>2
    <3>5. CASE m = k
      <4>1. m - 1 < k /\ f[m - 1] = <<>> /\ g[m - 1] = <<>>
        BY <1>3, <3>1, <3>2, <3>5
      <4>2. f[m] = turned[m] /\ g[m] = turnedAfter[m]
        <5>1. <<>> \o turned[m] = turned[m] /\ <<>> \o turnedAfter[m] = turnedAfter[m]
          BY <3>3, ConcatEmptySeq
        <5>. QED
          BY <3>2, <4>1, <5>1
      <4>3. ~(m < k)
        BY <1>3, <3>1, <3>5
      <4>. QED
        BY <1>7, <3>5, <4>2, <4>3
    <3>6. CASE ~(m < k) /\ m # k
      <4>1. ~(m - 1 < k) /\ turnedAfter[m] = turned[m]
        BY <1>2, <1>3, <1>7, <3>1, <3>6
      <4>2. f[m - 1] # <<>> /\ Head(f[m - 1]) = Last(detached[k]) /\ Tail(f[m - 1]) = g[m - 1]
        BY <3>2, <4>1
      <4>3. /\ f[m - 1] \o turned[m] # <<>> /\ Head(f[m - 1] \o turned[m]) = Head(f[m - 1])
            /\ Tail(f[m - 1] \o turned[m]) = Tail(f[m - 1]) \o turned[m]
        BY <3>3, <4>2, TailOfConcat
      <4>4. Same(m)
        BY <3>2, <3>6, <4>1, <4>2, <4>3
      <4>. QED
        BY <4>4
    <3>. QED
      BY <3>4, <3>5, <3>6
  <2>. QED
    BY <2>1, <2>2, <2>3
<1>12. \A m \in 0..n : m \in V
  <2> HIDE DEF V
  <2>. QED
    BY <1>2, <1>11, Onwards
<1>13. ~(n < k) /\ n # 0
  BY <1>2, <1>3
<1>14. Same(n)
  <2>1. n \in 0..n
    BY <1>2
  <2> HIDE DEF Same
  <2>. QED
    BY <1>12, <1>13, <2>1
<1>. QED
  BY <1>6, <1>8, <1>9, <1>13, <1>14 DEF after

-----------------------------------------------------------------------------
(* A scope is its serial.  No two that are there have the same one, and a   *)
(* name that bears the serial of one bears its slot; a scope is in a tree   *)
(* that is there; and a removal that drops a tree is the only one to, with  *)
(* the root already gone.                                                   *)

OneSerialEach ==
  /\ \A s, u \in Live : serial[s] = serial[u] => s = u
  /\ \A n \in names : \A s \in Live : serial[s] = n.serial => s = n.slot

LiveAreHeld == \A s \in Live : held[s[1]]

DropsInHand ==
  \A k \in DOMAIN stack : stack[k].drops # NoTree =>
    /\ held[stack[k].drops] /\ serial[Root(stack[k].drops)] = 0
    /\ \A l \in DOMAIN stack : stack[l].drops = stack[k].drops => l = k

ForestInv == ArenaInv /\ OneSerialEach /\ LiveAreHeld /\ DropsInHand

\* What both ways to make a scope do.
Grows(s, p) ==
  /\ s \in Slot /\ s \notin Live /\ p \in Live \cup {NoSlot} /\ nextSerial <= MaxSerial
  /\ Live' = Live \cup {s}
  /\ serial'[s] = nextSerial /\ parent'[s] = p /\ owns'[s] = <<>>
  /\ \A u \in Live : serial'[u] = serial[u] /\ parent'[u] = parent[u] /\ owns'[u] = owns[u]
  /\ nextSerial' = nextSerial + 1
  /\ names' = names \cup {[slot |-> s, serial |-> nextSerial]}
  /\ UNCHANGED <<stack, torn>>

\* What is there: slots, numbered below the next serial, each with a parent
\* that is there or none.
LEMMA WhatLives ==
  ASSUME ForestInv
  PROVE  /\ nextSerial \in Nat \ {0} /\ nextSerial <= MaxSerial + 1 /\ MaxSerial \in Nat \ {0}
         /\ NoSlot \notin Slot
         /\ \A u \in Live : /\ u \in Slot /\ u[1] \in Place /\ serial[u] \in Nat \ {0} /\ serial[u] < nextSerial
                            /\ parent[u] \in Live \cup {NoSlot} /\ owns[u] \in Seq(Resource)
         /\ \A n \in names : n.slot \in Slot /\ n.slot[1] \in Place /\ n.serial \in Nat \ {0} /\ n.serial < nextSerial
         /\ stack \in Seq(Frame)
<1>1. TypeInv /\ nextSerial <= MaxSerial + 1
  BY DEF ForestInv, ArenaInv
<1>2. NoSlot \notin Slot
  BY ScopeTreeAssumption DEF NoSlot, Slot, Place, Index
<1>3. ASSUME NEW u \in Live
      PROVE  /\ u \in Slot /\ u[1] \in Place /\ serial[u] \in Nat \ {0} /\ serial[u] < nextSerial
             /\ parent[u] \in Live \cup {NoSlot} /\ owns[u] \in Seq(Resource)
  <2>1. u \in Slot /\ u[1] \in Place /\ serial[u] # 0
    BY DEF Live, Slot
  <2>2. serial[u] \in Nat /\ serial[u] < nextSerial /\ owns[u] \in Seq(Resource)
    BY <1>1, <2>1 DEF TypeInv, TypeOK, SerialsUsed
  <2>3. parent[u] \in Live \cup {NoSlot}
    <3>1. CASE u[2] # 1
      BY <2>1, <3>1 DEF ForestInv, ArenaInv, ArenaInStep, Linked
    <3>2. CASE u[2] = 1
      <4>1. u = Root(u[1])
        BY <2>1, <3>2 DEF Root, Slot
      <4>. QED
        BY <2>1, <4>1 DEF ForestInv, ArenaInv, Rooted
    <3>. QED
      BY <3>1, <3>2
  <2>. QED
    BY <2>1, <2>2, <2>3
<1>4. \A n \in names : n.slot \in Slot /\ n.slot[1] \in Place /\ n.serial \in Nat \ {0} /\ n.serial < nextSerial
  BY <1>1 DEF TypeInv, TypeOK, SerialsUsed, Name, Slot
<1>. QED
  BY <1>1, <1>2, <1>3, <1>4, ScopeTreeAssumption DEF TypeInv, TypeOK

LEMMA ChildGrows ==
  ASSUME ForestInv, NEW n \in names, Child(n)
  PROVE  LET s == <<n.slot[1], NextIndex(n.slot[1])>>
         IN  Grows(s, n.slot) /\ NextIndex(n.slot[1]) # 1 /\ held' = held /\ held[n.slot[1]]
             /\ \A u \in Slot : u # s => serial'[u] = serial[u]
<1> DEFINE t == n.slot[1]
           i == NextIndex(t)
           s == <<t, i>>
<1>0. /\ ArenaInv /\ TypeInv /\ n.slot \in Live /\ t \in Place /\ nextSerial <= MaxSerial /\ nextSerial # 0
      /\ held[t] /\ held' = held /\ Insert(t, n.slot) /\ UNCHANGED <<stack, torn>>
      /\ free[t] \in Seq(Index) /\ len[t] \in Nat
  BY WhatLives DEF ForestInv, ArenaInv, Child, IsAlive, Live, Insert, TypeInv, TypeOK
<1>1. /\ i \in Index
      /\ free[t] = <<>> => i = len[t] + 1
      /\ free[t] # <<>> => i = Last(free[t]) /\ Front(free[t]) \in Seq(Index)
  BY <1>0, NextIndexType
<1>2. s \in Slot /\ s[1] = t /\ s[2] = i
  BY <1>0, <1>1 DEF Slot
<1>3. serial[s] = 0
  <2>1. CASE free[t] = <<>>
    BY <1>0, <1>1, <2>1 DEF ArenaInv, ArenaInStep, FreeIsEmptySlots
  <2>2. CASE free[t] # <<>>
    <3>1. Len(free[t]) \in DOMAIN free[t] /\ i = free[t][Len(free[t])]
      BY <1>0, <1>1, <2>2, FrontLast, LenProperties
    <3>2. i \in {free[t][k] : k \in DOMAIN free[t]}
      BY <3>1
    <3>. QED
      BY <1>0, <3>2 DEF ArenaInv, ArenaInStep, FreeIsEmptySlots
  <2>. QED
    BY <2>1, <2>2
<1>4. i # 1
  <2>1. Root(t) \in Live /\ Root(t) = <<t, 1>>
    BY <1>0, TheRootIsThere DEF Root
  <2>. QED
    BY <1>3, <2>1 DEF Live
<1>5. /\ serial' = [serial EXCEPT ![s] = nextSerial]
      /\ parent' = [parent EXCEPT ![s] = n.slot]
      /\ owns' = [owns EXCEPT ![s] = <<>>]
      /\ nextSerial' = nextSerial + 1
      /\ names' = names \cup {[slot |-> s, serial |-> nextSerial]}
  BY <1>0 DEF Insert
<1> HIDE DEF i, s
<1>6. /\ s \notin Live /\ Live' = Live \cup {s}
      /\ serial'[s] = nextSerial /\ parent'[s] = n.slot /\ owns'[s] = <<>>
      /\ \A u \in Slot : u # s => serial'[u] = serial[u] /\ parent'[u] = parent[u] /\ owns'[u] = owns[u]
  BY <1>0, <1>2, <1>3, <1>5 DEF Live, TypeInv, TypeOK
<1>7. \A u \in Live : u \in Slot /\ u # s
  BY <1>6 DEF Live
<1>8. Grows(s, n.slot)
  BY <1>0, <1>2, <1>5, <1>6, <1>7 DEF Grows
<1>. QED
  BY <1>0, <1>4, <1>6, <1>8 DEF s, i

LEMMA NewTreeGrows ==
  ASSUME ForestInv, NEW t \in Place, NewTree(t)
  PROVE  /\ Grows(Root(t), NoSlot) /\ ~held[t] /\ held'[t] /\ \A u \in Place : u # t => held'[u] = held[u]
         /\ \A u \in Slot : u[1] # t => serial'[u] = serial[u]
<1>0. /\ Root(t) \in Slot /\ Root(t)[1] = t /\ nextSerial # 0 /\ held \in [Place -> BOOLEAN]
  BY WhatLives, ScopeTreeAssumption DEF Root, Slot, Index, ForestInv, ArenaInv, TypeInv, TypeOK
<1>1. /\ ~held[t] /\ held' = [held EXCEPT ![t] = TRUE] /\ nextSerial <= MaxSerial
      /\ \A u \in Slot : serial'[u] = IF u = Root(t) THEN nextSerial ELSE IF u[1] = t THEN 0 ELSE serial[u]
      /\ \A u \in Slot : parent'[u] = IF u[1] = t THEN NoSlot ELSE parent[u]
      /\ \A u \in Slot : owns'[u] = IF u[1] = t THEN <<>> ELSE owns[u]
      /\ nextSerial' = nextSerial + 1
      /\ names' = names \cup {[slot |-> Root(t), serial |-> nextSerial]}
      /\ UNCHANGED <<stack, torn>>
  BY DEF NewTree, Root
<1>2. \A u \in Live : u \in Slot /\ u[1] # t
  BY <1>1 DEF ForestInv, LiveAreHeld, Live
<1>3. Live' = Live \cup {Root(t)} /\ Root(t) \notin Live
  BY <1>0, <1>1, <1>2 DEF Live
<1>4. Grows(Root(t), NoSlot)
  BY <1>0, <1>1, <1>2, <1>3 DEF Grows
<1>5. \A u \in Slot : u[1] # t => serial'[u] = serial[u]
  BY <1>0, <1>1
<1>. QED
  BY <1>0, <1>1, <1>4, <1>5

LEMMA GrowingKeepsSerials ==
  ASSUME ForestInv, NEW s, NEW p, Grows(s, p)
  PROVE  OneSerialEach'
<1>1. \A u \in Live : serial[u] \in Nat /\ serial[u] < nextSerial
  BY WhatLives
<1>2. \A n \in names : n.serial \in Nat /\ n.serial < nextSerial
  BY WhatLives
<1>3. nextSerial \in Nat
  BY WhatLives
<1>4. \A u \in Live' : \/ u \in Live /\ serial'[u] = serial[u] /\ serial'[u] # nextSerial
                       \/ u = s /\ serial'[u] = nextSerial
  BY <1>1, <1>3 DEF Grows
<1>5. \A n \in names' : \/ n \in names /\ n.serial # nextSerial
                        \/ n.slot = s /\ n.serial = nextSerial
  BY <1>2, <1>3 DEF Grows
<1>6. \A u, v \in Live' : serial'[u] = serial'[v] => u = v
  BY <1>4 DEF ForestInv, OneSerialEach
<1>7. \A n \in names' : \A u \in Live' : serial'[u] = n.serial => u = n.slot
  BY <1>4, <1>5 DEF ForestInv, OneSerialEach
<1>. QED
  BY <1>6, <1>7 DEF OneSerialEach

\* What a removal takes out, and what it keeps.
LEMMA RemovalLeaves ==
  ASSUME ForestInv, NEW s \in Live, NEW drops, RemoveWith(s, drops)
  PROVE  /\ Under(s) \subseteq Live /\ s \in Under(s)
         /\ Live' = Live \ Under(s)
         /\ \A u \in Slot : u \in Under(s) => serial'[u] = 0
         /\ \A u \in Slot : u \notin Under(s) => serial'[u] = serial[u] /\ parent'[u] = parent[u] /\ owns'[u] = owns[u]
<1>1. ArenaInv /\ s \in Slot /\ Under(s) \subseteq Slot
  BY UnderFinite DEF ForestInv, Live
<1>2. PICK visit \in Collect(s) : Detach(s, visit)
  BY DEF RemoveWith
<1>3. {visit[k] : k \in DOMAIN visit} = Under(s)
  BY <1>1, CollectListsUnder
<1>4. /\ \A u \in Slot : serial'[u] = IF u \in Under(s) THEN 0 ELSE serial[u]
      /\ \A u \in Slot : parent'[u] = IF u \in Under(s) THEN NoSlot ELSE parent[u]
      /\ \A u \in Slot : owns'[u] = IF u \in Under(s) THEN <<>> ELSE owns[u]
  BY <1>2, <1>3 DEF Detach
<1>5. s \in Under(s) /\ Under(s) \subseteq Live
  BY <1>1, UnderALiveScope
<1>6. Live' = Live \ Under(s)
  BY <1>4 DEF Live
<1>. QED
  BY <1>4, <1>5, <1>6

\* The removals under way, and the trees they drop.
LEMMA FramesAre ==
  ASSUME ForestInv
  PROVE  /\ stack \in Seq(Frame) /\ Len(stack) \in Nat /\ DOMAIN stack = 1..Len(stack)
         /\ \A k \in 1..Len(stack) : /\ stack[k] \in Frame /\ stack[k].detached \in Seq(Seq(Resource))
                                     /\ stack[k].drops \in Place \cup {NoTree}
         /\ \A t \in Place : Root(t) \in Slot /\ Root(t)[1] = t /\ Root(t)[2] = 1 /\ t # NoTree
<1>1. stack \in Seq(Frame)
  BY WhatLives
<1>2. Len(stack) \in Nat /\ DOMAIN stack = 1..Len(stack) /\ \A k \in 1..Len(stack) : stack[k] \in Frame
  BY <1>1, LenProperties, ElementOfSeq
<1>3. \A t \in Place : Root(t) \in Slot /\ Root(t)[1] = t /\ Root(t)[2] = 1 /\ t # NoTree
  BY ScopeTreeAssumption DEF Root, Slot, Index, Place, NoTree
<1>. QED
  BY <1>1, <1>2, <1>3 DEF Frame

LEMMA GrowingKeepsForest ==
  ASSUME ForestInv, \/ \E n \in names : Child(n)
                    \/ \E t \in Place : NewTree(t)
  PROVE  OneSerialEach' /\ LiveAreHeld' /\ DropsInHand'
<1>0. /\ DOMAIN stack = 1..Len(stack)
      /\ \A k \in 1..Len(stack) : stack[k].drops \in Place \cup {NoTree}
      /\ \A t \in Place : Root(t) \in Slot /\ Root(t)[1] = t /\ Root(t)[2] = 1
  BY FramesAre
<1>1. ASSUME NEW n \in names, Child(n)
      PROVE  OneSerialEach' /\ LiveAreHeld' /\ DropsInHand'
  <2> DEFINE s == <<n.slot[1], NextIndex(n.slot[1])>>
  <2>1. /\ Grows(s, n.slot) /\ s[1] = n.slot[1] /\ s[2] # 1 /\ held' = held /\ held[n.slot[1]]
        /\ \A u \in Slot : u # s => serial'[u] = serial[u]
    BY <1>1, ChildGrows
  <2> HIDE DEF s
  <2>2. LiveAreHeld'
    BY <2>1 DEF Grows, ForestInv, LiveAreHeld
  <2>3. ASSUME NEW k \in DOMAIN stack, stack[k].drops # NoTree
        PROVE  held'[stack[k].drops] /\ serial'[Root(stack[k].drops)] = 0
    <3>1. Root(stack[k].drops) \in Slot /\ Root(stack[k].drops) # s
      BY <1>0, <2>1, <2>3
    <3>. QED
      BY <2>1, <2>3, <3>1 DEF ForestInv, DropsInHand
  <2>4. DropsInHand'
    BY <2>1, <2>3 DEF Grows, ForestInv, DropsInHand, Root
  <2>. QED
    BY <2>1, <2>2, <2>4, GrowingKeepsSerials
<1>2. ASSUME NEW t \in Place, NewTree(t)
      PROVE  OneSerialEach' /\ LiveAreHeld' /\ DropsInHand'
  <2>1. /\ Grows(Root(t), NoSlot) /\ ~held[t] /\ held'[t]
        /\ \A u \in Place : u # t => held'[u] = held[u]
        /\ \A u \in Slot : u[1] # t => serial'[u] = serial[u]
    BY <1>2, NewTreeGrows
  <2>2. \A u \in Live : u[1] \in Place
    BY WhatLives
  <2>3. LiveAreHeld'
    BY <1>0, <2>1, <2>2 DEF Grows, ForestInv, LiveAreHeld
  <2>4. ASSUME NEW k \in DOMAIN stack, stack[k].drops # NoTree
        PROVE  held'[stack[k].drops] /\ serial'[Root(stack[k].drops)] = 0
    <3>1. held[stack[k].drops] /\ stack[k].drops \in Place /\ serial[Root(stack[k].drops)] = 0
      BY <1>0, <2>4 DEF ForestInv, DropsInHand
    <3>. QED
      BY <1>0, <2>1, <3>1
  <2>5. DropsInHand'
    BY <2>1, <2>4 DEF Grows, ForestInv, DropsInHand, Root
  <2>. QED
    BY <2>1, <2>3, <2>5, GrowingKeepsSerials
<1>. QED
  BY <1>1, <1>2

LEMMA RemovingKeepsForest ==
  ASSUME ForestInv, NEW s \in Live, NEW drops, RemoveWith(s, drops),
         drops = NoTree \/ (drops \in Place /\ s = Root(drops))
  PROVE  OneSerialEach' /\ LiveAreHeld' /\ DropsInHand'
<1>1. /\ Live' = Live \ Under(s) /\ s \in Under(s)
      /\ \A u \in Slot : u \in Under(s) => serial'[u] = 0
      /\ \A u \in Slot : u \notin Under(s) => serial'[u] = serial[u]
  BY RemovalLeaves
<1>2. PICK frame : stack' = Append(stack, frame) /\ frame.drops = drops
  BY DEF RemoveWith
<1>3. held' = held /\ names' = names
  BY DEF RemoveWith
<1>4. /\ stack \in Seq(Frame) /\ Len(stack) \in Nat /\ DOMAIN stack = 1..Len(stack)
      /\ \A k \in 1..Len(stack) : stack[k].drops \in Place \cup {NoTree}
      /\ \A t \in Place : Root(t) \in Slot /\ t # NoTree
  BY FramesAre
<1>5. \A u \in Live : u \in Slot /\ serial[u] # 0 /\ u[1] \in Place
  BY WhatLives
<1>6. OneSerialEach'
  BY <1>1, <1>3, <1>5 DEF ForestInv, OneSerialEach
<1>7. LiveAreHeld'
  BY <1>1, <1>3 DEF ForestInv, LiveAreHeld
<1>8. DOMAIN stack' = 1..(Len(stack) + 1) /\ stack'[Len(stack) + 1].drops = drops
      /\ \A k \in 1..Len(stack) : stack'[k] = stack[k]
  BY <1>2, <1>4
<1>9. drops # NoTree => /\ held[drops] /\ serial'[Root(drops)] = 0
                        /\ \A k \in 1..Len(stack) : stack[k].drops # drops
  <2>1. SUFFICES ASSUME drops # NoTree
                 PROVE  /\ held[drops] /\ serial'[Root(drops)] = 0
                        /\ \A k \in 1..Len(stack) : stack[k].drops # drops
    OBVIOUS
  <2>2. drops \in Place /\ s = Root(drops) /\ s[1] = drops
    BY <2>1 DEF Root
  <2>3. held[drops] /\ serial'[Root(drops)] = 0 /\ serial[Root(drops)] # 0
    BY <1>1, <1>5, <2>2 DEF ForestInv, LiveAreHeld
  <2>. QED
    BY <1>4, <2>1, <2>3 DEF ForestInv, DropsInHand
<1>10. \A k \in 1..Len(stack) : stack[k].drops # NoTree =>
          /\ held[stack[k].drops] /\ serial'[Root(stack[k].drops)] = 0
          /\ \A l \in 1..Len(stack) : stack[l].drops = stack[k].drops => l = k
  BY <1>1, <1>4 DEF ForestInv, DropsInHand
<1>11. DropsInHand'
  <2>1. SUFFICES ASSUME NEW k \in DOMAIN stack', stack'[k].drops # NoTree
                 PROVE  /\ held[stack'[k].drops] /\ serial'[Root(stack'[k].drops)] = 0
                        /\ \A l \in DOMAIN stack' : stack'[l].drops = stack'[k].drops => l = k
    BY <1>3 DEF DropsInHand, Root
  <2>2. \A l \in DOMAIN stack' : l \in 1..Len(stack) \/ l = Len(stack) + 1
    BY <1>4, <1>8
  <2>3. CASE k \in 1..Len(stack)
    BY <1>8, <1>9, <1>10, <2>1, <2>2, <2>3
  <2>4. CASE k = Len(stack) + 1
    BY <1>8, <1>9, <2>1, <2>2, <2>4
  <2>. QED
    BY <2>2, <2>3, <2>4
<1>. QED
  BY <1>6, <1>7, <1>11

\* A tree whose root is gone has no scope left.
LEMMA NoneWithoutRoot ==
  ASSUME ForestInv, NEW t, serial[Root(t)] = 0, NEW u \in Live
  PROVE  u[1] # t
BY TheRootIsThere DEF ForestInv, Live

LEMMA ForestInductive == ForestInv /\ [Next]_vars => ForestInv'
<1> SUFFICES ASSUME ForestInv, [Next]_vars
             PROVE  OneSerialEach' /\ LiveAreHeld' /\ DropsInHand'
  BY ArenaInductive DEF ForestInv
<1>0. /\ stack \in Seq(Frame) /\ Len(stack) \in Nat /\ DOMAIN stack = 1..Len(stack)
      /\ \A k \in 1..Len(stack) : stack[k] \in Frame /\ stack[k].drops \in Place \cup {NoTree}
      /\ held \in [Place -> BOOLEAN]
      /\ \A t \in Place : t # NoTree /\ Root(t) \in Slot
      /\ \A u \in Live : u[1] \in Place
  <2>1. held \in [Place -> BOOLEAN]
    BY DEF ForestInv, ArenaInv, TypeInv, TypeOK
  <2>. QED
    BY <2>1, FramesAre, WhatLives
<1>1. CASE TearDown
  <2>1. UNCHANGED <<arena, names>>
    BY <1>1 DEF TearDown
  <2>2. PICK left : /\ stack # <<>> 
                    /\ stack' = [stack EXCEPT ![Len(stack)] = [@ EXCEPT !.detached = left]]
    BY <1>1 DEF TearDown
  <2>3. DOMAIN stack' = DOMAIN stack /\ \A k \in DOMAIN stack : stack'[k].drops = stack[k].drops
    <3>1. DOMAIN stack' = DOMAIN stack
          /\ \A k \in DOMAIN stack : stack'[k] = IF k = Len(stack) THEN [stack[k] EXCEPT !.detached = left] ELSE stack[k]
      BY <1>0, <2>2
    <3>2. \A k \in DOMAIN stack : [stack[k] EXCEPT !.detached = left].drops = stack[k].drops
      BY <1>0 DEF Frame
    <3>. QED
      BY <3>1, <3>2
  <2>. QED
    BY <2>1, <2>3 DEF arena, ForestInv, OneSerialEach, LiveAreHeld, DropsInHand, Live, Root
<1>2. CASE Return
  <2> DEFINE d == stack[Len(stack)].drops
  <2>1. /\ UNCHANGED <<serial, names>> /\ stack # <<>> /\ stack' = Front(stack)
        /\ held' = [t \in Place |-> held[t] /\ t # d]
    BY <1>2 DEF Return, Last
  <2>2. Len(stack) \in 1..Len(stack) /\ DOMAIN stack' = 1..(Len(stack) - 1)
        /\ \A k \in 1..(Len(stack) - 1) : stack'[k] = stack[k]
    <3>1. Front(stack) \in Seq(Frame) /\ Len(stack) \in Nat \ {0} /\ Len(Front(stack)) = Len(stack) - 1
          /\ \A k \in 1..(Len(stack) - 1) : Front(stack)[k] = stack[k]
      BY <1>0, <2>1, FrontLast
    <3>. QED
      BY <2>1, <3>1
  <2>3. ASSUME NEW u \in Live
        PROVE  u[1] # d
    <3>1. CASE d = NoTree
      BY <1>0, <3>1
    <3>2. CASE d # NoTree
      <4>1. serial[Root(d)] = 0
        BY <1>0, <2>2, <3>2 DEF ForestInv, DropsInHand
      <4>. QED
        BY <4>1, NoneWithoutRoot
    <3>. QED
      BY <3>1, <3>2
  <2>4. ASSUME NEW k \in 1..(Len(stack) - 1), stack[k].drops # NoTree
        PROVE  /\ held'[stack[k].drops] /\ serial[Root(stack[k].drops)] = 0
               /\ \A l \in 1..(Len(stack) - 1) : stack[l].drops = stack[k].drops => l = k
    <3>1. k \in 1..Len(stack) /\ k # Len(stack) /\ \A l \in 1..(Len(stack) - 1) : l \in 1..Len(stack)
      <4>1. \A n \in Nat : \A l \in 1..(n - 1) : l \in 1..n /\ l # n
        OBVIOUS
      <4>. QED
        BY ONLY <1>0, <4>1, k \in 1..(Len(stack) - 1)
    <3>2. /\ held[stack[k].drops] /\ serial[Root(stack[k].drops)] = 0
          /\ \A l \in 1..Len(stack) : stack[l].drops = stack[k].drops => l = k
      BY <1>0, <2>4, <3>1 DEF ForestInv, DropsInHand
    <3>3. stack[k].drops \in Place /\ stack[k].drops # d
      BY <1>0, <2>2, <2>4, <3>1, <3>2
    <3>. QED
      BY <2>1, <3>1, <3>2, <3>3
  <2> HIDE DEF d
  <2>5. Live' = Live /\ LiveAreHeld'
    BY <1>0, <2>1, <2>3 DEF ForestInv, LiveAreHeld, Live
  <2>6. DropsInHand'
    BY <2>1, <2>2, <2>4 DEF DropsInHand, Root
  <2>. QED
    BY <2>1, <2>5, <2>6 DEF ForestInv, OneSerialEach
<1>3. ASSUME NEW t \in Place, DropTree(t)
      PROVE  OneSerialEach' /\ LiveAreHeld' /\ DropsInHand'
  <2>1. Root(t) \in Live /\ RemoveWith(Root(t), t)
    BY <1>0, <1>3 DEF DropTree, Root, Live
  <2>. QED
    BY <2>1, RemovingKeepsForest
<1>4. ASSUME NEW t \in Place, DropEmptyTree(t)
      PROVE  OneSerialEach' /\ LiveAreHeld' /\ DropsInHand'
  <2>1. /\ serial[Root(t)] = 0 /\ UNCHANGED <<serial, names, stack>> /\ held' = [held EXCEPT ![t] = FALSE]
        /\ \A k \in DOMAIN stack : stack[k].drops # t
    BY <1>4 DEF DropEmptyTree, Root
  <2>2. Live' = Live /\ \A u \in Live : u[1] # t
    BY <2>1, NoneWithoutRoot DEF Live
  <2>3. LiveAreHeld'
    BY <1>0, <2>1, <2>2 DEF ForestInv, LiveAreHeld
  <2>4. DropsInHand'
    BY <1>0, <2>1 DEF ForestInv, DropsInHand, Root
  <2>. QED
    BY <2>1, <2>2, <2>3, <2>4 DEF ForestInv, OneSerialEach
<1>5. ASSUME NEW n \in names, RemoveScope(n)
      PROVE  OneSerialEach' /\ LiveAreHeld' /\ DropsInHand'
  <2>1. n.slot \in Live /\ RemoveWith(n.slot, NoTree)
    BY <1>5, WhatLives DEF RemoveScope, IsAlive, Live
  <2>. QED
    BY <2>1, RemovingKeepsForest
<1>6. ASSUME NEW n \in names, NEW r \in Resource, Own(n, r)
      PROVE  OneSerialEach' /\ LiveAreHeld' /\ DropsInHand'
  BY <1>6 DEF Own, ForestInv, OneSerialEach, LiveAreHeld, DropsInHand, Live, Root
<1>7. CASE UNCHANGED vars
  BY <1>7 DEF vars, arena, ForestInv, OneSerialEach, LiveAreHeld, DropsInHand, Live, Root
<1>. QED
  BY <1>1, <1>2, <1>3, <1>4, <1>5, <1>6, <1>7, GrowingKeepsForest DEF Next

LEMMA ForestInit == Init => ForestInv
<1> SUFFICES ASSUME Init
             PROVE  OneSerialEach /\ LiveAreHeld /\ DropsInHand
  BY ArenaInit DEF ForestInv
<1>1. Live = {} /\ DOMAIN stack = {}
  BY DEF Init, Live
<1>. QED
  BY <1>1 DEF OneSerialEach, LiveAreHeld, DropsInHand

-----------------------------------------------------------------------------
(* The arena read as a forest.                                              *)

LEMMA AlikeInTheForest ==
  /\ \A S : Forest!Cardinality(S) = Cardinality(S)
  /\ \A q : Forest!FlattenSeq(q) = FlattenSeq(q) /\ Forest!Reverse(q) = Reverse(q)
  /\ \A q : Forest!Front(q) = Front(q) /\ Forest!Last(q) = Last(q)
  /\ \A S, T : Forest!Bijection(S, T) = Bijection(S, T)
  /\ \A f, S : Forest!Restrict(f, S) = Restrict(f, S)
<1>1. \A S : Forest!Cardinality(S) = Cardinality(S)
  BY DEF Forest!Cardinality, Cardinality
<1>2. \A q : Forest!FlattenSeq(q) = FlattenSeq(q)
  BY DEF Forest!FlattenSeq, FlattenSeq
<1>3. \A q : Forest!Reverse(q) = Reverse(q)
  BY DEF Forest!Reverse, Reverse
<1>4. \A q : Forest!Front(q) = Front(q) /\ Forest!Last(q) = Last(q)
  BY DEF Forest!Front, Front, Forest!Last, Last
<1>5. \A S, T : Forest!Bijection(S, T) = Bijection(S, T)
  BY DEF Forest!Bijection, Bijection, Forest!Injection, Injection, Forest!Surjection, Surjection,
         Forest!IsInjective, IsInjective
<1>6. \A f, S : Forest!Restrict(f, S) = Restrict(f, S)
  BY DEF Forest!Restrict, Restrict
<1>. QED
  BY <1>1, <1>2, <1>3, <1>4, <1>5, <1>6

\* The two readings, at the serial of any scope that is there.
Read ==
  /\ Serials = {serial[u] : u \in Live}
  /\ AboveBySerial = [n \in Serials |-> AboveBySerial[n]]
  /\ OwnsBySerial = [n \in Serials |-> OwnsBySerial[n]]
  /\ \A u \in Live : /\ AboveBySerial[serial[u]] = IF parent[u] = NoSlot THEN 0 ELSE serial[parent[u]]
                     /\ OwnsBySerial[serial[u]] = owns[u]

LEMMA ReadNow == OneSerialEach => Read
<1> SUFFICES ASSUME OneSerialEach
             PROVE  Read
  OBVIOUS
<1>1. \A u \in Live : serial[u] \in Serials /\ SlotOf(serial[u]) = u
  <2>1. SUFFICES ASSUME NEW u \in Live
                 PROVE  SlotOf(serial[u]) = u
    BY DEF Serials
  <2>2. \A v \in Live : serial[v] = serial[u] => v = u
    BY DEF OneSerialEach
  <2>. QED
    BY <2>2 DEF SlotOf
<1>. QED
  BY <1>1 DEF Read, Serials, AboveBySerial, OwnsBySerial

LEMMA ReadAfter == OneSerialEach' => Read'
  BY ReadNow, PTL

\* What is under a scope in the forest is what is under it in the arena.
LEMMA UnderBySerial ==
  ASSUME ForestInv, NEW s \in Live
  PROVE  Forest!Under(serial[s]) = {serial[u] : u \in Under(s)}
<1> DEFINE F == {serial[u] : u \in Under(s)}
<1>1. /\ s \in Under(s) /\ \A u \in Under(s) : u \in Live /\ u[1] = s[1]
      /\ \A u \in Under(s) : children[u] \subseteq Under(s)
  BY UnderALiveScope DEF ForestInv
<1>2. /\ NoSlot \notin Slot /\ s \in Slot
      /\ \A u \in Live : u \in Slot /\ serial[u] \in Nat \ {0} /\ parent[u] \in Live \cup {NoSlot}
  BY WhatLives
<1>3. \A u \in Slot : children[u] = {c \in Live : u \in Live /\ parent[c] = u}
  BY DEF ForestInv, ArenaInv, ArenaInStep, Linked
<1>4. /\ Forest!Alive = Serials /\ Serials = {serial[u] : u \in Live}
      /\ \A u \in Live : AboveBySerial[serial[u]] = IF parent[u] = NoSlot THEN 0 ELSE serial[parent[u]]
  BY ReadNow DEF ForestInv, Read, Forest!Alive
<1>5. \A u, v \in Live : serial[u] = serial[v] => u = v
  BY DEF ForestInv, OneSerialEach
<1>6. \A n : n \in Forest!Under(serial[s]) <=>
             /\ n \in Serials
             /\ \A S \in SUBSET Serials :
                  serial[s] \in S /\ (\A c \in Serials : AboveBySerial[c] \in S => c \in S) => n \in S
  BY <1>4 DEF Forest!Under
<1>7. ASSUME NEW u \in Under(s)
      PROVE  serial[u] \in Forest!Under(serial[s])
  <2>1. SUFFICES ASSUME NEW S \in SUBSET Serials, serial[s] \in S,
                        \A c \in Serials : AboveBySerial[c] \in S => c \in S
                 PROVE  serial[u] \in S
    BY <1>1, <1>4, <1>6
  <2> DEFINE T == {v \in Under(s) : serial[v] \in S}
  <2>2. s \in T
    BY <1>1, <2>1
  <2>3. ASSUME NEW p \in T, NEW c \in children[p]
        PROVE  c \in T
    <3>1. p \in Under(s) /\ p \in Slot /\ serial[p] \in S
      BY <1>1, <1>2
    <3>2. c \in Under(s) /\ c \in Live /\ parent[c] = p
      BY <1>1, <1>3, <3>1
    <3>3. AboveBySerial[serial[c]] = serial[p] /\ serial[c] \in Serials
      BY <1>2, <1>4, <3>1, <3>2
    <3>. QED
      BY <2>1, <3>1, <3>2, <3>3
  <2>4. T \in SUBSET {v \in Slot : v[1] = s[1]}
    BY <1>1, <1>2
  <2> HIDE DEF T
  <2>5. Under(s) \subseteq T
    BY <1>2, <2>2, <2>3, <2>4, UnderIsLeast
  <2>. QED
    BY <2>5 DEF T
<1>8. ASSUME NEW n \in Forest!Under(serial[s])
      PROVE  n \in F
  <2>1. F \in SUBSET Serials /\ serial[s] \in F
    BY <1>1, <1>4
  <2>2. ASSUME NEW c \in Serials, AboveBySerial[c] \in F
        PROVE  c \in F
    <3>1. PICK v \in Live : c = serial[v]
      BY <1>4
    <3>2. PICK u \in Under(s) : AboveBySerial[c] = serial[u]
      BY <2>2
    <3>3. u \in Live /\ serial[u] # 0
      BY <1>1, <1>2, <3>2
    <3>4. parent[v] # NoSlot /\ serial[parent[v]] = serial[u]
      BY <1>4, <3>1, <3>2, <3>3
    <3>5. parent[v] = u
      BY <1>2, <1>5, <3>1, <3>3, <3>4
    <3>6. v \in children[u]
      BY <1>2, <1>3, <3>1, <3>3, <3>5
    <3>. QED
      BY <1>1, <3>1, <3>2, <3>6
  <2> HIDE DEF F
  <2>. QED
    BY <1>6, <2>1, <2>2
<1>. QED
  BY <1>7, <1>8

\* A new scope is a new one in the forest, under what it is under.
LEMMA GrowingMakes ==
  ASSUME ForestInv, OneSerialEach', NEW s, NEW p, Grows(s, p)
  PROVE  Forest!Next
<1> DEFINE m == nextSerial
           up == IF p = NoSlot THEN 0 ELSE serial[p]
<1>1. /\ m \in Nat \ {0} /\ m <= MaxSerial /\ MaxSerial \in Nat /\ NoSlot \notin Slot
      /\ \A u \in Live : u \in Slot /\ serial[u] \in Nat \ {0} /\ serial[u] < m /\ parent[u] \in Live \cup {NoSlot}
  BY WhatLives DEF Grows
<1>2. Read /\ Read' /\ Forest!Alive = Serials
  BY ReadNow, ReadAfter DEF ForestInv, Read, Forest!Alive
<1>3. /\ s \notin Live /\ p \in Live \cup {NoSlot} /\ Live' = Live \cup {s}
      /\ serial'[s] = m /\ parent'[s] = p /\ owns'[s] = <<>>
      /\ \A u \in Live : serial'[u] = serial[u] /\ parent'[u] = parent[u] /\ owns'[u] = owns[u]
      /\ nextSerial' = m + 1 /\ UNCHANGED <<stack, torn>>
  BY DEF Grows
<1>4. up \in Serials \cup {0}
  BY <1>2, <1>3 DEF Read
<1>5. Serials' = Serials \cup {m} /\ m \notin Serials
  <2>1. Serials' = {serial'[u] : u \in Live \cup {s}}
    BY <1>2, <1>3 DEF Read
  <2>. QED
    BY <1>1, <1>2, <1>3, <2>1 DEF Read
<1>6. AboveBySerial' = [t \in Serials \cup {m} |-> IF t = m THEN up ELSE AboveBySerial[t]]
  <2>1. ASSUME NEW t \in Serials'
        PROVE  AboveBySerial'[t] = IF t = m THEN up ELSE AboveBySerial[t]
    <3>1. PICK u \in Live' : t = serial'[u]
      BY <1>2 DEF Read
    <3>2. AboveBySerial'[t] = IF parent'[u] = NoSlot THEN 0 ELSE serial'[parent'[u]]
      BY <1>2, <3>1 DEF Read, NoSlot
    <3>3. CASE u = s
      BY <1>1, <1>3, <3>1, <3>2, <3>3
    <3>4. CASE u \in Live
      <4>1. t = serial[u] /\ t # m /\ parent'[u] = parent[u]
        BY <1>1, <1>3, <3>1, <3>4
      <4>2. parent[u] # NoSlot => serial'[parent[u]] = serial[parent[u]]
        BY <1>1, <1>3, <3>4
      <4>3. AboveBySerial[t] = IF parent[u] = NoSlot THEN 0 ELSE serial[parent[u]]
        BY <1>2, <3>4, <4>1 DEF Read
      <4>. QED
        BY <3>2, <4>1, <4>2, <4>3
    <3>. QED
      BY <1>3, <3>1, <3>3, <3>4
  <2>2. AboveBySerial' = [t \in Serials' |-> AboveBySerial'[t]]
    BY <1>2 DEF Read
  <2>. QED
    BY ONLY <1>5, <2>1, <2>2
<1>7. OwnsBySerial' = [t \in Serials \cup {m} |-> IF t = m THEN <<>> ELSE OwnsBySerial[t]]
  <2>1. ASSUME NEW t \in Serials'
        PROVE  OwnsBySerial'[t] = IF t = m THEN <<>> ELSE OwnsBySerial[t]
    <3>1. PICK u \in Live' : t = serial'[u]
      BY <1>2 DEF Read
    <3>2. OwnsBySerial'[t] = owns'[u]
      BY <1>2, <3>1 DEF Read
    <3>3. CASE u = s
      BY <1>3, <3>1, <3>2, <3>3
    <3>4. CASE u \in Live
      <4>1. t = serial[u] /\ t # m /\ owns'[u] = owns[u]
        BY <1>1, <1>3, <3>1, <3>4
      <4>. QED
        BY <1>2, <3>2, <3>4, <4>1 DEF Read
    <3>. QED
      BY <1>3, <3>1, <3>3, <3>4
  <2>2. OwnsBySerial' = [t \in Serials' |-> OwnsBySerial'[t]]
    BY <1>2 DEF Read
  <2>. QED
    BY ONLY <1>5, <2>1, <2>2
<1>8. (1..(nextSerial - 1))' = 1..(m - 1) \cup {m} /\ \A e \in 1..(m - 1) : m > e
  BY <1>1, <1>3
<1>9. LeftByFrame' = LeftByFrame
  BY <1>3 DEF LeftByFrame, LeftOf
<1> HIDE DEF up
<1>10. Forest!Make(m, up)
  BY <1>2, <1>3, <1>4, <1>6, <1>7, <1>8, <1>9 DEF Forest!Make
<1>. QED
  BY <1>1, <1>2, <1>4, <1>10 DEF Forest!Next

\* What is owned is given to the scope if it is there, and let go of at once if
\* it is not.
LEMMA OwningGives ==
  ASSUME ForestInv, OneSerialEach', NEW n \in names, NEW r \in Resource, Own(n, r)
  PROVE  Forest!Next
<1>1. /\ n.serial \in Nat \ {0} /\ n.serial < nextSerial /\ nextSerial \in Nat /\ nextSerial <= MaxSerial + 1
      /\ MaxSerial \in Nat /\ n.slot \in Slot
  BY WhatLives
<1>2. Read /\ Read' /\ Forest!Alive = Serials
  BY ReadNow, ReadAfter DEF ForestInv, Read, Forest!Alive
<1>3. /\ UNCHANGED <<serial, parent, nextSerial, stack>> /\ Live' = Live /\ Serials' = Serials
      /\ AboveBySerial' = AboveBySerial /\ LeftByFrame' = LeftByFrame
  BY DEF Own, Live, Serials, AboveBySerial, SlotOf, LeftByFrame, LeftOf
<1>4. n.serial \in Serials <=> IsAlive(n)
  <2>1. ASSUME IsAlive(n)
        PROVE  n.serial \in Serials
    BY <1>1, <1>2, <2>1 DEF IsAlive, Live, Read
  <2>2. ASSUME n.serial \in Serials
        PROVE  IsAlive(n)
    <3>1. PICK u \in Live : serial[u] = n.serial
      BY <1>2, <2>2 DEF Read
    <3>2. u = n.slot
      BY <3>1 DEF ForestInv, OneSerialEach
    <3>. QED
      BY <1>1, <3>1, <3>2 DEF IsAlive, ForestInv, LiveAreHeld
  <2>. QED
    BY <2>1, <2>2
<1>5. Forest!Give(n.serial, r)
  <2>1. CASE IsAlive(n)
    <3>1. n.slot \in Live /\ serial[n.slot] = n.serial /\ torn' = torn
          /\ owns' = [owns EXCEPT ![n.slot] = Append(@, r)] /\ owns \in [Slot -> Seq(Resource)]
      BY <1>1, <2>1 DEF IsAlive, Live, Own, ForestInv, ArenaInv, TypeInv, TypeOK
    <3>2. ASSUME NEW t \in Serials
          PROVE  OwnsBySerial'[t] = IF t = n.serial THEN Append(OwnsBySerial[t], r) ELSE OwnsBySerial[t]
      <4>1. PICK u \in Live : t = serial[u]
        BY <1>2 DEF Read
      <4>2. OwnsBySerial'[t] = owns'[u] /\ OwnsBySerial[t] = owns[u] /\ u \in Slot
        BY <1>2, <1>3, <4>1 DEF Read, Live
      <4>3. t = n.serial <=> u = n.slot
        BY <3>1, <4>1 DEF ForestInv, OneSerialEach
      <4>. QED
        BY <3>1, <4>2, <4>3
    <3>3. OwnsBySerial' = [OwnsBySerial EXCEPT ![n.serial] = Append(@, r)]
      <4>1. /\ OwnsBySerial' = [t \in Serials |-> OwnsBySerial'[t]] /\ n.serial \in Serials
            /\ DOMAIN OwnsBySerial = Serials /\ OwnsBySerial = [t \in DOMAIN OwnsBySerial |-> OwnsBySerial[t]]
        BY <1>2, <1>3, <1>4, <2>1 DEF Read
      <4>. QED
        BY ONLY <3>2, <4>1
    <3>. QED
      BY <1>2, <1>3, <1>4, <2>1, <3>1, <3>3 DEF Forest!Give
  <2>2. CASE ~IsAlive(n)
    <3>1. owns' = owns /\ torn' = Append(torn, r)
      BY <2>2 DEF Own
    <3>2. OwnsBySerial' = OwnsBySerial
      BY <1>3, <3>1 DEF OwnsBySerial, SlotOf
    <3>. QED
      BY <1>2, <1>3, <1>4, <2>2, <3>1, <3>2 DEF Forest!Give
  <2>. QED
    BY <2>1, <2>2
<1>6. n.serial \in 1..MaxSerial
  BY <1>1
<1>. QED
  BY <1>5, <1>6 DEF Forest!Next

\* One teardown lets go of what is next of the innermost removal.
LEMMA TearingLetsGo ==
  ASSUME ForestInv, TearDown
  PROVE  Forest!Next
<1> DEFINE n == Len(stack)
           left == stack[n].detached
           run == LeftByFrame
<1>1. /\ stack \in Seq(Frame) /\ n \in Nat /\ DOMAIN stack = 1..n
      /\ \A k \in 1..n : stack[k] \in Frame /\ stack[k].detached \in Seq(Seq(Resource))
  BY FramesAre
<1>2. stack # <<>> /\ n \in 1..n /\ left \in Seq(Seq(Resource))
  BY <1>1, EmptySeq DEF TearDown
<1>3. PICK k \in DOMAIN left :
        /\ left[k] # <<>>
        /\ \A j \in 1..(k - 1) : left[j] = <<>>
        /\ torn' = Append(torn, Last(left[k]))
        /\ stack' = [stack EXCEPT ![n] = [@ EXCEPT !.detached = [left EXCEPT ![k] = Front(left[k])]]]
  BY DEF TearDown, Last
<1> DEFINE after == [left EXCEPT ![k] = Front(left[k])]
<1>4. LeftOf(left) # <<>> /\ Head(LeftOf(left)) = Last(left[k]) /\ Tail(LeftOf(left)) = LeftOf(after)
  BY <1>2, <1>3, LetGoNext
<1>5. DOMAIN stack' = 1..n /\ stack'[n].detached = after
      /\ \A f \in 1..n : f # n => stack'[f] = stack[f]
  <2>1. stack' = [stack EXCEPT ![n] = [stack[n] EXCEPT !.detached = after]]
    BY <1>3
  <2>2. [stack[n] EXCEPT !.detached = after].detached = after
    BY <1>1, <1>2 DEF Frame
  <2> HIDE DEF after, n
  <2>. QED
    BY <1>1, <1>2, <2>1, <2>2
<1> HIDE DEF left, after
<1>6. run = [f \in 1..n |-> LeftOf(stack[f].detached)] /\ run[n] = LeftOf(left)
  BY <1>1, <1>2 DEF LeftByFrame, left
<1>7. run' = [f \in 1..n |-> LeftOf(stack'[f].detached)]
  BY <1>5 DEF LeftByFrame, LeftOf
<1>8. Len(run) = n /\ run # <<>> /\ Last(run) = LeftOf(left)
  <2>1. Len(run) = n
    BY <1>1, <1>6
  <2> HIDE DEF run, n
  <2>. QED
    BY <1>2, <1>6, <2>1 DEF Last
<1> HIDE DEF n
<1>9. run' = [run EXCEPT ![n] = Tail(@)]
  <2>1. ASSUME NEW f \in 1..n
        PROVE  LeftOf(stack'[f].detached) = IF f = n THEN Tail(run[f]) ELSE run[f]
    BY <1>4, <1>5, <1>6, <2>1
  <2> HIDE DEF run
  <2>. QED
    BY <1>6, <1>7, <2>1
<1>10. UNCHANGED <<AboveBySerial, OwnsBySerial, nextSerial>>
  BY DEF TearDown, arena, AboveBySerial, OwnsBySerial, Serials, SlotOf, Live
<1>11. Forest!LetGo
  <2>1. Forest!Last(run) = Last(run)
    BY AlikeInTheForest
  <2>. QED
    BY <1>3, <1>4, <1>8, <1>9, <1>10, <2>1 DEF Forest!LetGo
<1>. QED
  BY <1>11 DEF Forest!Next

\* A removal that returns has nothing left.
LEMMA ReturningIsDone ==
  ASSUME ForestInv, Return
  PROVE  Forest!Next
<1> DEFINE n == Len(stack)
           run == LeftByFrame
<1>1. /\ stack \in Seq(Frame) /\ n \in Nat /\ DOMAIN stack = 1..n
      /\ \A k \in 1..n : stack[k] \in Frame /\ stack[k].detached \in Seq(Seq(Resource))
  BY FramesAre
<1>2. stack # <<>> /\ n \in 1..n /\ stack[n].detached \in Seq(Seq(Resource))
      /\ \A k \in DOMAIN stack[n].detached : stack[n].detached[k] = <<>>
  BY <1>1, EmptySeq DEF Return, Last
<1>3. LeftOf(stack[n].detached) = <<>>
  BY <1>2, NothingLeft
<1>4. DOMAIN stack' = 1..(n - 1) /\ \A f \in 1..(n - 1) : stack'[f] = stack[f]
  <2>1. Front(stack) \in Seq(Frame) /\ Len(Front(stack)) = n - 1 /\ \A f \in 1..(n - 1) : Front(stack)[f] = stack[f]
    BY <1>1, <1>2, FrontLast
  <2>. QED
    BY <2>1, LenProperties DEF Return
<1>5. run = [f \in 1..n |-> LeftOf(stack[f].detached)] /\ run' = [f \in 1..(n - 1) |-> LeftOf(stack'[f].detached)]
  BY <1>1, <1>4 DEF LeftByFrame, LeftOf
<1> DEFINE Remnants == {run[f] : f \in 1..n}
<1>6. run \in Seq(Remnants) /\ Len(run) = n
  <2>1. run = [f \in 1..n |-> run[f]]
    BY <1>5
  <2> HIDE DEF run, n
  <2>2. \A f \in 1..n : run[f] \in Remnants
    OBVIOUS
  <2> HIDE DEF Remnants
  <2>. QED
    BY <1>1, <2>1, <2>2
<1>7. run # <<>> /\ Last(run) = <<>>
  <2>1. run[n] = <<>>
    BY <1>2, <1>3, <1>5
  <2> HIDE DEF run, n
  <2>. QED
    BY <1>1, <1>2, <1>6, <2>1, EmptySeq DEF Last
<1> HIDE DEF n
<1>8. run' = Front(run)
  <2>1. \A f \in 1..(n - 1) : run'[f] = run[f]
    <3>1. \A f \in 1..(n - 1) : f \in 1..n
      BY <1>1
    <3>. QED
      BY <1>4, <1>5, <3>1
  <2>2. run' = [f \in 1..(n - 1) |-> run[f]]
    <3>1. run' = [f \in 1..(n - 1) |-> run'[f]]
      BY <1>5
    <3> HIDE DEF run
    <3>. QED
      BY <2>1, <3>1
  <2> HIDE DEF run, Remnants
  <2>3. Front(run) \in Seq(Remnants) /\ Len(Front(run)) = n - 1 /\ \A f \in 1..(n - 1) : Front(run)[f] = run[f]
    BY <1>6, <1>7, FrontLast
  <2>4. Front(run) = [f \in 1..(n - 1) |-> Front(run)[f]]
    BY <2>3, LenProperties
  <2>. QED
    BY <2>2, <2>3, <2>4
<1>9. UNCHANGED <<AboveBySerial, OwnsBySerial, nextSerial, torn>>
  BY DEF Return, AboveBySerial, OwnsBySerial, Serials, SlotOf, Live
<1>10. Forest!Done
  <2>1. Forest!Last(run) = Last(run) /\ Forest!Front(run) = Front(run)
    BY AlikeInTheForest
  <2>. QED
    BY <1>7, <1>8, <1>9, <2>1 DEF Forest!Done
<1>. QED
  BY <1>10 DEF Forest!Next

\* The order collect lists what is under a scope in is one it may leave the
\* forest in.
LEMMA VisitIsLeaving ==
  ASSUME ForestInv, NEW s \in Live, NEW visit \in Collect(s)
  PROVE  [k \in DOMAIN visit |-> serial[visit[k]]] \in Forest!LeavingOrder(serial[s])
<1> DEFINE U == Under(s)
           F == Forest!Under(serial[s])
           c == Cardinality(U)
           inTurn == [k \in DOMAIN visit |-> serial[visit[k]]]
<1>1. /\ c \in Nat /\ visit \in [1..c -> U] /\ {visit[k] : k \in DOMAIN visit} = U
      /\ \A k, l \in DOMAIN visit : visit[k] = visit[l] => k = l
  BY CollectListsUnder DEF Live
<1>2. F = {serial[u] : u \in U}
  BY UnderBySerial
<1>3. \A u \in U : u \in Live
  BY UnderALiveScope DEF ForestInv
<1>4. \A u, v \in Live : serial[u] = serial[v] => u = v
  BY DEF ForestInv, OneSerialEach
<1>5. /\ Read /\ Forest!Alive = Serials
      /\ \A u \in Slot : children[u] = {x \in Live : u \in Live /\ parent[x] = u}
  BY ReadNow DEF ForestInv, Read, Forest!Alive, ArenaInv, ArenaInStep, Linked
<1>6. \A k, l \in DOMAIN visit : k < l => Precedes(children, serial, visit[k], visit[l])
  BY DEF Collect, CollectIn, Under
<1> HIDE DEF U, F, c
<1>7. inTurn \in Bijection(1..c, F)
  <2>1. inTurn \in [1..c -> F]
    BY <1>1, <1>2
  <2>2. \A k, l \in 1..c : inTurn[k] = inTurn[l] => k = l
    BY <1>1, <1>3, <1>4
  <2>3. \A n \in F : \E k \in 1..c : inTurn[k] = n
    BY <1>1, <1>2
  <2> HIDE DEF inTurn
  <2>. QED
    BY <2>1, <2>2, <2>3 DEF Bijection, Injection, IsInjective, Surjection
<1>8. Cardinality(F) = c
  <2>1. 1 \in Int /\ c \in Int
    BY <1>1
  <2>2. IsFiniteSet(1..c) /\ Cardinality(1..c) = c
    BY <1>1, <2>1, FS_Interval
  <2>3. ExistsBijection(1..c, F)
    BY <1>7 DEF ExistsBijection
  <2>. QED
    BY <2>2, <2>3, FS_Bijection
<1>9. \A a, b \in Live : a \in Under(b) => serial[a] \in Forest!Under(serial[b])
  BY UnderBySerial
<1>10. ASSUME NEW k \in DOMAIN visit, NEW l \in DOMAIN visit, k < l
       PROVE  Forest!GoesBefore(inTurn[k], inTurn[l])
  <2> DEFINE a == visit[k]
             b == visit[l]
  <2>1. a \in Live /\ b \in Live /\ Precedes(children, serial, a, b) /\ inTurn[k] = serial[a] /\ inTurn[l] = serial[b]
    BY <1>1, <1>3, <1>6, <1>10
  <2> HIDE DEF a, b, inTurn
  <2>2. CASE a \in Under(b)
    BY <1>9, <2>1, <2>2 DEF Forest!GoesBefore
  <2>3. CASE \E p \in Slot : \E x, y \in children[p] : serial[x] < serial[y] /\ a \in Under(y) /\ b \in Under(x)
    <3>0. PICK p \in Slot :
            \E x, y \in children[p] : serial[x] < serial[y] /\ a \in Under(y) /\ b \in Under(x)
      BY <2>3
    <3>1. PICK x \in children[p], y \in children[p] :
            serial[x] < serial[y] /\ a \in Under(y) /\ b \in Under(x)
      BY <3>0
    <3>2. x \in Live /\ y \in Live /\ parent[x] = p /\ parent[y] = p
      BY <1>5
    <3>3. /\ serial[x] \in Serials /\ serial[y] \in Serials
          /\ AboveBySerial[serial[x]] = AboveBySerial[serial[y]]
      BY <1>5, <3>2 DEF Read
    <3>4. serial[a] \in Forest!Under(serial[y]) /\ serial[b] \in Forest!Under(serial[x])
      BY <1>9, <2>1, <3>1, <3>2
    <3>. QED
      BY <1>5, <2>1, <3>1, <3>3, <3>4 DEF Forest!GoesBefore
  <2>. QED
    BY <2>1, <2>2, <2>3 DEF Precedes, Under
<1>11. DOMAIN inTurn = DOMAIN visit
  OBVIOUS
<1> HIDE DEF inTurn
<1>12. inTurn \in Forest!Bijection(1..Forest!Cardinality(F), F)
  BY <1>7, <1>8, AlikeInTheForest
<1>. QED
  BY <1>10, <1>11, <1>12 DEF Forest!LeavingOrder, F, inTurn

\* A removal takes out of the forest what is under its scope, in the order it
\* was collected.
LEMMA RemovingTakes ==
  ASSUME ForestInv, OneSerialEach', NEW s \in Live, NEW drops, RemoveWith(s, drops)
  PROVE  Forest!Next
<1> DEFINE m == serial[s]
           U == Under(s)
           stay == Serials \ Forest!Under(m)
<1>1. PICK visit \in Collect(s) :
        stack' = Append(stack, [detached |-> [k \in DOMAIN visit |-> owns[visit[k]]], drops |-> drops])
  BY DEF RemoveWith
<1>2. /\ U \subseteq Live /\ s \in U /\ Live' = Live \ U
      /\ \A u \in Slot : u \notin U => serial'[u] = serial[u] /\ parent'[u] = parent[u] /\ owns'[u] = owns[u]
  BY RemovalLeaves
<1>3. /\ nextSerial \in Nat /\ nextSerial <= MaxSerial + 1 /\ MaxSerial \in Nat /\ NoSlot \notin Slot
      /\ \A u \in Live : /\ u \in Slot /\ serial[u] \in Nat \ {0} /\ serial[u] < nextSerial
                         /\ parent[u] \in Live \cup {NoSlot}
  BY WhatLives
<1>4. Read /\ Read' /\ Forest!Alive = Serials
  BY ReadNow, ReadAfter DEF ForestInv, Read, Forest!Alive
<1>5. Forest!Under(m) = {serial[u] : u \in U}
  BY UnderBySerial
<1>6. \A u, v \in Live : serial[u] = serial[v] => u = v
  BY DEF ForestInv, OneSerialEach
<1>7. \A u \in Live \ U : parent[u] # NoSlot => parent[u] \in Live \ U
  <2>1. SUFFICES ASSUME NEW u \in Live \ U, parent[u] \in U
                 PROVE  FALSE
    BY <1>3
  <2>2. parent[u] \in Live /\ parent[u] \in Slot
    BY <1>2, <1>3, <2>1
  <2>3. u \in children[parent[u]]
    BY <2>2 DEF ForestInv, ArenaInv, ArenaInStep, Linked
  <2>. QED
    BY <2>1, <2>3, UnderALiveScope DEF ForestInv
<1> HIDE DEF U
<1>8. Serials' = stay /\ \A u \in Live' : u \in Live /\ u \notin U /\ serial'[u] = serial[u] /\ u \in Slot
  <2>1. \A u \in Live' : u \in Live /\ u \notin U /\ serial'[u] = serial[u] /\ u \in Slot
    BY <1>2, <1>3
  <2>2. Serials' = {serial'[u] : u \in Live'}
    BY <1>4 DEF Read
  <2>3. Serials = {serial[u] : u \in Live}
    BY <1>4 DEF Read
  <2>4. ASSUME NEW n \in Serials'
        PROVE  n \in stay
    <3>1. PICK u \in Live' : n = serial'[u]
      BY <2>2
    <3>. QED
      BY <1>2, <1>5, <1>6, <2>1, <2>3, <3>1
  <2>5. ASSUME NEW n \in stay
        PROVE  n \in Serials'
    <3>1. PICK u \in Live : n = serial[u]
      BY <2>3
    <3>2. u \in Live'
      BY <1>2, <1>5, <3>1
    <3>. QED
      BY <2>1, <2>2, <3>1, <3>2
  <2>. QED
    BY <2>1, <2>4, <2>5
<1> HIDE DEF stay
<1>9. AboveBySerial' = [n \in stay |-> AboveBySerial[n]]
  <2>1. ASSUME NEW n \in stay
        PROVE  AboveBySerial'[n] = AboveBySerial[n]
    <3>1. PICK u \in Live' : n = serial'[u]
      BY <1>4, <1>8 DEF Read
    <3>2. u \in Live \ U /\ n = serial[u] /\ parent'[u] = parent[u]
      BY <1>2, <1>8, <3>1
    <3>3. parent[u] # NoSlot => serial'[parent[u]] = serial[parent[u]]
      BY <1>2, <1>3, <1>7, <3>2
    <3>4. AboveBySerial'[n] = IF parent'[u] = NoSlot THEN 0 ELSE serial'[parent'[u]]
      BY <1>4, <3>1 DEF Read, NoSlot
    <3>5. AboveBySerial[n] = IF parent[u] = NoSlot THEN 0 ELSE serial[parent[u]]
      BY <1>4, <3>2 DEF Read
    <3>. QED
      BY <3>2, <3>3, <3>4, <3>5
  <2>2. AboveBySerial' = [n \in stay |-> AboveBySerial'[n]]
    BY <1>4, <1>8 DEF Read
  <2>. QED
    BY ONLY <2>1, <2>2
<1>10. OwnsBySerial' = [n \in stay |-> OwnsBySerial[n]]
  <2>1. ASSUME NEW n \in stay
        PROVE  OwnsBySerial'[n] = OwnsBySerial[n]
    <3>1. PICK u \in Live' : n = serial'[u]
      BY <1>4, <1>8 DEF Read
    <3>2. u \in Live /\ n = serial[u] /\ owns'[u] = owns[u]
      BY <1>2, <1>8, <3>1
    <3>. QED
      BY <1>4, <3>1, <3>2 DEF Read
  <2>2. OwnsBySerial' = [n \in stay |-> OwnsBySerial'[n]]
    BY <1>4, <1>8 DEF Read
  <2>. QED
    BY ONLY <2>1, <2>2
<1> DEFINE inTurn == [k \in DOMAIN visit |-> serial[visit[k]]]
           detached == [k \in DOMAIN visit |-> owns[visit[k]]]
           leaves == FlattenSeq([k \in DOMAIN inTurn |-> Reverse(OwnsBySerial[inTurn[k]])])
<1>11. inTurn \in Forest!LeavingOrder(m)
  BY VisitIsLeaving
<1>12. LeftOf(detached) = leaves
  <2>1. \A k \in DOMAIN visit : visit[k] \in Live
    <3>1. visit \in [1..Cardinality(Under(s)) -> Under(s)]
      BY CollectListsUnder DEF Live
    <3>. QED
      BY <1>2, <3>1 DEF U
  <2>2. \A k \in DOMAIN visit : OwnsBySerial[inTurn[k]] = detached[k]
    BY <1>4, <2>1 DEF Read
  <2>3. DOMAIN inTurn = DOMAIN visit /\ DOMAIN detached = DOMAIN visit
    OBVIOUS
  <2> HIDE DEF inTurn, detached
  <2>4. [k \in DOMAIN inTurn |-> Reverse(OwnsBySerial[inTurn[k]])] = [k \in DOMAIN detached |-> Reverse(detached[k])]
    BY <2>2, <2>3
  <2>. QED
    BY <2>4 DEF LeftOf
<1>13. LeftByFrame' = Append(LeftByFrame, leaves)
  <2> DEFINE n == Len(stack)
  <2>1. stack \in Seq(Frame) /\ n \in Nat /\ DOMAIN stack = 1..n
    BY FramesAre
  <2>2. DOMAIN stack' = 1..(n + 1) /\ stack'[n + 1].detached = detached /\ \A f \in 1..n : stack'[f] = stack[f]
    BY <1>1, <2>1
  <2> HIDE DEF leaves, detached, inTurn, n
  <2>3. LeftByFrame = [f \in 1..n |-> LeftOf(stack[f].detached)]
    BY <2>1 DEF LeftByFrame
  <2>4. LeftByFrame' = [f \in 1..(n + 1) |-> LeftOf(stack'[f].detached)]
    BY <2>2 DEF LeftByFrame, LeftOf
  <2>5. \A f \in 1..(n + 1) : LeftOf(stack'[f].detached) = IF f = n + 1 THEN leaves ELSE LeftOf(stack[f].detached)
    BY <1>12, <2>1, <2>2
  <2> DEFINE left(f) == LeftOf(stack[f].detached)
             now(f) == LeftOf(stack'[f].detached)
  <2>6. LeftByFrame = [f \in 1..n |-> left(f)] /\ LeftByFrame' = [f \in 1..(n + 1) |-> now(f)]
        /\ \A f \in 1..(n + 1) : now(f) = IF f = n + 1 THEN leaves ELSE left(f)
    BY <2>3, <2>4, <2>5
  <2> HIDE DEF left, now
  <2>. QED
    BY <2>1, <2>6
<1> HIDE DEF inTurn
<1>14. LeftByFrame' = Append(LeftByFrame,
                             Forest!FlattenSeq([k \in DOMAIN inTurn |-> Forest!Reverse(OwnsBySerial[inTurn[k]])]))
  <2>1. [k \in DOMAIN inTurn |-> Forest!Reverse(OwnsBySerial[inTurn[k]])]
          = [k \in DOMAIN inTurn |-> Reverse(OwnsBySerial[inTurn[k]])]
    BY AlikeInTheForest
  <2>2. Forest!FlattenSeq([k \in DOMAIN inTurn |-> Reverse(OwnsBySerial[inTurn[k]])]) = leaves
    BY AlikeInTheForest
  <2>. QED
    BY <1>13, <2>1, <2>2
<1>15. /\ AboveBySerial' = Forest!Restrict(AboveBySerial, Forest!Alive \ Forest!Under(m))
       /\ OwnsBySerial' = Forest!Restrict(OwnsBySerial, Forest!Alive \ Forest!Under(m))
  BY <1>4, <1>9, <1>10 DEF Forest!Restrict, stay
<1>16. m \in Forest!Alive /\ m \in 1..MaxSerial /\ UNCHANGED <<nextSerial, torn>>
  <2>1. m \in Serials
    BY <1>4 DEF Read
  <2>2. m \in Nat \ {0} /\ m < nextSerial
    BY <1>3
  <2>. QED
    BY <1>3, <1>4, <2>1, <2>2 DEF RemoveWith
<1> HIDE DEF m, leaves, detached
<1>17. Forest!Take(m)
  BY <1>11, <1>14, <1>15, <1>16 DEF Forest!Take
<1>. QED
  BY <1>16, <1>17 DEF Forest!Next

\* A step of the arena is one of the forest, or is none.
LEMMA ForestStep == ForestInv /\ ForestInv' /\ [Next]_vars => [Forest!Next]_(Forest!vars)
<1> SUFFICES ASSUME ForestInv, OneSerialEach', [Next]_vars
             PROVE  Forest!Next \/ UNCHANGED Forest!vars
  BY DEF ForestInv
<1>1. CASE TearDown
  BY <1>1, TearingLetsGo
<1>2. CASE Return
  BY <1>2, ReturningIsDone
<1>3. ASSUME NEW t \in Place, NewTree(t)
      PROVE  Forest!Next
  BY <1>3, NewTreeGrows, GrowingMakes
<1>4. ASSUME NEW t \in Place, DropTree(t)
      PROVE  Forest!Next
  <2>1. <<t, 1>> \in Live /\ RemoveWith(<<t, 1>>, t)
    BY <1>4, ScopeTreeAssumption DEF DropTree, Live, Slot, Index
  <2>. QED
    BY <2>1, RemovingTakes
<1>5. ASSUME NEW t \in Place, DropEmptyTree(t)
      PROVE  UNCHANGED Forest!vars
  BY <1>5 DEF DropEmptyTree, Forest!vars, AboveBySerial, OwnsBySerial, LeftByFrame, LeftOf, Serials, SlotOf, Live
<1>6. ASSUME NEW n \in names, Child(n)
      PROVE  Forest!Next
  BY <1>6, ChildGrows, GrowingMakes
<1>7. ASSUME NEW n \in names, RemoveScope(n)
      PROVE  Forest!Next
  <2>1. n.slot \in Live /\ RemoveWith(n.slot, NoTree)
    BY <1>7, WhatLives DEF RemoveScope, IsAlive, Live
  <2>. QED
    BY <2>1, RemovingTakes
<1>8. ASSUME NEW n \in names, NEW r \in Resource, Own(n, r)
      PROVE  Forest!Next
  BY <1>8, OwningGives
<1>9. CASE UNCHANGED vars
  BY <1>9 DEF vars, arena, Forest!vars, AboveBySerial, OwnsBySerial, LeftByFrame, LeftOf, Serials, SlotOf, Live
<1>. QED
  BY <1>1, <1>2, <1>3, <1>4, <1>5, <1>6, <1>7, <1>8, <1>9 DEF Next

LEMMA ForestStart == Init => Forest!Init
<1> SUFFICES ASSUME Init
             PROVE  Forest!Init
  OBVIOUS
<1>1. Serials = {} /\ DOMAIN stack = {}
  BY DEF Init, Serials, Live
<1>2. AboveBySerial = <<>> /\ OwnsBySerial = <<>>
  BY <1>1 DEF AboveBySerial, OwnsBySerial
<1>3. LeftByFrame = <<>>
  BY <1>1 DEF LeftByFrame
<1>4. 1..(nextSerial - 1) = {} /\ torn = <<>>
  BY DEF Init
<1>. QED
  BY <1>2, <1>3, <1>4 DEF Forest!Init

\* The arena is a forest, for any number of trees, scopes and nested removals:
\* nodes and places taken again, names that outlive their scopes and teardowns
\* that remove in turn show a program nothing that a forest of scopes, each
\* made once and taken out with all that is under it, would not.
THEOREM ArenaIsAForest == Spec => ImplementsForest
<1>1. Init => ForestInv /\ Forest!Init
  BY ForestInit, ForestStart
<1>2. ForestInv /\ [Next]_vars => ForestInv'
  BY ForestInductive
<1>3. ForestInv /\ ForestInv' /\ [Next]_vars => [Forest!Next]_(Forest!vars)
  BY ForestStep
<1>. QED
  BY <1>1, <1>2, <1>3, PTL DEF Spec, ImplementsForest, Forest!Spec

-----------------------------------------------------------------------------
(* Nodes: what holds of iced's store for any routes, where no page sleeps. *)

Node ==
  {h \in [seg : Names, param : Params, edited : BOOLEAN, slot : Slots] :
     \E s \in Segments : h.seg = s.seg /\ h.param = s.param}
Placement == [cursor : Nat \ {0}, seg : Names]
StagedNode == {f \in [cursor : Nat \ {0}, seg : Names, held : Node] : f.held.seg = f.seg}
Envelope == [kind : {"node", "settled", "yes", "no"}, at : Placement \cup {Nobody}]
Updating ==
  [phase : {"rest", "code", "round", "panicked"}, round : Nat, batch : Nat, left : Nat,
   of : Placement \cup {Nobody}]

NodesTypeOK ==
  /\ route \in Route /\ synced \in Route
  /\ scopes \in Seq(Slots) /\ Len(scopes) = Len(Standing) /\ asleep = {}
  /\ pending = <<>> \/ \E r \in Route : pending = <<r>>
  /\ verdict \in [Slots -> BOOLEAN]
  /\ staged \in Seq(StagedNode)
  /\ live \in [DOMAIN live -> Node] /\ DOMAIN live \subseteq Placement
  /\ kept \in [DOMAIN kept -> Node]
  /\ inbox \in Seq(Envelope) /\ parked \in Seq(Envelope)
  /\ update \in Updating

\* A node is where its segment is looked for.
SegInv == \A p \in DOMAIN live : live[p].seg = p.seg

\* Whose update runs is known while its code does, and what is staged waits
\* for the end of the update.
UpdateInv ==
  /\ update.phase # "code" => update.of = Nobody
  /\ update.of # Nobody => update.of \in DOMAIN live
  /\ update.phase = "rest" => staged = <<>>
  /\ update.batch <= Len(parked)

\* A segment that stands has its node, in the store or on its way there; of
\* two on their way the later one is its own.
DrawInv ==
  \A i \in DOMAIN Standing :
    LET at == StagedAt(At(i, Standing[i].seg))
    IN /\ at = {} => /\ At(i, Standing[i].seg) \in DOMAIN live
                     /\ Drawn(i).param = Standing[i].param
       /\ \A n \in at : (\A m \in at : m <= n) => staged[n].held.param = Standing[i].param

\* No two nodes have a slot in common.
SlotInv ==
  /\ \A p, q \in DOMAIN live : live[p].slot = live[q].slot => p = q
  /\ \A m, n \in DOMAIN staged : staged[m].held.slot = staged[n].held.slot => m = n
  /\ \A x, y \in DOMAIN kept : kept[x].slot = kept[y].slot => x = y
  /\ \A p \in DOMAIN live : \A n \in DOMAIN staged : live[p].slot # staged[n].held.slot
  /\ \A p \in DOMAIN live : \A x \in DOMAIN kept : live[p].slot # kept[x].slot
  /\ \A n \in DOMAIN staged : \A x \in DOMAIN kept : staged[n].held.slot # kept[x].slot

\* The guard of a segment that minds reads the slot of its node, where its
\* answer is but while its update runs.
GuardInv ==
  \A i \in DOMAIN Standing : Standing[i].seg \in Minds =>
    LET p == At(i, Standing[i].seg)
    IN /\ StagedAt(p) = {} =>
            /\ live[p].slot = scopes[i]
            /\ update.of # p => verdict[scopes[i]] = live[p].edited
       /\ \A n \in StagedAt(p) : (\A m \in StagedAt(p) : m <= n) =>
            /\ staged[n].held.slot = scopes[i]
            /\ ~staged[n].held.edited /\ ~verdict[scopes[i]]

\* Captures of a page that is kept are no other page's.
CapturesTell == \A s, t \in Segments : s.seg \in Cached /\ s.param = t.param => s.seg = t.seg

-----------------------------------------------------------------------------
(* Chains. *)

LEMMA Chains ==
  ASSUME NEW r \in Route
  PROVE  /\ Chain[r] \in Seq(Segments) /\ Len(Chain[r]) \in Nat \ {0} /\ DOMAIN Chain[r] = 1..Len(Chain[r])
         /\ \A i \in DOMAIN Chain[r] :
              /\ Chain[r][i] \in Segments /\ Chain[r][i] \in [seg : Names, param : Params]
              /\ i \in Nat \ {0} /\ At(i, Chain[r][i].seg) \in Placement
<1>1. Chain[r] \in Seq(Segments) \ {<<>>} /\ Segments \subseteq [seg : Names, param : Params]
  BY NodesAssumption
<1>2. Chain[r] \in Seq(Segments) /\ Len(Chain[r]) \in Nat \ {0} /\ DOMAIN Chain[r] = 1..Len(Chain[r])
  BY <1>1
<1>3. ASSUME NEW i \in DOMAIN Chain[r]
      PROVE  /\ Chain[r][i] \in Segments /\ Chain[r][i] \in [seg : Names, param : Params]
             /\ i \in Nat \ {0}
  BY <1>1, <1>2
<1>. QED
  BY <1>2, <1>3 DEF At, Placement

\* The largest of some numbers up to n.
LEMMA LargestOf ==
  ASSUME NEW n \in Nat, NEW S \in SUBSET (1..n), S # {}
  PROVE  \E i \in S : \A j \in S : j <= i
<1> DEFINE T == {n - i : i \in S}
<1>1. T # {} /\ T \subseteq Nat
  <2>1. PICK i \in S : TRUE
    OBVIOUS
  <2>2. n - i \in T
    BY <2>1
  <2>3. \A j \in S : n - j \in Nat
    OBVIOUS
  <2>. QED
    BY <2>2, <2>3
<1>2. PICK k \in T : \A l \in T : k <= l
  <2> HIDE DEF T
  <2>. QED
    BY <1>1, LeastNumber
<1>3. PICK i \in S : k = n - i
  OBVIOUS
<1>4. ASSUME NEW j \in S PROVE j <= i
  BY <1>2, <1>3
<1>. QED
  BY <1>4

\* What two chains share.
LEMMA SharedIsCommon ==
  ASSUME NEW q \in Route, NEW r \in Route
  PROVE  /\ Shared(Chain[q], Chain[r]) \in 0..Len(Chain[q])
         /\ Shared(Chain[q], Chain[r]) <= Len(Chain[r])
         /\ \A j \in 1..Shared(Chain[q], Chain[r]) : Chain[q][j] = Chain[r][j]
         /\ \A i \in DOMAIN Chain[q] \cap DOMAIN Chain[r] :
              (\A j \in 1..i : Chain[q][j] = Chain[r][j]) => i <= Shared(Chain[q], Chain[r])
<1> DEFINE both == {i \in DOMAIN Chain[q] \cap DOMAIN Chain[r] : \A j \in 1..i : Chain[q][j] = Chain[r][j]}
           shared == Shared(Chain[q], Chain[r])
<1>1. /\ DOMAIN Chain[q] = 1..Len(Chain[q]) /\ Len(Chain[q]) \in Nat
      /\ DOMAIN Chain[r] = 1..Len(Chain[r]) /\ Len(Chain[r]) \in Nat
  BY Chains
<1>2. CASE both = {}
  <2>1. shared = 0
    BY <1>2 DEF Shared
  <2>. QED
    BY <1>1, <1>2, <2>1
<1>3. CASE both # {}
  <2>1. both \in SUBSET (1..Len(Chain[q]))
    BY <1>1
  <2>2. \E i \in both : \A j \in both : j <= i
    <3> HIDE DEF both
    <3>. QED
      BY <1>1, <1>3, <2>1, LargestOf
  <2>3. shared = CHOOSE i \in both : \A j \in both : j <= i
    BY <1>3 DEF Shared
  <2>4. shared \in both /\ \A j \in both : j <= shared
    BY <2>2, <2>3
  <2>. QED
    BY <1>1, <2>4
<1>. QED
  BY <1>2, <1>3
-----------------------------------------------------------------------------
(* A navigation. *)

\* What a navigation to r does that keeps the first `stay` segments.
Commits(r, stay, new) ==
  /\ stay \in 0..Len(Chain[r]) /\ stay <= Len(Standing)
  /\ \A j \in 1..stay : Chain[r][j] = Standing[j]
  /\ new \in [1..(Len(Chain[r]) - stay) -> Slots \ InUse] /\ IsInjective(new)
  /\ route' = r /\ asleep' = {}
  /\ scopes' \in Seq(Slots) /\ Len(scopes') = Len(Chain[r])
  /\ \A i \in 1..stay : scopes'[i] = scopes[i]
  /\ \A i \in (stay + 1)..Len(Chain[r]) : scopes'[i] = new[i - stay]
  /\ staged' \in Seq(StagedNode) /\ Len(staged') = Len(staged) + (Len(Chain[r]) - stay)
  /\ \A n \in 1..Len(staged) : staged'[n] = staged[n]
  /\ \A i \in 1..(Len(Chain[r]) - stay) : staged'[Len(staged) + i] = Stage(Chain[r], stay + i, new[i])
  /\ verdict' \in [Slots -> BOOLEAN]
  /\ \A s \in Slots : verdict'[s] = (s \notin ToSet(new) /\ verdict[s])

LEMMA Mounting ==
  ASSUME NEW r \in Route, NEW i \in DOMAIN Chain[r], NEW s \in Slots
  PROVE  Stage(Chain[r], i, s) \in StagedNode
<1>1. Chain[r][i] \in Segments /\ Chain[r][i] \in [seg : Names, param : Params] /\ i \in Nat \ {0}
  BY Chains
<1>2. Mounted(Chain[r][i], s) \in Node
  BY <1>1 DEF Mounted, Node
<1>. QED
  BY <1>1, <1>2 DEF Stage, StagedNode, Mounted

LEMMA CommitsInstall ==
  ASSUME Keep = {}, NodesTypeOK, NEW r \in Route, Commit(r)
  PROVE  \E stay, new : stay = Shared(Standing, Chain[r]) /\ Commits(r, stay, new)
<1> DEFINE c == Chain[r]
           stay == Shared(Standing, c)
           beds == Beds(stay)
           here == {b \in beds : b.line = SubSeq(scopes, 1, stay) /\ Len(c) = stay + 1
                                   /\ Types(Chain[b.route]) = Types(c)}
           fresh == FreshSlots(Len(c) - stay)
           new == CHOOSE f \in fresh : TRUE
<1>0. /\ route \in Route /\ scopes \in Seq(Slots) /\ Len(scopes) = Len(Standing) /\ asleep = {}
      /\ staged \in Seq(StagedNode) /\ verdict \in [Slots -> BOOLEAN]
  BY DEF NodesTypeOK
<1>1. /\ stay \in 0..Len(Standing) /\ stay <= Len(c) /\ Len(Standing) \in Nat /\ Len(c) \in Nat
      /\ DOMAIN c = 1..Len(c)
      /\ \A j \in 1..stay : c[j] = Standing[j]
  BY <1>0, Chains, SharedIsCommon DEF Standing
<1>2. beds = {} /\ here = {}
  BY <1>0 DEF Beds
<1>3. /\ route' = r /\ asleep' = {} /\ fresh # {}
      /\ scopes' = SubSeq(scopes, 1, stay) \o new
      /\ staged' = staged \o [i \in DOMAIN new |-> Stage(c, stay + i, new[i])]
      /\ verdict' = [s \in Slots |-> s \notin ToSet(new) /\ verdict[s]]
  <2>1. /\ route' = r /\ asleep' = beds \ here
    BY DEF Commit
  <2>2. \/ {b \in here : Chain[b.route] = c} # {}
        \/ /\ fresh # {}
           /\ scopes' = SubSeq(scopes, 1, stay) \o new
           /\ staged' = staged \o [i \in DOMAIN new |-> Stage(c, stay + i, new[i])]
           /\ verdict' = [s \in Slots |-> s \notin ToSet(new) /\ verdict[s]]
    BY DEF Commit
  <2>. QED
    BY <1>2, <2>1, <2>2
<1> DEFINE n == Len(c) - stay
<1>4. n \in Nat /\ new \in [1..n -> Slots \ InUse] /\ IsInjective(new)
  BY <1>1, <1>3 DEF FreshSlots
<1>5. new \in Seq(Slots) /\ Len(new) = n /\ DOMAIN new = 1..n
  <2> HIDE DEF new, n
  <2>. QED
    BY <1>4
<1>6. /\ SubSeq(scopes, 1, stay) \in Seq(Slots) /\ Len(SubSeq(scopes, 1, stay)) = stay
      /\ \A i \in 1..stay : SubSeq(scopes, 1, stay)[i] = scopes[i]
  BY <1>0, <1>1
<1>7. /\ scopes' \in Seq(Slots) /\ Len(scopes') = Len(c)
      /\ \A i \in 1..stay : scopes'[i] = scopes[i]
      /\ \A i \in (stay + 1)..Len(c) : scopes'[i] = new[i - stay]
  <2> DEFINE first == SubSeq(scopes, 1, stay)
  <2>1. /\ scopes' = first \o new /\ first \in Seq(Slots) /\ Len(first) = stay
        /\ \A i \in 1..stay : first[i] = scopes[i]
        /\ stay \in Nat /\ Len(c) \in Nat /\ n = Len(c) - stay /\ stay <= Len(c)
    BY <1>1, <1>3, <1>6
  <2> HIDE DEF first, new, n, stay, c
  <2>2. /\ scopes' \in Seq(Slots) /\ Len(scopes') = stay + n
        /\ \A i \in 1..(stay + n) : scopes'[i] = IF i <= stay THEN first[i] ELSE new[i - stay]
    BY <1>4, <1>5, <2>1
  <2>. QED
    BY <1>4, <2>1, <2>2
<1>8. /\ staged' \in Seq(StagedNode) /\ Len(staged') = Len(staged) + n
      /\ \A m \in 1..Len(staged) : staged'[m] = staged[m]
      /\ \A i \in 1..n : staged'[Len(staged) + i] = Stage(c, stay + i, new[i])
  <2> DEFINE more == [i \in DOMAIN new |-> Stage(c, stay + i, new[i])]
  <2>1. \A i \in 1..n : new[i] \in Slots /\ stay + i \in DOMAIN c
    BY <1>1, <1>4
  <2>2. \A i \in 1..n : Stage(c, stay + i, new[i]) \in StagedNode
    BY <2>1, Mounting
  <2>3. /\ staged' = staged \o more /\ more = [i \in 1..n |-> Stage(c, stay + i, new[i])]
    BY <1>3, <1>5
  <2> HIDE DEF new, n, stay, c
  <2>4. more \in Seq(StagedNode) /\ Len(more) = n /\ \A i \in 1..n : more[i] = Stage(c, stay + i, new[i])
    BY <1>4, <2>2, <2>3
  <2> HIDE DEF more
  <2>. QED
    BY <1>0, <1>4, <2>3, <2>4
<1>9. /\ verdict' \in [Slots -> BOOLEAN]
      /\ \A s \in Slots : verdict'[s] = (s \notin ToSet(new) /\ verdict[s])
  <2>1. verdict' = [s \in Slots |-> s \notin ToSet(new) /\ verdict[s]]
    BY <1>3
  <2> HIDE DEF new
  <2>2. \A s \in Slots : (s \notin ToSet(new) /\ verdict[s]) \in BOOLEAN
    OBVIOUS
  <2>. QED
    BY <2>1, <2>2
<1>10. Commits(r, stay, new)
  <2> HIDE DEF new, stay
  <2>. QED
    BY <1>1, <1>3, <1>4, <1>7, <1>8, <1>9 DEF Commits
<1>. QED
  BY <1>10

-----------------------------------------------------------------------------
(* Steps, as the segments and their nodes see them. *)

Undisturbed == UNCHANGED <<route, scopes, asleep, verdict, staged, live, kept, order, synced>>
WhoseStays == update'.of = update.of

Edits ==
  /\ \E p \in DOMAIN live : \E edited \in BOOLEAN :
       live' = [live EXCEPT ![p].edited = edited] /\ update'.of = p
  /\ update.of = Nobody
  /\ UNCHANGED <<route, scopes, asleep, verdict, staged, kept, order, synced>>

Moves == (\E r \in Route : Commit(r)) /\ UNCHANGED <<live, kept, order, synced>> /\ WhoseStays
Writes == Answers /\ update'.of = Nobody /\ UNCHANGED <<route, scopes, asleep, staged, live, kept, order, synced>>
Syncs ==
  /\ Sync /\ ~Panics
  /\ update.of = Nobody /\ update'.of = Nobody /\ update.phase = "round" /\ update' = AtRest
  /\ UNCHANGED <<route, scopes, asleep, pending, verdict>>

Traffic ==
  /\ pending' = <<>> \/ \E r \in Route : pending' = <<r>>
  /\ inbox' \in Seq(Envelope) /\ parked' \in Seq(Envelope)
  /\ update' \in Updating
  /\ update'.phase # "code" => update'.of = Nobody
  /\ update'.phase = "rest" => staged' = <<>>
  /\ update'.batch <= Len(parked')

LEMMA Applying ==
  ASSUME NodesTypeOK, UpdateInv, update.of = Nobody, NEW m \in Envelope, Apply(m), update'.of = Onward(m).of
  PROVE  ((Undisturbed /\ WhoseStays) \/ Edits \/ Moves) /\ (pending' = pending \/ pending' = <<>>)
<1>0. update \in Updating
  BY DEF NodesTypeOK
<1>5. ~(m.kind = "node" /\ Reaches(m)) => WhoseStays
  BY <1>0 DEF Onward, Updating, WhoseStays
<1>1. CASE m.kind = "node" /\ Reaches(m)
  <2>1. /\ \E edited \in BOOLEAN : live' = [live EXCEPT ![m.at].edited = edited]
        /\ UNCHANGED <<router, verdict, staged, kept, order, synced>>
    BY <1>1 DEF Apply
  <2>2. m.at \in DOMAIN live
    BY <1>1 DEF Reaches
  <2>3. update'.of = m.at
    BY <1>0, <1>1 DEF Onward, Updating
  <2>. QED
    BY <2>1, <2>2, <2>3 DEF Edits, router
<1>2. CASE m.kind = "yes" /\ pending # <<>>
  <2>1. pending' = <<>> /\ Commit(pending[1]) /\ UNCHANGED store
    BY <1>2 DEF Apply
  <2>2. pending[1] \in Route
    BY <1>2 DEF NodesTypeOK
  <2>. QED
    BY <1>2, <1>5, <2>1, <2>2 DEF Moves, store
<1>3. CASE m.kind = "no"
  BY <1>3, <1>5 DEF Apply, Undisturbed, store
<1>4. CASE ~(m.kind = "node" /\ Reaches(m)) /\ ~(m.kind = "yes" /\ pending # <<>>) /\ m.kind # "no"
  BY <1>4, <1>5 DEF Apply, Undisturbed, store, router
<1>. QED
  BY <1>1, <1>2, <1>3, <1>4

LEMMA GoingOnward ==
  ASSUME NodesTypeOK, NEW m \in Envelope
  PROVE  /\ Onward(m) \in Updating /\ Onward(m).phase \in {"code", "round"} /\ Onward(m).left = update.left
         /\ Onward(m).batch = update.batch /\ (Onward(m).phase # "code" => Onward(m).of = Nobody)
<1>1. update \in Updating /\ m.at \in Placement \cup {Nobody}
  BY DEF NodesTypeOK, Envelope
<1>. QED
  BY <1>1 DEF Onward, Updating, Runs

\* Every step is one of these, and leaves the traffic in order.
LEMMA Steps ==
  ASSUME Keep = {}, NodesTypeOK, UpdateInv, [NodesNext]_nodesVars
  PROVE  ((Undisturbed /\ WhoseStays) \/ Edits \/ Moves \/ Writes \/ Syncs) /\ Traffic
<1>0. /\ update \in Updating /\ inbox \in Seq(Envelope) /\ parked \in Seq(Envelope)
      /\ pending = <<>> \/ \E r \in Route : pending = <<r>>
      /\ route \in Route
      /\ update.phase # "code" => update.of = Nobody
      /\ update.phase = "rest" => staged = <<>>
      /\ update.batch \in Nat /\ update.batch <= Len(parked)
  BY DEF NodesTypeOK, UpdateInv, Updating
<1>1. ASSUME UNCHANGED nodesVars
      PROVE  Undisturbed /\ WhoseStays /\ Traffic
  BY <1>0, <1>1 DEF nodesVars, router, store, Undisturbed, WhoseStays, Traffic
<1>2. ASSUME NEW m \in Envelope, Fill(m)
      PROVE  Undisturbed /\ WhoseStays /\ Traffic
  <2>1. /\ inbox' = Append(inbox, m) /\ update' = update /\ parked' = parked /\ pending' = pending
        /\ staged' = staged /\ Undisturbed
    BY <1>2 DEF Fill, Undisturbed, router, store
  <2>. QED
    BY <1>0, <2>1 DEF WhoseStays, Traffic
<1>3. \A i \in DOMAIN Standing : NodeMessage(i) \in Envelope
  BY <1>0, Chains DEF NodeMessage, Envelope, Standing
<1>4. Settled \in Envelope /\ \A yes \in BOOLEAN : Answer(yes) \in Envelope
  BY DEF Settled, Answer, Envelope, At, Nobody
<1>5. CASE Begin
  <2> DEFINE m == Head(inbox)
  <2>1. /\ m \in Envelope /\ inbox' = Tail(inbox) /\ Tail(inbox) \in Seq(Envelope) /\ parked' = parked
        /\ Apply(m) /\ update' = Onward(m) /\ update.of = Nobody
    BY <1>0, <1>5 DEF Begin
  <2> HIDE DEF m
  <2>2. ((Undisturbed /\ WhoseStays) \/ Edits \/ Moves) /\ (pending' = pending \/ pending' = <<>>)
    BY <2>1, Applying
  <2>. QED
    BY <1>0, <2>1, <2>2, GoingOnward DEF Traffic, WhoseStays
<1>6. CASE Round
  <2>1. /\ pending' = pending /\ Undisturbed /\ inbox' = inbox /\ update.phase = "round"
        /\ \/ parked' = <<>> /\ update' = update
           \/ parked' = parked /\ update' = [update EXCEPT !.round = @ + 1, !.batch = Len(parked)]
        /\ update.batch = 0
    BY <1>6 DEF Round, Undisturbed, router, store
  <2>2. /\ update' \in Updating /\ update'.phase = update.phase /\ update'.of = update.of
        /\ update'.batch <= Len(parked') /\ parked' \in Seq(Envelope)
    <3>1. CASE update' = update /\ parked' = <<>>
      BY <1>0, <2>1, <3>1
    <3>2. CASE parked' = parked /\ update' = [update EXCEPT !.round = @ + 1, !.batch = Len(parked)]
      <4>1. Len(parked) \in Nat /\ update.round + 1 \in Nat
        BY <1>0 DEF Updating
      <4>2. update' \in Updating
        BY <1>0, <3>2, <4>1 DEF Updating
      <4>3. update'.batch = Len(parked) /\ update'.phase = update.phase /\ update'.of = update.of
        BY <1>0, <3>2 DEF Updating
      <4>. QED
        BY <1>0, <3>2, <4>1, <4>2, <4>3
    <3>. QED
      BY <2>1, <3>1, <3>2
  <2>. QED
    BY <1>0, <2>1, <2>2 DEF Traffic, WhoseStays
<1>7. CASE Deliver
  <2> DEFINE m == Head(parked)
  <2>0. update.phase = "round" /\ update.of = Nobody /\ update.batch > 0
    BY <1>0, <1>7 DEF Deliver
  <2>1. CASE parked # <<>>
    <3>1. /\ m \in Envelope /\ parked' = Tail(parked) /\ Tail(parked) \in Seq(Envelope) /\ inbox' = inbox
          /\ Apply(m) /\ update' = [Onward(m) EXCEPT !.batch = @ - 1]
      BY <1>0, <1>7, <2>1 DEF Deliver
    <3> HIDE DEF m
    <3>2. /\ update' \in Updating /\ update'.of = Onward(m).of /\ update'.phase = Onward(m).phase
          /\ update'.batch = update.batch - 1
      <4> DEFINE o == Onward(m)
      <4>1. o \in Updating /\ o.batch = update.batch /\ update' = [o EXCEPT !.batch = @ - 1]
        BY <3>1, GoingOnward
      <4> HIDE DEF o
      <4>2. update.batch - 1 \in Nat
        BY <1>0, <2>0
      <4>3. update' \in Updating /\ update'.of = o.of /\ update'.phase = o.phase /\ update'.batch = update.batch - 1
        BY <4>1, <4>2 DEF Updating
      <4>. QED
        BY <4>3 DEF o
    <3>4. Len(parked') = Len(parked) - 1 /\ Len(parked) \in Nat
      BY <1>0, <2>1, <3>1
    <3>3. ((Undisturbed /\ WhoseStays) \/ Edits \/ Moves) /\ (pending' = pending \/ pending' = <<>>)
      BY <2>0, <3>1, <3>2, Applying
    <3>. QED
      BY <1>0, <2>0, <3>1, <3>2, <3>3, <3>4, GoingOnward DEF Traffic, WhoseStays
  <2>. QED
    BY <1>0, <2>0, <2>1
<1>8. CASE Returns
  <2>1. /\ update' = [update EXCEPT !.phase = "round", !.of = Nobody] /\ Answers /\ pending' = pending
        /\ UNCHANGED <<route, scopes, asleep, staged, live, kept, order, synced, inbox, parked>>
    BY <1>8 DEF Returns, router, store
  <2>2. update' \in Updating /\ update'.phase = "round" /\ update'.of = Nobody
    BY <1>0, <2>1 DEF Updating
  <2>. QED
    BY <1>0, <2>1, <2>2 DEF Writes, Traffic
<1>9. ASSUME NEW i \in DOMAIN Standing, Pushes(i)
      PROVE  Writes /\ Traffic
  <2>1. /\ update' = [update EXCEPT !.phase = "round", !.of = Nobody] /\ Answers /\ pending' = pending
        /\ parked' = Append(parked, NodeMessage(i))
        /\ UNCHANGED <<route, scopes, asleep, staged, live, kept, order, synced, inbox>>
    BY <1>9 DEF Pushes, router, store
  <2>2. update' \in Updating /\ update'.phase = "round" /\ update'.of = Nobody
    BY <1>0, <2>1 DEF Updating
  <2>3. parked' \in Seq(Envelope)
    BY <1>0, <1>3, <2>1
  <2>. QED
    BY <1>0, <2>1, <2>2, <2>3 DEF Writes, Traffic
<1>10. CASE Ends
  <2>1. CASE Panics
    <3>1. /\ update' = [update EXCEPT !.phase = "panicked"] /\ pending' = pending /\ Undisturbed
          /\ inbox' = inbox /\ parked' = parked /\ update.phase = "round"
      BY <1>10, <2>1 DEF Ends, Undisturbed, router, store
    <3>2. update' \in Updating /\ update'.phase = "panicked" /\ update'.of = update.of
      BY <1>0, <3>1 DEF Updating
    <3>. QED
      BY <1>0, <3>1, <3>2 DEF Traffic, WhoseStays
  <2>2. CASE ~Panics
    <3>1. /\ update' = AtRest /\ Sync /\ UNCHANGED <<route, scopes, asleep, pending, verdict, inbox, parked>>
          /\ update.phase = "round"
      BY <1>10, <2>2 DEF Ends, router
    <3>2. AtRest \in Updating /\ AtRest.of = Nobody /\ AtRest.batch = 0
      BY NodesAssumption DEF AtRest, Updating
    <3>3. staged' = <<>>
      BY <3>1 DEF Sync
    <3>4. 0 <= Len(parked)
      BY <1>0
    <3>5. update.of = Nobody
      BY <1>0, <3>1
    <3>. QED
      BY <1>0, <2>2, <3>1, <3>2, <3>3, <3>4, <3>5 DEF Traffic, Syncs
  <2>. QED
    BY <2>1, <2>2
<1>11. ASSUME NEW r \in Route, Navigates(r)
       PROVE  ((Undisturbed /\ WhoseStays) \/ Moves) /\ Traffic
  <2>1. /\ update.phase = "code" /\ update.left > 0 /\ update' = [update EXCEPT !.left = @ - 1]
        /\ Navigate(r) /\ UNCHANGED <<live, kept, order, synced, inbox, parked>>
    BY <1>11 DEF Navigates, store
  <2>2. update' \in Updating /\ update'.phase = "code" /\ update'.of = update.of
    <3>1. update \in Updating /\ update.phase = "code" /\ update.left > 0 /\ update' = [update EXCEPT !.left = @ - 1]
      BY <1>0, <2>1
    <3>2. update.left - 1 \in Nat
      BY <3>1 DEF Updating
    <3>. QED
      BY <3>1, <3>2 DEF Updating
  <2>. QED
    BY <1>0, <2>1, <2>2 DEF Navigate, Undisturbed, WhoseStays, Moves, Traffic
<1>12. CASE NodesNext
  <2>1. CASE Goes
    BY <1>5, <1>6, <1>7, <1>8, <1>10, <2>1 DEF Goes
  <2>2. CASE \E i \in DOMAIN Standing : Widget(i)
    BY <1>2, <1>3, <2>2 DEF Widget
  <2>3. CASE \E i \in DOMAIN Standing : Pushes(i)
    BY <1>9, <2>3
  <2>4. CASE (\E yes \in BOOLEAN : Dialog(yes)) \/ Worker
    BY <1>2, <1>4, <2>4 DEF Dialog, Worker
  <2>5. CASE \E r \in Route : Navigates(r)
    BY <1>11, <2>5
  <2>. QED
    BY <1>12, <2>1, <2>2, <2>3, <2>4, <2>5 DEF NodesNext
<1>. QED
  BY <1>1, <1>12

-----------------------------------------------------------------------------
(* The end of an update. *)

\* What is kept once a page that departs is.
Left(k) ==
  \/ k = kept
  \/ \E d \in Departing :
       /\ DOMAIN k \subseteq DOMAIN kept \cup {PlaceIn(Chain[synced], d.cursor)}
       /\ k = [x \in DOMAIN k |-> IF x = PlaceIn(Chain[synced], d.cursor) THEN live[d] ELSE kept[x]]

LastAt(n, p) == n \in StagedAt(p) /\ \A m \in StagedAt(p) : m <= n

LEMMA LeftNodes ==
  ASSUME NodesTypeOK, NEW k, Left(k)
  PROVE  /\ k \in [DOMAIN k -> Node]
         /\ \A x \in DOMAIN k : \/ x \in DOMAIN kept /\ k[x] = kept[x]
                                \/ k # kept /\ \E d \in Departing : k[x] = live[d]
<1>0. kept \in [DOMAIN kept -> Node] /\ live \in [DOMAIN live -> Node]
  BY DEF NodesTypeOK
<1>1. CASE k = kept
  BY <1>0, <1>1
<1>2. CASE k # kept
  <2>1. PICK d \in Departing :
          /\ DOMAIN k \subseteq DOMAIN kept \cup {PlaceIn(Chain[synced], d.cursor)}
          /\ k = [x \in DOMAIN k |-> IF x = PlaceIn(Chain[synced], d.cursor) THEN live[d] ELSE kept[x]]
    BY <1>2 DEF Left
  <2>2. d \in DOMAIN live
    BY DEF Departing
  <2> DEFINE place == PlaceIn(Chain[synced], d.cursor)
  <2> HIDE DEF place
  <2>3. /\ DOMAIN k \subseteq DOMAIN kept \cup {place}
        /\ k = [x \in DOMAIN k |-> IF x = place THEN live[d] ELSE kept[x]]
    BY <2>1 DEF place
  <2>4. \A x \in DOMAIN k : k[x] = (IF x = place THEN live[d] ELSE kept[x])
    BY <2>3
  <2>5. \A x \in DOMAIN k : k[x] \in Node
    BY <1>0, <2>2, <2>3, <2>4
  <2>. QED
    BY <1>2, <2>3, <2>4, <2>5
<1>. QED
  BY <1>1, <1>2

LEMMA Keeping ==
  ASSUME NodesTypeOK, NEW d \in Departing
  PROVE  Left(KeepIn(PlaceIn(Chain[synced], d.cursor), live[d]).kept)
<1> DEFINE place == PlaceIn(Chain[synced], d.cursor)
           in == IF place \in DOMAIN kept THEN order ELSE Append(order, place)
           goes == IF Len(in) > MaxKept THEN {Head(in)} ELSE {}
           k == KeepIn(place, live[d]).kept
<1>1. k = [x \in (DOMAIN kept \cup {place}) \ goes |-> IF x = place THEN live[d] ELSE kept[x]]
  BY DEF KeepIn
<1>2. DOMAIN k = (DOMAIN kept \cup {place}) \ goes
  BY <1>1
<1>3. k = [x \in DOMAIN k |-> IF x = place THEN live[d] ELSE kept[x]] /\ DOMAIN k \subseteq DOMAIN kept \cup {place}
  BY <1>1, <1>2
<1>. QED
  BY <1>3 DEF Left

\* The store after an update.
LEMMA Synchronizes ==
  ASSUME NodesTypeOK, Sync
  PROVE  /\ synced' = route /\ staged' = <<>>
         /\ \/ /\ staged = <<>> /\ Types(Chain[synced]) = Types(Standing)
               /\ UNCHANGED <<live, kept, order>>
            \/ \E k : Left(k) /\ live' = Taken(k) /\ kept' = TakeOut(k)
<1>1. synced' = route /\ staged' = <<>>
  BY DEF Sync
<1>2. CASE staged = <<>> /\ Types(Chain[synced]) = Types(Standing)
  BY <1>1, <1>2 DEF Sync
<1>3. CASE ~(staged = <<>> /\ Types(Chain[synced]) = Types(Standing))
  <2>1. CASE Departing = {}
    <3>1. \E left \in {[kept |-> kept, order |-> order]} : live' = Taken(left.kept) /\ kept' = TakeOut(left.kept)
      BY <1>3, <2>1 DEF Sync
    <3>2. live' = Taken(kept) /\ kept' = TakeOut(kept)
      BY <3>1
    <3>. QED
      BY <1>1, <3>2 DEF Left
  <2>2. CASE Departing # {}
    <3>1. \E left \in {KeepIn(PlaceIn(Chain[synced], p.cursor), live[p]) : p \in Departing} :
            live' = Taken(left.kept) /\ kept' = TakeOut(left.kept)
      BY <1>3, <2>2 DEF Sync
    <3>2. PICK d \in Departing : LET k == KeepIn(PlaceIn(Chain[synced], d.cursor), live[d]).kept
                                 IN live' = Taken(k) /\ kept' = TakeOut(k)
      BY <3>1
    <3>. QED
      BY <1>1, <3>2, Keeping
  <2>. QED
    BY <2>1, <2>2
<1>. QED
  BY <1>2, <1>3

LEMMA LastOfAPlace ==
  ASSUME NodesTypeOK, NEW p, StagedAt(p) # {}
  PROVE  LastAt(Latest(StagedAt(p)), p)
<1>1. staged \in Seq(StagedNode)
  BY DEF NodesTypeOK
<1>2. Len(staged) \in Nat /\ StagedAt(p) \in SUBSET (1..Len(staged))
  BY <1>1 DEF StagedAt
<1>3. \E n \in StagedAt(p) : \A m \in StagedAt(p) : m <= n
  BY <1>2, LargestOf
<1>. QED
  BY <1>3 DEF Latest, LastAt

\* What is in the store after an update was there and survives, or was staged
\* last for its place, or is what was kept of it.
LEMMA TakenNodes ==
  ASSUME NodesTypeOK, NEW k
  PROVE  /\ DOMAIN Taken(k) = {p \in DOMAIN live : Survives(p)} \cup {PlaceOf(f) : f \in ToSet(staged)}
         /\ \A p : StagedAt(p) # {} => p \in DOMAIN Taken(k)
         /\ \A p \in DOMAIN Taken(k) :
              \/ /\ StagedAt(p) = {} /\ p \in DOMAIN live /\ Survives(p) /\ Taken(k)[p] = live[p]
              \/ \E n \in DOMAIN staged :
                   /\ LastAt(n, p)
                   /\ \/ Taken(k)[p] = staged[n].held
                      \/ /\ staged[n].seg \in Cached /\ IsThere(k, n)
                         /\ SameParams(k[PlaceIn(Standing, staged[n].cursor)], staged[n].held)
                         /\ Taken(k)[p] = k[PlaceIn(Standing, staged[n].cursor)]
<1>1. DOMAIN Taken(k) = {p \in DOMAIN live : Survives(p)} \cup {PlaceOf(f) : f \in ToSet(staged)}
  BY DEF Taken
<1>2. ASSUME NEW p, StagedAt(p) # {} PROVE p \in DOMAIN Taken(k)
  BY <1>1, <1>2 DEF StagedAt, ToSet
<1>3. ASSUME NEW p \in DOMAIN Taken(k)
      PROVE  Taken(k)[p] = IF StagedAt(p) = {} THEN live[p] ELSE Restored(k, Latest(StagedAt(p)))
  BY <1>3 DEF Taken
<1>4. ASSUME NEW p \in DOMAIN Taken(k), StagedAt(p) = {}
      PROVE  p \in DOMAIN live /\ Survives(p) /\ Taken(k)[p] = live[p]
  BY <1>1, <1>3, <1>4 DEF StagedAt, ToSet
<1>5. ASSUME NEW p \in DOMAIN Taken(k), StagedAt(p) # {}
      PROVE  \E n \in DOMAIN staged :
                   /\ LastAt(n, p)
                   /\ \/ Taken(k)[p] = staged[n].held
                      \/ /\ staged[n].seg \in Cached /\ IsThere(k, n)
                         /\ SameParams(k[PlaceIn(Standing, staged[n].cursor)], staged[n].held)
                         /\ Taken(k)[p] = k[PlaceIn(Standing, staged[n].cursor)]
  <2> DEFINE n == Latest(StagedAt(p))
  <2>1. LastAt(n, p) /\ n \in DOMAIN staged
    BY <1>5, LastOfAPlace DEF LastAt, StagedAt
  <2>2. Taken(k)[p] = Restored(k, n)
    BY <1>3, <1>5
  <2> HIDE DEF n
  <2>. QED
    BY <2>1, <2>2 DEF Restored
<1>. QED
  BY <1>1, <1>2, <1>4, <1>5

LEMMA TakenOut ==
  ASSUME NEW k
  PROVE  /\ DOMAIN TakeOut(k) = DOMAIN k \ PlacesRestored
         /\ \A x \in DOMAIN TakeOut(k) : TakeOut(k)[x] = k[x]
         /\ TakeOut(k) = [x \in DOMAIN TakeOut(k) |-> TakeOut(k)[x]]
  BY DEF TakeOut

LEMMA SyncType ==
  ASSUME NodesTypeOK, Sync
  PROVE  /\ synced' \in Route /\ staged' \in Seq(StagedNode)
         /\ live' \in [DOMAIN live' -> Node] /\ DOMAIN live' \subseteq Placement
         /\ kept' \in [DOMAIN kept' -> Node]
<1>0. /\ live \in [DOMAIN live -> Node] /\ DOMAIN live \subseteq Placement /\ staged \in Seq(StagedNode)
      /\ kept \in [DOMAIN kept -> Node] /\ route \in Route
  BY DEF NodesTypeOK
<1>1. synced' = route /\ staged' = <<>>
  BY Synchronizes
<1>2. CASE UNCHANGED <<live, kept>>
  BY <1>0, <1>1, <1>2
<1>3. ASSUME NEW k, Left(k), live' = Taken(k), kept' = TakeOut(k)
      PROVE  /\ live' \in [DOMAIN live' -> Node] /\ DOMAIN live' \subseteq Placement
             /\ kept' \in [DOMAIN kept' -> Node]
  <2>1. k \in [DOMAIN k -> Node]
    BY <1>3, LeftNodes
  <2>2. \A n \in DOMAIN staged : staged[n] \in StagedNode
    BY <1>0
  <2>3. \A f \in ToSet(staged) : f \in StagedNode
    BY <2>2 DEF ToSet
  <2>4. DOMAIN live' \subseteq Placement
    <3>1. \A f \in ToSet(staged) : PlaceOf(f) \in Placement
      BY <2>3 DEF PlaceOf, At, StagedNode, Placement, Node
    <3>2. DOMAIN live' = {p \in DOMAIN live : Survives(p)} \cup {PlaceOf(f) : f \in ToSet(staged)}
      BY <1>3, TakenNodes
    <3>. QED
      BY <1>0, <3>1, <3>2
  <2>5. ASSUME NEW p \in DOMAIN live' PROVE live'[p] \in Node
    <3>1. CASE p \in DOMAIN live /\ live'[p] = live[p]
      BY <1>0, <3>1
    <3>2. ASSUME NEW n \in DOMAIN staged, live'[p] = staged[n].held PROVE live'[p] \in Node
      BY <2>2, <3>2 DEF StagedNode
    <3>3. ASSUME NEW n \in DOMAIN staged, IsThere(k, n), live'[p] = k[PlaceIn(Standing, staged[n].cursor)]
          PROVE  live'[p] \in Node
      BY <2>1, <3>3 DEF IsThere
    <3>. QED
      BY <1>3, <2>5, <3>1, <3>2, <3>3, TakenNodes
  <2>6. live' = [p \in DOMAIN live' |-> live'[p]]
    BY <1>3 DEF Taken
  <2>7. kept' = [x \in DOMAIN kept' |-> kept'[x]] /\ \A x \in DOMAIN kept' : kept'[x] \in Node
    BY <1>3, <2>1, TakenOut
  <2>. QED
    BY <2>4, <2>5, <2>6, <2>7
<1>. QED
  BY <1>0, <1>1, <1>2, <1>3, Synchronizes

-----------------------------------------------------------------------------
(* Types. *)

\* What a commit leaves alone is used by it.
LEMMA CommitFrame ==
  ASSUME Keep = {}, NodesTypeOK, Moves
  PROVE  \E r \in Route : \E stay, new : /\ stay = Shared(Standing, Chain[r])
                                         /\ Commits(r, stay, new)
                                         /\ UNCHANGED <<live, kept, order, synced>>
  BY CommitsInstall DEF Moves

LEMMA EditedNodes ==
  ASSUME live \in [DOMAIN live -> Node], NEW p \in DOMAIN live, NEW e \in BOOLEAN,
         live' = [live EXCEPT ![p].edited = e]
  PROVE  /\ DOMAIN live' = DOMAIN live /\ live' \in [DOMAIN live' -> Node]
         /\ \A q \in DOMAIN live : /\ live'[q].seg = live[q].seg /\ live'[q].param = live[q].param
                                   /\ live'[q].slot = live[q].slot
                                   /\ live'[q].edited = IF q = p THEN e ELSE live[q].edited
<1>1. live[p] \in Node
  OBVIOUS
<1>2. [live[p] EXCEPT !.edited = e] \in Node
  BY <1>1 DEF Node
<1>3. live' = [live EXCEPT ![p] = [live[p] EXCEPT !.edited = e]]
  OBVIOUS
<1>4. /\ DOMAIN live' = DOMAIN live /\ live' \in [DOMAIN live' -> Node]
      /\ live'[p] = [live[p] EXCEPT !.edited = e] /\ \A q \in DOMAIN live : q # p => live'[q] = live[q]
  BY <1>2, <1>3
<1>5. /\ live'[p].seg = live[p].seg /\ live'[p].param = live[p].param
      /\ live'[p].slot = live[p].slot /\ live'[p].edited = e
  BY <1>1, <1>4 DEF Node
<1>. QED
  BY <1>4, <1>5

LEMMA Written ==
  ASSUME NodesTypeOK, UpdateInv, Answers
  PROVE  verdict' \in [Slots -> BOOLEAN]
         /\ \/ update.of = Nobody /\ verdict' = verdict
            \/ /\ update.of \in DOMAIN live /\ live[update.of].slot \in Slots
               /\ verdict'[live[update.of].slot] = live[update.of].edited
               /\ \A s \in Slots : s # live[update.of].slot => verdict'[s] = verdict[s]
<1>0. verdict \in [Slots -> BOOLEAN] /\ live \in [DOMAIN live -> Node]
  BY DEF NodesTypeOK
<1>1. CASE update.of = Nobody
  BY <1>0, <1>1 DEF Answers
<1>2. CASE update.of # Nobody
  <2>1. update.of \in DOMAIN live
    BY <1>2 DEF UpdateInv
  <2>2. live[update.of].slot \in Slots /\ live[update.of].edited \in BOOLEAN
    BY <1>0, <2>1 DEF Node
  <2>3. verdict' = [verdict EXCEPT ![live[update.of].slot] = live[update.of].edited]
    BY <1>2 DEF Answers
  <2>. QED
    BY <1>0, <2>1, <2>2, <2>3
<1>. QED
  BY <1>1, <1>2

BaseInv == NodesTypeOK /\ UpdateInv

LEMMA NodesTypeInductive == Keep = {} /\ BaseInv /\ [NodesNext]_nodesVars => BaseInv'
<1> SUFFICES ASSUME Keep = {}, NodesTypeOK, UpdateInv, [NodesNext]_nodesVars PROVE NodesTypeOK' /\ UpdateInv'
  BY DEF BaseInv
<1>0. /\ route \in Route /\ synced \in Route
      /\ scopes \in Seq(Slots) /\ Len(scopes) = Len(Standing) /\ asleep = {}
      /\ verdict \in [Slots -> BOOLEAN]
      /\ staged \in Seq(StagedNode)
      /\ live \in [DOMAIN live -> Node] /\ DOMAIN live \subseteq Placement
      /\ kept \in [DOMAIN kept -> Node]
      /\ update.of # Nobody => update.of \in DOMAIN live
  BY DEF NodesTypeOK, UpdateInv
<1>1. Traffic
  BY Steps
<1> DEFINE Typed ==
        /\ route' \in Route /\ synced' \in Route
        /\ scopes' \in Seq(Slots) /\ Len(scopes') = Len(Standing') /\ asleep' = {}
        /\ verdict' \in [Slots -> BOOLEAN]
        /\ staged' \in Seq(StagedNode)
        /\ live' \in [DOMAIN live' -> Node] /\ DOMAIN live' \subseteq Placement
        /\ kept' \in [DOMAIN kept' -> Node]
        /\ update'.of # Nobody => update'.of \in DOMAIN live'
<1>2. SUFFICES Typed
  BY <1>1 DEF NodesTypeOK, UpdateInv, Traffic, Standing
<1>3. CASE Undisturbed /\ WhoseStays
  BY <1>0, <1>3 DEF Undisturbed, Standing, WhoseStays
<1>4. CASE Edits
  <2>1. PICK p \in DOMAIN live, e \in BOOLEAN : live' = [live EXCEPT ![p].edited = e] /\ update'.of = p
    BY <1>4 DEF Edits
  <2>2. DOMAIN live' = DOMAIN live /\ live' \in [DOMAIN live' -> Node]
    BY <1>0, <2>1, EditedNodes
  <2>3. UNCHANGED <<route, scopes, asleep, verdict, staged, kept, order, synced>>
    BY <1>4 DEF Edits
  <2>. QED
    BY <1>0, <2>1, <2>2, <2>3 DEF Standing
<1>5. CASE Moves
  <2>1. PICK r \in Route : \E stay, new : Commits(r, stay, new) /\ UNCHANGED <<live, kept, order, synced>>
    BY <1>5, CommitFrame
  <2>2. /\ route' = r /\ asleep' = {} /\ scopes' \in Seq(Slots) /\ Len(scopes') = Len(Chain[r])
        /\ staged' \in Seq(StagedNode) /\ verdict' \in [Slots -> BOOLEAN]
        /\ UNCHANGED <<live, kept, synced>>
    BY <2>1 DEF Commits
  <2>3. update'.of = update.of
    BY <1>5 DEF Moves, WhoseStays
  <2>. QED
    BY <1>0, <2>2, <2>3 DEF Standing
<1>6. CASE Writes
  <2>1. verdict' \in [Slots -> BOOLEAN]
    BY <1>6, Written DEF Writes
  <2>. QED
    BY <1>0, <1>6, <2>1 DEF Writes, Standing
<1>7. CASE Syncs
  <2>1. UNCHANGED <<route, scopes, asleep, verdict>> /\ update'.of = Nobody /\ Sync
    BY <1>7 DEF Syncs
  <2>2. /\ synced' \in Route /\ staged' \in Seq(StagedNode)
        /\ live' \in [DOMAIN live' -> Node] /\ DOMAIN live' \subseteq Placement
        /\ kept' \in [DOMAIN kept' -> Node]
    BY <2>1, SyncType
  <2>. QED
    BY <1>0, <2>1, <2>2 DEF Standing
<1>. QED
  BY <1>3, <1>4, <1>5, <1>6, <1>7, Steps

LEMMA NodesTypeInit == Keep = {} /\ NodesInit => BaseInv
<1> SUFFICES ASSUME NodesInit PROVE NodesTypeOK /\ UpdateInv
  BY DEF BaseInv
<1>0. First \in Route /\ DOMAIN Chain[First] \subseteq Slots /\ MaxNavigations \in Nat
  BY NodesAssumption
<1>1. route = First /\ synced = First /\ Standing = Chain[First]
  BY DEF NodesInit, Standing
<1>2. Len(Chain[First]) \in Nat /\ DOMAIN Chain[First] = 1..Len(Chain[First])
  BY <1>0, Chains
<1>3. scopes = [i \in 1..Len(Chain[First]) |-> i] /\ scopes \in Seq(Slots) /\ Len(scopes) = Len(Standing)
  BY <1>0, <1>1, <1>2 DEF NodesInit
<1> DEFINE P == {At(i, Standing[i].seg) : i \in DOMAIN Standing}
<1>4. /\ live = [p \in P |-> Mounted(Standing[p.cursor], scopes[p.cursor])]
      /\ DOMAIN live = P
  BY DEF NodesInit
<1>5. ASSUME NEW i \in DOMAIN Standing
      PROVE  /\ At(i, Standing[i].seg) \in Placement
             /\ Mounted(Standing[i], scopes[i]) \in Node
  <2>1. /\ Standing[i] \in Segments /\ Standing[i] \in [seg : Names, param : Params]
        /\ At(i, Standing[i].seg) \in Placement
    BY <1>0, <1>1, Chains
  <2>2. scopes[i] \in Slots
    BY <1>1, <1>2, <1>3
  <2>. QED
    BY <2>1, <2>2 DEF Mounted, Node
<1>6. /\ P \subseteq Placement
      /\ \A p \in P : Mounted(Standing[p.cursor], scopes[p.cursor]) \in Node
  BY <1>5 DEF At
<1>7. live \in [DOMAIN live -> Node] /\ DOMAIN live \subseteq Placement
  <2> HIDE DEF P
  <2>. QED
    BY <1>4, <1>6
<1>8. /\ asleep = {} /\ pending = <<>> /\ verdict = [s \in Slots |-> FALSE] /\ staged = <<>> /\ kept = <<>>
      /\ inbox = <<>> /\ parked = <<>> /\ update = AtRest
  BY DEF NodesInit
<1>9. kept \in [DOMAIN kept -> Node]
  BY <1>8
<1>10. update \in Updating /\ update.of = Nobody /\ update.batch = 0
  BY <1>0, <1>8 DEF AtRest, Updating
<1>. QED
  BY <1>0, <1>1, <1>3, <1>7, <1>8, <1>9, <1>10 DEF NodesTypeOK, UpdateInv

-----------------------------------------------------------------------------
(* What segments draw. *)

\* What is staged after a commit: what was, and each new segment once, later.
LEMMA StagedAfter ==
  ASSUME NodesTypeOK, NEW r \in Route, NEW stay, NEW new, Commits(r, stay, new)
  PROVE  /\ Standing' = Chain[r]
         /\ \A i \in 1..stay : LET p == At(i, Chain[r][i].seg)
                               IN p = At(i, Standing[i].seg) /\ StagedAt(p)' = StagedAt(p)
         /\ \A i \in (stay + 1)..Len(Chain[r]) :
              LET p == At(i, Chain[r][i].seg)
              IN /\ Len(staged) + (i - stay) \in StagedAt(p)'
                 /\ \A n \in StagedAt(p)' : (\A m \in StagedAt(p)' : m <= n) => n = Len(staged) + (i - stay)
                 /\ staged'[Len(staged) + (i - stay)] = Stage(Chain[r], i, new[i - stay])
<1> DEFINE c == Chain[r]
           more == Len(c) - stay
<1>0. /\ staged \in Seq(StagedNode) /\ staged' \in Seq(StagedNode) /\ Len(staged') = Len(staged) + more
      /\ Len(staged) \in Nat /\ Len(c) \in Nat /\ stay \in 0..Len(c) /\ more \in Nat
      /\ DOMAIN staged = 1..Len(staged) /\ DOMAIN staged' = 1..(Len(staged) + more)
      /\ DOMAIN c = 1..Len(c)
      /\ \A n \in 1..Len(staged) : staged'[n] = staged[n]
      /\ \A i \in 1..more : staged'[Len(staged) + i] = Stage(c, stay + i, new[i])
  BY Chains DEF NodesTypeOK, Commits
<1>1. Standing' = c
  BY DEF Standing, Commits
<1>2. \A i \in 1..more : PlaceOf(staged'[Len(staged) + i]) = At(stay + i, c[stay + i].seg)
  <2>1. \A j, s : PlaceOf(Stage(c, j, s)) = At(j, c[j].seg)
    BY DEF PlaceOf, Stage
  <2>. QED
    BY <1>0, <2>1
<1>3. ASSUME NEW i \in 1..stay
      PROVE  LET p == At(i, c[i].seg)
             IN p = At(i, Standing[i].seg) /\ StagedAt(p)' = StagedAt(p)
  <2>1. c[i] = Standing[i]
    BY DEF Commits
  <2> DEFINE p == At(i, c[i].seg)
  <2>2. ASSUME NEW n \in DOMAIN staged', PlaceOf(staged'[n]) = p
        PROVE  n \in DOMAIN staged /\ PlaceOf(staged[n]) = p
    <3>1. CASE n \in 1..Len(staged)
      BY <1>0, <2>2, <3>1
    <3>2. CASE n \notin 1..Len(staged)
      <4>1. PICK j \in 1..more : n = Len(staged) + j
        <5>1. n - Len(staged) \in 1..more /\ n = Len(staged) + (n - Len(staged))
          BY <1>0, <3>2
        <5>. QED
          BY <5>1
      <4>2. At(i, c[i].seg) = At(stay + j, c[stay + j].seg)
        BY <1>2, <2>2, <4>1
      <4>3. i = stay + j
        BY <4>2 DEF At
      <4>. QED
        BY <1>0, <4>3
    <3>. QED
      BY <3>1, <3>2
  <2>3. ASSUME NEW n \in DOMAIN staged, PlaceOf(staged[n]) = p
        PROVE  n \in DOMAIN staged' /\ PlaceOf(staged'[n]) = p
    BY <1>0, <2>3
  <2>4. StagedAt(p)' = {n \in DOMAIN staged' : PlaceOf(staged'[n]) = p}
    BY DEF StagedAt, PlaceOf, Commits
  <2>5. StagedAt(p)' = StagedAt(p)
    BY <2>2, <2>3, <2>4 DEF StagedAt
  <2>. QED
    BY <2>1, <2>5
<1>4. ASSUME NEW i \in (stay + 1)..Len(c)
      PROVE  LET p == At(i, c[i].seg)
             IN /\ Len(staged) + (i - stay) \in StagedAt(p)'
                /\ \A n \in StagedAt(p)' : (\A m \in StagedAt(p)' : m <= n) => n = Len(staged) + (i - stay)
                /\ staged'[Len(staged) + (i - stay)] = Stage(c, i, new[i - stay])
  <2> DEFINE p == At(i, c[i].seg)
             l == Len(staged) + (i - stay)
  <2>1. i - stay \in 1..more /\ stay + (i - stay) = i /\ l \in 1..(Len(staged) + more)
    <3>1. Len(staged) \in Nat /\ Len(c) \in Nat /\ stay \in 0..Len(c)
      BY <1>0
    <3>. QED
      BY <3>1
  <2>2. PlaceOf(staged'[l]) = p /\ staged'[l] = Stage(c, i, new[i - stay])
    BY <1>0, <1>2, <2>1
  <2>3. StagedAt(p)' = {n \in DOMAIN staged' : PlaceOf(staged'[n]) = p}
    BY DEF StagedAt, PlaceOf, Commits
  <2>4. l \in StagedAt(p)'
    BY <1>0, <2>1, <2>2, <2>3
  <2>5. ASSUME NEW n \in StagedAt(p)', n >= l
        PROVE  n = l
    <3>1. n \in 1..(Len(staged) + more) /\ PlaceOf(staged'[n]) = p
      BY <1>0, <2>3
    <3>2. PICK j \in 1..more : n = Len(staged) + j
      <4>1. n \in Int /\ n >= Len(staged) + 1 /\ n <= Len(staged) + more
        <5>1. n \in 1..(Len(staged) + more) /\ n >= l
          BY <2>5, <3>1
        <5>2. l \in Int /\ l >= Len(staged) + 1
          BY <1>0, <2>1
        <5>. QED
          BY <1>0, <5>1, <5>2
      <4>2. n - Len(staged) \in 1..more /\ n = Len(staged) + (n - Len(staged))
        <5>. HIDE DEF l, more
        <5>. QED
          BY <1>0, <4>1
      <4>. QED
        BY <4>2
    <3>3. At(i, c[i].seg) = At(stay + j, c[stay + j].seg)
      BY <1>2, <3>1, <3>2
    <3>4. i = stay + j
      BY <3>3 DEF At
    <3>. QED
      BY <1>0, <3>2, <3>4
  <2>6. \A n \in StagedAt(p)' : n \in Nat
    BY <1>0, <2>3
  <2> HIDE DEF p, l
  <2>7. \A n \in StagedAt(p)' : (\A m \in StagedAt(p)' : m <= n) => n = l
    BY <2>4, <2>5, <2>6
  <2>. QED
    BY <2>2, <2>4, <2>7 DEF p, l
<1>. QED
  BY <1>1, <1>3, <1>4

\* What is on its way for a new segment is what was built for it.
LEMMA NewlyStaged ==
  ASSUME NodesTypeOK, NEW r \in Route, NEW stay, NEW new, Commits(r, stay, new),
         NEW i \in (stay + 1)..Len(Chain[r]), NEW p, p = At(i, Chain[r][i].seg)
  PROVE  /\ StagedAt(p)' # {}
         /\ \A n \in StagedAt(p)' :
              (\A m \in StagedAt(p)' : m <= n) => staged'[n] = Stage(Chain[r], i, new[i - stay])
<1>1. /\ Len(staged) + (i - stay) \in StagedAt(p)'
      /\ \A n \in StagedAt(p)' : (\A m \in StagedAt(p)' : m <= n) => n = Len(staged) + (i - stay)
      /\ staged'[Len(staged) + (i - stay)] = Stage(Chain[r], i, new[i - stay])
  BY StagedAfter
<1>. QED
  BY <1>1

LEMMA DrawnAfterSync ==
  ASSUME NodesTypeOK, DrawInv, Sync, UNCHANGED route
  PROVE  DrawInv'
<1>0. staged' = <<>> /\ Standing' = Standing
  BY Synchronizes DEF Standing
<1>1. \A p : StagedAt(p)' = {}
  BY <1>0 DEF StagedAt
<1>2. ASSUME NEW i \in DOMAIN Standing, NEW p, p = At(i, Standing[i].seg)
      PROVE  p \in DOMAIN live' /\ live'[p].param = Standing[i].param
  <2>1. /\ StagedAt(p) = {} => p \in DOMAIN live /\ live[p].param = Standing[i].param
        /\ \A n : LastAt(n, p) => staged[n].held.param = Standing[i].param
    BY <1>2 DEF DrawInv, LastAt, Drawn
  <2>2. Fits(p, Standing)
    BY <1>2 DEF Fits, At
  <2>3. CASE staged = <<>> /\ UNCHANGED live
    <3>1. StagedAt(p) = {}
      BY <2>3 DEF StagedAt
    <3>. QED
      BY <2>1, <2>3, <3>1
  <2>4. ASSUME NEW k, live' = Taken(k)
        PROVE  p \in DOMAIN live' /\ live'[p].param = Standing[i].param
    <3>1. p \in DOMAIN Taken(k)
      <4>1. CASE StagedAt(p) = {}
        BY <2>1, <2>2, <4>1, TakenNodes DEF Survives
      <4>2. CASE StagedAt(p) # {}
        BY <4>2, TakenNodes
      <4>. QED
        BY <4>1, <4>2
    <3>2. \/ StagedAt(p) = {} /\ Taken(k)[p] = live[p]
          \/ \E n : LastAt(n, p) /\ Taken(k)[p].param = staged[n].held.param
      <4>1. \/ StagedAt(p) = {} /\ Taken(k)[p] = live[p]
            \/ \E n \in DOMAIN staged :
                 /\ LastAt(n, p)
                 /\ \/ Taken(k)[p] = staged[n].held
                    \/ /\ SameParams(k[PlaceIn(Standing, staged[n].cursor)], staged[n].held)
                       /\ Taken(k)[p] = k[PlaceIn(Standing, staged[n].cursor)]
        BY <3>1, TakenNodes
      <4>. QED
        BY <4>1 DEF SameParams
    <3>. QED
      BY <2>1, <2>4, <3>1, <3>2
  <2>. QED
    <3>1. \/ staged = <<>> /\ UNCHANGED live
          \/ \E k : live' = Taken(k)
      BY Synchronizes
    <3>. QED
      BY <2>3, <2>4, <3>1
<1>. QED
  BY <1>0, <1>1, <1>2 DEF DrawInv, Drawn

LEMMA DrawInductive ==
  ASSUME Keep = {}, BaseInv, DrawInv, [NodesNext]_nodesVars
  PROVE  DrawInv'
<1>0. NodesTypeOK /\ UpdateInv /\ live \in [DOMAIN live -> Node]
  BY DEF BaseInv, NodesTypeOK
<1>1. ASSUME UNCHANGED <<route, staged>>, DOMAIN live' = DOMAIN live,
             \A q \in DOMAIN live : live'[q].param = live[q].param
      PROVE  DrawInv'
  BY <1>1 DEF DrawInv, Standing, Drawn, StagedAt
<1>2. CASE (Undisturbed /\ WhoseStays) \/ Writes
  BY <1>1, <1>2 DEF Undisturbed, Writes
<1>3. CASE Edits
  <2>1. PICK p \in DOMAIN live, e \in BOOLEAN : live' = [live EXCEPT ![p].edited = e]
    BY <1>3 DEF Edits
  <2>. QED
    BY <1>0, <1>1, <1>3, <2>1, EditedNodes DEF Edits
<1>4. CASE Moves
  <2>0. PICK r \in Route : \E s, f : Commits(r, s, f) /\ UNCHANGED live
    BY <1>0, <1>4, CommitFrame
  <2>1. PICK stay, new : Commits(r, stay, new) /\ UNCHANGED live
    BY <2>0
  <2> DEFINE c == Chain[r]
  <2>2. Standing' = c /\ DOMAIN c = 1..Len(c) /\ Len(c) \in Nat /\ stay \in 0..Len(c)
        /\ route \in Route /\ Len(Standing) \in Nat /\ DOMAIN Standing = 1..Len(Standing) /\ stay <= Len(Standing)
    BY <1>0, <2>1, Chains DEF Commits, Standing, NodesTypeOK
  <2>3. ASSUME NEW i \in 1..stay, NEW p, p = At(i, c[i].seg)
        PROVE  /\ StagedAt(p)' = {} => p \in DOMAIN live' /\ live'[p].param = c[i].param
               /\ \A n \in StagedAt(p)' : (\A m \in StagedAt(p)' : m <= n) => staged'[n].held.param = c[i].param
    <3>1. p = At(i, Standing[i].seg) /\ StagedAt(p)' = StagedAt(p)
      BY <1>0, <2>1, <2>3, StagedAfter
    <3>2. c[i] = Standing[i] /\ i \in DOMAIN Standing
      BY <2>1, <2>2 DEF Commits
    <3>3. \A n \in StagedAt(p) : staged'[n] = staged[n]
      <4>1. \A n \in 1..Len(staged) : staged'[n] = staged[n]
        BY <2>1 DEF Commits
      <4>2. DOMAIN staged = 1..Len(staged)
        BY <1>0 DEF NodesTypeOK
      <4>. QED
        BY <4>1, <4>2 DEF StagedAt
    <3>. QED
      BY <2>1, <3>1, <3>2, <3>3 DEF DrawInv, Drawn
  <2>4. ASSUME NEW i \in (stay + 1)..Len(c), NEW p, p = At(i, c[i].seg)
        PROVE  /\ StagedAt(p)' # {}
               /\ \A n \in StagedAt(p)' : (\A m \in StagedAt(p)' : m <= n) => staged'[n].held.param = c[i].param
    <3>1. /\ StagedAt(p)' # {}
          /\ \A n \in StagedAt(p)' : (\A m \in StagedAt(p)' : m <= n) => staged'[n] = Stage(c, i, new[i - stay])
      BY <1>0, <2>1, <2>4, NewlyStaged
    <3>2. Stage(c, i, new[i - stay]).held.param = c[i].param
      BY DEF Stage, Mounted
    <3>. QED
      BY <3>1, <3>2
  <2>5. \A i \in DOMAIN c : i \in 1..stay \/ i \in (stay + 1)..Len(c)
    BY <2>2
  <2>. QED
    BY <2>2, <2>3, <2>4, <2>5 DEF DrawInv, Drawn
<1>5. CASE Syncs
  BY <1>0, <1>5, DrawnAfterSync DEF Syncs
<1>. QED
  BY <1>0, <1>2, <1>3, <1>4, <1>5, Steps

LEMMA SegInductive ==
  ASSUME Keep = {}, CapturesTell, BaseInv, SegInv, [NodesNext]_nodesVars
  PROVE  SegInv'
<1>0. NodesTypeOK /\ UpdateInv /\ live \in [DOMAIN live -> Node] /\ staged \in Seq(StagedNode)
  BY DEF BaseInv, NodesTypeOK
<1>1. CASE (Undisturbed /\ WhoseStays) \/ Writes \/ Moves
  BY <1>1 DEF Undisturbed, Writes, Moves, SegInv
<1>2. CASE Edits
  <2>1. PICK p \in DOMAIN live, e \in BOOLEAN : live' = [live EXCEPT ![p].edited = e]
    BY <1>2 DEF Edits
  <2>. QED
    BY <1>0, <2>1, EditedNodes DEF SegInv
<1>3. CASE Syncs
  <2>1. ASSUME NEW k, Left(k), live' = Taken(k), NEW p \in DOMAIN live'
        PROVE  live'[p].seg = p.seg
    <3>1. k \in [DOMAIN k -> Node]
      BY <1>0, <2>1, LeftNodes
    <3>2. CASE p \in DOMAIN live /\ live'[p] = live[p]
      BY <3>2 DEF SegInv
    <3>3. ASSUME NEW n \in DOMAIN staged, LastAt(n, p)
          PROVE  staged[n].held \in Node /\ staged[n].held.seg = p.seg /\ staged[n].seg = p.seg
      <4>1. staged[n] \in StagedNode
        BY <1>0
      <4>2. PlaceOf(staged[n]) = p
        BY <3>3 DEF LastAt, StagedAt
      <4>. QED
        BY <4>1, <4>2 DEF StagedNode, PlaceOf, At
    <3>4. ASSUME NEW n \in DOMAIN staged, LastAt(n, p), staged[n].seg \in Cached, IsThere(k, n),
                 SameParams(k[PlaceIn(Standing, staged[n].cursor)], staged[n].held),
                 live'[p] = k[PlaceIn(Standing, staged[n].cursor)]
          PROVE  live'[p].seg = p.seg
      <4>1. live'[p] \in Node
        BY <3>1, <3>4 DEF IsThere
      <4>2. PICK s \in Segments : staged[n].held.seg = s.seg /\ staged[n].held.param = s.param
        BY <3>3, <3>4 DEF Node
      <4>3. PICK t \in Segments : live'[p].seg = t.seg /\ live'[p].param = t.param
        BY <4>1 DEF Node
      <4>. QED
        BY <3>3, <3>4, <4>2, <4>3 DEF CapturesTell, SameParams
    <3>. QED
      BY <1>0, <2>1, <3>2, <3>3, <3>4, TakenNodes
  <2>2. CASE UNCHANGED live
    BY <2>2 DEF SegInv
  <2>. QED
    BY <1>0, <1>3, <2>1, <2>2, Synchronizes DEF Syncs, SegInv
<1>. QED
  BY <1>0, <1>1, <1>2, <1>3, Steps

LEMMA DrawInit == NodesInit => DrawInv /\ SegInv
<1> SUFFICES ASSUME NodesInit PROVE DrawInv /\ SegInv
  OBVIOUS
<1> DEFINE P == {At(i, Standing[i].seg) : i \in DOMAIN Standing}
<1>1. /\ live = [p \in P |-> Mounted(Standing[p.cursor], scopes[p.cursor])] /\ staged = <<>>
  BY DEF NodesInit
<1>2. \A i \in DOMAIN Standing : LET p == At(i, Standing[i].seg)
                                 IN p \in DOMAIN live /\ live[p].param = Standing[i].param /\ live[p].seg = p.seg
  BY <1>1 DEF At, Mounted
<1>3. \A p : StagedAt(p) = {}
  BY <1>1 DEF StagedAt
<1>4. DrawInv
  BY <1>2, <1>3 DEF DrawInv, Drawn
<1>5. SegInv
  BY <1>1, <1>2 DEF SegInv
<1>. QED
  BY <1>4, <1>5

\* Whatever the pages are, and however navigations fall into updates: after
\* each update every segment that stands finds a node of its own, mounted with
\* what it captured (sync) - where no page sleeps, and captures of a page that
\* caches its state are told apart from those of another.
THEOREM SegmentsAreDrawn == Keep = {} /\ CapturesTell => (NodesSpec => []EverySegmentIsDrawn)
<1> SUFFICES ASSUME Keep = {}, CapturesTell PROVE NodesSpec => []EverySegmentIsDrawn
  OBVIOUS
<1> DEFINE Inv == BaseInv /\ DrawInv /\ SegInv
<1>1. NodesInit => Inv
  BY NodesTypeInit, DrawInit
<1>2. Inv /\ [NodesNext]_nodesVars => Inv'
  BY NodesTypeInductive, DrawInductive, SegInductive
<1>3. Inv => EverySegmentIsDrawn
  <2>1. ASSUME Inv, Resting, NEW i \in DOMAIN Standing
        PROVE  /\ At(i, Standing[i].seg) \in DOMAIN live
               /\ Drawn(i).seg = Standing[i].seg
               /\ Drawn(i).param = Standing[i].param
    <3>1. \A p : StagedAt(p) = {}
      BY <2>1 DEF Resting, UpdateInv, BaseInv, StagedAt
    <3>2. At(i, Standing[i].seg) \in DOMAIN live /\ Drawn(i).param = Standing[i].param
      BY <2>1, <3>1 DEF DrawInv
    <3>3. Drawn(i).seg = Standing[i].seg
      BY <2>1, <3>2 DEF SegInv, Drawn, At
    <3>. QED
      BY <3>2, <3>3
  <2>. QED
    BY <2>1 DEF EverySegmentIsDrawn
<1>. QED
  BY <1>1, <1>2, <1>3, PTL DEF NodesSpec


-----------------------------------------------------------------------------
(* Slots. *)

\* A navigation takes slots nothing has.
LEMMA SlotsAreTaken ==
  ASSUME NodesTypeOK, SlotInv, NEW r \in Route, NEW stay, NEW new, Commits(r, stay, new), UNCHANGED <<live, kept>>
  PROVE  SlotInv'
<1> DEFINE more == Len(Chain[r]) - stay
<1>0. /\ staged \in Seq(StagedNode) /\ staged' \in Seq(StagedNode) /\ Len(staged') = Len(staged) + more
      /\ Len(staged) \in Nat /\ more \in Nat
      /\ DOMAIN staged = 1..Len(staged) /\ DOMAIN staged' = 1..(Len(staged) + more)
      /\ \A n \in 1..Len(staged) : staged'[n] = staged[n]
      /\ \A i \in 1..more : staged'[Len(staged) + i] = Stage(Chain[r], stay + i, new[i])
      /\ new \in [1..more -> Slots \ InUse] /\ IsInjective(new)
  BY Chains DEF NodesTypeOK, Commits
<1>1. \A i \in 1..more : staged'[Len(staged) + i].held.slot = new[i] /\ new[i] \notin InUse
  <2>1. \A j, s : Stage(Chain[r], j, s).held.slot = s
    BY DEF Stage, Mounted
  <2>. QED
    BY <1>0, <2>1
<1>2. \A n \in DOMAIN staged' : \/ n \in DOMAIN staged /\ staged'[n] = staged[n]
                                \/ \E i \in 1..more : n = Len(staged) + i
  <2> SUFFICES ASSUME NEW n \in DOMAIN staged', n \notin DOMAIN staged PROVE \E i \in 1..more : n = Len(staged) + i
    BY <1>0
  <2>1. n - Len(staged) \in 1..more /\ n = Len(staged) + (n - Len(staged))
    BY <1>0
  <2>. QED
    BY <2>1
<1>3. /\ \A p \in DOMAIN live : live[p].slot \in InUse
      /\ \A x \in DOMAIN kept : kept[x].slot \in InUse
      /\ \A n \in DOMAIN staged : staged[n].held.slot \in InUse
  <2>1. \A n \in DOMAIN staged : staged[n] \in ToSet(staged)
    BY DEF ToSet
  <2>. QED
    BY <2>1 DEF InUse
<1>4. ASSUME NEW m \in DOMAIN staged', NEW n \in DOMAIN staged', staged'[m].held.slot = staged'[n].held.slot
      PROVE  m = n
  <2>1. CASE m \in DOMAIN staged /\ n \in DOMAIN staged
    BY <1>0, <1>4, <2>1 DEF SlotInv
  <2>2. ASSUME NEW i \in 1..more, m = Len(staged) + i, n \in DOMAIN staged PROVE FALSE
    BY <1>0, <1>1, <1>3, <1>4, <2>2
  <2>3. ASSUME NEW i \in 1..more, n = Len(staged) + i, m \in DOMAIN staged PROVE FALSE
    BY <1>0, <1>1, <1>3, <1>4, <2>3
  <2>4. ASSUME NEW i \in 1..more, NEW j \in 1..more, m = Len(staged) + i, n = Len(staged) + j PROVE m = n
    <3>1. new[i] = new[j]
      BY <1>1, <1>4, <2>4
    <3>. QED
      BY <1>0, <2>4, <3>1 DEF IsInjective
  <2>. QED
    BY <1>2, <2>1, <2>2, <2>3, <2>4
<1>5. ASSUME NEW n \in DOMAIN staged'
      PROVE  /\ \A p \in DOMAIN live : live[p].slot # staged'[n].held.slot
             /\ \A x \in DOMAIN kept : kept[x].slot # staged'[n].held.slot
  <2>1. CASE n \in DOMAIN staged /\ staged'[n] = staged[n]
    BY <2>1 DEF SlotInv
  <2>2. ASSUME NEW i \in 1..more, n = Len(staged) + i
        PROVE  /\ \A p \in DOMAIN live : live[p].slot # staged'[n].held.slot
               /\ \A x \in DOMAIN kept : kept[x].slot # staged'[n].held.slot
    BY <1>1, <1>3, <2>2
  <2>. QED
    BY <1>2, <2>1, <2>2
<1>. QED
  BY <1>4, <1>5 DEF SlotInv

LEMMA PlacesAreFar ==
  ASSUME NEW c \in Seq(Segments), NEW i \in 1..Len(c), NEW j \in 1..Len(c), PlaceIn(c, i) = PlaceIn(c, j)
  PROVE  i = j
<1>1. Len(c) \in Nat /\ DOMAIN c = 1..Len(c)
  OBVIOUS
<1> DEFINE types == Types(c)
<1>2. types = [n \in 1..Len(c) |-> c[n].seg]
  BY <1>1 DEF Types
<1>3. types \in Seq({c[n].seg : n \in 1..Len(c)}) /\ Len(types) = Len(c)
  BY <1>1, <1>2
<1> HIDE DEF types
<1>4. Len(SubSeq(types, 1, i)) = i /\ Len(SubSeq(types, 1, j)) = j
  BY <1>1, <1>3
<1>. QED
  BY <1>4 DEF PlaceIn, types

\* What is kept of what left shares no slot either.
LEMMA LeftSlots ==
  ASSUME NodesTypeOK, SlotInv, NEW k, Left(k)
  PROVE  /\ \A x, y \in DOMAIN k : k[x].slot = k[y].slot => x = y
         /\ \A x \in DOMAIN k : \A n \in DOMAIN staged : staged[n].held.slot # k[x].slot
         /\ \A x \in DOMAIN k : \A p \in DOMAIN live : Survives(p) => live[p].slot # k[x].slot
<1>1. CASE k = kept
  BY <1>1 DEF SlotInv
<1>2. ASSUME NEW d \in Departing, NEW place,
             DOMAIN k \subseteq DOMAIN kept \cup {place},
             k = [x \in DOMAIN k |-> IF x = place THEN live[d] ELSE kept[x]]
      PROVE  /\ \A x, y \in DOMAIN k : k[x].slot = k[y].slot => x = y
             /\ \A x \in DOMAIN k : \A n \in DOMAIN staged : staged[n].held.slot # k[x].slot
             /\ \A x \in DOMAIN k : \A p \in DOMAIN live : Survives(p) => live[p].slot # k[x].slot
  <2>1. d \in DOMAIN live /\ ~Survives(d)
    BY DEF Departing
  <2>2. \A x \in DOMAIN k : \/ x = place /\ k[x] = live[d]
                            \/ x # place /\ x \in DOMAIN kept /\ k[x] = kept[x]
    BY <1>2
  <2>3. \A x, y \in DOMAIN k : k[x].slot = k[y].slot => x = y
    BY <2>1, <2>2 DEF SlotInv
  <2>4. \A x \in DOMAIN k : \A n \in DOMAIN staged : staged[n].held.slot # k[x].slot
    BY <2>1, <2>2 DEF SlotInv
  <2>5. \A x \in DOMAIN k : \A p \in DOMAIN live : Survives(p) => live[p].slot # k[x].slot
    BY <2>1, <2>2 DEF SlotInv
  <2>. QED
    BY <2>3, <2>4, <2>5
<1>. QED
  BY <1>1, <1>2 DEF Left

\* What the store holds afterwards came from one place each.
LEMMA SlotsAfterSync ==
  ASSUME NodesTypeOK, SlotInv, Sync, ~Panics
  PROVE  SlotInv'
<1>0. staged' = <<>> /\ staged \in Seq(StagedNode) /\ route \in Route
  BY Synchronizes DEF NodesTypeOK
<1>1. CASE UNCHANGED <<live, kept>>
  BY <1>0, <1>1 DEF SlotInv
<1>2. ASSUME NEW k, Left(k), live' = Taken(k), kept' = TakeOut(k)
      PROVE  SlotInv'
  <2> DEFINE Stays(p) == p \in DOMAIN live /\ Survives(p) /\ live'[p] = live[p]
             Comes(p, n) == LastAt(n, p) /\ live'[p] = staged[n].held
             Spot(n) == PlaceIn(Standing, staged[n].cursor)
             Returned(p, n) == /\ LastAt(n, p) /\ staged[n].seg \in Cached /\ IsThere(k, n)
                               /\ live'[p] = k[Spot(n)]
  <2>1. \A p \in DOMAIN live' : Stays(p) \/ \E n \in DOMAIN staged : Comes(p, n) \/ Returned(p, n)
    BY <1>2, TakenNodes
  <2>2. /\ \A x, y \in DOMAIN k : k[x].slot = k[y].slot => x = y
        /\ \A x \in DOMAIN k : \A n \in DOMAIN staged : staged[n].held.slot # k[x].slot
        /\ \A x \in DOMAIN k : \A p \in DOMAIN live : Survives(p) => live[p].slot # k[x].slot
    BY <1>2, LeftSlots
  <2>3. \A n \in DOMAIN staged : \A p, q : LastAt(n, p) /\ LastAt(n, q) => p = q
    BY DEF LastAt, StagedAt
  <2>4. ASSUME NEW n \in DOMAIN staged, staged[n].seg \in Cached
        PROVE  Spot(n) \in PlacesRestored /\ staged[n].cursor \in DOMAIN Standing
    <3>1. staged[n] \in ToSet(staged)
      BY DEF ToSet
    <3>. QED
      BY <2>4, <3>1 DEF PlacesRestored, Panics
  <2>5. \A p, n : Returned(p, n) => Spot(n) \in DOMAIN k
    BY DEF IsThere
  <2>6. ASSUME NEW m \in DOMAIN staged, NEW n \in DOMAIN staged, NEW p, NEW q, Returned(p, m), Returned(q, n),
               Spot(m) = Spot(n)
        PROVE  m = n
    <3>1. staged[m].cursor = staged[n].cursor
      <4>1. Standing \in Seq(Segments) /\ DOMAIN Standing = 1..Len(Standing)
        BY <1>0, Chains DEF Standing
      <4>. QED
        BY <2>4, <2>6, <4>1, PlacesAreFar
    <3>2. m \in Nat /\ n \in Nat /\ m >= 1 /\ n >= 1
      BY <1>0
    <3>3. ~(m < n) /\ ~(n < m)
      BY <2>6, <3>1, <3>2 DEF IsThere
    <3>. QED
      BY <3>2, <3>3
  <2> HIDE DEF Spot
  <2>7. ASSUME NEW p \in DOMAIN live', NEW q \in DOMAIN live', live'[p].slot = live'[q].slot
        PROVE  p = q
    <3>1. CASE Stays(p) /\ Stays(q)
      BY <2>7, <3>1 DEF SlotInv
    <3>2. ASSUME NEW s \in DOMAIN live', NEW t \in DOMAIN live', live'[s].slot = live'[t].slot,
                 Stays(s), NEW n \in DOMAIN staged, Comes(t, n) \/ Returned(t, n)
          PROVE  FALSE
      BY <2>2, <2>5, <3>2 DEF SlotInv
    <3>3. ASSUME NEW s \in DOMAIN live', NEW t \in DOMAIN live', live'[s].slot = live'[t].slot,
                 NEW m \in DOMAIN staged, NEW n \in DOMAIN staged, Comes(s, m), Returned(t, n)
          PROVE  FALSE
      BY <2>2, <2>5, <3>3
    <3>4. ASSUME NEW m \in DOMAIN staged, NEW n \in DOMAIN staged, Comes(p, m), Comes(q, n)
          PROVE  p = q
      BY <2>3, <2>7, <3>4 DEF SlotInv
    <3>5. ASSUME NEW m \in DOMAIN staged, NEW n \in DOMAIN staged, Returned(p, m), Returned(q, n)
          PROVE  p = q
      BY <2>2, <2>3, <2>5, <2>6, <2>7, <3>5
    <3> HIDE DEF Stays, Comes, Returned
    <3>. QED
      BY <2>1, <2>7, <3>1, <3>2, <3>3, <3>4, <3>5
  <2>8. /\ DOMAIN kept' = DOMAIN k \ PlacesRestored
        /\ \A x \in DOMAIN kept' : kept'[x] = k[x]
    BY <1>2, TakenOut
  <2>9. ASSUME NEW p \in DOMAIN live', NEW x \in DOMAIN kept'
        PROVE  live'[p].slot # kept'[x].slot
    <3>1. x \in DOMAIN k /\ x \notin PlacesRestored /\ kept'[x] = k[x]
      BY <2>8
    <3>2. CASE Stays(p)
      BY <2>2, <3>1, <3>2
    <3>3. ASSUME NEW n \in DOMAIN staged, Comes(p, n) PROVE live'[p].slot # kept'[x].slot
      BY <2>2, <3>1, <3>3
    <3>4. ASSUME NEW n \in DOMAIN staged, Returned(p, n) PROVE live'[p].slot # kept'[x].slot
      BY <2>2, <2>4, <2>5, <3>1, <3>4
    <3>. QED
      BY <2>1, <3>2, <3>3, <3>4
  <2>10. \A x, y \in DOMAIN kept' : kept'[x].slot = kept'[y].slot => x = y
    BY <2>2, <2>8
  <2>. QED
    BY <1>0, <2>7, <2>9, <2>10 DEF SlotInv
<1>. QED
  BY <1>1, <1>2, Synchronizes

LEMMA SlotInductive ==
  ASSUME Keep = {}, BaseInv, SlotInv, [NodesNext]_nodesVars
  PROVE  SlotInv'
<1>0. NodesTypeOK /\ UpdateInv /\ live \in [DOMAIN live -> Node]
  BY DEF BaseInv, NodesTypeOK
<1>1. CASE (Undisturbed /\ WhoseStays) \/ Writes
  BY <1>1 DEF Undisturbed, Writes, SlotInv
<1>2. CASE Edits
  <2>1. PICK p \in DOMAIN live, e \in BOOLEAN : live' = [live EXCEPT ![p].edited = e]
    BY <1>2 DEF Edits
  <2>2. DOMAIN live' = DOMAIN live /\ \A q \in DOMAIN live : live'[q].slot = live[q].slot
    BY <1>0, <2>1, EditedNodes
  <2>3. UNCHANGED <<staged, kept>>
    BY <1>2 DEF Edits
  <2>. QED
    BY <2>2, <2>3 DEF SlotInv
<1>3. CASE Moves
  BY <1>0, <1>3, CommitFrame, SlotsAreTaken
<1>4. CASE Syncs
  BY <1>0, <1>4, SlotsAfterSync DEF Syncs
<1>. QED
  BY <1>0, <1>1, <1>2, <1>3, <1>4, Steps


LEMMA GuardInductive ==
  ASSUME Keep = {}, Minds \cap Cached = {}, BaseInv, DrawInv, SlotInv, GuardInv, [NodesNext]_nodesVars
  PROVE  GuardInv'
<1>0. /\ NodesTypeOK /\ UpdateInv /\ live \in [DOMAIN live -> Node] /\ staged \in Seq(StagedNode)
      /\ route \in Route /\ scopes \in Seq(Slots) /\ Len(scopes) = Len(Standing)
      /\ verdict \in [Slots -> BOOLEAN]
  BY DEF BaseInv, NodesTypeOK
<1>1. /\ DOMAIN Standing = 1..Len(Standing) /\ Len(Standing) \in Nat
      /\ \A i \in DOMAIN Standing : scopes[i] \in Slots /\ At(i, Standing[i].seg) # Nobody
  <2>1. DOMAIN Standing = 1..Len(Standing) /\ Len(Standing) \in Nat
    BY <1>0, Chains DEF Standing
  <2>2. \A i \in DOMAIN Standing : At(i, Standing[i].seg).cursor # Nobody.cursor
    BY <2>1 DEF At, Nobody
  <2>. QED
    BY <1>0, <2>1, <2>2
<1>2. \A i \in DOMAIN Standing : StagedAt(At(i, Standing[i].seg)) = {} => At(i, Standing[i].seg) \in DOMAIN live
  BY DEF DrawInv
<1>3. CASE Undisturbed /\ WhoseStays
  BY <1>3 DEF Undisturbed, WhoseStays, GuardInv, Standing, StagedAt
<1>4. CASE Edits
  <2>1. PICK o \in DOMAIN live, e \in BOOLEAN : live' = [live EXCEPT ![o].edited = e] /\ update'.of = o
    BY <1>4 DEF Edits
  <2>2. /\ \A q \in DOMAIN live : live'[q].slot = live[q].slot /\ (q # o => live'[q].edited = live[q].edited)
        /\ UNCHANGED <<route, scopes, verdict, staged>> /\ update.of = Nobody
    BY <1>0, <1>4, <2>1, EditedNodes DEF Edits
  <2>3. ASSUME NEW i \in DOMAIN Standing, Standing[i].seg \in Minds, NEW p, p = At(i, Standing[i].seg)
        PROVE  /\ StagedAt(p) = {} =>
                    /\ live'[p].slot = scopes[i]
                    /\ o # p => verdict[scopes[i]] = live'[p].edited
               /\ \A n \in StagedAt(p) : (\A m \in StagedAt(p) : m <= n) =>
                    /\ staged[n].held.slot = scopes[i]
                    /\ ~staged[n].held.edited /\ ~verdict[scopes[i]]
    BY <1>1, <1>2, <2>2, <2>3 DEF GuardInv
  <2>. QED
    BY <2>1, <2>2, <2>3 DEF GuardInv, Standing, StagedAt
<1>5. CASE Writes
  <2>1. UNCHANGED <<route, scopes, staged, live>> /\ Answers /\ update'.of = Nobody
    BY <1>5 DEF Writes
  <2>2. \/ update.of = Nobody /\ verdict' = verdict
        \/ /\ update.of \in DOMAIN live /\ live[update.of].slot \in Slots
           /\ verdict'[live[update.of].slot] = live[update.of].edited
           /\ \A s \in Slots : s # live[update.of].slot => verdict'[s] = verdict[s]
    BY <1>0, <2>1, Written
  <2>3. ASSUME NEW i \in DOMAIN Standing, Standing[i].seg \in Minds, NEW p, p = At(i, Standing[i].seg)
        PROVE  /\ StagedAt(p) = {} =>
                    /\ live[p].slot = scopes[i]
                    /\ verdict'[scopes[i]] = live[p].edited
               /\ \A n \in StagedAt(p) : (\A m \in StagedAt(p) : m <= n) =>
                    /\ staged[n].held.slot = scopes[i]
                    /\ ~staged[n].held.edited /\ ~verdict'[scopes[i]]
    <3>1. /\ StagedAt(p) = {} => live[p].slot = scopes[i] /\ (update.of # p => verdict[scopes[i]] = live[p].edited)
          /\ \A n \in StagedAt(p) : (\A m \in StagedAt(p) : m <= n) =>
                 staged[n].held.slot = scopes[i] /\ ~staged[n].held.edited /\ ~verdict[scopes[i]]
          /\ p # Nobody /\ scopes[i] \in Slots /\ (StagedAt(p) = {} => p \in DOMAIN live)
          /\ \A n \in StagedAt(p) : n \in DOMAIN staged
      BY <1>1, <1>2, <2>3 DEF GuardInv, StagedAt
    <3>2. CASE update.of = Nobody /\ verdict' = verdict
      BY <3>1, <3>2
    <3>3. CASE /\ update.of \in DOMAIN live
               /\ verdict'[live[update.of].slot] = live[update.of].edited
               /\ \A s \in Slots : s # live[update.of].slot => verdict'[s] = verdict[s]
      BY <3>1, <3>3 DEF SlotInv
    <3>. QED
      BY <2>2, <3>2, <3>3
  <2>. QED
    BY <2>1, <2>3 DEF GuardInv, Standing, StagedAt
<1>6. CASE Moves
  <2>0. PICK r \in Route : \E s, f : Commits(r, s, f) /\ UNCHANGED live
    BY <1>0, <1>6, CommitFrame
  <2>1. PICK stay, new : Commits(r, stay, new) /\ UNCHANGED live
    BY <2>0
  <2>9. update'.of = update.of
    BY <1>6 DEF Moves, WhoseStays
  <2> DEFINE c == Chain[r]
  <2>2. Standing' = c /\ DOMAIN c = 1..Len(c) /\ Len(c) \in Nat /\ stay \in 0..Len(c) /\ stay <= Len(Standing)
        /\ new \in [1..(Len(c) - stay) -> Slots \ InUse] /\ DOMAIN staged = 1..Len(staged)
    BY <1>0, <2>1, Chains DEF Commits, Standing
  <2>3. \A s \in Slots : verdict'[s] = (s \notin ToSet(new) /\ verdict[s])
    BY <2>1 DEF Commits
  <2>4. \A s \in ToSet(new) : s \in Slots /\ s \notin InUse
    BY <2>2 DEF ToSet
  <2>5. ASSUME NEW i \in 1..stay, NEW p, p = At(i, c[i].seg), c[i].seg \in Minds
        PROVE  /\ StagedAt(p)' = {} =>
                    /\ live'[p].slot = scopes'[i]
                    /\ update'.of # p => verdict'[scopes'[i]] = live'[p].edited
               /\ \A n \in StagedAt(p)' : (\A m \in StagedAt(p)' : m <= n) =>
                    /\ staged'[n].held.slot = scopes'[i]
                    /\ ~staged'[n].held.edited /\ ~verdict'[scopes'[i]]
    <3>1. p = At(i, Standing[i].seg) /\ StagedAt(p)' = StagedAt(p)
      BY <1>0, <2>1, <2>5, StagedAfter
    <3>2. c[i] = Standing[i] /\ i \in DOMAIN Standing /\ scopes'[i] = scopes[i]
      BY <1>1, <2>1, <2>2 DEF Commits
    <3>3. \A n \in StagedAt(p) : staged'[n] = staged[n]
      <4>1. \A n \in 1..Len(staged) : staged'[n] = staged[n]
        BY <2>1 DEF Commits
      <4>. QED
        BY <2>2, <4>1 DEF StagedAt
    <3>4. verdict'[scopes[i]] = verdict[scopes[i]]
      <4>1. scopes[i] \in ToSet(scopes)
        BY <1>0, <1>1, <3>2 DEF ToSet
      <4>2. scopes[i] \in Slots /\ scopes[i] \in InUse
        BY <1>1, <3>2, <4>1 DEF InUse
      <4>3. scopes[i] \notin ToSet(new)
        BY <2>4, <4>2
      <4>. QED
        BY <1>0, <2>3, <4>2, <4>3
    <3>5. /\ StagedAt(p) = {} => live[p].slot = scopes[i] /\ (update.of # p => verdict[scopes[i]] = live[p].edited)
          /\ \A n \in StagedAt(p) : (\A m \in StagedAt(p) : m <= n) =>
                 staged[n].held.slot = scopes[i] /\ ~staged[n].held.edited /\ ~verdict[scopes[i]]
      BY <2>5, <3>1, <3>2 DEF GuardInv
    <3>. QED
      BY <2>1, <2>9, <3>1, <3>2, <3>3, <3>4, <3>5
  <2>6. ASSUME NEW i \in (stay + 1)..Len(c), NEW p, p = At(i, c[i].seg), c[i].seg \in Minds
        PROVE  /\ StagedAt(p)' # {}
               /\ \A n \in StagedAt(p)' : (\A m \in StagedAt(p)' : m <= n) =>
                    /\ staged'[n].held.slot = scopes'[i]
                    /\ ~staged'[n].held.edited /\ ~verdict'[scopes'[i]]
    <3> DEFINE f == Stage(c, i, new[i - stay])
    <3>1. /\ StagedAt(p)' # {}
          /\ \A n \in StagedAt(p)' : (\A m \in StagedAt(p)' : m <= n) => staged'[n] = f
      BY <1>0, <2>1, <2>6, NewlyStaged
    <3>2. f.held.slot = new[i - stay] /\ ~f.held.edited
      BY DEF Stage, Mounted
    <3>3. scopes'[i] = new[i - stay]
      BY <2>1 DEF Commits
    <3>4. ~verdict'[new[i - stay]]
      <4>1. i - stay \in DOMAIN new
        BY <2>2
      <4>2. new[i - stay] \in ToSet(new)
        BY <4>1 DEF ToSet
      <4>3. verdict'[new[i - stay]] = (new[i - stay] \notin ToSet(new) /\ verdict[new[i - stay]])
        BY <2>3, <2>4, <4>2
      <4>. QED
        BY <4>2, <4>3
    <3> HIDE DEF f
    <3>. QED
      BY <3>1, <3>2, <3>3, <3>4
  <2>7. \A i \in DOMAIN c : i \in 1..stay \/ i \in (stay + 1)..Len(c)
    BY <2>2
  <2>8. ASSUME NEW i \in DOMAIN c, c[i].seg \in Minds, NEW p, p = At(i, c[i].seg)
        PROVE  /\ StagedAt(p)' = {} =>
                    /\ live'[p].slot = scopes'[i]
                    /\ update'.of # p => verdict'[scopes'[i]] = live'[p].edited
               /\ \A n \in StagedAt(p)' : (\A m \in StagedAt(p)' : m <= n) =>
                    /\ staged'[n].held.slot = scopes'[i]
                    /\ ~staged'[n].held.edited /\ ~verdict'[scopes'[i]]
    <3>1. CASE i \in 1..stay
      BY <2>5, <2>8, <3>1
    <3>2. CASE i \in (stay + 1)..Len(c)
      BY <2>6, <2>8, <3>2
    <3>. QED
      BY <2>7, <2>8, <3>1, <3>2
  <2>. QED
    BY <2>2, <2>8 DEF GuardInv
<1>7. CASE Syncs
  <2>1. Sync /\ UNCHANGED <<route, scopes, verdict>> /\ Standing' = Standing
    BY <1>7 DEF Syncs, Standing
  <2>2. \A p : StagedAt(p)' = {}
    <3>1. staged' = <<>>
      BY <1>0, <2>1, Synchronizes
    <3>. QED
      BY <3>1 DEF StagedAt
  <2>3. ASSUME NEW i \in DOMAIN Standing, Standing[i].seg \in Minds, NEW p, p = At(i, Standing[i].seg)
        PROVE  live'[p].slot = scopes[i] /\ verdict[scopes[i]] = live'[p].edited
    <3>1. /\ StagedAt(p) = {} => live[p].slot = scopes[i] /\ verdict[scopes[i]] = live[p].edited
          /\ \A n : LastAt(n, p) => staged[n].held.slot = scopes[i] /\ ~staged[n].held.edited /\ ~verdict[scopes[i]]
      BY <1>1, <1>7, <2>3 DEF GuardInv, LastAt, Syncs
    <3>2. CASE staged = <<>> /\ UNCHANGED live
      <4>1. StagedAt(p) = {}
        BY <3>2 DEF StagedAt
      <4>. QED
        BY <3>1, <3>2, <4>1
    <3>3. ASSUME NEW k, live' = Taken(k)
          PROVE  live'[p].slot = scopes[i] /\ verdict[scopes[i]] = live'[p].edited
      <4>1. p \in DOMAIN Taken(k)
        <5>1. CASE StagedAt(p) = {}
          <6>1. Fits(p, Standing)
            BY <2>3 DEF Fits, At
          <6>2. p \in DOMAIN live
            BY <1>2, <2>3, <5>1
          <6>. QED
            BY <1>0, <5>1, <6>1, <6>2, TakenNodes DEF Survives
        <5>2. CASE StagedAt(p) # {}
          BY <1>0, <5>2, TakenNodes
        <5>. QED
          BY <5>1, <5>2
      <4>2. \/ StagedAt(p) = {} /\ Taken(k)[p] = live[p]
            \/ \E n \in DOMAIN staged : LastAt(n, p) /\ (Taken(k)[p] = staged[n].held \/ staged[n].seg \in Cached)
        <5>1. \/ StagedAt(p) = {} /\ Taken(k)[p] = live[p]
              \/ \E n \in DOMAIN staged :
                   /\ LastAt(n, p)
                   /\ \/ Taken(k)[p] = staged[n].held
                      \/ /\ staged[n].seg \in Cached /\ IsThere(k, n)
                         /\ SameParams(k[PlaceIn(Standing, staged[n].cursor)], staged[n].held)
                         /\ Taken(k)[p] = k[PlaceIn(Standing, staged[n].cursor)]
          BY <1>0, <4>1, TakenNodes
        <5>. QED
          BY <5>1
      <4>3. ASSUME NEW n \in DOMAIN staged, LastAt(n, p) PROVE staged[n].seg \notin Cached
        <5>1. PlaceOf(staged[n]) = p
          BY <4>3 DEF LastAt, StagedAt
        <5>2. staged[n].seg = Standing[i].seg
          BY <2>3, <5>1 DEF PlaceOf, At
        <5>. QED
          BY <2>3, <5>2
      <4>4. ASSUME NEW n \in DOMAIN staged, LastAt(n, p), Taken(k)[p] = staged[n].held
            PROVE  live'[p].slot = scopes[i] /\ verdict[scopes[i]] = live'[p].edited
        <5>1. /\ live'[p].slot = scopes[i] /\ ~live'[p].edited /\ ~verdict[scopes[i]]
          BY <3>1, <3>3, <4>4
        <5>2. live'[p].edited \in BOOLEAN /\ verdict[scopes[i]] \in BOOLEAN
          <6>1. staged[n] \in StagedNode
            BY <1>0
          <6>. QED
            BY <1>0, <1>1, <3>3, <4>4, <6>1 DEF StagedNode, Node
        <5>. QED
          BY <5>1, <5>2
      <4>. QED
        BY <3>1, <3>3, <4>2, <4>3, <4>4
    <3>4. \/ staged = <<>> /\ UNCHANGED live
          \/ \E k : live' = Taken(k)
      BY <1>0, <2>1, Synchronizes
    <3>. QED
      BY <3>2, <3>3, <3>4
  <2>. QED
    BY <2>1, <2>2, <2>3 DEF GuardInv
<1>. QED
  BY <1>0, <1>3, <1>4, <1>5, <1>6, <1>7, Steps

LEMMA GuardInit == NodesInit => SlotInv /\ GuardInv
<1> SUFFICES ASSUME NodesInit PROVE SlotInv /\ GuardInv
  OBVIOUS
<1> DEFINE P == {At(i, Standing[i].seg) : i \in DOMAIN Standing}
<1>0. Standing = Chain[First] /\ DOMAIN Standing = 1..Len(Standing) /\ Len(Standing) \in Nat
      /\ DOMAIN Standing \subseteq Slots
  BY NodesAssumption, Chains DEF NodesInit, Standing
<1>1. /\ live = [p \in P |-> Mounted(Standing[p.cursor], scopes[p.cursor])] /\ staged = <<>> /\ kept = <<>>
      /\ scopes = [i \in DOMAIN Chain[First] |-> i] /\ verdict = [s \in Slots |-> FALSE]
  BY DEF NodesInit
<1>2. \A i \in DOMAIN Standing : LET p == At(i, Standing[i].seg)
                                 IN p \in DOMAIN live /\ live[p].slot = i /\ live[p].edited = FALSE /\ scopes[i] = i
  BY <1>0, <1>1 DEF At, Mounted
<1>3. \A p : StagedAt(p) = {}
  BY <1>1 DEF StagedAt
<1>4. DOMAIN live = P
  BY <1>1
<1>5. \A p, q \in DOMAIN live : live[p].slot = live[q].slot => p = q
  BY <1>2, <1>4
<1>6. SlotInv
  <2>1. DOMAIN staged = {} /\ DOMAIN kept = {}
    BY <1>1
  <2>. QED
    BY <1>5, <2>1 DEF SlotInv
<1>7. \A i \in DOMAIN Standing : verdict[scopes[i]] = FALSE
  BY <1>0, <1>1, <1>2
<1>8. GuardInv
  BY <1>2, <1>3, <1>7 DEF GuardInv
<1>. QED
  BY <1>6, <1>8

\* Whatever the pages are, and however navigations fall into updates: between
\* updates the slot the leave guard of a segment reads says of the node on
\* screen whether it was edited (stage_node, deliver) - where no page sleeps,
\* and none that minds being left caches its state.  One that does is what
\* `restored` brings back with a slot its guard does not read.
THEOREM GuardsReadNodes == Keep = {} /\ Minds \cap Cached = {} => (NodesSpec => []GuardsReadTheirNodes)
<1> SUFFICES ASSUME Keep = {}, Minds \cap Cached = {} PROVE NodesSpec => []GuardsReadTheirNodes
  OBVIOUS
<1> DEFINE Inv == BaseInv /\ DrawInv /\ SlotInv /\ GuardInv
<1>1. NodesInit => Inv
  BY NodesTypeInit, DrawInit, GuardInit
<1>2. Inv /\ [NodesNext]_nodesVars => Inv'
  BY NodesTypeInductive, DrawInductive, SlotInductive, GuardInductive
<1>3. Inv => GuardsReadTheirNodes
  <2>1. ASSUME Inv, Resting, NEW i \in DOMAIN Standing, Standing[i].seg \in Minds
        PROVE  verdict[scopes[i]] = Drawn(i).edited
    <3>1. /\ \A p : StagedAt(p) = {}
          /\ update.of = Nobody /\ At(i, Standing[i].seg) # Nobody
      <4>1. update.of = Nobody /\ staged = <<>> /\ route \in Route
        BY <2>1 DEF Resting, UpdateInv, BaseInv, NodesTypeOK
      <4>2. i \in Nat \ {0}
        BY <4>1, Chains DEF Standing
      <4>3. At(i, Standing[i].seg).cursor # Nobody.cursor
        BY <4>2 DEF At, Nobody
      <4>. QED
        BY <4>1, <4>3 DEF StagedAt
    <3>. QED
      BY <2>1, <3>1 DEF GuardInv, Drawn
  <2>. QED
    BY <2>1 DEF GuardsReadTheirNodes
<1>. QED
  BY <1>1, <1>2, <1>3, PTL DEF NodesSpec


-----------------------------------------------------------------------------
(* One navigation an update: the store shows what Pages says.              *)

\* What an update has staged is what the route that stands does not share
\* with the one on screen, in its order and as it was built.
StageInv ==
  LET stay == Shared(Chain[synced], Standing)
  IN /\ Len(staged) = Len(Standing) - stay
     /\ \A n \in DOMAIN staged : \E slot \in Slots : staged[n] = Stage(Standing, stay + n, slot)

\* An update goes elsewhere once.  What is parked makes it no second time: it
\* holds no answers, and messages to nodes find no navigation left.
OnceInv ==
  /\ update.left <= 1
  /\ \A n \in DOMAIN parked : parked[n].kind = "node"
  /\ update.phase = "rest" => parked = <<>>
  /\ \/ route = synced
     \/ /\ update.phase # "rest"
        /\ update.left = 0 \/ (update.phase # "code" /\ parked = <<>>)

\* The store holds the segments on screen and no others.
ShownInv ==
  /\ DOMAIN live = {At(i, Chain[synced][i].seg) : i \in DOMAIN Chain[synced]}
  /\ \A i \in DOMAIN Chain[synced] :
       LET h == live[At(i, Chain[synced][i].seg)]
       IN h.seg = Chain[synced][i].seg /\ h.param = Chain[synced][i].param

\* What is kept for a place is of the segment the place ends in, and every
\* place kept has its turn.
KeptInv ==
  /\ \A x \in DOMAIN kept : x \in Seq(Names) \ {<<>>} /\ kept[x].seg = x[Len(x)]
  /\ IsFiniteSet(DOMAIN kept)
  /\ order \in [1..Cardinality(DOMAIN kept) -> DOMAIN kept]


\* Every step is one of these, and what goes elsewhere goes from what is on
\* screen.
LEMMA StepsOnce ==
  ASSUME Keep = {}, MaxNavigations <= 1, NodesTypeOK, UpdateInv, OnceInv, [NodesNext]_nodesVars
  PROVE  ((Undisturbed /\ WhoseStays) \/ Edits \/ (Moves /\ route = synced) \/ Writes \/ Syncs) /\ OnceInv'
<1>0. /\ update \in Updating /\ inbox \in Seq(Envelope) /\ parked \in Seq(Envelope)
      /\ update.left \in Nat /\ update.left <= 1 /\ update.batch \in Nat /\ update.batch <= Len(parked)
      /\ update.phase # "code" => update.of = Nobody
      /\ \A n \in DOMAIN parked : parked[n].kind = "node"
      /\ update.phase = "rest" => parked = <<>>
  BY DEF NodesTypeOK, UpdateInv, OnceInv, Updating
<1>1. \/ route = synced
      \/ update.phase # "rest" /\ (update.left = 0 \/ (update.phase # "code" /\ parked = <<>>))
  BY DEF OnceInv
<1>2. CASE UNCHANGED nodesVars
  BY <1>2 DEF nodesVars, router, store, Undisturbed, WhoseStays, OnceInv
<1>3. ASSUME NEW m, Fill(m)
      PROVE  Undisturbed /\ WhoseStays /\ OnceInv'
  BY <1>3 DEF Fill, router, store, Undisturbed, WhoseStays, OnceInv
<1>4. CASE Begin
  <2> DEFINE m == Head(inbox)
  <2>1. /\ update.phase = "rest" /\ m \in Envelope /\ Apply(m) /\ update' = Onward(m) /\ parked' = parked
        /\ parked = <<>> /\ route = synced /\ update.of = Nobody
    BY <1>0, <1>1, <1>4 DEF Begin
  <2> HIDE DEF m
  <2>2. (Undisturbed /\ WhoseStays) \/ Edits \/ Moves
    BY <2>1, Applying
  <2>3. update'.left = update.left /\ update'.phase \in {"code", "round"}
    BY <2>1, GoingOnward
  <2>4. CASE m.kind = "yes" /\ pending # <<>>
    <3>1. update'.phase = "round"
      BY <1>0, <2>1, <2>4 DEF Onward, Runs, Updating
    <3>. QED
      BY <1>0, <2>1, <2>2, <2>3, <3>1 DEF OnceInv
  <2>5. CASE ~(m.kind = "yes" /\ pending # <<>>)
    <3>1. UNCHANGED <<route, synced>>
      BY <2>1, <2>5 DEF Apply, router, store
    <3>. QED
      BY <1>0, <2>1, <2>2, <2>3, <3>1 DEF OnceInv
  <2>. QED
    BY <2>4, <2>5
<1>5. CASE Round
  <2>1. /\ Undisturbed /\ update.phase = "round" /\ (parked' = <<>> \/ parked' = parked)
        /\ \/ update' = update
           \/ update' = [update EXCEPT !.round = @ + 1, !.batch = Len(parked)]
        /\ parked # <<>>
    BY <1>5 DEF Round, Undisturbed, router, store
  <2>2. update'.phase = "round" /\ update'.left = update.left /\ update'.of = update.of
    BY <1>0, <2>1 DEF Updating
  <2>3. \A n \in DOMAIN parked' : parked'[n].kind = "node"
    BY <1>0, <2>1
  <2>. QED
    BY <1>0, <1>1, <2>1, <2>2, <2>3 DEF Undisturbed, WhoseStays, OnceInv
<1>6. CASE Deliver
  <2> DEFINE m == Head(parked)
  <2>1. /\ update.phase = "round" /\ update.batch > 0 /\ Apply(m) /\ parked' = Tail(parked)
        /\ update' = [Onward(m) EXCEPT !.batch = @ - 1]
    BY <1>6 DEF Deliver
  <2>2. parked # <<>> /\ update.of = Nobody
    BY <1>0, <2>1
  <2>3. /\ m \in Envelope /\ m.kind = "node" /\ \A n \in DOMAIN parked' : parked'[n].kind = "node"
    BY <1>0, <2>1, <2>2
  <2> HIDE DEF m
  <2>4. /\ update'.left = update.left /\ update'.phase \in {"code", "round"} /\ update'.of = Onward(m).of
    <3> DEFINE o == Onward(m)
    <3>1. o \in Updating /\ o.left = update.left /\ o.phase \in {"code", "round"} /\ update' = [o EXCEPT !.batch = @ - 1]
      BY <2>1, <2>3, GoingOnward
    <3> HIDE DEF o
    <3>2. update'.left = o.left /\ update'.phase = o.phase /\ update'.of = o.of
      BY <3>1 DEF Updating
    <3>. QED
      BY <3>1, <3>2 DEF o
  <2>5. UNCHANGED <<route, synced>> /\ ((Undisturbed /\ WhoseStays) \/ Edits)
    <3>1. CASE Reaches(m)
      <4>1. /\ \E edited \in BOOLEAN : live' = [live EXCEPT ![m.at].edited = edited]
            /\ UNCHANGED <<router, verdict, staged, kept, order, synced>>
        BY <2>1, <2>3, <3>1 DEF Apply
      <4>2. m.at \in DOMAIN live /\ update'.of = m.at
        BY <1>0, <2>3, <2>4, <3>1 DEF Reaches, Onward, Updating
      <4>. QED
        BY <2>2, <4>1, <4>2 DEF Edits, router
    <3>2. CASE ~Reaches(m)
      <4>1. UNCHANGED <<router, verdict, staged, store>>
        BY <2>1, <2>3, <3>2 DEF Apply
      <4>2. update'.of = Nobody
        BY <1>0, <2>3, <2>4, <3>2 DEF Onward, Updating
      <4>. QED
        BY <2>2, <4>1, <4>2 DEF Undisturbed, WhoseStays, router, store
    <3>. QED
      BY <3>1, <3>2
  <2>. QED
    BY <1>0, <1>1, <2>1, <2>2, <2>3, <2>4, <2>5 DEF OnceInv
<1>7. ASSUME Answers, UNCHANGED <<router, staged, store>>, update.phase = "code",
             update' = [update EXCEPT !.phase = "round", !.of = Nobody],
             \A n \in DOMAIN parked' : parked'[n].kind = "node"
      PROVE  Writes /\ OnceInv'
  <2>1. update'.left = update.left /\ update'.phase = "round" /\ update'.of = Nobody
    BY <1>0, <1>7 DEF Updating
  <2>. QED
    BY <1>0, <1>1, <1>7, <2>1 DEF Writes, OnceInv, router, store
<1>8. CASE Returns
  <2>1. parked' = parked
    BY <1>8 DEF Returns
  <2>. QED
    BY <1>0, <1>7, <1>8, <2>1 DEF Returns
<1>9. ASSUME NEW i \in DOMAIN Standing, Pushes(i)
      PROVE  Writes /\ OnceInv'
  <2>1. parked' = Append(parked, NodeMessage(i)) /\ NodeMessage(i).kind = "node"
    BY <1>9 DEF Pushes, NodeMessage
  <2>2. \A n \in DOMAIN parked' : parked'[n].kind = "node"
    <3> DEFINE e == NodeMessage(i)
    <3> HIDE DEF e
    <3>1. parked' = Append(parked, e) /\ e.kind = "node"
      BY <2>1 DEF e
    <3>. QED
      BY <1>0, <3>1
  <2>. QED
    BY <1>7, <1>9, <2>2 DEF Pushes
<1>10. CASE Ends
  <2>1. CASE Panics
    <3>1. /\ update' = [update EXCEPT !.phase = "panicked"] /\ Undisturbed /\ parked' = parked /\ parked = <<>>
      BY <1>10, <2>1 DEF Ends, Undisturbed, router, store
    <3>2. update'.phase = "panicked" /\ update'.left = update.left /\ update'.of = update.of
      BY <1>0, <3>1 DEF Updating
    <3>. QED
      BY <1>0, <3>1, <3>2 DEF Undisturbed, WhoseStays, OnceInv
  <2>2. CASE ~Panics
    <3>1. /\ update' = AtRest /\ Sync /\ UNCHANGED <<route, scopes, asleep, pending, verdict, parked>>
          /\ update.phase = "round" /\ parked = <<>> /\ update.of = Nobody
      BY <1>0, <1>10, <2>2 DEF Ends, router
    <3>2. synced' = route /\ AtRest.left = MaxNavigations /\ AtRest.of = Nobody
      BY <3>1 DEF Sync, AtRest
    <3>3. OnceInv'
      BY <3>1, <3>2 DEF OnceInv
    <3>. QED
      BY <2>2, <3>1, <3>2, <3>3 DEF Syncs
  <2>. QED
    BY <2>1, <2>2
<1>11. ASSUME NEW r \in Route, Navigates(r)
       PROVE  ((Undisturbed /\ WhoseStays) \/ (Moves /\ route = synced)) /\ OnceInv'
  <2>1. /\ update.phase = "code" /\ update.left > 0 /\ update' = [update EXCEPT !.left = @ - 1]
        /\ Navigate(r) /\ UNCHANGED <<live, kept, order, synced, parked>>
    BY <1>11 DEF Navigates, store
  <2>2. update'.left = 0 /\ update'.phase = "code" /\ update'.of = update.of
    <3>1. update.left = 1
      BY <1>0, <2>1
    <3>. QED
      BY <1>0, <2>1, <3>1 DEF Updating
  <2>3. route = synced
    BY <1>1, <2>1
  <2>4. (Undisturbed /\ WhoseStays) \/ Moves
    BY <2>1, <2>2 DEF Navigate, Undisturbed, WhoseStays, Moves
  <2>. QED
    BY <1>0, <2>1, <2>2, <2>3, <2>4 DEF OnceInv
<1>. QED
  <2>1. CASE Goes
    BY <1>4, <1>5, <1>6, <1>8, <1>10, <2>1 DEF Goes
  <2>2. CASE \E i \in DOMAIN Standing : Widget(i)
    BY <1>3, <2>2 DEF Widget
  <2>3. CASE \E i \in DOMAIN Standing : Pushes(i)
    BY <1>9, <2>3
  <2>4. CASE (\E yes \in BOOLEAN : Dialog(yes)) \/ Worker
    BY <1>3, <2>4 DEF Dialog, Worker
  <2>5. CASE \E r \in Route : Navigates(r)
    BY <1>11, <2>5
  <2>. QED
    BY <1>2, <2>1, <2>2, <2>3, <2>4, <2>5 DEF NodesNext


-----------------------------------------------------------------------------
(* What the end of an update that went elsewhere once makes of the store.  *)

Stay == Shared(Chain[synced], Standing)

\* The page a route ends in is past the first n segments, and caches its state.
CachedPage(c, n) == Len(c) > n /\ c[Len(c)].seg \in Cached

LEMMA SharedWithItself == ASSUME NEW r \in Route PROVE Shared(Chain[r], Chain[r]) = Len(Chain[r])
<1>1. Len(Chain[r]) \in DOMAIN Chain[r] /\ Len(Chain[r]) \in Nat
  BY Chains
<1>2. Len(Chain[r]) <= Shared(Chain[r], Chain[r])
  BY <1>1, SharedIsCommon
<1>. QED
  BY <1>1, <1>2, SharedIsCommon

\* Only the last segment of a route is a page.
LEMMA PagesAreLast ==
  ASSUME NEW r \in Route, NEW i \in DOMAIN Chain[r], Chain[r][i].seg \in Leaves
  PROVE  i = Len(Chain[r])
<1>1. DOMAIN Chain[r] = 1..Len(Chain[r]) /\ Len(Chain[r]) \in Nat
  BY Chains
<1>2. \A j \in 1..(Len(Chain[r]) - 1) : Chain[r][j].seg \notin Leaves
  BY NodesAssumption
<1>3. i \notin 1..(Len(Chain[r]) - 1)
  BY <1>2
<1>. QED
  BY <1>1, <1>3

\* A route shared to its end is the other.
LEMMA NoneEncloses ==
  ASSUME NEW q \in Route, NEW r \in Route, Shared(Chain[q], Chain[r]) = Len(Chain[r])
  PROVE  Chain[q] = Chain[r]
<1> DEFINE n == Len(Chain[r])
<1>1. /\ Chain[q] \in Seq(Segments) /\ Chain[r] \in Seq(Segments)
      /\ DOMAIN Chain[q] = 1..Len(Chain[q]) /\ DOMAIN Chain[r] = 1..n /\ n \in Nat \ {0} /\ Len(Chain[q]) \in Nat
  BY Chains
<1>2. /\ n <= Len(Chain[q]) /\ \A j \in 1..n : Chain[q][j] = Chain[r][j]
  BY <1>1, SharedIsCommon
<1>3. Chain[r][n].seg \in Leaves /\ n \in DOMAIN Chain[q] /\ Chain[q][n] = Chain[r][n]
  BY <1>1, <1>2 DEF Leaves
<1>4. n = Len(Chain[q])
  BY <1>3, PagesAreLast
<1>. QED
  BY <1>1, <1>2, <1>4

LEMMA StageInductive ==
  ASSUME Keep = {}, MaxNavigations <= 1, BaseInv, OnceInv, StageInv, [NodesNext]_nodesVars
  PROVE  StageInv'
<1>0. NodesTypeOK /\ UpdateInv /\ route \in Route /\ synced \in Route /\ staged \in Seq(StagedNode)
  BY DEF BaseInv, NodesTypeOK
<1>1. CASE UNCHANGED <<route, staged, synced>>
  BY <1>1 DEF StageInv, Standing
<1>2. CASE Moves /\ route = synced
  <2>0. PICK r \in Route : \E s, f : /\ s = Shared(Standing, Chain[r]) /\ Commits(r, s, f)
                                     /\ UNCHANGED <<live, kept, order, synced>>
    BY <1>0, <1>2, CommitFrame
  <2>1. PICK stay, new : /\ stay = Shared(Standing, Chain[r]) /\ Commits(r, stay, new)
                         /\ UNCHANGED <<live, kept, order, synced>>
    BY <2>0
  <2>2. Len(staged) = 0
    <3>1. Shared(Chain[synced], Standing) = Len(Standing) /\ Len(Standing) \in Nat
      BY <1>0, <1>2, SharedWithItself, Chains DEF Standing
    <3>. QED
      BY <3>1 DEF StageInv
  <2> DEFINE more == Len(Chain[r]) - stay
  <2>3. /\ Standing' = Chain[r] /\ stay = Shared(Chain[synced'], Standing') /\ more \in Nat
        /\ Len(staged') = more /\ staged' \in Seq(StagedNode)
        /\ \A i \in 1..more : staged'[i] = Stage(Chain[r], stay + i, new[i])
        /\ \A i \in 1..more : new[i] \in Slots
    <3>1. /\ Standing' = Chain[r] /\ Chain[synced'] = Standing
      BY <1>2, <2>1 DEF Commits, Standing
    <3>2. /\ stay \in 0..Len(Chain[r]) /\ Len(Chain[r]) \in Nat
      BY <2>1, Chains DEF Commits
    <3>3. /\ Len(staged') = Len(staged) + more /\ staged' \in Seq(StagedNode)
          /\ \A i \in 1..more : staged'[Len(staged) + i] = Stage(Chain[r], stay + i, new[i])
          /\ new \in [1..more -> Slots \ InUse]
      BY <2>1 DEF Commits
    <3>4. stay = Shared(Chain[synced'], Standing') /\ more \in Nat
      BY <2>1, <3>1, <3>2
    <3> HIDE DEF more
    <3>5. Len(staged') = more
      BY <2>2, <3>3, <3>4
    <3>6. ASSUME NEW i \in 1..more
          PROVE  staged'[i] = Stage(Chain[r], stay + i, new[i]) /\ new[i] \in Slots
      <4>1. Len(staged) + i = i
        BY <2>2, <3>4
      <4>2. staged'[Len(staged) + i] = Stage(Chain[r], stay + i, new[i])
        BY <3>3
      <4>. QED
        BY <3>3, <4>1, <4>2
    <3>. QED
      BY <3>1, <3>3, <3>4, <3>5, <3>6
  <2> HIDE DEF more
  <2>4. DOMAIN staged' = 1..more
    BY <2>3
  <2>5. \A n \in DOMAIN staged' : \E slot \in Slots : staged'[n] = Stage(Standing', stay + n, slot)
    BY <2>3, <2>4
  <2>. QED
    BY <2>3, <2>5 DEF StageInv, more, Stage, Mounted
<1>3. CASE Syncs
  <2>1. staged' = <<>> /\ synced' = route /\ route' = route
    BY <1>3 DEF Syncs, Sync
  <2>2. Shared(Chain[synced'], Standing') = Len(Standing') /\ Len(Standing') \in Nat
    BY <1>0, <2>1, SharedWithItself, Chains DEF Standing
  <2>. QED
    BY <2>1, <2>2 DEF StageInv
<1>. QED
  BY <1>0, <1>1, <1>2, <1>3, StepsOnce DEF Undisturbed, Edits, Writes

\* The chains on either side of the end of an update.
LEMMA BothChains ==
  ASSUME NodesTypeOK
  PROVE  /\ Stay \in Nat /\ Stay <= Len(Chain[synced]) /\ Stay <= Len(Standing)
         /\ Len(Chain[synced]) \in Nat \ {0} /\ DOMAIN Chain[synced] = 1..Len(Chain[synced])
         /\ Len(Standing) \in Nat \ {0} /\ DOMAIN Standing = 1..Len(Standing)
         /\ \A j \in 1..Stay : Chain[synced][j] = Standing[j]
<1>1. route \in Route /\ synced \in Route
  BY DEF NodesTypeOK
<1>. QED
  BY <1>1, Chains, SharedIsCommon DEF Stay, Standing

\* Each segment that comes is staged once, and none that stays.
LEMMA StagedOnce ==
  ASSUME NodesTypeOK, StageInv
  PROVE  /\ DOMAIN staged = 1..(Len(Standing) - Stay)
         /\ \A n \in DOMAIN staged :
              /\ staged[n].cursor = Stay + n /\ PlaceOf(staged[n]) = At(Stay + n, Standing[Stay + n].seg)
              /\ staged[n].seg = Standing[Stay + n].seg /\ staged[n].held.seg = Standing[Stay + n].seg
              /\ staged[n].held.param = Standing[Stay + n].param /\ ~staged[n].held.edited
         /\ \A n \in DOMAIN staged : StagedAt(At(Stay + n, Standing[Stay + n].seg)) = {n}
         /\ \A i \in 1..Stay : \A seg : StagedAt(At(i, seg)) = {}
<1>1. staged \in Seq(StagedNode) /\ Len(staged) = Len(Standing) - Stay /\ DOMAIN staged = 1..Len(staged)
      /\ Len(Standing) - Stay \in Nat /\ Stay \in Nat
  BY BothChains DEF NodesTypeOK, StageInv, Stay
<1>2. ASSUME NEW n \in DOMAIN staged
      PROVE  /\ staged[n].cursor = Stay + n /\ PlaceOf(staged[n]) = At(Stay + n, Standing[Stay + n].seg)
             /\ staged[n].seg = Standing[Stay + n].seg /\ staged[n].held.seg = Standing[Stay + n].seg
             /\ staged[n].held.param = Standing[Stay + n].param /\ ~staged[n].held.edited
  <2>1. PICK slot \in Slots : staged[n] = Stage(Standing, Stay + n, slot)
    BY DEF StageInv, Stay
  <2>. QED
    BY <2>1 DEF Stage, Mounted, PlaceOf
<1>3. ASSUME NEW n \in DOMAIN staged
      PROVE  StagedAt(At(Stay + n, Standing[Stay + n].seg)) = {n}
  <2>1. \A m \in DOMAIN staged : PlaceOf(staged[m]) = At(Stay + n, Standing[Stay + n].seg) => Stay + m = Stay + n
    BY <1>2 DEF At
  <2>2. \A m \in DOMAIN staged : m \in Nat
    BY <1>1
  <2>3. \A m \in DOMAIN staged : PlaceOf(staged[m]) = At(Stay + n, Standing[Stay + n].seg) => m = n
    BY <1>1, <2>1, <2>2
  <2>. QED
    BY <1>2, <2>3 DEF StagedAt
<1>4. ASSUME NEW i \in 1..Stay, NEW seg, NEW n \in StagedAt(At(i, seg))
      PROVE  FALSE
  <2>1. n \in DOMAIN staged /\ Stay + n = i
    BY <1>2 DEF StagedAt, At
  <2>. QED
    BY <1>1, <2>1
<1>. QED
  BY <1>1, <1>2, <1>3, <1>4


LEMMA TypesOfAChain ==
  ASSUME NEW r \in Route
  PROVE  LET c == Chain[r]
         IN /\ Types(c) \in Seq(Names) \ {<<>>} /\ Len(Types(c)) = Len(c)
            /\ PlaceIn(c, Len(c)) = Types(c) /\ Types(c)[Len(c)] = c[Len(c)].seg
<1> DEFINE c == Chain[r]
           types == Types(c)
<1>1. DOMAIN c = 1..Len(c) /\ Len(c) \in Nat \ {0} /\ \A i \in DOMAIN c : c[i].seg \in Names
  BY Chains
<1>2. types = [i \in 1..Len(c) |-> c[i].seg]
  BY <1>1 DEF Types
<1>3. types \in Seq(Names) /\ Len(types) = Len(c) /\ types[Len(c)] = c[Len(c)].seg
  <2> HIDE DEF c
  <2>. QED
    BY <1>1, <1>2
<1> HIDE DEF types
<1>4. SubSeq(types, 1, Len(c)) = types /\ types # <<>>
  BY <1>1, <1>3
<1>. QED
  BY <1>3, <1>4 DEF PlaceIn, types

\* What stays keeps its node; what comes gets what was built for it, or what
\* was kept of it.
LEMMA StoreAfterwards ==
  ASSUME NodesTypeOK, StageInv, ShownInv, NEW k
  PROVE  /\ DOMAIN Taken(k) = {At(i, Standing[i].seg) : i \in DOMAIN Standing}
         /\ \A i \in 1..Stay : LET p == At(i, Standing[i].seg)
                               IN p \in DOMAIN live /\ Survives(p) /\ Taken(k)[p] = live[p]
         /\ \A n \in DOMAIN staged : Taken(k)[At(Stay + n, Standing[Stay + n].seg)] = Restored(k, n)
<1>0. /\ Stay \in Nat /\ Stay <= Len(Chain[synced]) /\ Stay <= Len(Standing) /\ Len(Standing) \in Nat
      /\ Len(Chain[synced]) \in Nat
      /\ DOMAIN Chain[synced] = 1..Len(Chain[synced]) /\ DOMAIN Standing = 1..Len(Standing)
      /\ \A j \in 1..Stay : Chain[synced][j] = Standing[j]
  BY BothChains
<1>1. /\ DOMAIN staged = 1..(Len(Standing) - Stay)
      /\ \A n \in DOMAIN staged : PlaceOf(staged[n]) = At(Stay + n, Standing[Stay + n].seg)
      /\ \A n \in DOMAIN staged : StagedAt(At(Stay + n, Standing[Stay + n].seg)) = {n}
      /\ \A i \in 1..Stay : \A seg : StagedAt(At(i, seg)) = {}
  BY StagedOnce
<1>2. DOMAIN live = {At(i, Chain[synced][i].seg) : i \in DOMAIN Chain[synced]}
  BY DEF ShownInv
<1>3. DOMAIN Taken(k) = {p \in DOMAIN live : Survives(p)} \cup {PlaceOf(f) : f \in ToSet(staged)}
  BY TakenNodes
<1>4. \A p \in DOMAIN Taken(k) :
        Taken(k)[p] = IF StagedAt(p) = {} THEN live[p] ELSE Restored(k, Latest(StagedAt(p)))
  BY DEF Taken
<1>5. ASSUME NEW i \in 1..Stay, NEW p, p = At(i, Standing[i].seg)
      PROVE  p \in DOMAIN live /\ Survives(p) /\ p \in DOMAIN Taken(k) /\ Taken(k)[p] = live[p]
  <2>1. i \in DOMAIN Chain[synced] /\ i \in DOMAIN Standing /\ p = At(i, Chain[synced][i].seg)
    BY <1>0, <1>5
  <2>2. p \in DOMAIN live /\ StagedAt(p) = {} /\ Fits(p, Standing)
    BY <1>1, <1>2, <1>5, <2>1 DEF Fits, At
  <2>3. Survives(p)
    BY <2>2 DEF Survives
  <2>. QED
    BY <1>3, <1>4, <2>2, <2>3
<1>6. ASSUME NEW n \in DOMAIN staged, NEW p, p = At(Stay + n, Standing[Stay + n].seg)
      PROVE  p \in DOMAIN Taken(k) /\ Taken(k)[p] = Restored(k, n)
  <2>1. StagedAt(p) = {n} /\ PlaceOf(staged[n]) = p
    BY <1>1, <1>6
  <2>2. p \in DOMAIN Taken(k)
    BY <1>3, <2>1 DEF ToSet
  <2>3. Latest(StagedAt(p)) = n
    <3>1. n \in Nat
      BY <1>1
    <3>2. \A m \in {n} : (\A l \in {n} : l <= m) <=> m = n
      BY <3>1
    <3>. QED
      BY <2>1, <3>2 DEF Latest
  <2>. QED
    BY <1>4, <2>1, <2>2, <2>3
<1>7. ASSUME NEW p \in DOMAIN Taken(k)
      PROVE  \E i \in DOMAIN Standing : p = At(i, Standing[i].seg)
  <2>1. CASE p \in DOMAIN live /\ Survives(p)
    BY <2>1 DEF Survives, Fits, At, ShownInv
  <2>2. ASSUME NEW n \in DOMAIN staged, p = PlaceOf(staged[n])
        PROVE  \E i \in DOMAIN Standing : p = At(i, Standing[i].seg)
    <3>1. Stay + n \in DOMAIN Standing
      BY <1>0, <1>1
    <3>. QED
      BY <1>1, <2>2, <3>1
  <2>. QED
    BY <1>3, <2>1, <2>2 DEF ToSet
<1>8. ASSUME NEW i \in DOMAIN Standing
      PROVE  At(i, Standing[i].seg) \in DOMAIN Taken(k)
  <2>1. CASE i \in 1..Stay
    BY <1>5, <2>1
  <2>2. CASE i \notin 1..Stay
    <3>1. i - Stay \in DOMAIN staged /\ Stay + (i - Stay) = i
      BY <1>0, <1>1, <2>2
    <3>. QED
      BY <1>6, <3>1
  <2>. QED
    BY <2>1, <2>2
<1>9. DOMAIN Taken(k) = {At(i, Standing[i].seg) : i \in DOMAIN Standing}
  BY <1>7, <1>8
<1>. QED
  BY <1>5, <1>6, <1>9

\* Only the page on screen departs, when it is left and caches its state.
LEMMA WhatDeparts ==
  ASSUME NodesTypeOK, StageInv, ShownInv
  PROVE  Departing = IF CachedPage(Chain[synced], Stay)
                     THEN {At(Len(Chain[synced]), Chain[synced][Len(Chain[synced])].seg)} ELSE {}
<1> DEFINE c == Chain[synced]
<1>0. /\ Stay \in Nat /\ Stay <= Len(c) /\ Stay <= Len(Standing) /\ Len(Standing) \in Nat
      /\ Len(c) \in Nat \ {0} /\ synced \in Route
      /\ DOMAIN c = 1..Len(c) /\ DOMAIN Standing = 1..Len(Standing)
  BY BothChains DEF NodesTypeOK
<1>1. /\ DOMAIN staged = 1..(Len(Standing) - Stay)
      /\ \A n \in DOMAIN staged : StagedAt(At(Stay + n, Standing[Stay + n].seg)) = {n}
  BY StagedOnce
<1>2. DOMAIN live = {At(i, c[i].seg) : i \in DOMAIN c}
  BY DEF ShownInv
<1>3. ASSUME NEW i \in DOMAIN c
      PROVE  /\ ~Survives(At(i, c[i].seg)) <=> i > Stay
             /\ c[i].seg \in Cached => i = Len(c)
  <2>1. CASE i <= Stay
    <3>1. i \in 1..Stay /\ c[i] = Standing[i]
      BY <1>0, <2>1, BothChains
    <3>2. Survives(At(i, c[i].seg))
      BY <3>1, StoreAfterwards
    <3>. QED
      BY <1>0, <2>1, <3>2, PagesAreLast, NodesAssumption
  <2>2. CASE i > Stay
    <3>1. ASSUME Survives(At(i, c[i].seg)) PROVE FALSE
      <4>1. i \in DOMAIN Standing /\ Standing[i].seg = c[i].seg /\ StagedAt(At(i, c[i].seg)) = {}
        BY <3>1 DEF Survives, Fits, At
      <4>2. i - Stay \in DOMAIN staged /\ Stay + (i - Stay) = i
        BY <1>0, <1>1, <2>2, <4>1
      <4>3. StagedAt(At(i, Standing[i].seg)) = {i - Stay}
        BY <1>1, <4>2
      <4>. QED
        BY <4>1, <4>3
    <3>. QED
      BY <1>0, <2>2, <3>1, PagesAreLast, NodesAssumption
  <2>. QED
    BY <1>0, <2>1, <2>2
<1>4. ASSUME NEW p \in Departing
      PROVE  CachedPage(c, Stay) /\ p = At(Len(c), c[Len(c)].seg)
  <2>1. PICK i \in DOMAIN c : p = At(i, c[i].seg)
    BY <1>2 DEF Departing
  <2>2. i > Stay /\ c[i].seg \in Cached
    BY <1>3, <2>1 DEF Departing, At
  <2>3. i = Len(c)
    BY <1>3, <2>2
  <2>. QED
    BY <2>1, <2>2, <2>3 DEF CachedPage
<1>5. ASSUME CachedPage(c, Stay)
      PROVE  At(Len(c), c[Len(c)].seg) \in Departing
  <2>1. Len(c) \in DOMAIN c /\ Len(c) > Stay /\ c[Len(c)].seg \in Cached
    BY <1>0, <1>5 DEF CachedPage
  <2>2. At(Len(c), c[Len(c)].seg) \in DOMAIN live /\ ~Survives(At(Len(c), c[Len(c)].seg))
    BY <1>2, <1>3, <2>1
  <2>. QED
    BY <2>1, <2>2 DEF Departing, At
<1>. QED
  BY <1>4, <1>5

\* Only for the page the route that stands ends in is what is kept taken out,
\* when it comes and caches its state.
LEMMA WhatReturns ==
  ASSUME NodesTypeOK, StageInv
  PROVE  /\ PlacesRestored = IF CachedPage(Standing, Stay) THEN {Types(Standing)} ELSE {}
         /\ \A n \in DOMAIN staged : staged[n].seg \in Cached =>
               Stay + n = Len(Standing) /\ CachedPage(Standing, Stay)
                 /\ PlaceIn(Standing, staged[n].cursor) = Types(Standing)
<1>0. /\ Stay \in Nat /\ Stay <= Len(Standing) /\ Len(Standing) \in Nat \ {0} /\ route \in Route
      /\ DOMAIN Standing = 1..Len(Standing)
  BY BothChains DEF NodesTypeOK
<1>1. /\ DOMAIN staged = 1..(Len(Standing) - Stay)
      /\ \A n \in DOMAIN staged : staged[n].cursor = Stay + n /\ staged[n].seg = Standing[Stay + n].seg
  BY StagedOnce
<1>2. PlaceIn(Standing, Len(Standing)) = Types(Standing)
  BY <1>0, TypesOfAChain DEF Standing
<1>3. ASSUME NEW n \in DOMAIN staged, staged[n].seg \in Cached
      PROVE  Stay + n = Len(Standing) /\ CachedPage(Standing, Stay)
               /\ PlaceIn(Standing, staged[n].cursor) = Types(Standing)
  <2>1. Stay + n \in DOMAIN Standing /\ Standing[Stay + n].seg \in Leaves /\ n > 0
    BY <1>0, <1>1, <1>3, NodesAssumption
  <2>2. Stay + n = Len(Standing)
    BY <1>0, <2>1, PagesAreLast DEF Standing
  <2>. QED
    BY <1>0, <1>1, <1>2, <1>3, <2>1, <2>2 DEF CachedPage
<1>4. ASSUME CachedPage(Standing, Stay)
      PROVE  Types(Standing) \in PlacesRestored
  <2> DEFINE n == Len(Standing) - Stay
  <2>1. n \in DOMAIN staged /\ Stay + n = Len(Standing)
    BY <1>0, <1>1, <1>4 DEF CachedPage
  <2>2. staged[n].cursor = Len(Standing) /\ staged[n].seg \in Cached /\ staged[n] \in ToSet(staged)
    BY <1>1, <1>4, <2>1 DEF CachedPage, ToSet
  <2>. QED
    BY <1>2, <2>2 DEF PlacesRestored
<1>5. ASSUME NEW x \in PlacesRestored
      PROVE  CachedPage(Standing, Stay) /\ x = Types(Standing)
  <2>1. PICK n \in DOMAIN staged : staged[n].seg \in Cached /\ x = PlaceIn(Standing, staged[n].cursor)
    BY DEF PlacesRestored, ToSet
  <2>. QED
    BY <1>3, <2>1
<1>6. PlacesRestored = IF CachedPage(Standing, Stay) THEN {Types(Standing)} ELSE {}
  BY <1>4, <1>5
<1>. QED
  BY <1>3, <1>6


\* What is kept once the page on screen is left: as `sync` finds it before it
\* takes over what was staged.
Leaving(left) ==
  IF CachedPage(Chain[synced], Stay)
  THEN left = KeepIn(Types(Chain[synced]), live[At(Len(Chain[synced]), Chain[synced][Len(Chain[synced])].seg)])
  ELSE left = [kept |-> kept, order |-> order]

LEMMA SyncSteps ==
  ASSUME NodesTypeOK, StageInv, ShownInv, Sync
  PROVE  \/ Chain[synced] = Standing /\ UNCHANGED <<live, kept, order>>
         \/ \E left : /\ Leaving(left)
                      /\ live' = Taken(left.kept) /\ kept' = TakeOut(left.kept)
                      /\ order' \in InTurn(DOMAIN kept', left.order)
<1>0. synced \in Route /\ route \in Route
  BY DEF NodesTypeOK
<1>1. CASE staged = <<>> /\ Types(Chain[synced]) = Types(Standing)
  <2>1. UNCHANGED <<live, kept, order>>
    BY <1>1 DEF Sync
  <2>2. Stay = Len(Standing)
    BY <1>1, BothChains DEF StageInv, Stay
  <2>. QED
    BY <1>0, <2>1, <2>2, NoneEncloses DEF Stay, Standing
<1>2. CASE ~(staged = <<>> /\ Types(Chain[synced]) = Types(Standing))
  <2> DEFINE c == Chain[synced]
             page == At(Len(c), c[Len(c)].seg)
  <2>1. CASE CachedPage(c, Stay)
    <3>1. Departing = {page}
      BY <2>1, WhatDeparts
    <3>2. \E left \in {KeepIn(PlaceIn(c, p.cursor), live[p]) : p \in Departing} :
            /\ live' = Taken(left.kept) /\ kept' = TakeOut(left.kept)
            /\ order' \in InTurn(DOMAIN kept', left.order)
      BY <1>2, <3>1 DEF Sync
    <3>3. PlaceIn(c, page.cursor) = Types(c)
      BY <1>0, TypesOfAChain DEF At
    <3>4. \A left \in {KeepIn(PlaceIn(c, p.cursor), live[p]) : p \in Departing} : left = KeepIn(Types(c), live[page])
      BY <3>1, <3>3
    <3>. QED
      BY <2>1, <3>2, <3>4 DEF Leaving
  <2>2. CASE ~CachedPage(c, Stay)
    <3>1. Departing = {}
      BY <2>2, WhatDeparts
    <3>2. \E left \in {[kept |-> kept, order |-> order]} :
            /\ live' = Taken(left.kept) /\ kept' = TakeOut(left.kept)
            /\ order' \in InTurn(DOMAIN kept', left.order)
      BY <1>2, <3>1 DEF Sync
    <3>. QED
      BY <2>2, <3>2 DEF Leaving
  <2>. QED
    BY <2>1, <2>2
<1>. QED
  BY <1>1, <1>2

\* What is kept afterwards, of whatever it was kept with.
LEMMA LeavingKeeps ==
  ASSUME NodesTypeOK, ShownInv, KeptInv, NEW left, Leaving(left)
  PROVE  /\ \A x \in DOMAIN left.kept : x \in Seq(Names) \ {<<>>} /\ left.kept[x].seg = x[Len(x)]
         /\ IsFiniteSet(DOMAIN left.kept)
<1> DEFINE c == Chain[synced]
           page == At(Len(c), c[Len(c)].seg)
           place == Types(c)
<1>0. synced \in Route
  BY DEF NodesTypeOK
<1>1. /\ \A x \in DOMAIN kept : x \in Seq(Names) \ {<<>>} /\ kept[x].seg = x[Len(x)]
      /\ IsFiniteSet(DOMAIN kept)
  BY DEF KeptInv
<1>2. CASE ~CachedPage(c, Stay)
  BY <1>1, <1>2 DEF Leaving
<1>3. CASE CachedPage(c, Stay)
  <2>1. left = KeepIn(place, live[page])
    BY <1>3 DEF Leaving
  <2>2. PICK goes : left.kept = [x \in (DOMAIN kept \cup {place}) \ goes |-> IF x = place THEN live[page] ELSE kept[x]]
    BY <2>1 DEF KeepIn
  <2>3. place \in Seq(Names) \ {<<>>} /\ place[Len(place)] = c[Len(c)].seg
    BY <1>0, TypesOfAChain
  <2>4. live[page].seg = c[Len(c)].seg
    <3>1. Len(c) \in DOMAIN c
      BY <1>0, Chains
    <3>. QED
      BY <3>1 DEF ShownInv
  <2> HIDE DEF page, place
  <2>5. DOMAIN left.kept = (DOMAIN kept \cup {place}) \ goes
    BY <2>2
  <2>6. IsFiniteSet(DOMAIN left.kept)
    <3>1. IsFiniteSet(DOMAIN kept \cup {place})
      BY <1>1, FS_AddElement
    <3>. QED
      BY <2>5, <3>1, FS_Subset
  <2>. QED
    BY <1>1, <2>2, <2>3, <2>4, <2>5, <2>6
<1>. QED
  BY <1>2, <1>3

LEMMA TurnsAfterwards ==
  ASSUME NEW places, NEW turns, NEW s \in InTurn(places, turns)
  PROVE  s \in [1..Cardinality(places) -> places]
  BY DEF InTurn, SetToSeqs

LEMMA StoreInductive ==
  ASSUME Keep = {}, MaxNavigations <= 1, BaseInv, OnceInv, StageInv, ShownInv, KeptInv, [NodesNext]_nodesVars
  PROVE  ShownInv' /\ KeptInv'
<1>0. /\ NodesTypeOK /\ UpdateInv /\ live \in [DOMAIN live -> Node] /\ route \in Route
  BY DEF BaseInv, NodesTypeOK
<1>1. CASE UNCHANGED <<live, kept, order, synced>>
  BY <1>1 DEF ShownInv, KeptInv
<1>2. CASE Edits
  <2>1. PICK p \in DOMAIN live, e \in BOOLEAN : live' = [live EXCEPT ![p].edited = e]
    BY <1>2 DEF Edits
  <2>2. /\ DOMAIN live' = DOMAIN live
        /\ \A q \in DOMAIN live : live'[q].seg = live[q].seg /\ live'[q].param = live[q].param
    BY <1>0, <2>1, EditedNodes
  <2>3. UNCHANGED <<kept, order, synced>>
    BY <1>2 DEF Edits
  <2>4. ShownInv'
    BY <2>2, <2>3 DEF ShownInv
  <2>5. KeptInv'
    BY <2>3 DEF KeptInv
  <2>. QED
    BY <2>4, <2>5
<1>3. CASE Syncs
  <2>0. Sync /\ synced' = route /\ Chain[synced'] = Standing
    BY <1>3 DEF Syncs, Sync, Standing
  <2>1. CASE Chain[synced] = Standing /\ UNCHANGED <<live, kept, order>>
    BY <2>0, <2>1 DEF ShownInv, KeptInv
  <2>2. ASSUME NEW left, Leaving(left), live' = Taken(left.kept), kept' = TakeOut(left.kept),
               order' \in InTurn(DOMAIN kept', left.order)
        PROVE  ShownInv' /\ KeptInv'
    <3> DEFINE k == left.kept
    <3>1. /\ \A x \in DOMAIN k : x \in Seq(Names) \ {<<>>} /\ k[x].seg = x[Len(x)]
          /\ IsFiniteSet(DOMAIN k)
      BY <1>0, <2>2, LeavingKeeps
    <3> HIDE DEF k
    <3>2. live' = Taken(k) /\ kept' = TakeOut(k)
      BY <2>2 DEF k
    <3>3. KeptInv'
      <4>1. DOMAIN kept' \subseteq DOMAIN k /\ \A x \in DOMAIN kept' : kept'[x] = k[x]
        BY <3>2, TakenOut
      <4>2. IsFiniteSet(DOMAIN kept')
        BY <3>1, <4>1, FS_Subset
      <4>3. order' \in [1..Cardinality(DOMAIN kept') -> DOMAIN kept']
        BY <2>2, TurnsAfterwards
      <4>. QED
        BY <3>1, <4>1, <4>2, <4>3 DEF KeptInv
    <3>4. /\ DOMAIN live' = {At(i, Standing[i].seg) : i \in DOMAIN Standing}
          /\ \A i \in 1..Stay : live'[At(i, Standing[i].seg)] = live[At(i, Standing[i].seg)]
          /\ \A n \in DOMAIN staged : live'[At(Stay + n, Standing[Stay + n].seg)] = Restored(k, n)
      BY <1>0, <3>2, StoreAfterwards
    <3>5. ASSUME NEW i \in 1..Stay
          PROVE  LET h == live'[At(i, Standing[i].seg)]
                 IN h.seg = Standing[i].seg /\ h.param = Standing[i].param
      <4>1. i \in DOMAIN Chain[synced] /\ Chain[synced][i] = Standing[i]
        BY <1>0, BothChains
      <4>. QED
        BY <3>4, <4>1 DEF ShownInv
    <3>6. ASSUME NEW n \in DOMAIN staged, NEW h, h = Restored(k, n)
          PROVE  h.seg = Standing[Stay + n].seg /\ h.param = Standing[Stay + n].param
      <4>1. staged[n].held.seg = Standing[Stay + n].seg /\ staged[n].held.param = Standing[Stay + n].param
            /\ staged[n].seg = Standing[Stay + n].seg
        BY <1>0, StagedOnce
      <4>2. CASE h = staged[n].held
        BY <4>1, <4>2
      <4>3. CASE h # staged[n].held
        <5> DEFINE x == PlaceIn(Standing, staged[n].cursor)
        <5>1. staged[n].seg \in Cached /\ x \in DOMAIN k /\ h = k[x] /\ SameParams(h, staged[n].held)
          BY <3>6, <4>3 DEF Restored, IsThere
        <5>2. Stay + n = Len(Standing) /\ x = Types(Standing)
          BY <1>0, <5>1, WhatReturns
        <5>3. Len(x) = Len(Standing) /\ x[Len(x)] = Standing[Len(Standing)].seg
          BY <1>0, <5>2, TypesOfAChain DEF Standing
        <5> HIDE DEF x
        <5>. QED
          BY <3>1, <4>1, <5>1, <5>2, <5>3 DEF SameParams
      <4>. QED
        BY <4>2, <4>3
    <3>7. ASSUME NEW i \in DOMAIN Standing
          PROVE  LET h == live'[At(i, Standing[i].seg)]
                 IN h.seg = Standing[i].seg /\ h.param = Standing[i].param
      <4>1. CASE i \in 1..Stay
        BY <3>5, <4>1
      <4>2. CASE i \notin 1..Stay
        <5>1. i - Stay \in DOMAIN staged /\ Stay + (i - Stay) = i
          BY <1>0, <4>2, BothChains, StagedOnce
        <5>2. live'[At(i, Standing[i].seg)] = Restored(k, i - Stay)
          BY <3>4, <5>1
        <5>. QED
          BY <3>6, <5>1, <5>2
      <4>. QED
        BY <4>1, <4>2
    <3>8. ShownInv'
      BY <2>0, <3>4, <3>7 DEF ShownInv
    <3>. QED
      BY <3>3, <3>8
  <2>. QED
    BY <1>0, <2>0, <2>1, <2>2, SyncSteps
<1>. QED
  BY <1>0, <1>1, <1>2, <1>3, StepsOnce DEF Undisturbed, Moves, Writes


-----------------------------------------------------------------------------
(* The steps of Pages.                                                     *)

Remember(k) == [x \in DOMAIN k |-> [param |-> k[x].param, edited |-> k[x].edited]]

\* What shows a chain, as Pages sees it.
LEMMA ShowsAChain ==
  ASSUME NEW r \in Route, NEW screen, DOMAIN screen = DOMAIN Chain[r],
         \A i \in DOMAIN Chain[r] : screen[i].seg = Chain[r][i].seg,
         screen = [i \in DOMAIN Chain[r] |-> screen[i]]
  PROVE  /\ Len(screen) = Len(Chain[r])
         /\ Screen!PlaceOf(screen) = Types(Chain[r])
         /\ \A n \in Nat : Screen!IsPage(screen, n) <=> CachedPage(Chain[r], n)
<1>1. DOMAIN Chain[r] = 1..Len(Chain[r]) /\ Len(Chain[r]) \in Nat \ {0}
  BY Chains
<1>2. screen \in Seq({screen[i] : i \in 1..Len(Chain[r])}) /\ Len(screen) = Len(Chain[r])
  <2> DEFINE n == Len(Chain[r])
             S == {screen[i] : i \in 1..n}
  <2>1. screen = [i \in 1..n |-> screen[i]] /\ n \in Nat
    BY <1>1
  <2>2. \A i \in 1..n : screen[i] \in S
    OBVIOUS
  <2> HIDE DEF n, S
  <2>3. screen \in [1..n -> S]
    BY <2>1, <2>2
  <2>4. screen \in Seq(S) /\ Len(screen) = n
    BY <2>1, <2>3
  <2>. QED
    BY <2>4 DEF n, S
<1>3. Screen!PlaceOf(screen) = Types(Chain[r])
  BY DEF Screen!PlaceOf, Types
<1>4. ASSUME NEW n \in Nat PROVE Screen!IsPage(screen, n) <=> CachedPage(Chain[r], n)
  <2>1. Len(screen) = Len(Chain[r])
    BY <1>2
  <2>2. Len(Chain[r]) \in DOMAIN Chain[r]
    BY <1>1
  <2>3. screen[Len(Chain[r])].seg = Chain[r][Len(Chain[r])].seg
    BY <2>2
  <2>. QED
    BY <2>1, <2>3 DEF Screen!IsPage, CachedPage
<1>. QED
  BY <1>2, <1>3, <1>4

LEMMA OnScreenIs ==
  ASSUME NodesTypeOK, ShownInv
  PROVE  LET c == Chain[synced]
         IN /\ OnScreen = [i \in DOMAIN c |-> Shows(At(i, c[i].seg))]
            /\ \A i \in DOMAIN c :
                 /\ OnScreen[i] = Shows(At(i, c[i].seg))
                 /\ OnScreen[i].seg = c[i].seg /\ OnScreen[i].param = c[i].param
                 /\ OnScreen[i].edited = live[At(i, c[i].seg)].edited
            /\ Len(OnScreen) = Len(c) /\ DOMAIN OnScreen = DOMAIN c
            /\ Screen!PlaceOf(OnScreen) = Types(c)
            /\ \A n \in Nat : Screen!IsPage(OnScreen, n) <=> CachedPage(c, n)
<1> DEFINE c == Chain[synced]
<1>0. synced \in Route
  BY DEF NodesTypeOK
<1>1. \A i \in DOMAIN c : At(i, c[i].seg) \in DOMAIN live
  BY DEF ShownInv
<1>2. OnScreen = [i \in DOMAIN c |-> Shows(At(i, c[i].seg))]
  BY <1>1 DEF OnScreen
<1>3. ASSUME NEW i \in DOMAIN c
      PROVE  /\ OnScreen[i] = Shows(At(i, c[i].seg))
             /\ OnScreen[i].seg = c[i].seg /\ OnScreen[i].param = c[i].param
             /\ OnScreen[i].edited = live[At(i, c[i].seg)].edited
  BY <1>2 DEF Shows, ShownInv
<1>4. DOMAIN OnScreen = DOMAIN c /\ OnScreen = [i \in DOMAIN c |-> OnScreen[i]]
  BY <1>2
<1> HIDE DEF c
<1>5. Len(OnScreen) = Len(Chain[synced]) /\ Screen!PlaceOf(OnScreen) = Types(Chain[synced])
      /\ \A n \in Nat : Screen!IsPage(OnScreen, n) <=> CachedPage(Chain[synced], n)
  <2> DEFINE screen == OnScreen
  <2>1. /\ DOMAIN screen = DOMAIN Chain[synced]
        /\ \A i \in DOMAIN Chain[synced] : screen[i].seg = Chain[synced][i].seg
        /\ screen = [i \in DOMAIN Chain[synced] |-> screen[i]]
    BY <1>3, <1>4 DEF c
  <2> HIDE DEF screen
  <2>2. Len(screen) = Len(Chain[synced]) /\ Screen!PlaceOf(screen) = Types(Chain[synced])
        /\ \A n \in Nat : Screen!IsPage(screen, n) <=> CachedPage(Chain[synced], n)
    BY <1>0, <2>1, ShowsAChain
  <2>. QED
    BY <2>2 DEF screen
<1>. QED
  BY <1>2, <1>3, <1>4, <1>5 DEF c

\* Leaving as Pages leaves: one page more, and one less where there were too
\* many.
LEMMA Remembering ==
  ASSUME NodesTypeOK, ShownInv, KeptInv, NEW left, Leaving(left)
  PROVE  \E forgotten \in SUBSET (DOMAIN Memory \cup {Screen!PlaceOf(OnScreen)}) :
           /\ Screen!Forgetting(Screen!Leave(Stay), forgotten) = Remember(left.kept)
           /\ Cardinality(forgotten) <= IF Cardinality(DOMAIN Screen!Leave(Stay)) > MaxKept THEN 1 ELSE 0
<1> DEFINE c == Chain[synced]
           last == At(Len(c), c[Len(c)].seg)
           place == Types(c)
           A == Screen!Leave(Stay)
<1>0. /\ Len(c) \in DOMAIN c /\ Stay \in Nat /\ MaxKept \in Nat
      /\ DOMAIN Memory = DOMAIN kept /\ \A x \in DOMAIN kept : Memory[x] = [param |-> kept[x].param, edited |-> kept[x].edited]
  BY BothChains, NodesAssumption DEF Memory
<1>1. /\ OnScreen[Len(c)].param = live[last].param /\ OnScreen[Len(c)].edited = live[last].edited
      /\ Len(OnScreen) = Len(c) /\ Screen!PlaceOf(OnScreen) = place
      /\ Screen!IsPage(OnScreen, Stay) <=> CachedPage(c, Stay)
  <2>1. OnScreen[Len(c)] = Shows(last)
    BY <1>0, OnScreenIs
  <2>2. OnScreen[Len(c)].param = live[last].param /\ OnScreen[Len(c)].edited = live[last].edited
    BY <2>1 DEF Shows
  <2>. QED
    BY <1>0, <2>2, OnScreenIs
<1>2. CASE ~CachedPage(c, Stay)
  <2>1. left.kept = kept
    BY <1>2 DEF Leaving
  <2>2. A = Memory
    BY <1>1, <1>2 DEF Screen!Leave
  <2>3. Screen!Forgetting(A, {}) = Remember(left.kept)
    BY <1>0, <2>1, <2>2 DEF Screen!Forgetting, Remember
  <2>4. Cardinality({}) = 0
    BY FS_EmptySet
  <2>. QED
    BY <2>3, <2>4
<1>3. CASE CachedPage(c, Stay)
  <2> DEFINE in == IF place \in DOMAIN kept THEN order ELSE Append(order, place)
             goes == IF Len(in) > MaxKept THEN {Head(in)} ELSE {}
             noted == [param |-> live[last].param, edited |-> live[last].edited]
  <2>1. left = KeepIn(place, live[last])
    BY <1>3 DEF Leaving
  <2>2. left.kept = [x \in (DOMAIN kept \cup {place}) \ goes |-> IF x = place THEN live[last] ELSE kept[x]]
    BY <2>1 DEF KeepIn
  <2>3. A = [p \in DOMAIN Memory \cup {place} |-> IF p = place THEN noted ELSE Memory[p]]
    BY <1>1, <1>3 DEF Screen!Leave
  <2>4. /\ IsFiniteSet(DOMAIN kept) /\ Cardinality(DOMAIN kept) \in Nat
        /\ order \in [1..Cardinality(DOMAIN kept) -> DOMAIN kept]
    BY FS_CardinalityType DEF KeptInv
  <2>5. order \in Seq(DOMAIN kept) /\ Len(order) = Cardinality(DOMAIN kept)
    <3> DEFINE n == Cardinality(DOMAIN kept)
    <3> HIDE DEF n
    <3>1. order \in [1..n -> DOMAIN kept] /\ n \in Nat
      BY <2>4 DEF n
    <3>2. order \in Seq(DOMAIN kept) /\ Len(order) = n
      BY <3>1
    <3>. QED
      BY <3>2 DEF n
  <2> HIDE DEF place, noted, last
  <2>6. in \in Seq(DOMAIN kept \cup {place}) /\ Len(in) = Cardinality(DOMAIN kept \cup {place})
    <3>1. CASE place \in DOMAIN kept
      <4>1. DOMAIN kept \cup {place} = DOMAIN kept
        BY <3>1
      <4>. QED
        BY <2>5, <3>1, <4>1
    <3>2. CASE place \notin DOMAIN kept
      <4>1. Cardinality(DOMAIN kept \cup {place}) = Cardinality(DOMAIN kept) + 1
        BY <2>4, <3>2, FS_AddElement
      <4>2. order \in Seq(DOMAIN kept \cup {place})
        BY <2>5
      <4>. QED
        BY <2>5, <3>2, <4>1, <4>2
    <3>. QED
      BY <3>1, <3>2
  <2>7. goes \subseteq DOMAIN kept \cup {place}
    <3>1. ASSUME Len(in) > MaxKept PROVE Head(in) \in DOMAIN kept \cup {place}
      <4> HIDE DEF in
      <4>1. in # <<>>
        BY <1>0, <2>6, <3>1
      <4>. QED
        BY <2>6, <4>1
    <3>. QED
      BY <3>1
  <2>8. DOMAIN A = DOMAIN kept \cup {place}
    BY <1>0, <2>3
  <2>9. Cardinality(goes) <= IF Cardinality(DOMAIN A) > MaxKept THEN 1 ELSE 0
    <3>1. Cardinality({Head(in)}) = 1 /\ Cardinality({}) = 0
      BY FS_EmptySet, FS_Singleton
    <3>2. Cardinality(DOMAIN A) = Len(in)
      BY <2>6, <2>8
    <3> HIDE DEF A, in
    <3>3. CASE Len(in) > MaxKept
      BY <3>1, <3>2, <3>3
    <3>4. CASE ~(Len(in) > MaxKept)
      BY <3>1, <3>2, <3>4
    <3>. QED
      BY <3>3, <3>4
  <2> HIDE DEF goes, in
  <2>10. Screen!Forgetting(A, goes) = Remember(left.kept)
    <3>1. Screen!Forgetting(A, goes) = [p \in (DOMAIN kept \cup {place}) \ goes |-> A[p]]
      BY <2>8 DEF Screen!Forgetting
    <3>2. \A p \in (DOMAIN kept \cup {place}) \ goes :
             A[p] = [param |-> left.kept[p].param, edited |-> left.kept[p].edited]
      BY <1>0, <2>2, <2>3 DEF noted
    <3>3. DOMAIN left.kept = (DOMAIN kept \cup {place}) \ goes
      BY <2>2
    <3>. QED
      BY <3>1, <3>2, <3>3 DEF Remember
  <2>. QED
    BY <1>0, <1>1, <2>7, <2>9, <2>10
<1>. QED
  BY <1>2, <1>3


\* The segments that come are new, but for a page that returns.
LEMMA Coming ==
  ASSUME NodesTypeOK, StageInv, ShownInv, NEW k, NEW n \in DOMAIN staged
  PROVE  LET place == Types(Standing)
             returns == /\ CachedPage(Standing, Stay) /\ place \in DOMAIN k
                        /\ k[place].param = Standing[Len(Standing)].param
         IN IF Stay + n = Len(Standing) /\ returns THEN Restored(k, n) = k[place]
            ELSE Restored(k, n).edited = FALSE
<1> DEFINE place == Types(Standing)
           returns == /\ CachedPage(Standing, Stay) /\ place \in DOMAIN k
                      /\ k[place].param = Standing[Len(Standing)].param
           x == PlaceIn(Standing, staged[n].cursor)
<1>0. /\ staged[n].cursor = Stay + n /\ staged[n].seg = Standing[Stay + n].seg
      /\ staged[n].held.param = Standing[Stay + n].param /\ staged[n].held.edited = FALSE
  <2>1. staged[n].held \in Node
    BY DEF NodesTypeOK, StagedNode
  <2>2. staged[n].held.edited \in BOOLEAN
    BY <2>1 DEF Node
  <2>. QED
    BY <2>2, StagedOnce
<1>1. route \in Route /\ Stay \in Nat /\ Len(Standing) \in Nat /\ n \in Nat
      /\ \A m \in DOMAIN staged : m \in Nat /\ staged[m].cursor = Stay + m
      /\ DOMAIN staged = 1..(Len(Standing) - Stay)
  BY BothChains, StagedOnce DEF NodesTypeOK
<1>2. CASE Stay + n = Len(Standing) /\ returns
  <2>1. x = place /\ staged[n].seg \in Cached
    BY <1>0, <1>1, <1>2, TypesOfAChain DEF CachedPage, Standing
  <2>2. \A m \in 1..(n - 1) : staged[m].cursor # staged[n].cursor
    BY <1>1
  <2>3. IsThere(k, n)
    BY <1>2, <2>1, <2>2 DEF IsThere
  <2>4. SameParams(k[x], staged[n].held)
    BY <1>0, <1>2, <2>1 DEF SameParams
  <2>5. Restored(k, n) = k[x]
    BY <2>1, <2>3, <2>4 DEF Restored
  <2>. QED
    BY <1>2, <2>1, <2>5
<1>3. CASE ~(Stay + n = Len(Standing) /\ returns)
  <2>1. ~(staged[n].seg \in Cached /\ IsThere(k, n) /\ SameParams(k[x], staged[n].held))
    <3>1. ASSUME staged[n].seg \in Cached, IsThere(k, n), SameParams(k[x], staged[n].held)
          PROVE  FALSE
      <4>1. Stay + n = Len(Standing) /\ CachedPage(Standing, Stay) /\ x = place
        BY <3>1, WhatReturns
      <4>2. place \in DOMAIN k /\ k[place].param = Standing[Len(Standing)].param
        BY <1>0, <3>1, <4>1 DEF IsThere, SameParams
      <4>. QED
        BY <1>3, <4>1, <4>2
    <3>. QED
      BY <3>1
  <2>2. Restored(k, n) = staged[n].held
    BY <2>1 DEF Restored
  <2>. QED
    BY <1>0, <1>3, <2>2
<1>. QED
  BY <1>2, <1>3

\* An edit on screen.
LEMMA EditOnScreen ==
  ASSUME NodesTypeOK, ShownInv, Edits
  PROVE  \E i \in DOMAIN OnScreen : Screen!Edit(i)
<1> DEFINE c == Chain[synced]
<1>0. synced \in Route /\ live \in [DOMAIN live -> Node]
  BY DEF NodesTypeOK
<1>1. PICK p \in DOMAIN live, e \in BOOLEAN : live' = [live EXCEPT ![p].edited = e]
  BY DEF Edits
<1>2. UNCHANGED <<kept, synced>>
  BY DEF Edits
<1>3. PICK i \in DOMAIN c : p = At(i, c[i].seg)
  BY DEF ShownInv
<1>4. /\ DOMAIN live' = DOMAIN live
      /\ \A q \in DOMAIN live : /\ live'[q].seg = live[q].seg /\ live'[q].param = live[q].param
                                /\ live'[q].edited = IF q = p THEN e ELSE live[q].edited
  BY <1>0, <1>1, EditedNodes
<1>5. OnScreen = [j \in DOMAIN c |-> Shows(At(j, c[j].seg))] /\ DOMAIN OnScreen = DOMAIN c
  BY OnScreenIs
<1>6. \A j \in DOMAIN c : At(j, c[j].seg) \in DOMAIN live
  BY DEF ShownInv
<1>7. OnScreen' = [j \in DOMAIN c |->
             [seg |-> live'[At(j, c[j].seg)].seg, param |-> live'[At(j, c[j].seg)].param,
              edited |-> live'[At(j, c[j].seg)].edited]]
  <2>1. OnScreen' = [j \in DOMAIN c |->
             IF At(j, c[j].seg) \in DOMAIN live'
             THEN [seg |-> live'[At(j, c[j].seg)].seg, param |-> live'[At(j, c[j].seg)].param,
                   edited |-> live'[At(j, c[j].seg)].edited]
             ELSE [seg |-> c[j].seg, param |-> "nothing", edited |-> FALSE]]
    BY <1>2 DEF OnScreen, Shows
  <2>2. \A j \in DOMAIN c : At(j, c[j].seg) \in DOMAIN live'
    BY <1>4, <1>6
  <2>. QED
    BY <2>1, <2>2
<1>8. OnScreen' = [OnScreen EXCEPT ![i].edited = e]
  <2>1. \A j \in DOMAIN c : j # i => At(j, c[j].seg) # p
    BY <1>3 DEF At
  <2> DEFINE next == [OnScreen EXCEPT ![i].edited = e]
  <2>2. DOMAIN next = DOMAIN c /\ next = [j \in DOMAIN c |-> next[j]]
    BY <1>5
  <2>3. ASSUME NEW j \in DOMAIN c, NEW q, q = At(j, c[j].seg)
        PROVE  next[j] = [seg |-> live'[q].seg, param |-> live'[q].param, edited |-> live'[q].edited]
    <3>1. OnScreen[j] = [seg |-> live[q].seg, param |-> live[q].param, edited |-> live[q].edited]
      BY <1>5, <2>3 DEF Shows
    <3>2. q \in DOMAIN live
      BY <1>6, <2>3
    <3>3. CASE j = i
      <4>1. q = p /\ next[j] = [OnScreen[j] EXCEPT !.edited = e]
        BY <1>3, <1>5, <2>3, <3>3
      <4>2. [OnScreen[j] EXCEPT !.edited = e] = [seg |-> live[q].seg, param |-> live[q].param, edited |-> e]
        <5> DEFINE o == OnScreen[j]
        <5>1. o = [seg |-> live[q].seg, param |-> live[q].param, edited |-> live[q].edited]
          BY <3>1
        <5> HIDE DEF o
        <5>2. [o EXCEPT !.edited = e] = [seg |-> live[q].seg, param |-> live[q].param, edited |-> e]
          BY <5>1
        <5>. QED
          BY <5>2 DEF o
      <4>. QED
        BY <1>4, <3>2, <4>1, <4>2
    <3>4. CASE j # i
      <4>1. next[j] = OnScreen[j] /\ q # p
        BY <1>5, <2>1, <2>3, <3>4
      <4>. QED
        BY <1>4, <3>1, <3>2, <4>1
    <3>. QED
      BY <3>3, <3>4
  <2> HIDE DEF next
  <2>4. next = [j \in DOMAIN c |->
             [seg |-> live'[At(j, c[j].seg)].seg, param |-> live'[At(j, c[j].seg)].param,
              edited |-> live'[At(j, c[j].seg)].edited]]
    BY <2>2, <2>3
  <2>. QED
    BY <1>7, <2>4 DEF next
<1>9. Memory' = Memory
  BY <1>2 DEF Memory
<1>. QED
  BY <1>3, <1>5, <1>8, <1>9 DEF Screen!Edit

LEMMA CountedAlike == \A S : Screen!Cardinality(S) = Cardinality(S)
  BY DEF Screen!Cardinality, Cardinality

\* The end of an update is a step of Pages from the route on screen to the one
\* that stands.
LEMMA GoOnScreen ==
  ASSUME NodesTypeOK, StageInv, ShownInv, KeptInv, ShownInv', synced' = route, route' = route, staged' = <<>>,
         NEW left, Leaving(left), live' = Taken(left.kept), kept' = TakeOut(left.kept)
  PROVE  \E stay \in 0..Len(OnScreen) : Screen!Go(stay)
<1> DEFINE c == Chain[synced]
           d == Standing
           k == left.kept
           place == Types(d)
           memory == Remember(k)
<1>0. /\ route \in Route /\ synced \in Route
      /\ Stay \in Nat /\ Stay <= Len(c) /\ Stay <= Len(d) /\ Len(d) \in Nat \ {0} /\ Len(c) \in Nat
      /\ DOMAIN c = 1..Len(c) /\ DOMAIN d = 1..Len(d)
      /\ \A j \in 1..Stay : c[j] = d[j]
  BY BothChains DEF NodesTypeOK
<1>1. Chain[synced'] = d
  BY DEF Standing
<1>2. /\ DOMAIN OnScreen' = DOMAIN d
      /\ OnScreen' = [i \in DOMAIN d |-> OnScreen'[i]]
      /\ \A i \in DOMAIN d : /\ OnScreen'[i].seg = d[i].seg /\ OnScreen'[i].param = d[i].param
                             /\ OnScreen'[i] = [seg |-> live'[At(i, d[i].seg)].seg, param |-> live'[At(i, d[i].seg)].param,
                                                edited |-> live'[At(i, d[i].seg)].edited]
  <2>1. \A i \in DOMAIN d : /\ At(i, d[i].seg) \in DOMAIN live'
                            /\ live'[At(i, d[i].seg)].seg = d[i].seg /\ live'[At(i, d[i].seg)].param = d[i].param
    BY <1>1 DEF ShownInv
  <2>2. OnScreen' = [i \in DOMAIN d |->
             IF At(i, d[i].seg) \in DOMAIN live'
             THEN [seg |-> live'[At(i, d[i].seg)].seg, param |-> live'[At(i, d[i].seg)].param,
                   edited |-> live'[At(i, d[i].seg)].edited]
             ELSE [seg |-> d[i].seg, param |-> "nothing", edited |-> FALSE]]
    BY <1>1 DEF OnScreen, Shows
  <2>. QED
    BY <2>1, <2>2
<1>3. /\ Len(OnScreen') = Len(d) /\ Screen!PlaceOf(OnScreen') = place
      /\ Screen!IsPage(OnScreen', Stay) <=> CachedPage(d, Stay)
  <2> DEFINE screen == OnScreen'
  <2>1. /\ DOMAIN screen = DOMAIN Chain[route]
        /\ \A i \in DOMAIN Chain[route] : screen[i].seg = Chain[route][i].seg
        /\ screen = [i \in DOMAIN Chain[route] |-> screen[i]]
    BY <1>2 DEF Standing
  <2> HIDE DEF screen
  <2>2. Len(screen) = Len(Chain[route]) /\ Screen!PlaceOf(screen) = Types(Chain[route])
        /\ \A n \in Nat : Screen!IsPage(screen, n) <=> CachedPage(Chain[route], n)
    BY <1>0, <2>1, ShowsAChain
  <2>. QED
    BY <1>0, <2>2 DEF screen, Standing
<1>4. /\ Len(OnScreen) = Len(c) /\ \A i \in DOMAIN c : OnScreen[i] = Shows(At(i, c[i].seg))
  BY OnScreenIs
<1>5. PICK forgotten \in SUBSET (DOMAIN Memory \cup {Screen!PlaceOf(OnScreen)}) :
        /\ Screen!Forgetting(Screen!Leave(Stay), forgotten) = memory
        /\ Cardinality(forgotten) <= IF Cardinality(DOMAIN Screen!Leave(Stay)) > MaxKept THEN 1 ELSE 0
  BY Remembering
<1>6. DOMAIN memory = DOMAIN k /\ \A x \in DOMAIN k : memory[x] = [param |-> k[x].param, edited |-> k[x].edited]
  BY DEF Remember
<1>7. /\ \A i \in 1..Stay : live'[At(i, d[i].seg)] = live[At(i, d[i].seg)]
      /\ \A n \in DOMAIN staged : live'[At(Stay + n, d[Stay + n].seg)] = Restored(k, n)
  BY StoreAfterwards
<1>8. ASSUME NEW i \in 1..Stay PROVE OnScreen'[i] = OnScreen[i]
  <2>1. i \in DOMAIN c /\ i \in DOMAIN d /\ c[i] = d[i]
    BY <1>0
  <2>2. OnScreen[i] = Shows(At(i, d[i].seg))
    BY <1>4, <2>1
  <2>. QED
    BY <1>2, <1>7, <2>1, <2>2 DEF Shows
<1> DEFINE returns == /\ CachedPage(d, Stay) /\ place \in DOMAIN memory
                      /\ memory[place].param = OnScreen'[Len(d)].param
<1>9. returns <=> /\ CachedPage(d, Stay) /\ place \in DOMAIN k
                  /\ k[place].param = d[Len(d)].param
  <2>1. OnScreen'[Len(d)].param = d[Len(d)].param
    BY <1>0, <1>2
  <2> HIDE DEF memory, place, k, d
  <2>2. place \in DOMAIN k => memory[place].param = k[place].param
    BY <1>6
  <2>. QED
    BY <1>6, <2>1, <2>2
<1>10. ASSUME NEW i \in (Stay + 1)..Len(d)
       PROVE  IF i = Len(d) /\ returns THEN OnScreen'[i].edited = memory[place].edited
              ELSE Screen!New(OnScreen'[i])
  <2> DEFINE n == i - Stay
  <2>1. n \in DOMAIN staged /\ Stay + n = i /\ i \in DOMAIN d
    BY <1>0, StagedOnce
  <2>2. OnScreen'[i].edited = Restored(k, n).edited
    <3>1. live'[At(i, d[i].seg)] = Restored(k, n)
      BY <1>7, <2>1
    <3>. QED
      BY <1>2, <2>1, <3>1
  <2>3. IF i = Len(d) /\ (/\ CachedPage(d, Stay) /\ place \in DOMAIN k /\ k[place].param = d[Len(d)].param)
        THEN Restored(k, n) = k[place] ELSE Restored(k, n).edited = FALSE
    BY <2>1, Coming
  <2> HIDE DEF n, k, d, place, memory, returns
  <2>4. CASE i = Len(d) /\ returns
    BY <1>6, <1>9, <2>2, <2>3, <2>4
  <2>5. CASE ~(i = Len(d) /\ returns)
    BY <1>9, <2>2, <2>3, <2>5 DEF Screen!New
  <2>. QED
    BY <2>4, <2>5
<1>11. Memory' = IF CachedPage(d, Stay) THEN Screen!Forgetting(memory, {place}) ELSE memory
  <2>1. /\ DOMAIN kept' = DOMAIN k \ PlacesRestored /\ \A x \in DOMAIN kept' : kept'[x] = k[x]
    BY TakenOut
  <2>2. Memory' = [x \in DOMAIN k \ PlacesRestored |-> [param |-> k[x].param, edited |-> k[x].edited]]
    BY <2>1 DEF Memory
  <2>3. PlacesRestored = IF CachedPage(d, Stay) THEN {place} ELSE {}
    BY WhatReturns
  <2>4. Screen!Forgetting(memory, {place}) = [x \in DOMAIN k \ {place} |-> [param |-> k[x].param, edited |-> k[x].edited]]
    BY <1>6 DEF Screen!Forgetting
  <2> HIDE DEF k, place
  <2>5. CASE CachedPage(d, Stay)
    BY <2>2, <2>3, <2>4, <2>5
  <2>6. CASE ~CachedPage(d, Stay)
    <3>1. DOMAIN k \ PlacesRestored = DOMAIN k
      BY <2>3, <2>6
    <3>. QED
      BY <2>2, <2>6, <3>1 DEF Remember
  <2>. QED
    BY <2>5, <2>6
<1>12. Screen!Go(Stay)
  <2> DEFINE gone(f) == Screen!Forgetting(Screen!Leave(Stay), f)
             end == Len(OnScreen')
             home == Screen!PlaceOf(OnScreen')
             back(f) == /\ Screen!IsPage(OnScreen', Stay) /\ home \in DOMAIN gone(f)
                        /\ gone(f)[home].param = OnScreen'[end].param
             Happens(f) ==
               /\ Cardinality(f) <= IF Cardinality(DOMAIN Screen!Leave(Stay)) > MaxKept THEN 1 ELSE 0
               /\ Stay <= end
               /\ \A i \in 1..Stay : OnScreen'[i] = OnScreen[i]
               /\ \A i \in (Stay + 1)..end :
                    IF i = end /\ back(f) THEN OnScreen'[i].edited = gone(f)[home].edited
                    ELSE Screen!New(OnScreen'[i])
               /\ Memory' = IF Screen!IsPage(OnScreen', Stay) THEN Screen!Forgetting(gone(f), {home}) ELSE gone(f)
  <2>1. (\E f \in SUBSET (DOMAIN Memory \cup {Screen!PlaceOf(OnScreen)}) : Happens(f)) => Screen!Go(Stay)
    BY CountedAlike DEF Screen!Go
  <2>2. gone(forgotten) = memory /\ end = Len(d) /\ home = place
    BY <1>3, <1>5
  <2>3. Screen!IsPage(OnScreen', Stay) <=> CachedPage(d, Stay)
    BY <1>3
  <2>4. back(forgotten) <=> returns
    BY <2>2, <2>3
  <2>5. Happens(forgotten)
    <3> HIDE DEF memory, place, k, d, returns, back, gone, end, home
    <3>. QED
      BY <1>0, <1>5, <1>8, <1>10, <1>11, <2>2, <2>3, <2>4
  <2> HIDE DEF Happens
  <2>. QED
    BY <2>1, <2>5
<1>13. Stay \in 0..Len(OnScreen)
  BY <1>0, <1>4
<1>. QED
  BY <1>12, <1>13


PagesInv == BaseInv /\ OnceInv /\ StageInv /\ ShownInv /\ KeptInv

LEMMA PagesInductive ==
  ASSUME Keep = {}, MaxNavigations <= 1, PagesInv, [NodesNext]_nodesVars
  PROVE  PagesInv'
<1>0. BaseInv /\ OnceInv /\ StageInv /\ ShownInv /\ KeptInv /\ NodesTypeOK /\ UpdateInv
  BY DEF PagesInv, BaseInv
<1>1. BaseInv'
  BY <1>0, NodesTypeInductive
<1>2. OnceInv'
  BY <1>0, StepsOnce
<1>3. StageInv' /\ ShownInv' /\ KeptInv'
  BY <1>0, StageInductive, StoreInductive
<1>. QED
  BY <1>1, <1>2, <1>3 DEF PagesInv

LEMMA PagesStep ==
  ASSUME Keep = {}, MaxNavigations <= 1, BaseInv, OnceInv, StageInv, ShownInv, KeptInv, [NodesNext]_nodesVars
  PROVE  [Screen!Next]_Screen!vars
<1>0. NodesTypeOK /\ UpdateInv /\ synced \in Route
  BY DEF BaseInv, NodesTypeOK
<1>1. ASSUME UNCHANGED <<live, kept, Chain[synced]>> PROVE UNCHANGED Screen!vars
  BY <1>1 DEF Screen!vars, OnScreen, Memory, Shows
<1>2. CASE UNCHANGED <<live, kept, synced>>
  BY <1>1, <1>2
<1>3. CASE Edits
  BY <1>0, <1>3, EditOnScreen DEF Screen!Next
<1>4. CASE Syncs
  <2>1. Sync /\ staged' = <<>> /\ synced' = route /\ route' = route
    BY <1>4 DEF Syncs, Sync
  <2>2. ShownInv'
    BY StoreInductive
  <2>3. CASE Chain[synced] = Standing /\ UNCHANGED <<live, kept, order>>
    BY <1>1, <2>1, <2>3 DEF Standing
  <2>4. ASSUME NEW left, Leaving(left), live' = Taken(left.kept), kept' = TakeOut(left.kept)
        PROVE  Screen!Next
    <3>1. \E stay \in 0..Len(OnScreen) : Screen!Go(stay)
      BY <1>0, <2>1, <2>2, <2>4, GoOnScreen
    <3>. QED
      BY <3>1 DEF Screen!Next
  <2>. QED
    BY <1>0, <2>1, <2>3, <2>4, SyncSteps
<1>. QED
  BY <1>0, <1>2, <1>3, <1>4, StepsOnce DEF Undisturbed, Moves, Writes

LEMMA PagesInit ==
  ASSUME MaxNavigations <= 1, NodesInit
  PROVE  OnceInv /\ StageInv /\ ShownInv /\ KeptInv /\ Screen!Init
<1> DEFINE c == Chain[First]
           P == {At(i, Standing[i].seg) : i \in DOMAIN Standing}
<1>0. First \in Route /\ Standing = c /\ Chain[synced] = c /\ Len(c) \in Nat
  BY NodesAssumption, Chains DEF NodesInit, Standing
<1>1. /\ live = [p \in P |-> Mounted(Standing[p.cursor], scopes[p.cursor])] /\ staged = <<>> /\ kept = <<>>
      /\ order = <<>> /\ route = synced /\ parked = <<>> /\ update = AtRest
  BY DEF NodesInit
<1>2. ASSUME NEW i \in DOMAIN c, NEW p, p = At(i, c[i].seg)
      PROVE  p \in DOMAIN live /\ live[p].seg = c[i].seg /\ live[p].param = c[i].param /\ live[p].edited = FALSE
  BY <1>0, <1>1, <1>2 DEF At, Mounted
<1>3. OnceInv
  BY <1>1 DEF OnceInv, AtRest
<1>4. StageInv
  <2>1. Shared(c, c) = Len(c)
    BY <1>0, SharedWithItself
  <2>. QED
    BY <1>0, <1>1, <2>1 DEF StageInv
<1>5. ShownInv
  <2>1. DOMAIN live = {At(i, c[i].seg) : i \in DOMAIN c}
    BY <1>0, <1>1
  <2> HIDE DEF c, P
  <2>. QED
    BY <1>0, <1>2, <2>1 DEF ShownInv
<1>6. KeptInv
  <2>1. DOMAIN kept = {} /\ IsFiniteSet({}) /\ Cardinality({}) = 0
    BY <1>1, FS_EmptySet
  <2>2. order \in [1..0 -> {}]
    BY <1>1
  <2>. QED
    BY <2>1, <2>2 DEF KeptInv
<1>7. Screen!Init
  <2>1. /\ DOMAIN OnScreen = DOMAIN c
        /\ \A i \in DOMAIN c : OnScreen[i].edited = FALSE
    BY <1>0, <1>2 DEF OnScreen, Shows
  <2>2. Memory = <<>>
    BY <1>1 DEF Memory
  <2>. QED
    BY <2>1, <2>2 DEF Screen!Init, Screen!New
<1>. QED
  BY <1>3, <1>4, <1>5, <1>6, <1>7

\* Whatever the pages are: each update, with the navigation it makes, the
\* guard's answer it waits for and what observers parked, is for the user one
\* step between pages as Pages promises them, or one edit, or nothing - where
\* no page sleeps, and an update navigates once (sync, restored, keep).
THEOREM NodesImplementPages == Keep = {} /\ MaxNavigations <= 1 => (NodesSpec => ImplementsPages)
<1> SUFFICES ASSUME Keep = {}, MaxNavigations <= 1 PROVE NodesSpec => ImplementsPages
  OBVIOUS
<1>1. NodesInit => PagesInv /\ Screen!Init
  BY NodesTypeInit, PagesInit DEF PagesInv
<1>2. PagesInv /\ [NodesNext]_nodesVars => PagesInv'
  BY PagesInductive
<1>3. PagesInv /\ [NodesNext]_nodesVars => [Screen!Next]_Screen!vars
  BY PagesStep DEF PagesInv
<1>. QED
  BY <1>1, <1>2, <1>3, PTL DEF NodesSpec, ImplementsPages, Screen!Spec

\* With one navigation an update, no capture need tell pages apart.
THEOREM SegmentsAreDrawnOnce == Keep = {} /\ MaxNavigations <= 1 => (NodesSpec => []EverySegmentIsDrawn)
<1> SUFFICES ASSUME Keep = {}, MaxNavigations <= 1 PROVE NodesSpec => []EverySegmentIsDrawn
  OBVIOUS
<1>1. NodesInit => PagesInv
  BY NodesTypeInit, PagesInit DEF PagesInv
<1>2. PagesInv /\ [NodesNext]_nodesVars => PagesInv'
  BY PagesInductive
<1>3. PagesInv => EverySegmentIsDrawn
  <2>1. ASSUME PagesInv, Resting, NEW i \in DOMAIN Standing
        PROVE  /\ At(i, Standing[i].seg) \in DOMAIN live
               /\ Drawn(i).seg = Standing[i].seg /\ Drawn(i).param = Standing[i].param
    <3>1. route = synced
      BY <2>1 DEF PagesInv, OnceInv, Resting
    <3>. QED
      BY <2>1, <3>1 DEF PagesInv, ShownInv, Standing, Drawn
  <2>. QED
    BY <2>1 DEF EverySegmentIsDrawn
<1>. QED
  BY <1>1, <1>2, <1>3, PTL DEF NodesSpec
=============================================================================

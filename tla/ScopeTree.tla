----------------------------- MODULE ScopeTree -----------------------------
(***************************************************************************)
(* The arena every scope of an application lives in                        *)
(* (guinea-core/src/scope).  A Scope is a Copy name: the place its tree    *)
(* has in TREES, the index of its node there, and a serial.  A node is     *)
(* reused as soon as its scope is removed, and a place as soon as its      *)
(* ScopeTree is dropped; what tells an old name from a new scope is the    *)
(* serial alone.                                                           *)
(*                                                                         *)
(* Removing a scope runs the teardowns of everything under it, and a       *)
(* teardown is code of the program: between two teardowns it may call      *)
(* anything in this module again, so the removals under way are a stack.   *)
(***************************************************************************)
EXTENDS Naturals, SequencesExt

CONSTANTS
  Resource,   \* what a program hands to Scope::own, each once
  MaxTrees,   \* places TREES grows to
  MaxSerial,  \* scopes ever made, in all trees together
  MaxDepth    \* removals that may be nested in one another's teardowns

ASSUME ScopeTreeAssumption ==
  /\ MaxTrees \in Nat \ {0}
  /\ MaxSerial \in Nat \ {0}
  /\ MaxDepth \in Nat \ {0}

\* A tree never has more nodes than scopes were ever made.
Place == 1..MaxTrees
Index == 1..MaxSerial
Slot == Place \X Index
NoSlot == <<0, 0>>
NoTree == 0

VARIABLES
  held,        \* TREES: whether the ScopeTree of a place is there
  len,         \* how many nodes the tree of a place has
  free,        \* Tree::free, the indices freed last at the end
  serial,      \* Node::serial of every slot, 0 where there is no scope
  parent,      \* Node::parent
  children,    \* Node::children
  owns,        \* ScopeData::teardowns
  nextSerial,  \* NEXT_SERIAL
  stack,       \* the removals under way, the innermost last
  torn,        \* the resources torn down, in order
  names,       \* every Scope handed out
  given        \* what the program handed to which scope, in order

arena == <<held, len, free, serial, parent, children, owns>>
vars == <<arena, nextSerial, stack, torn, names, given>>

\* detached: what the removed scopes owned and this removal has not torn down
\* yet.  drops: the tree whose owner is being dropped by it.
Frame == [detached : Seq(Seq(Resource)), drops : Place \cup {NoTree}]
Name == [slot : Slot, serial : Nat]

TypeOK ==
  /\ held \in [Place -> BOOLEAN]
  /\ len \in [Place -> Nat]
  /\ free \in [Place -> Seq(Index)]
  /\ serial \in [Slot -> Nat]
  /\ parent \in [Slot -> Slot \cup {NoSlot}]
  /\ children \in [Slot -> SUBSET Slot]
  /\ owns \in [Slot -> Seq(Resource)]
  /\ nextSerial \in Nat \ {0}
  /\ stack \in Seq(Frame)
  /\ torn \in Seq(Resource)
  /\ names \subseteq Name
  /\ given \in Seq(Name \X Resource)

-----------------------------------------------------------------------------
(* Reading the arena. *)

Live == {s \in Slot : serial[s] # 0}

\* Mutant of IsAlive: a name is looked up by its slot alone.
IsAliveBySlot(n) == held[n.slot[1]] /\ serial[n.slot] # 0

\* Tree::node, behind the place of TREES the name was made in.
IsAlive(n) ==
  /\ held[n.slot[1]]
  /\ serial[n.slot] # 0
  /\ serial[n.slot] = n.serial

\* The slots under s where these are the children, s among them: the least set
\* that holds s and the children of what it holds.
UnderIn(kids, s) ==
  LET tree == {u \in Slot : u[1] = s[1]}
  IN  { u \in tree :
          \A S \in SUBSET tree :
            s \in S /\ (\A p \in S : kids[p] \subseteq S) => u \in S }

Under(s) == UnderIn(children, s)

\* What Tree::collect visits before what: a child before its parent, and what
\* is under a newer child before what is under an older one.  insert pushes a
\* child at the end of the list and serials only grow, so the order of the
\* list is the order in which they were made, and the list is a set here.
Precedes(kids, made, a, b) ==
  \/ a \in UnderIn(kids, b)
  \/ \E p \in Slot : \E x, y \in kids[p] :
       made[x] < made[y] /\ a \in UnderIn(kids, y) /\ b \in UnderIn(kids, x)

\* The one order in which Tree::collect lists what is under s.
CollectIn(kids, made, s) ==
  LET U == UnderIn(kids, s)
  IN  { o \in Bijection(1..Cardinality(U), U) :
          \A m, n \in DOMAIN o : m < n => Precedes(kids, made, o[m], o[n]) }

\* Mutant of Collect: a node is pushed before its children.
ParentsFirst(s) == {Reverse(o) : o \in CollectIn(children, serial, s)}

Collect(s) == CollectIn(children, serial, s)

-----------------------------------------------------------------------------
(* Writing it. *)

\* Tree::insert under p: the node freed last, or a new one.
NextIndex(t) == IF free[t] = <<>> THEN len[t] + 1 ELSE Last(free[t])

Insert(t, p) ==
  LET s == <<t, NextIndex(t)>>
  IN  /\ nextSerial <= MaxSerial
      /\ serial' = [serial EXCEPT ![s] = nextSerial]
      /\ parent' = [parent EXCEPT ![s] = p]
      /\ children' = [children EXCEPT ![p] = @ \cup {s}]
      /\ owns' = [owns EXCEPT ![s] = <<>>]
      /\ len' = IF free[t] = <<>> THEN [len EXCEPT ![t] = @ + 1] ELSE len
      /\ free' = IF free[t] = <<>> THEN free ELSE [free EXCEPT ![t] = Front(@)]
      /\ nextSerial' = nextSerial + 1
      /\ names' = names \cup {[slot |-> s, serial |-> nextSerial]}

\* Mutant of Detach: the parent goes on listing the child it lost.
DetachStillListed(s, order) ==
  LET gone == {order[k] : k \in DOMAIN order}
  IN  /\ serial' = [u \in Slot |-> IF u \in gone THEN 0 ELSE serial[u]]
      /\ parent' = [u \in Slot |-> IF u \in gone THEN NoSlot ELSE parent[u]]
      /\ children' = [u \in Slot |-> IF u \in gone THEN {} ELSE children[u]]
      /\ owns' = [u \in Slot |-> IF u \in gone THEN <<>> ELSE owns[u]]
      /\ free' = [free EXCEPT ![s[1]] = @ \o [k \in DOMAIN order |-> order[k][2]]]

\* Tree::detach of the scope at s, its subtree collected in this order.
Detach(s, order) ==
  LET gone == {order[k] : k \in DOMAIN order}
  IN  /\ serial' = [u \in Slot |-> IF u \in gone THEN 0 ELSE serial[u]]
      /\ parent' = [u \in Slot |-> IF u \in gone THEN NoSlot ELSE parent[u]]
      /\ children' = [u \in Slot |-> IF u \in gone THEN {} ELSE children[u] \ {s}]
      /\ owns' = [u \in Slot |-> IF u \in gone THEN <<>> ELSE owns[u]]
      /\ free' = [free EXCEPT ![s[1]] = @ \o [k \in DOMAIN order |-> order[k][2]]]

-----------------------------------------------------------------------------
Init ==
  /\ held = [t \in Place |-> FALSE]
  /\ len = [t \in Place |-> 0]
  /\ free = [t \in Place |-> <<>>]
  /\ serial = [s \in Slot |-> 0]
  /\ parent = [s \in Slot |-> NoSlot]
  /\ children = [s \in Slot |-> {}]
  /\ owns = [s \in Slot |-> <<>>]
  /\ nextSerial = 1
  /\ stack = <<>> /\ torn = <<>> /\ names = {} /\ given = <<>>

\* ScopeTree::new, listed by register in the first place whose tree is gone:
\* a tree of one node, whatever the old one had.
NewTree(t) ==
  /\ ~held[t]
  /\ \A u \in 1..(t - 1) : held[u]
  /\ nextSerial <= MaxSerial
  /\ held' = [held EXCEPT ![t] = TRUE]
  /\ len' = [len EXCEPT ![t] = 1]
  /\ free' = [free EXCEPT ![t] = <<>>]
  /\ serial' = [s \in Slot |-> IF s = <<t, 1>> THEN nextSerial
                               ELSE IF s[1] = t THEN 0 ELSE serial[s]]
  /\ parent' = [s \in Slot |-> IF s[1] = t THEN NoSlot ELSE parent[s]]
  /\ children' = [s \in Slot |-> IF s[1] = t THEN {} ELSE children[s]]
  /\ owns' = [s \in Slot |-> IF s[1] = t THEN <<>> ELSE owns[s]]
  /\ nextSerial' = nextSerial + 1
  /\ names' = names \cup {[slot |-> <<t, 1>>, serial |-> nextSerial]}
  /\ UNCHANGED <<stack, torn, given>>

\* Scope::child_in; a child for a removed scope is a panic.
Child(n) ==
  /\ IsAlive(n)
  /\ Insert(n.slot[1], n.slot)
  /\ UNCHANGED <<held, stack, torn, given>>

\* Scope::own: kept by a scope that is there, torn down at once by one that
\* is not.
Own(n, r) ==
  /\ \A k \in DOMAIN given : given[k][2] # r
  /\ given' = Append(given, <<n, r>>)
  /\ owns' = IF IsAlive(n) THEN [owns EXCEPT ![n.slot] = Append(@, r)] ELSE owns
  /\ torn' = IF IsAlive(n) THEN torn ELSE Append(torn, r)
  /\ UNCHANGED <<held, len, free, serial, parent, children, nextSerial, stack, names>>

\* Scope::remove: every name under it is dead before the first teardown runs.
\* Removing what is already gone does nothing.
RemoveWith(s, drops) ==
  /\ Len(stack) < MaxDepth
  /\ \E order \in Collect(s) :
       /\ Detach(s, order)
       /\ stack' = Append(stack, [detached |-> [k \in DOMAIN order |-> owns[order[k]]],
                                  drops |-> drops])
  /\ UNCHANGED <<held, len, nextSerial, torn, names, given>>

RemoveScope(n) == IsAlive(n) /\ RemoveWith(n.slot, NoTree)

\* Drop for ScopeTree: its root is removed, and only then is the tree let go.
DropTree(t) ==
  /\ held[t]
  /\ serial[<<t, 1>>] # 0
  /\ RemoveWith(<<t, 1>>, t)

\* The same, when the root was already removed by name.
DropEmptyTree(t) ==
  /\ held[t]
  /\ serial[<<t, 1>>] = 0
  /\ \A k \in DOMAIN stack : stack[k].drops # t
  /\ held' = [held EXCEPT ![t] = FALSE]
  /\ UNCHANGED <<len, free, serial, parent, children, owns, nextSerial, stack, torn, names, given>>

\* One teardown of the innermost removal runs: each scope's the last first
\* (ScopeData::tear_down), the scopes in the order they were detached.
TearDown ==
  /\ stack # <<>>
  /\ LET left == Last(stack).detached IN
     \E k \in DOMAIN left :
       /\ left[k] # <<>>
       /\ \A j \in 1..(k - 1) : left[j] = <<>>
       /\ torn' = Append(torn, Last(left[k]))
       /\ stack' = [stack EXCEPT ![Len(stack)] =
                      [@ EXCEPT !.detached = [left EXCEPT ![k] = Front(left[k])]]]
  /\ UNCHANGED <<arena, nextSerial, names, given>>

\* The innermost removal returns, and lets its tree go if it was the drop of
\* one.
Return ==
  /\ stack # <<>>
  /\ \A k \in DOMAIN Last(stack).detached : Last(stack).detached[k] = <<>>
  /\ stack' = Front(stack)
  /\ held' = [t \in Place |-> held[t] /\ t # Last(stack).drops]
  /\ UNCHANGED <<len, free, serial, parent, children, owns, nextSerial, torn, names, given>>

Next ==
  \/ TearDown
  \/ Return
  \/ \E t \in Place : NewTree(t) \/ DropTree(t) \/ DropEmptyTree(t)
  \/ \E n \in names :
       \/ Child(n)
       \/ RemoveScope(n)
       \/ \E r \in Resource : Own(n, r)

Spec == Init /\ [][Next]_vars

-----------------------------------------------------------------------------
(* What the arena owes the program. *)

\* The free list of every tree is its empty nodes, each once: what insert
\* takes from it never overwrites a scope that is there, and no node is lost.
FreeIsEmptySlots ==
  \A t \in Place :
    /\ \A k, l \in DOMAIN free[t] : free[t][k] = free[t][l] => k = l
    /\ {free[t][k] : k \in DOMAIN free[t]} = {i \in 1..len[t] : serial[<<t, i>>] = 0}
    /\ \A i \in Index : i > len[t] => serial[<<t, i>>] = 0

\* Parent and children agree, in every tree and after any reuse of a node: a
\* live scope but the root is listed by its parent and nobody else, and that
\* parent is there; an empty node lists nobody.
Linked ==
  \A s \in Slot :
    /\ children[s] = {c \in Live : s \in Live /\ parent[c] = s}
    /\ s \in Live /\ s[2] # 1 => parent[s] \in Live

\* The arena's three ways to say what is there - the free list, the serials and
\* the links - stay in step, through any sequence of insertions and removals
\* nested in one another (tree.rs:26-89).
ArenaInStep == FreeIsEmptySlots /\ Linked

\* "A removed scope's name never comes back": a name that is dead stays dead,
\* through every reuse of its node and of its tree's place.
NameNeverComesBack ==
  [][\A n \in names : ~IsAlive(n) => ~IsAlive(n)']_vars

-----------------------------------------------------------------------------
(* The arena as a forest (ScopeForest): a scope is its serial, and it sits *)
(* under what its node's parent link names.                                *)

Serials == {serial[s] : s \in Live}
SlotOf(n) == CHOOSE s \in Live : serial[s] = n

AboveBySerial ==
  [n \in Serials |-> IF parent[SlotOf(n)] = NoSlot THEN 0 ELSE serial[parent[SlotOf(n)]]]
OwnsBySerial == [n \in Serials |-> owns[SlotOf(n)]]

\* What is left of each removal, in the order it is let go of.
LeftOf(detached) == FlattenSeq([k \in DOMAIN detached |-> Reverse(detached[k])])
LeftByFrame == [f \in DOMAIN stack |-> LeftOf(stack[f].detached)]

Forest == INSTANCE ScopeForest WITH
  Scope <- 1..MaxSerial, above <- AboveBySerial, ever <- 1..(nextSerial - 1),
  holds <- OwnsBySerial, leaving <- LeftByFrame, letGo <- torn

\* The arena implements the forest: nodes and places that are reused, names
\* that outlive their scopes and re-entrant removals show nothing the forest
\* does not do.
ImplementsForest == Forest!Spec
=============================================================================

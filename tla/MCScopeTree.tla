---------------------------- MODULE MCScopeTree ----------------------------
(***************************************************************************)
(* The arena on a small instance.  What CollectIn says of the order a      *)
(* subtree is detached in is first compared with the recursion that        *)
(* Tree::collect is written as, on every tree of as many scopes as the     *)
(* instance makes, with any serial at any index.                           *)
(***************************************************************************)
EXTENDS ScopeTree

\* Tree::collect: the children from the last to the first, then the node.
RECURSIVE Visit(_, _, _)
Visit(kids, made, s) ==
  LET newestFirst == SetToSortSeq(kids[s], LAMBDA a, b : made[a] > made[b])
  IN  FlattenSeq([k \in DOMAIN newestFirst |-> Visit(kids, made, newestFirst[k])]) \o <<s>>

\* The node each node but the first hangs from, and the serial of each node.
FullTrees ==
  { <<up, nth>> \in [2..MaxSerial -> Index] \X Bijection(Index, Index) :
      \A i \in 2..MaxSerial : nth[up[i]] < nth[i] }

Kids(up) == [p \in Slot |-> {c \in Slot : p[1] = 1 /\ c[1] = 1 /\ c[2] # 1 /\ up[c[2]] = p[2]}]
Made(nth) == [s \in Slot |-> IF s[1] = 1 THEN nth[s[2]] ELSE 0]

\* The order in which a subtree is detached, said by what goes before what, is
\* the one the recursion of Tree::collect takes, and there is no other
\* (tree.rs:91-96).
ASSUME CollectIsTheVisit ==
  \A tree \in FullTrees : \A i \in Index :
    LET kids == Kids(tree[1])
        made == Made(tree[2])
    IN  CollectIn(kids, made, <<1, i>>) = {Visit(kids, made, <<1, i>>)}
=============================================================================

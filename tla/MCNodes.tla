------------------------------ MODULE MCNodes ------------------------------
(***************************************************************************)
(* Nodes on a small instance.                                              *)
(***************************************************************************)
EXTENDS Nodes

Seg(seg, param) == [seg |-> seg, param |-> param]

\* A shell over a page that caches its state, shown under two captures, over
\* an editor that asks to be left, and over a second such page in an area.
MCChain ==
  [r \in {"list1", "list2", "editor", "detail"} |->
    CASE r = "list1" -> <<Seg("Shell", "none"), Seg("List", "one")>>
      [] r = "list2" -> <<Seg("Shell", "none"), Seg("List", "two")>>
      [] r = "editor" -> <<Seg("Shell", "none"), Seg("Editor", "none")>>
      [] r = "detail" -> <<Seg("Shell", "none"), Seg("Area", "any"), Seg("Detail", "of")>>]

\* A shell over two pages that cache their state and capture nothing, and over
\* an editor.
MCTwins ==
  [r \in {"list", "board", "editor"} |->
    CASE r = "list" -> <<Seg("Shell", "none"), Seg("List", "none")>>
      [] r = "board" -> <<Seg("Shell", "none"), Seg("Board", "none")>>
      [] r = "editor" -> <<Seg("Shell", "none"), Seg("Editor", "none")>>]
=============================================================================

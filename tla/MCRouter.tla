------------------------------ MODULE MCRouter ------------------------------
(***************************************************************************)
(* A small application for the router: a shell with an editor that guards  *)
(* its unsaved work and a kept tab with a capture, and the same editor     *)
(* under another layout.                                                   *)
(***************************************************************************)
EXTENDS Router

Sg(seg, param) == [seg |-> seg, param |-> param]

\* Two captures of the editor and of the tab, so that a chain can be left with
\* the same shape.
MCChain == [r \in Route |->
  CASE r = "editor"  -> <<Sg("Shell", 1), Sg("Editor", 1)>>
    [] r = "editor2" -> <<Sg("Shell", 1), Sg("Editor", 2)>>
    [] r = "tab"     -> <<Sg("Shell", 1), Sg("Tab", 1), Sg("Page", 1)>>
    [] r = "tab2"    -> <<Sg("Shell", 1), Sg("Tab", 2), Sg("Page", 1)>>
    [] r = "nest"    -> <<Sg("Shell", 1), Sg("Box", 1), Sg("Page", 1)>>
    [] r = "other"   -> <<Sg("Other", 1), Sg("Editor", 1)>>]
=============================================================================

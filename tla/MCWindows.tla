------------------------------ MODULE MCWindows ------------------------------
(***************************************************************************)
(* Windows with a page that is kept and one that is made each time.       *)
(***************************************************************************)
EXTENDS Windows
=============================================================================

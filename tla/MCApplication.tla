---------------------------- MODULE MCApplication ----------------------------
(***************************************************************************)
(* Application with two plugins of one id and one of another, a feature,   *)
(* and a page of two features.                                             *)
(***************************************************************************)
EXTENDS Application

Made(kind, id, ty) == [kind |-> kind, id |-> id, ty |-> ty]

MCPlugins == {Made("plugin", "store", "Store"), Made("plugin", "store", "Other"), Made("plugin", "net", "Net")}
MCFeatures == {Made("feature", "Session", "Session")}
MCSegments == {Made("segment", "Editor", "Editor"), Made("segment", "List", "List")}
MCExports == [u \in MCSegments |-> IF u.id = "Editor" THEN {"draft"} ELSE {}]
=============================================================================

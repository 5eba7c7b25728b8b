------------------------------ MODULE MCRoutes ------------------------------
(***************************************************************************)
(* Routes over a handful of ways to declare layouts and pages.            *)
(***************************************************************************)
EXTENDS Routes

CONSTANTS
  Named  \* what the second of two captures in one place is called

Lit(text) == [kind |-> "literal", text |-> text]
Cap(name) == [kind |-> "capture", text |-> name]
Field(name, ty) == [name |-> name, ty |-> ty, identity |-> TRUE]
Loose(name, ty) == [name |-> name, ty |-> ty, identity |-> FALSE]

Layout(ty, adds, drops, restorable) ==
  [ty |-> ty, adds |-> adds, drops |-> drops, keep |-> FALSE, restorable |-> restorable]
Page(ty, drops, restorable, link, fields) ==
  [ty |-> ty, adds |-> <<>>, drops |-> drops, keep |-> FALSE, restorable |-> restorable,
   link |-> link, fields |-> fields]

MCLayoutForm ==
  {Layout("Shell", <<>>, {}, TRUE), Layout("Shell", <<"Session">>, {}, FALSE),
   Layout("Area", <<"Admin">>, {"Session"}, FALSE), Layout("Area", <<"Session">>, {"Session"}, FALSE)}

MCPageForm ==
  {Page("New", {}, FALSE, <<Lit("new")>>, <<>>),
   Page("One", {}, FALSE, <<Cap("id")>>, <<Field("id", "number")>>),
   Page("One", {}, TRUE, <<Cap("id")>>, <<Field("id", "String")>>),
   Page("Sub", {"Session"}, TRUE, <<Cap("id"), Lit("new")>>, <<Field("id", "String")>>),
   Page("Any", {}, FALSE, <<Cap(Named), Cap("sub")>>, <<Field("sub", "String"), Field(Named, "String")>>),
   Page("Fixed", {}, FALSE, <<Lit("new"), Cap("sub")>>, <<Field("sub", "number")>>),
   Page("Wizard", {}, TRUE, NoLink, <<Field("id", "String"), Field("step", "wide")>>),
   Page("Wizard", {}, TRUE, NoLink, <<Field("step", "number")>>),
   Page("Wizard", {}, FALSE, NoLink, <<Field("id", "String"), Loose("step", "number")>>)}

\* The text "new" is also a literal, "" leaves no segment, and a number is read
\* from more than it is written as.  A wide type reads what a number was saved
\* as, and a number some of what a wide one was.
MCValuesOf ==
  [ty \in {"String", "number", "wide"} |->
    CASE ty = "String" -> {"new", ""} [] ty = "number" -> {"seven"} [] ty = "wide" -> {"seven", "million"}]
MCEncode == [v \in {"new", "", "seven", "million"} |-> CASE v = "seven" -> "7" [] v = "million" -> "1000000" [] OTHER -> v]
MCDecode ==
  [ty \in {"String", "number", "wide"} |->
    [part \in {"new", "7", "07"} |->
      IF ty = "String" THEN <<part>> ELSE IF part = "new" THEN <<>> ELSE <<"seven">>]]

Json(v) == [json |-> IF v \in {"new", ""} THEN "string" ELSE "number", of |-> v]
MCToValue == [v \in {"new", "", "seven", "million"} |-> Json(v)]
MCFromValue ==
  [ty \in DOMAIN MCValuesOf |->
    [value \in {Json(v) : v \in DOMAIN MCToValue} |-> IF value.of \in MCValuesOf[ty] THEN <<value.of>> ELSE <<>>]]
=============================================================================

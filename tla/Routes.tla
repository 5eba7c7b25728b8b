-------------------------------- MODULE Routes --------------------------------
(***************************************************************************)
(* What `routes!` makes of a declaration (guinea-route-dsl/src/lib.rs,     *)
(* matcher.rs, guinea-macros/src/routes_dsl.rs): the pages with what they  *)
(* inherit, what layouts are handed, the checks that refuse a declaration, *)
(* the prefix tree that opens addresses, and the text a route is written   *)
(* to and read back from (guinea-router/src/link.rs, restore.rs).          *)
(*                                                                         *)
(* A declaration is the sequence of its nodes, each after what encloses    *)
(* it.  It changes from one build to the next; text and addresses written  *)
(* by one build are read by another.                                       *)
(***************************************************************************)
EXTENDS Naturals, SequencesExt

CONSTANTS
  LayoutForm,  \* layouts as they may be declared: [ty, adds, drops, keep, restorable]
  PageForm,    \* pages: [ty, adds, drops, keep, restorable, link, fields]
  ValuesOf,    \* the values of a field's type
  Encode,      \* LinkValue::encode: the path segment of a value
  Decode,      \* LinkValue::decode: what a segment says in a type, or nothing
  ToValue,     \* serde_json::to_value: a value as it is saved
  FromValue,   \* from_value: what a saved value says in a type, or nothing
  MaxNodes,    \* nodes of a declaration
  MaxLength    \* segments of a path that is opened

\* Types and guards are compared as they are written; the fields of a page
\* are those of a variant of an enum.  What is saved of a value does not say its
\* type: another may read it, and the type it was saved from reads it back.
Declares(form) ==
  /\ form.ty \in STRING
  /\ form.adds \in Seq(STRING) /\ form.drops \subseteq STRING
  /\ {form.keep, form.restorable} \subseteq BOOLEAN

ASSUME RoutesAssumption ==
  /\ \A form \in LayoutForm :
       DOMAIN form = {"ty", "adds", "drops", "keep", "restorable"} /\ Declares(form)
  /\ \A form \in PageForm :
       /\ DOMAIN form = {"ty", "adds", "drops", "keep", "restorable", "link", "fields"}
       /\ Declares(form)
       /\ form.fields \in Seq([name : STRING, ty : DOMAIN ValuesOf, identity : BOOLEAN])
       /\ \A f, g \in ToSet(form.fields) : f.name = g.name => f = g
  /\ \A ty \in DOMAIN ValuesOf : \A v \in ValuesOf[ty] : FromValue[ty][ToValue[v]] = <<v>>
  /\ \A ty, written \in DOMAIN ValuesOf : \A v \in ValuesOf[written] :
       FromValue[ty][ToValue[v]] \in {<<>>} \cup {<<w>> : w \in ValuesOf[ty]}
  /\ {MaxNodes, MaxLength} \subseteq Nat

VARIABLES
  nodes,  \* the declaration: forms with the index of the enclosing layout
  kept    \* what earlier builds wrote: the text of a route, or <<>>

routesVars == <<nodes, kept>>

NoLink == <<[kind |-> "none", text |-> ""]>>

IsPage(node) == "fields" \in DOMAIN node
IsLinked(node) == IsPage(node) /\ node.link # NoLink

\* From the outermost layout to node i.
Line(d, i) ==
  LET line[j \in 0..Len(d)] == IF j = 0 THEN <<>> ELSE Append(line[d[j].up], j)
  IN line[i]

Above(d, i) == [k \in 1..(Len(Line(d, i)) - 1) |-> d[Line(d, i)[k]].ty]

Leaves(d) == {i \in DOMAIN d : IsPage(d[i])}
LayoutsOf(d) == DOMAIN d \ Leaves(d)

-----------------------------------------------------------------------------
(* What a page inherits: `flatten`.                                        *)

\* Mutant of FoldInto: what is dropped goes after what is added.
FoldDropsLast(node, inherited) ==
  SelectSeq(inherited \o SelectSeq(node.adds, LAMBDA g : g \notin ToSet(inherited)),
            LAMBDA g : g \notin node.drops)

\* `retain`: what is dropped by name goes.
Dropping(s, drops) ==
  LET left[k \in 0..Len(s)] ==
        IF k = 0 THEN <<>> ELSE IF s[k] \in drops THEN left[k - 1] ELSE Append(left[k - 1], s[k])
  IN left[Len(s)]

\* What is there already is not pushed again.
Joining(s, more) ==
  LET all[k \in 0..Len(more)] ==
        IF k = 0 THEN s ELSE IF more[k] \in ToSet(all[k - 1]) THEN all[k - 1] ELSE Append(all[k - 1], more[k])
  IN all[Len(more)]

\* `fold_into`: removals first.
FoldInto(node, inherited) == Joining(Dropping(inherited, node.drops), node.adds)

\* What stands in front of node i, outermost first.
Guards(d, i) ==
  LET inside[j \in 0..Len(d)] == IF j = 0 THEN <<>> ELSE FoldInto(d[j], inside[d[j].up])
  IN inside[i]

Restorable(d, i) == \E j \in ToSet(Line(d, i)) : d[j].restorable

FieldNames(node) == {f.name : f \in ToSet(node.fields)}
FieldOf(node, name) == CHOOSE f \in ToSet(node.fields) : f.name = name

\* `layout_params`: what every page under a layout carries, wherever it stands.
Under(d, ty) == {i \in Leaves(d) : ty \in ToSet(Above(d, i))}

LayoutParams(d, ty) ==
  {f \in UNION {ToSet(d[i].fields) : i \in Under(d, ty)} :
     f.identity /\ \A i \in Under(d, ty) : f \in ToSet(d[i].fields)}

\* The layouts a layout reads from, which the first page under it settles.
Foremost(S) == CHOOSE k \in S : \A l \in S : k <= l

StandsUnder(d, ty) ==
  LET line == Above(d, Foremost(Under(d, ty)))
  IN SubSeq(line, 1, Foremost({k \in DOMAIN line : line[k] = ty}) - 1)

-----------------------------------------------------------------------------
(* What is refused.                                                        *)

Captures(link) == {link[k].text : k \in {k \in DOMAIN link : link[k].kind = "capture"}}

\* A route that is rebuilt from the outside has nothing that cannot be, and
\* one with an address is its captures.
FieldsAgree(d) ==
  \A i \in Leaves(d) :
    /\ IsLinked(d[i]) \/ Restorable(d, i) => \A f \in ToSet(d[i].fields) : f.identity
    /\ IsLinked(d[i]) => FieldNames(d[i]) = Captures(d[i].link)

\* Each opt-out opens something, and each guard is new where it is added.
GuardsAgree(d) ==
  \A i \in DOMAIN d :
    LET standing == ToSet(Guards(d, d[i].up))
    IN /\ d[i].drops \subseteq standing
       /\ ToSet(d[i].adds) \cap standing \subseteq d[i].drops
       /\ IsInjective(d[i].adds)

\* Mutant of LayoutsAgree: pairs are compared, and not how many there are.
LayoutsAgreeInPairs(d) ==
  \A i, j \in LayoutsOf(d) : i < j /\ d[i].ty = d[j].ty =>
    \A k \in DOMAIN Above(d, i) \cap DOMAIN Above(d, j) : Above(d, i)[k] = Above(d, j)[k]

\* A layout stands under the same layouts wherever it appears.
LayoutsAgree(d) ==
  \A i, j \in LayoutsOf(d) : i < j /\ d[i].ty = d[j].ty =>
    \/ \E h \in LayoutsOf(d) : h < i /\ d[h].ty = d[i].ty
    \/ Above(d, i) = Above(d, j)

ShapeOf(link) == [k \in DOMAIN link |-> IF link[k].kind = "capture" THEN "*" ELSE link[k].text]

NoConflict(d) ==
  \A i, j \in Leaves(d) :
    IsLinked(d[i]) /\ IsLinked(d[j]) /\ ShapeOf(d[i].link) = ShapeOf(d[j].link) => i = j

\* A page is a variant of the enum, by its type.
PagesAreDistinct(d) == \A i, j \in Leaves(d) : d[i].ty = d[j].ty => i = j

Accepted(d) == FieldsAgree(d) /\ GuardsAgree(d) /\ LayoutsAgree(d) /\ NoConflict(d) /\ PagesAreDistinct(d)

-----------------------------------------------------------------------------
(* The prefix tree: from the path of a node to its branches, in the order  *)
(* they were declared, and to the page an address that ends there opens.   *)

EmptyNode == [branches |-> <<>>, leaf |-> 0]

Insert(tree, d, i) ==
  LET link == d[i].link
  IN [p \in DOMAIN tree \cup Prefixes(link) |->
       LET node == IF p \in DOMAIN tree THEN tree[p] ELSE EmptyNode
           onward == IF p \in Prefixes(link) /\ p # link THEN {link[Len(p) + 1]} ELSE {}
       IN [branches |-> node.branches \o SetToSeq(onward \ ToSet(node.branches)),
           leaf |-> IF p = link THEN i ELSE node.leaf]]

MatchTree(d) ==
  FoldLeft(LAMBDA tree, i : Insert(tree, d, i), (<<>> :> EmptyNode),
           SetToSortSeq({i \in Leaves(d) : IsLinked(d[i])}, <))

\* Mutant of Children: branches are tried in the order they were declared.
ChildrenAsDeclared(node) == node.branches

\* Literals are tried before captures.
Children(node) ==
  SelectSeq(node.branches, LAMBDA b : b.kind = "literal")
    \o SelectSeq(node.branches, LAMBDA b : b.kind = "capture")

Takes(branch, part) == branch.kind = "capture" \/ branch.text = part

\* A field is filled from the first capture of its name.
BoundAt(link, name) ==
  Foremost({k \in DOMAIN link : link[k] = [kind |-> "capture", text |-> name]})

Reading(node, parts, name) == Decode[FieldOf(node, name).ty][parts[BoundAt(node.link, name)]]
Decodes(node, parts) == \A name \in FieldNames(node) : Reading(node, parts, name) # <<>>
Built(i, node, parts) == [page |-> i, values |-> [name \in FieldNames(node) |-> Reading(node, parts, name)[1]]]

\* Mutant of Parse: a branch that was taken is not come back from.
ParseCommitted(d, parts) ==
  LET tree == MatchTree(d)
      walk[p \in DOMAIN tree] ==
        LET leaf == tree[p].leaf
            tries == SelectSeq(Children(tree[p]), LAMBDA b : Len(p) < Len(parts) /\ Takes(b, parts[Len(p) + 1]))
        IN IF Len(p) = Len(parts) /\ leaf # 0 /\ Decodes(d[leaf], parts) THEN <<Built(leaf, d[leaf], parts)>>
           ELSE IF tries = <<>> THEN <<>> ELSE walk[Append(p, tries[1])]
  IN walk[<<>>]

\* The generated `parse`: the first way through the tree that takes all of the
\* path and decodes, backtracking out of the others; or nothing.
Parse(d, parts) ==
  LET tree == MatchTree(d)
      walk[p \in DOMAIN tree] ==
        LET leaf == tree[p].leaf
            tries == SelectSeq(Children(tree[p]), LAMBDA b : Len(p) < Len(parts) /\ Takes(b, parts[Len(p) + 1]))
            hits == SelectSeq([k \in DOMAIN tries |-> walk[Append(p, tries[k])]], LAMBDA hit : hit # <<>>)
        IN IF Len(p) = Len(parts) /\ leaf # 0 /\ Decodes(d[leaf], parts) THEN <<Built(leaf, d[leaf], parts)>>
           ELSE IF hits = <<>> THEN <<>> ELSE hits[1]
  IN walk[<<>>]

-----------------------------------------------------------------------------
(* Routes, their addresses and their text.                                 *)

RoutesOf(d) ==
  UNION {{[page |-> i, values |-> v] :
            v \in {v \in [FieldNames(d[i]) -> UNION {ValuesOf[f.ty] : f \in ToSet(d[i].fields)}] :
                     \A f \in ToSet(d[i].fields) : v[f.name] \in ValuesOf[f.ty]}} :
         i \in Leaves(d)}

\* `link`, split as `parse` splits it: empty segments are none.
Address(d, r) ==
  LET link == d[r.page].link
      parts == [k \in DOMAIN link |-> IF link[k].kind = "literal" THEN link[k].text ELSE Encode[r.values[link[k].text]]]
  IN SelectSeq(parts, LAMBDA part : part # "")

Save(d, r) ==
  IF Restorable(d, r.page)
  THEN <<[route |-> d[r.page].ty, fields |-> [name \in FieldNames(d[r.page]) |-> ToValue[r.values[name]]]]>>
  ELSE <<>>

\* What a field reads in the text, if anything was written for it.
Reads(f, text) == IF f.name \in DOMAIN text.fields THEN FromValue[f.ty][text.fields[f.name]] ELSE <<>>

\* Mutant of Restore: a field nothing was written for starts somewhere.
RestoreGuessing(d, text) ==
  LET page == {i \in Leaves(d) : /\ d[i].ty = text.route
                                 /\ Restorable(d, i)
                                 /\ \A f \in ToSet(d[i].fields) : f.name \in DOMAIN text.fields => Reads(f, text) # <<>>}
      i == CHOOSE i \in page : TRUE
      value(f) == IF f.name \in DOMAIN text.fields THEN Reads(f, text)[1] ELSE CHOOSE v \in ValuesOf[f.ty] : TRUE
  IN IF page = {} THEN <<>>
     ELSE <<[page |-> i, values |-> [name \in FieldNames(d[i]) |-> value(FieldOf(d[i], name))]]>>

\* Whole, or not at all.
Restore(d, text) ==
  LET page == {i \in Leaves(d) : /\ d[i].ty = text.route
                                 /\ Restorable(d, i)
                                 /\ \A f \in ToSet(d[i].fields) : Reads(f, text) # <<>>}
      i == CHOOSE i \in page : TRUE
  IN IF page = {} THEN <<>>
     ELSE <<[page |-> i, values |-> [name \in FieldNames(d[i]) |-> Reads(FieldOf(d[i], name), text)[1]]]>>

\* What the manifest says of each address: `render` sorts the entries by path,
\* tree and route, so the file is its set of entries.
DeepLink(d, i) ==
  [route |-> d[i].ty, path |-> d[i].link,
   captures |-> [k \in {k \in DOMAIN d[i].link : d[i].link[k].kind = "capture"} |->
                  FieldOf(d[i], d[i].link[k].text).ty],
   guards |-> Guards(d, i), restorable |-> Restorable(d, i)]
Manifest(d) == {DeepLink(d, i) : i \in {i \in Leaves(d) : IsLinked(d[i])}}

\* `check` shows what differs line by line, each part of an entry on a line of
\* its own.
Lines(manifest) ==
  UNION {{<<name, link[name]>> : name \in DOMAIN link} : link \in manifest}
Difference(committed, rendered) ==
  [gone |-> Lines(committed) \ Lines(rendered), came |-> Lines(rendered) \ Lines(committed)]

-----------------------------------------------------------------------------
(* Builds.  A declaration that is refused does not compile: nothing runs   *)
(* it, and its author goes on.                                             *)

With(form, up) == [name \in DOMAIN form \cup {"up"} |-> IF name = "up" THEN up ELSE form[name]]

\* A node is added at the end, inside a layout that is still open.
Declare(form) ==
  /\ Len(nodes) < MaxNodes
  /\ \E up \in {0} \cup (IF nodes = <<>> THEN {} ELSE ToSet(Line(nodes, Len(nodes)))) :
       /\ up # 0 => ~IsPage(nodes[up])
       /\ nodes' = Append(nodes, With(form, up))
  /\ UNCHANGED kept

\* A page is declared otherwise.
Redeclare(i, form) ==
  /\ IsPage(nodes[i])
  /\ nodes[i].ty = form.ty
  /\ nodes' = [nodes EXCEPT ![i] = With(form, @.up)]
  /\ UNCHANGED kept

\* Two pages next to each other change places.
Move(i) ==
  /\ i + 1 \in DOMAIN nodes
  /\ IsPage(nodes[i]) /\ IsPage(nodes[i + 1])
  /\ nodes[i].up = nodes[i + 1].up
  /\ nodes' = [nodes EXCEPT ![i] = nodes[i + 1], ![i + 1] = nodes[i]]
  /\ UNCHANGED kept

\* The application that was built leaves its route behind.
Leave(r) ==
  /\ Accepted(nodes)
  /\ kept' = Save(nodes, r)
  /\ kept' # <<>>
  /\ UNCHANGED nodes

RoutesNext ==
  \/ \E form \in LayoutForm \cup PageForm : Declare(form)
  \/ \E i \in DOMAIN nodes : Move(i) \/ \E form \in PageForm : Redeclare(i, form)
  \/ \E r \in RoutesOf(nodes) : Leave(r)

RoutesInit == nodes = <<>> /\ kept = <<>>

RoutesSpec == RoutesInit /\ [][RoutesNext]_routesVars

-----------------------------------------------------------------------------
(* Properties. *)

Parts == UNION {DOMAIN Decode[ty] : ty \in DOMAIN Decode}
Paths == UNION {[1..n -> Parts] : n \in 0..MaxLength}

\* A guard stands in front of a page when something around it declared the
\* guard and nothing further in opted out by name: no page slips out from
\* under a guard, and none is held behind one it opened (fold_into, flatten).
GuardsAsDeclared ==
  \A i \in Leaves(nodes) :
    LET line == Line(nodes, i)
    IN /\ IsInjective(Guards(nodes, i))
       /\ ToSet(Guards(nodes, i)) =
            {g \in UNION {ToSet(nodes[j].adds) : j \in ToSet(line)} :
               \E k \in DOMAIN line : /\ g \in ToSet(nodes[line[k]].adds)
                                      /\ \A l \in (k + 1)..Len(line) : g \notin nodes[line[l]].drops}

\* What the compiler is told a layout may read is so in each place it stands,
\* and every page under it carries what it is handed (check_layouts, Segment).
LayoutsHoldEverywhere ==
  Accepted(nodes) =>
    \A i \in Leaves(nodes) : \A k \in DOMAIN Above(nodes, i) :
      LET ty == Above(nodes, i)[k]
      IN /\ StandsUnder(nodes, ty) = SubSeq(Above(nodes, i), 1, k - 1)
         /\ LayoutParams(nodes, ty) \subseteq {f \in ToSet(nodes[i].fields) : f.identity}

\* The page a path means, by its own pattern alone.
Means(d, i, parts) ==
  /\ IsLinked(d[i])
  /\ Len(d[i].link) = Len(parts)
  /\ \A k \in DOMAIN parts : Takes(d[i].link[k], parts[k])
  /\ Decodes(d[i], parts)

\* The first place two patterns differ in, p is literal.
MoreLiteral(p, q) ==
  \E k \in DOMAIN p \cap DOMAIN q :
    /\ p[k].kind = "literal" /\ q[k].kind = "capture"
    /\ \A l \in 1..(k - 1) : p[l].kind = q[l].kind

\* A path opens a page exactly if it fits one, and the most literal of those
\* it fits: the tree and its backtracking lose none and prefer no other.
OpensTheMostLiteral ==
  Accepted(nodes) =>
    \A parts \in Paths :
      LET fits == {i \in Leaves(nodes) : Means(nodes, i, parts)}
          found == Parse(nodes, parts)
      IN IF fits = {} THEN found = <<>>
         ELSE /\ found # <<>>
              /\ found[1] = Built(found[1].page, nodes[found[1].page], parts)
              /\ found[1].page \in fits
              /\ \A i \in fits : ~MoreLiteral(nodes[i].link, nodes[found[1].page].link)

\* A route's address opens that route, unless an address that is more literal
\* is spelled the same, or a capture is empty and leaves no segment.
AddressesOpenTheirRoutes ==
  Accepted(nodes) =>
    \A r \in {r \in RoutesOf(nodes) : IsLinked(nodes[r.page])} :
      LET parts == Address(nodes, r)
      IN \/ Parse(nodes, parts) = <<r>>
         \/ \E name \in DOMAIN r.values : Encode[r.values[name]] = ""
         \/ \E i \in Leaves(nodes) :
              Means(nodes, i, parts) /\ MoreLiteral(nodes[i].link, nodes[r.page].link)

\* Links and addresses meet: each path opens the page that is meant, and each
\* page's own address is such a path (matcher.rs:294-394, routes_dsl.rs:425-445).
PathsOpenTheirPages == OpensTheMostLiteral /\ AddressesOpenTheirRoutes

\* What was written comes back as it was in the build that wrote it, and in
\* any other as a route that is whole, with a value of its field's type wherever
\* something was written for it, or not at all (Saving, Restoring).
SavedRoutesComeBack ==
  Accepted(nodes) =>
    /\ \A r \in RoutesOf(nodes) : Restorable(nodes, r.page) => Restore(nodes, Save(nodes, r)[1]) = <<r>>
    /\ kept # <<>> /\ Restore(nodes, kept[1]) # <<>> =>
         LET r == Restore(nodes, kept[1])[1]
         IN /\ r \in RoutesOf(nodes)
            /\ nodes[r.page].ty = kept[1].route
            /\ DOMAIN r.values \subseteq DOMAIN kept[1].fields
            /\ \A name \in DOMAIN r.values :
                 <<r.values[name]>> = FromValue[FieldOf(nodes[r.page], name).ty][kept[1].fields[name]]

\* What a path opens: the page by its type, with what stands in front of it.
Opens(d, parts) ==
  LET found == Parse(d, parts)
  IN [k \in DOMAIN found |-> [page |-> d[found[k].page].ty, values |-> found[k].values,
                              guards |-> Guards(d, found[k].page)]]

\* A manifest that is as it was is an application that answers as it did: each
\* path opens the same page behind the same guards (manifest.rs: what bites is
\* "a changed" address).  A page that is moved is one case: moving "changes
\* nothing about what the application answers to", so order "means nothing at
\* all" (matcher.rs).
ManifestTellsTheAddresses ==
  [][nodes' # nodes /\ Accepted(nodes) /\ Accepted(nodes') /\ Manifest(nodes') = Manifest(nodes) =>
       \A parts \in Paths : Opens(nodes', parts) = Opens(nodes, parts)]_routesVars

\* Whoever reads the difference sees a line for each address that changed
\* (manifest.rs: "every entry is one line").
DifferenceShowsTheChange ==
  [][Accepted(nodes) /\ Accepted(nodes') /\ Manifest(nodes') # Manifest(nodes) =>
       Difference(Manifest(nodes), Manifest(nodes')) # [gone |-> {}, came |-> {}]]_routesVars
=============================================================================

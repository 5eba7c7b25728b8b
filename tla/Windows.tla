------------------------------- MODULE Windows -------------------------------
(***************************************************************************)
(* The windows of an application on WinUI (guinea-winui/src/run.rs,        *)
(* winui.rs, guinea-app/src/app/roots.rs): each is a root with a router of *)
(* its own, composed later than its router moves.  Installing a page       *)
(* stages its node under the page's type, for all windows; the component   *)
(* that shows the page takes it from there.                                *)
(*                                                                         *)
(* A chain is one page here: Router has the chains, Nodes the layouts.     *)
(***************************************************************************)
EXTENDS Naturals, FiniteSets

CONSTANTS
  Page,        \* page types
  Param,       \* what a page may be installed with
  Keep,        \* the pages declared `keep`
  MaxWindows,  \* windows opened in a run
  MaxScopes,   \* scopes made in a run
  \* What the application may do.
  Together,    \* move one window while another does not show where it is
  Fails,       \* install pages that fail, past a window's first
  MainCloses,  \* close the main window while others stand
  Late         \* close the last window while one it asked for is not there yet

VARIABLES
  phase,     \* "running", "exiting" once the exit is asked for, "over"
  opening,   \* windows asked for that are not there yet
  next,      \* the next RootId
  standing,  \* STANDING: the roots that stand
  main,      \* the open root called MAIN, or 0
  made,      \* scopes made
  at,        \* the page each router stands at
  asleep,    \* and those it put to sleep
  parked,    \* the navigation a question holds up, or Nowhere
  staged,    \* STAGED: the scope whose node waits under a type, or 0
  shown,     \* the component each window shows
  stale,     \* a message for the window's root has not been composed
  updating   \* the window whose page's `update` is on the stack, or 0

vars == <<phase, opening, next, standing, main, made, at, asleep, parked, staged, shown, stale, updating>>
life == <<phase, opening, next, standing, main>>

ASSUME WindowsAssumption ==
  /\ MaxWindows \in Nat \ {0} /\ MaxScopes \in Nat /\ Keep \subseteq Page
  /\ {Together, Fails, MainCloses, Late} \subseteq BOOLEAN

Window == 1..MaxWindows
Route == [ty : Page, param : Param]
Nowhere == [ty |-> "nothing", param |-> "nothing"]

\* A page as a router holds it, and a component with the node it took: the
\* scope the node was made in, or 0 for `Default`.
Gone == [scope |-> 0, route |-> Nowhere]
Blank == [scope |-> 0, ty |-> "nothing", node |-> 0, edited |-> FALSE]

Init ==
  /\ phase = "running" /\ opening = 1 /\ next = 1 /\ standing = {} /\ main = 0 /\ made = 0
  /\ at = [w \in Window |-> Gone]
  /\ asleep = [w \in Window |-> {}]
  /\ parked = [w \in Window |-> Nowhere]
  /\ staged = [ty \in Page |-> 0]
  /\ shown = [w \in Window |-> Blank]
  /\ stale = [w \in Window |-> FALSE]
  /\ updating = 0

\* The reactor comes to its next message or window: no page is in an `update`.
Turn == updating = 0 /\ UNCHANGED updating

\* No other window's page is between its scope and its component.
Settled(w) == Together \/ \A v \in Window \ {w} : at[v].scope = shown[v].scope

-----------------------------------------------------------------------------
(* Windows come and go.                                                    *)

\* `Signal::OpenWindow`.
OpenWindow(w) ==
  /\ Turn
  /\ phase # "over"
  /\ shown[w] # Blank
  /\ next + opening <= MaxWindows
  /\ opening' = opening + 1
  /\ UNCHANGED <<phase, next, standing, main, made, at, asleep, parked, staged, shown, stale>>

\* The root called MAIN once window w is there.
Names(w) == IF main = 0 THEN w ELSE main

\* Root::create, RouterRoot::create and the first composition, at once.
Mount(r, installs) ==
  LET w == next
  IN /\ Turn
     /\ phase # "over"
     /\ opening > 0
     /\ Settled(w)
     /\ opening' = opening - 1
     /\ next' = next + 1
     /\ standing' = standing \cup {w}
     /\ main' = Names(w)
     /\ IF installs
        THEN /\ made < MaxScopes
             /\ made' = made + 1
             /\ at' = [at EXCEPT ![w] = [scope |-> made', route |-> r]]
             /\ staged' = [staged EXCEPT ![r.ty] = 0]
             /\ shown' = [shown EXCEPT ![w] = [scope |-> made', ty |-> r.ty, node |-> made', edited |-> FALSE]]
             /\ UNCHANGED phase
        ELSE /\ phase' = IF main' = w THEN "exiting" ELSE phase
             /\ UNCHANGED <<made, at, staged, shown>>
     /\ UNCHANGED <<asleep, parked, stale>>

\* Mutant of Exits: the last window but one is the last.
ExitsEarly(left) == Cardinality(left) <= 1

\* Root's drop: `exit` with the last one.
Exits(left) == left = {}

\* The window is closed: its router goes, and what it named with it.
Close(w) ==
  /\ Turn
  /\ phase # "over"
  /\ w \in standing
  /\ standing = {w} => Late \/ opening = 0
  /\ main = w => MainCloses \/ standing = {w}
  /\ standing' = standing \ {w}
  /\ main' = IF main = w THEN 0 ELSE main
  /\ phase' = IF Exits(standing') THEN "exiting" ELSE phase
  /\ at' = [at EXCEPT ![w] = Gone]
  /\ asleep' = [asleep EXCEPT ![w] = {}]
  /\ parked' = [parked EXCEPT ![w] = Nowhere]
  /\ shown' = [shown EXCEPT ![w] = Blank]
  /\ stale' = [stale EXCEPT ![w] = FALSE]
  /\ UNCHANGED <<opening, next, made, staged>>

\* The reactor lets go of the application, and of the windows left.
End ==
  /\ Turn
  /\ phase = "exiting"
  /\ phase' = "over"
  /\ at' = [w \in Window |-> Gone]
  /\ asleep' = [w \in Window |-> {}]
  /\ parked' = [w \in Window |-> Nowhere]
  /\ shown' = [w \in Window |-> Blank]
  /\ stale' = [w \in Window |-> FALSE]
  /\ UNCHANGED <<opening, next, standing, main, made, staged>>

-----------------------------------------------------------------------------
(* A window's router moves.                                                *)

\* Mutant of Asks: the guard has a copy of the node, as it was staged.
AsksCopy(w) == FALSE

\* The leave guard of the page w stands at: it finds the node while somebody
\* holds it, staged or shown, and one that was edited asks - unless it is being
\* changed at that moment, by the `update` on the stack: `try_borrow` fails, and
\* it may go with a warning.  A page that is kept is not asked.
Asks(w) ==
  /\ at[w].route.ty \notin Keep
  /\ \E v \in Window : shown[v].node = at[w].scope /\ shown[v].edited /\ v # updating

Bed(w, ty) == {page \in asleep[w] : page.route.ty = ty}

\* The page that is left sleeps, or goes.
PutDown(w) ==
  IF at[w].route.ty \in Keep THEN (asleep[w] \ Bed(w, at[w].route.ty)) \cup {at[w]} ELSE asleep[w]

\* Installing a page stages its node, over one that was not taken.
Install(w, route) ==
  /\ made < MaxScopes
  /\ made' = made + 1
  /\ at' = [at EXCEPT ![w] = [scope |-> made', route |-> route]]
  /\ staged' = [staged EXCEPT ![route.ty] = made']

\* Nothing changes but the route that is published.
Stay(w, r) ==
  /\ at[w].route = r
  /\ stale' = [stale EXCEPT ![w] = TRUE]
  /\ UNCHANGED <<made, at, asleep, staged>>

\* A page that slept under the same parameters is woken, and installs nothing.
Wake(w, r) ==
  /\ at[w].route # r
  /\ \E page \in Bed(w, r.ty) :
       /\ page.route = r
       /\ at[w].route.ty # r.ty
       /\ at' = [at EXCEPT ![w] = page]
       /\ asleep' = [asleep EXCEPT ![w] = PutDown(w) \ {page}]
  /\ stale' = [stale EXCEPT ![w] = TRUE]
  /\ UNCHANGED <<made, staged>>

\* One that slept under others goes.
Sleepless(w, r) == at[w].route # r /\ (at[w].route.ty = r.ty \/ \A page \in Bed(w, r.ty) : page.route # r)

Arrive(w, r) ==
  /\ Sleepless(w, r)
  /\ Install(w, r)
  /\ asleep' = [asleep EXCEPT ![w] = {page \in PutDown(w) : page.route.ty # r.ty}]
  /\ stale' = [stale EXCEPT ![w] = TRUE]

\* The install fails: the page that was left goes back up, made again unless
\* it slept, and the window is not told.  What else reaches it is `heard`.
FallBack(w, r, heard) ==
  /\ Fails
  /\ Sleepless(w, r)
  /\ IF at[w].route.ty \in Keep \ {r.ty}
     THEN UNCHANGED <<made, at, staged>>
     ELSE Install(w, at[w].route)
  /\ asleep' = [asleep EXCEPT ![w] = @ \ Bed(w, r.ty)]
  /\ stale' = [stale EXCEPT ![w] = @ \/ heard]

Commit(w, r, heard) == Stay(w, r) \/ Wake(w, r) \/ Arrive(w, r) \/ FallBack(w, r, heard)

\* A question that was waiting is dropped with its navigation, and the window
\* is told that it went.  Whoever holds the handle navigates, in the middle of a
\* page's `update` too.
Navigate(w, r) ==
  LET asked == at[w].route # r /\ Asks(w)
  IN /\ phase # "over"
     /\ at[w] # Gone
     /\ Settled(w)
     /\ parked' = [parked EXCEPT ![w] = IF asked THEN r ELSE Nowhere]
     /\ IF asked
        THEN /\ stale' = [stale EXCEPT ![w] = TRUE]
             /\ UNCHANGED <<made, at, asleep, staged>>
        ELSE Commit(w, r, parked[w] # Nowhere)
     /\ UNCHANGED <<life, shown, updating>>

\* The dialog is closed, from a page's `update` or from anywhere.
Answer(w, yes) ==
  /\ phase # "over"
  /\ parked[w] # Nowhere
  /\ Settled(w)
  /\ parked' = [parked EXCEPT ![w] = Nowhere]
  /\ IF yes
     THEN Commit(w, parked[w], TRUE)
     ELSE /\ stale' = [stale EXCEPT ![w] = TRUE]
          /\ UNCHANGED <<made, at, asleep, staged>>
  /\ UNCHANGED <<life, shown, updating>>

-----------------------------------------------------------------------------
(* A window is composed.                                                   *)

\* Mutant of Same: a page of the same type is the same page.
SameType(component, page) == component.ty = page.route.ty

\* The component stays for the segment it was made for.
Same(component, page) == component.scope = page.scope

\* PageNode::create and input_changed: another segment's component takes the
\* node staged for its type, or makes do with `Default`.
Compose(w) ==
  LET ty == at[w].route.ty
      same == Same(shown[w], at[w])
  IN /\ Turn
     /\ stale[w]
     /\ stale' = [stale EXCEPT ![w] = FALSE]
     /\ shown' = [shown EXCEPT ![w] =
          [scope |-> at[w].scope, ty |-> ty,
           node |-> IF same THEN @.node ELSE staged[ty],
           edited |-> same /\ @.edited]]
     /\ staged' = IF same THEN staged ELSE [staged EXCEPT ![ty] = 0]
     /\ UNCHANGED <<life, made, at, asleep, parked>>

-----------------------------------------------------------------------------
(* A page takes a message of its own.                                      *)

\* Its `update` begins, and holds the node until it ends.
Update(w) ==
  /\ phase # "over"
  /\ shown[w] # Blank
  /\ updating = 0
  /\ updating' = w
  /\ UNCHANGED <<life, made, at, asleep, parked, staged, shown, stale>>

\* It changes what is there to lose.
Edit(w) ==
  /\ updating = w
  /\ shown' = [shown EXCEPT ![w].edited = ~@]
  /\ UNCHANGED <<life, made, at, asleep, parked, staged, stale, updating>>

\* It returns.
Updated ==
  /\ updating # 0
  /\ updating' = 0
  /\ UNCHANGED <<life, made, at, asleep, parked, staged, shown, stale>>

Next ==
  \/ \E r \in Route, installs \in BOOLEAN : Mount(r, installs)
  \/ \E w \in Window :
       \/ OpenWindow(w) \/ Close(w) \/ Compose(w) \/ Update(w) \/ Edit(w)
       \/ \E r \in Route : Navigate(w, r)
       \/ \E yes \in BOOLEAN : Answer(w, yes)
  \/ Updated
  \/ End

Spec == Init /\ [][Next]_vars

-----------------------------------------------------------------------------
(* Properties. *)

\* A window that shows the segment its router stands at shows it from the node
\* it was installed with, whatever else was staged meanwhile: "the node is built
\* where the context is and taken where it is needed" (STAGED, PageNode::create,
\* input_changed).  A page that may sleep is woken without one.
EveryPageShowsItsNode ==
  \A w \in standing :
    shown[w] # Blank /\ shown[w].scope = at[w].scope /\ at[w].route.ty \notin Keep
      => shown[w].node = at[w].scope

\* A page edited in its window is left for another only once its question was
\* answered: the guard reads the node the window shows (stage_node) - except in
\* the middle of its own `update`, which holds the node: it is let go there.
NothingEditedGoesUnasked ==
  [][\A w \in standing \cap standing' :
       /\ shown[w].edited /\ shown[w].scope = at[w].scope /\ at[w].route.ty \notin Keep
       /\ at'[w].scope # at[w].scope /\ updating # w
       /\ phase' # "over"
       => parked[w] \notin {Nowhere, at[w].route}]_vars

\* A window that has nothing left to compose shows where its router is: what
\* is on the screen is a page that stands (NavigateHandle::go, RouterRoot).
ShowsWhereItIs == \A w \in standing : ~stale[w] => shown[w].scope = at[w].scope

\* The application ends with its last window and with nothing being opened, or
\* with the first window when its first page fails: "runs until the last
\* window closes" (run), "the main window's first route did not install"
\* (failed).
EndsWithItsWindows ==
  [][phase # "over" /\ phase' = "over" =>
       opening = 0 /\ standing \subseteq {w \in {1} : at[w] = Gone}]_vars
=============================================================================

----------------------------- MODULE Application -----------------------------
(***************************************************************************)
(* An application is built, run and taken apart (guinea-app/src/app/mod.rs,*)
(* builder.rs, registry.rs, host.rs, runtime.rs, feature/traits.rs,        *)
(* guinea-core/src/scope/features.rs): plugins and features install one    *)
(* another, claim reducers, answer actions and export to the pages, and    *)
(* any of them may fail.                                                   *)
(*                                                                         *)
(* What the body of a unit does is its author's: here it does any of what  *)
(* a builder lets it do, in any order.  The application and the page that  *)
(* is open have a scope each, with a section for every body that ran in it.*)
(***************************************************************************)
EXTENDS Naturals, SequencesExt

CONSTANTS
  Plugins,    \* plugins: [kind |-> "plugin", id, ty]
  Features,   \* the application's features: [kind |-> "feature", id, ty]
  Segments,   \* features a page installs: [kind |-> "segment", id, ty]
  Exports,    \* what each of those says it exports
  Reducer,
  Action,
  MaxBodies,  \* bodies begun
  MaxSaid,    \* claims, answers and cleanups of a run
  \* What their authors may do.
  Swallow,    \* go on after a segment's feature failed
  Retry,      \* install again what failed
  Nest        \* install a feature inside itself

ASSUME ApplicationAssumption ==
  /\ \A u \in Plugins : u.kind = "plugin"
  /\ \A u \in Features : u.kind = "feature"
  /\ \A u \in Segments : u.kind = "segment" /\ Exports[u] \subseteq Reducer

VARIABLES
  phase,     \* "building", "ready", "running", "ending", "over"
  stack,     \* Registry::stack, and the page's installs: the bodies under way
  failing,   \* an error is on its way out of the body that was left last
  plugins,   \* the plugins installed, by id
  features,  \* and the features
  scope,     \* what features.rs keeps of "app" and "page"
  cleanups,  \* Scope::teardowns: what is to be run when the application goes
  bodies,    \* the unit of each body begun: a body is its index
  built,     \* the bodies that ended well
  claims,    \* who claimed what: <<body, reducer>>
  answers,   \* who answers what: <<body, action>>
  order,     \* the cleanups that were asked for, first to last
  ran        \* and those that ran

history == <<claims, answers, order, ran>>
vars == <<phase, stack, failing, plugins, features, scope, cleanups, bodies, built, history>>

Unit == Plugins \cup Features \cup Segments

EmptyScope ==
  [sections |-> 0, installing |-> <<>>, marked |-> {}, owners |-> <<>>, claimants |-> <<>>,
   answers |-> {}, exports |-> {}]

Init ==
  /\ phase = "building" /\ stack = <<>> /\ failing = FALSE
  /\ plugins = {} /\ features = {}
  /\ scope = [s \in {"app", "page"} |-> EmptyScope]
  /\ cleanups = <<>> /\ bodies = <<>> /\ built = {}
  /\ claims = {} /\ answers = {} /\ order = <<>> /\ ran = <<>>

Where(unit) == IF unit.kind = "segment" THEN "page" ELSE "app"

\* The body under way, and the scope it is handed; none in a ready hook.
Body == IF stack = <<>> THEN 0 ELSE Last(stack)
Here == IF phase = "running" THEN "page" ELSE "app"

\* A body or a ready hook has the floor.
Speaks ==
  /\ ~failing
  /\ phase = "building" => stack # <<>>
  /\ phase \in {"building", "ready", "running"}
  /\ Cardinality(claims) + Cardinality(answers) + Len(order) < MaxSaid

-----------------------------------------------------------------------------
(* Scopes: features.rs.                                                    *)

CurrentSection(sc) == IF sc.installing = <<>> THEN 0 ELSE Last(sc.installing)

OpenSection(sc) == [sc EXCEPT !.sections = @ + 1, !.installing = Append(@, sc.sections + 1)]

\* Mutant of CloseSection: an error leaves before the section is closed.
CloseSectionIfBuilt(sc, ok) == IF ok THEN [sc EXCEPT !.installing = Front(@)] ELSE sc

CloseSection(sc, ok) == [sc EXCEPT !.installing = Front(@)]

\* The first claim wins.
NoteOwner(sc, r) ==
  LET known == DOMAIN sc.owners
      noting(f, v) == [q \in known \cup {r} |-> IF q = r THEN v ELSE f[q]]
  IN IF r \in known THEN sc
     ELSE [sc EXCEPT !.owners = noting(@, CurrentSection(sc)), !.claimants = noting(@, Body)]

Claim(r) ==
  /\ Speaks
  /\ <<Body, r>> \notin claims
  /\ claims' = claims \cup {<<Body, r>>}
  /\ scope' = [scope EXCEPT ![Here] = NoteOwner(@, r)]
  /\ UNCHANGED <<phase, stack, failing, plugins, features, cleanups, bodies, built, answers, order, ran>>

\* `answers`, and each handler of an actor that is spawned.
Answer(m) ==
  /\ Speaks
  /\ <<Body, m>> \notin answers
  /\ answers' = answers \cup {<<Body, m>>}
  /\ scope' = [scope EXCEPT ![Here].answers = @ \cup {<<CurrentSection(scope[Here]), m>>}]
  /\ UNCHANGED <<phase, stack, failing, plugins, features, cleanups, bodies, built, claims, order, ran>>

\* PluginBuilder::export: what nobody claimed is refused, and the body fails.
Export(r) ==
  /\ Speaks
  /\ Here = "app"
  /\ r \in DOMAIN scope["app"].owners
  /\ r \notin scope["app"].exports
  /\ scope' = [scope EXCEPT !["app"].exports = @ \cup {r}]
  /\ UNCHANGED <<phase, stack, failing, plugins, features, cleanups, bodies, built, history>>

OnCleanup ==
  /\ Speaks
  /\ Here = "app"
  /\ LET cleanup == [by |-> Body, nth |-> Len(order) + 1]
     IN /\ cleanups' = Append(cleanups, cleanup)
        /\ order' = Append(order, cleanup)
  /\ UNCHANGED <<phase, stack, failing, plugins, features, scope, bodies, built, claims, answers, ran>>

-----------------------------------------------------------------------------
(* Units install one another: builder.rs, registry.rs, traits.rs.          *)

\* Mutant of AdmitPlugin: what is being installed is not looked at.
AdmitPluginAgain(u) == \A p \in plugins : p.id # u.id

\* A plugin that is there is left alone, a cycle and a second type of the same
\* id are errors.
AdmitPlugin(u) == /\ \A p \in plugins : p.id # u.id
                  /\ \A n \in ToSet(stack) : bodies[n].kind = "plugin" => bodies[n].id # u.id

\* Only a feature installs features of the application's.
Admit(u) ==
  CASE u.kind = "plugin" -> phase # "running" /\ AdmitPlugin(u)
    [] u.kind = "feature" -> /\ phase # "running"
                             /\ u \notin features
                             /\ stack # <<>> => bodies[Body].kind = "feature"
    [] u.kind = "segment" -> phase = "running" /\ u \notin scope["page"].marked

\* What a page notes of a feature it installs.
Mark(sc, u) ==
  IF u.kind = "segment" THEN [sc EXCEPT !.marked = @ \cup {u}, !.exports = @ \cup Exports[u]] ELSE sc

Begin(u) ==
  /\ ~failing
  /\ phase \in {"building", "ready", "running"}
  /\ Len(bodies) < MaxBodies
  /\ \A n \in DOMAIN bodies \ built : bodies[n] = u =>
       CASE u.kind = "segment" -> TRUE
         [] n \in ToSet(stack) -> u.kind = "plugin" \/ Nest
         [] OTHER -> Retry
  /\ Admit(u)
  /\ bodies' = Append(bodies, u)
  /\ stack' = Append(stack, Len(bodies'))
  /\ scope' = [scope EXCEPT ![Where(u)] = OpenSection(Mark(@, u))]
  /\ UNCHANGED <<phase, failing, plugins, features, cleanups, built, history>>

\* Mutant of Unclaimed: nobody looks.
UnclaimedNone(u) == {}

\* What a page's feature says it exports and claimed nothing of: it panics.
Unclaimed(u) == IF u.kind = "segment" THEN Exports[u] \ DOMAIN scope["page"].owners ELSE {}

\* A plugin that is registered under the id of another: nothing of it is begun.
Collide(u) ==
  /\ phase = "building" /\ stack = <<>> /\ ~failing
  /\ \E p \in plugins : p.id = u.id /\ p.ty # u.ty
  /\ failing' = TRUE
  /\ UNCHANGED <<phase, stack, plugins, features, scope, cleanups, bodies, built, history>>

\* The body ends, and says how.  A ready hook has no way to pass an error on.
Finish(ok) ==
  LET u == bodies[Body]
      outermost == Len(stack) = 1
  IN /\ stack # <<>>
     /\ failing => ~ok
     /\ ok => Unclaimed(u) = {}
     /\ stack' = Front(stack)
     /\ scope' = [scope EXCEPT ![Where(u)] = CloseSection(@, ok)]
     /\ built' = IF ok THEN built \cup {Body} ELSE built
     /\ plugins' = IF ok /\ u.kind = "plugin" THEN plugins \cup {u} ELSE plugins
     /\ features' = IF ok /\ u.kind = "feature" THEN features \cup {u} ELSE features
     /\ failing' \in IF ok \/ (outermost /\ phase = "ready") THEN {FALSE}
                     ELSE IF u.kind = "segment" /\ ~Swallow THEN {TRUE}
                     ELSE IF outermost /\ phase = "building" THEN {TRUE} ELSE BOOLEAN
     /\ UNCHANGED <<phase, cleanups, bodies, history>>

-----------------------------------------------------------------------------
(* The application: mod.rs, runtime.rs.                                    *)

\* Everything that was registered is installed: the ready hooks run.
Installed ==
  /\ phase = "building" /\ stack = <<>> /\ ~failing
  /\ phase' = "ready"
  /\ UNCHANGED <<stack, failing, plugins, features, scope, cleanups, bodies, built, history>>

Run ==
  /\ phase = "ready" /\ stack = <<>>
  /\ phase' = "running"
  /\ UNCHANGED <<stack, failing, plugins, features, scope, cleanups, bodies, built, history>>

\* The page goes: it is left, or it failed to install.
LeavePage ==
  /\ phase = "running" /\ stack = <<>>
  /\ scope["page"] # EmptyScope
  /\ scope' = [scope EXCEPT !["page"] = EmptyScope]
  /\ failing' = FALSE
  /\ claims' = {c \in claims : c[1] # 0 /\ bodies[c[1]].kind # "segment"}
  /\ answers' = {a \in answers : a[1] # 0 /\ bodies[a[1]].kind # "segment"}
  /\ UNCHANGED <<phase, stack, plugins, features, cleanups, bodies, built, order, ran>>

\* Mutant of TearDown: what was asked for is dropped with the scope, unrun.
TearDownUnrun ==
  /\ stack = <<>> /\ (phase = "running" <=> ~failing) /\ phase \in {"building", "running"}
  /\ phase' = "ending" /\ cleanups' = <<>> /\ scope' = [s \in DOMAIN scope |-> EmptyScope]
  /\ UNCHANGED <<stack, failing, plugins, features, bodies, built, history>>

\* The application is shut down, or what it was registered with failed.
TearDown ==
  /\ stack = <<>>
  /\ \/ phase = "running" /\ ~failing
     \/ phase = "building" /\ failing
  /\ phase' = "ending"
  /\ scope' = [s \in DOMAIN scope |-> EmptyScope]
  /\ UNCHANGED <<stack, failing, plugins, features, cleanups, bodies, built, history>>

\* Mutant of NextCleanup: in the order they were asked for.
NextCleanupFirst == 1

\* ScopeData::tear_down: the last first.
NextCleanup == Len(cleanups)

\* One cleanup runs; its error is logged.
Clean ==
  /\ phase = "ending"
  /\ cleanups # <<>>
  /\ cleanups' = RemoveAt(cleanups, NextCleanup)
  /\ ran' = Append(ran, cleanups[NextCleanup])
  /\ UNCHANGED <<phase, stack, failing, plugins, features, scope, bodies, built, claims, answers, order>>

End ==
  /\ phase = "ending"
  /\ cleanups = <<>>
  /\ phase' = "over"
  /\ UNCHANGED <<stack, failing, plugins, features, scope, cleanups, bodies, built, history>>

Next ==
  \/ \E r \in Reducer : Claim(r) \/ Export(r)
  \/ \E m \in Action : Answer(m)
  \/ OnCleanup
  \/ \E u \in Unit : Begin(u)
  \/ \E u \in Plugins : Collide(u)
  \/ \E ok \in BOOLEAN : Finish(ok)
  \/ Installed \/ Run \/ LeavePage \/ TearDown \/ Clean \/ End

Spec == Init /\ [][Next]_vars

-----------------------------------------------------------------------------
(* Properties. *)

\* A plugin is built once however often and however deep it is asked for, and
\* no two are built under one id (admit_plugin).
BuiltOnce ==
  \A m, n \in built : bodies[m].kind = "plugin" /\ bodies[n].kind = "plugin" /\ bodies[m].id = bodies[n].id => m = n

\* What reads a reducer sends its actions to the section of the unit that
\* claimed it, and is answered by what that unit answers, whatever failed or
\* was installed inside it in between (note_reducer_owner, answers,
\* Dispatch::owning).
ReadersAreAnswered ==
  phase \in {"ready", "running"} =>
    \A n \in built : \A r \in Reducer : \A m \in Action :
      LET sc == scope[Where(bodies[n])]
      IN /\ <<n, r>> \in claims /\ <<n, m>> \in answers
         /\ r \in DOMAIN sc.claimants /\ sc.claimants[r] # 0 /\ bodies[sc.claimants[r]] = bodies[n]
         => <<sc.owners[r], m>> \in sc.answers

\* What can be read from below was claimed by somebody: it is not a `Default`
\* that looks "exactly like a feature that has not pushed an update yet"
\* (FeatureInitContext::install, PluginBuilder::export).
ExportsAreClaimed ==
  \A s \in DOMAIN scope :
    phase = "running" /\ stack = <<>> /\ ~failing => scope[s].exports \subseteq DOMAIN scope[s].owners

\* Every cleanup runs once, whichever unit asked for it, at whatever depth, and
\* whether that unit was built or failed; none before the application goes; and
\* each "after what was set up after it, and before what was set up before it"
\* (on_cleanup, tear_down).
LastSetUpGoesFirst ==
  /\ ran # <<>> => phase \in {"ending", "over"}
  /\ IsPrefix(ran, Reverse(order))
  /\ phase = "over" => ran = Reverse(order)
=============================================================================

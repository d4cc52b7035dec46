-------------------------------- MODULE WebUI --------------------------------
(***************************************************************************)
(* The Recipe screens of the web UI: one user, one browser tab.  Handlers  *)
(* run to their first await; what follows runs when the answer arrives,    *)
(* with whatever is selected then, and answers arrive in any order.        *)
(*                                                                         *)
(* The content of a Recipe is abstracted to the Recipe that it was written *)
(* for, which editing does not change.  The user is logged in.             *)
(***************************************************************************)
EXTENDS Integers, Sequences, FiniteSets

CONSTANTS Recipes, Null,
          MaxVersions,   \* BOUND: versions of a Recipe
          MaxRequests    \* BOUND: requests without an answer

VARIABLES log,        \* log[n]: contents of the versions of n, at the server
          recipes,    \* names in the sidebar
          current,    \* the selected name
          spec,       \* the content loaded for it, or Null
          tab,        \* "edit" or "history"
          isNew,      \* created, and not saved yet
          sourcesActive,
          draft,      \* the editor's copy of spec
          versions,   \* the last version listed by the history
          diff,       \* the comparison that is shown, or Null
          requests    \* those on their way, and their answers

vars == <<log, recipes, current, spec, tab, isNew, sourcesActive, draft, versions, diff,
          requests>>

Versions == 1..MaxVersions

(* A request: what it asks, and whether the component that asked is still  *)
(* there; answer is "none" until the server answers.                       *)
Ask(do, name, arg) ==
  [do |-> do, name |-> name, arg |-> arg, alive |-> TRUE, answer |-> "none", value |-> Null]

(* The page loads the names of the Recipes that there are.                 *)
Init ==
  /\ \E there \in SUBSET Recipes :
       log = [n \in Recipes |-> IF n \in there THEN <<n>> ELSE <<>>]
  /\ recipes = {}
  /\ current = Null /\ spec = Null /\ tab = "edit" /\ isNew = FALSE /\ sourcesActive = FALSE
  /\ draft = Null /\ versions = 0 /\ diff = Null
  /\ requests = {Ask("list", Null, "done")}

-----------------------------------------------------------------------------
Fits(rs) == Cardinality(rs) <= MaxRequests

(* What the template mounts for a name, a spec, a tab and the sources flag. *)
Mounted(n, s, t, src) == IF src \/ n = Null \/ s = Null THEN "none" ELSE t

(* The handler ends with this selection and sends `sent`; the components   *)
(* follow: one that is unmounted forgets its state and what it waits for,  *)
(* the editor copies a spec that is new, the history reloads for a name    *)
(* that is new.                                                            *)
Render(n, s, t, src, left, sent, fresh) ==
  LET before == Mounted(current, spec, tab, sourcesActive)
      after == Mounted(n, s, t, src)
      forget == {IF r.do \in {"get", "list"} THEN r ELSE [r EXCEPT !.alive = FALSE] : r \in left}
      reload == after = "history" /\ (before # "history" \/ n # current)
  IN
  /\ current' = n /\ spec' = s /\ tab' = t /\ sourcesActive' = src
  /\ draft' = IF after # "edit" THEN Null
              ELSE IF before # "edit" \/ fresh THEN s ELSE draft
  /\ diff' = IF after # "history" \/ reload THEN Null ELSE diff
  /\ versions' = IF before = after THEN versions ELSE 0
  /\ requests' = (IF before = after THEN left ELSE forget) \cup sent
                   \cup (IF reload THEN {Ask("history", n, 0)} ELSE {})
  /\ Fits(requests')

-----------------------------------------------------------------------------
(* The user selects, creates, opens the sources, changes tabs.             *)
SelectRecipe(n) ==
  /\ n \in recipes
  /\ Render(n, spec, "edit", FALSE, requests, {Ask("get", n, 0)}, FALSE)
  /\ isNew' = FALSE
  /\ UNCHANGED <<log, recipes>>

ConfirmCreateRecipe(n) ==
  /\ n \notin recipes
  /\ Render(n, n, "edit", FALSE, requests, {}, TRUE)
  /\ isNew' = TRUE
  /\ UNCHANGED <<log, recipes>>

OpenSources ==
  /\ Render(current, spec, tab, TRUE, requests, {}, FALSE)
  /\ UNCHANGED <<log, recipes, isNew>>

ChangeTab(t) ==
  /\ Mounted(current, spec, tab, sourcesActive) # "none"
  /\ t = "history" => ~isNew
  /\ Render(current, spec, t, FALSE, requests, {}, FALSE)
  /\ UNCHANGED <<log, recipes, isNew>>

Send(r) ==
  /\ requests' = requests \cup {r}
  /\ Fits(requests')
  /\ UNCHANGED <<log, recipes, current, spec, tab, isNew, sourcesActive, draft, versions, diff>>

(* The editor saves its draft under the name that is selected now.         *)
Save ==
  /\ Mounted(current, spec, tab, sourcesActive) = "edit"
  /\ Send(Ask("put", current, draft))

CompareToLatest(v) ==
  /\ Mounted(current, spec, tab, sourcesActive) = "history"
  /\ v \in 1..versions
  /\ Send(Ask("version", current, v))

ConfirmRollback(v) ==
  /\ Mounted(current, spec, tab, sourcesActive) = "history"
  /\ v \in 1..versions
  /\ Send(Ask("rollback", current, v))

-----------------------------------------------------------------------------
(* The server answers, or it fails.                                        *)
Serve(r) ==
  LET l == log[r.name]
      content == CASE r.do = "list" -> {n \in Recipes : log[n] # <<>>}
                   [] r.do = "get" -> l[Len(l)]
                   [] r.do = "put" -> r.arg
                   [] r.do \in {"version", "rollback"} -> l[r.arg]
                   [] r.do = "history" -> Len(l)
      known == CASE r.do \in {"put", "list"} -> TRUE
                 [] r.do \in {"version", "rollback"} -> r.arg \in DOMAIN l
                 [] OTHER -> l # <<>>
      writes == r.do \in {"put", "rollback"}
  IN
  /\ r \in requests /\ r.answer = "none"
  /\ writes => Len(log[r.name]) < MaxVersions
  /\ \/ /\ known
        /\ log' = IF writes THEN [log EXCEPT ![r.name] = Append(@, content)] ELSE log
        /\ requests' = (requests \ {r}) \cup {[r EXCEPT !.answer = "ok", !.value = content]}
     \/ /\ log' = log
        /\ requests' = (requests \ {r}) \cup {[r EXCEPT !.answer = "failed"]}
  /\ UNCHANGED <<recipes, current, spec, tab, isNew, sourcesActive, draft, versions, diff>>

(* An answer to a component that is gone, or a failure, changes nothing;   *)
(* but a selection that fails leaves no spec, and a list that fails is the *)
(* list of before.                                                         *)
Ignored(r) ==
  /\ r \in requests /\ r.answer # "none"
  /\ ~r.alive \/ (r.answer = "failed" /\ r.do \notin {"get", "list"})
  /\ requests' = requests \ {r}
  /\ UNCHANGED <<log, recipes, current, spec, tab, isNew, sourcesActive, draft, versions, diff>>

Succeeded(r) == r \in requests /\ r.alive /\ r.answer = "ok"

(* selectRecipe goes on: the spec is that of the name it was called with,  *)
(* the name may have changed since.                                        *)
GotRecipe(r) ==
  /\ r \in requests /\ r.do = "get" /\ r.answer # "none"
  /\ Render(current, r.value, tab, sourcesActive, requests \ {r}, {}, TRUE)
  /\ UNCHANGED <<log, recipes, isNew>>

(* onSaved lists the Recipes, then loads the name that is selected by      *)
(* then; onRolledBack loads it at once, which takes the history off the    *)
(* screen before that asks for its versions once more.                     *)
Saved(r) ==
  /\ Succeeded(r) /\ r.do = "put"
  /\ isNew' = FALSE
  /\ requests' = (requests \ {r}) \cup {Ask("list", Null, "select")}
  /\ UNCHANGED <<log, recipes, current, spec, tab, sourcesActive, draft, versions, diff>>

Reselect(r, also) ==
  /\ isNew' = FALSE
  /\ Render(current, spec, "edit", FALSE, requests \ {r}, {Ask("get", current, 0)} \cup also,
            FALSE)

RolledBack(r) ==
  /\ Succeeded(r) /\ r.do = "rollback"
  /\ Reselect(r, {[Ask("history", r.name, 0) EXCEPT !.alive = FALSE]})
  /\ UNCHANGED <<log, recipes>>

GotRecipes(r) ==
  /\ r \in requests /\ r.do = "list" /\ r.answer # "none"
  /\ recipes' = IF r.answer = "ok" THEN r.value ELSE recipes
  /\ IF r.arg = "select"
     THEN Reselect(r, {})
     ELSE /\ requests' = requests \ {r}
          /\ UNCHANGED <<current, spec, tab, isNew, sourcesActive, draft, versions, diff>>
  /\ UNCHANGED log

GotVersions(r) ==
  /\ Succeeded(r) /\ r.do = "history"
  /\ versions' = r.value
  /\ requests' = requests \ {r}
  /\ UNCHANGED <<log, recipes, current, spec, tab, isNew, sourcesActive, draft, diff>>

(* compareToLatest goes on, with the spec that is loaded now.              *)
GotVersion(r) ==
  /\ Succeeded(r) /\ r.do = "version"
  /\ diff' = [name |-> r.name, old |-> r.value, latest |-> spec]
  /\ requests' = requests \ {r}
  /\ UNCHANGED <<log, recipes, current, spec, tab, isNew, sourcesActive, draft, versions>>

Next ==
  \/ \E n \in Recipes : SelectRecipe(n) \/ ConfirmCreateRecipe(n)
  \/ OpenSources
  \/ \E t \in {"edit", "history"} : ChangeTab(t)
  \/ Save
  \/ \E v \in Versions : CompareToLatest(v) \/ ConfirmRollback(v)
  \/ \E r \in requests :
       \/ Serve(r) \/ Ignored(r)
       \/ GotRecipes(r) \/ GotRecipe(r) \/ Saved(r) \/ RolledBack(r)
       \/ GotVersions(r) \/ GotVersion(r)

Spec == Init /\ [][Next]_vars

(* The history of a Recipe shows a "line-by-line diff between a past       *)
(* version and the latest" (docs/05-recipe-and-crd.md): what it compares a *)
(* version with is a content of the same Recipe.                           *)
DiffIsOfOneRecipe ==
  diff # Null => \E v \in DOMAIN log[diff.name] : log[diff.name][v] = diff.latest
=============================================================================

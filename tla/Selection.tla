----------------------------- MODULE Selection ------------------------------
(***************************************************************************)
(* What is selected in the browser and the lists shown for it: the         *)
(* context, namespace, workload and detail effects of useMonitorData       *)
(* (frontend/src/hooks/use-monitor-data.ts).  None of these requests is    *)
(* ever aborted, and their answers come in any order.                      *)
(*                                                                         *)
(* Setting state changes sel; Render is the next commit of React, which    *)
(* runs every effect with a changed dependency on the values of that       *)
(* commit.  The six detail effects (variables, pods, spec, timeline,       *)
(* diagnostics, metrics) have one form and are independent: one is         *)
(* modelled.  What the user does is bounded by MaxEvents.                  *)
(***************************************************************************)
EXTENDS Naturals, Sequences, Functions

CONSTANTS
  Contexts,      \* the contexts of the kubeconfig
  Unset,         \* the empty string: no context is selected yet
  Current,       \* the kubeconfig's current context, or Unset
  Names,         \* names of namespaces
  NamespacesOf,  \* the namespaces of each context, and of Unset, as a sequence
  Preferred,     \* "mfoa-sit"
  Items,         \* names of workloads, in every namespace
  MaxEvents,
  None           \* no namespace, no workload, an empty list

\* Where a list of workloads comes from, a workload of such a list, what is selected,
\* and what each kind of request may ask for.
Sources == [context : Contexts \cup {Unset}, namespace : Names]
Workloads == [from : Sources, item : Items]
Selections ==
  [context : Contexts \cup {Unset}, namespace : Names \cup {None},
   workload : Workloads \cup {None}]
Queries ==
  [namespaces |-> Contexts \cup {Unset},
   workloads  |-> Sources,
   details    |-> [context : Contexts \cup {Unset}, workload : Workloads]]

ASSUME SelectionAssumption ==
  /\ Current \in Contexts \cup {Unset}
  /\ Unset \notin Contexts
  /\ None \notin Contexts \cup {Unset} \cup Names \cup Workloads \cup Queries.details
  /\ NamespacesOf \in [Contexts \cup {Unset} -> Seq(Names)]
  /\ MaxEvents \in Nat

VARIABLES
  sel,        \* [context, namespace, workload], as last set
  rendered,   \* the same at the last commit
  contextInfo, \* the contexts are known
  shown,      \* for each kind, the query whose answer is shown, or None
  loading,    \* the loading flag of each kind
  pending,    \* requests under way
  asked,      \* for each kind, how many requests, the last query, if it succeeded
  overtaken,  \* history: the kinds shown an answer that an older one may follow
  hasty,      \* history: a workload was chosen while the list was being loaded
  events      \* what the user has done so far

vars == <<sel, rendered, contextInfo, shown, loading, pending, asked, overtaken,
          hasty, events>>

Kinds == {"namespaces", "workloads", "details"}

\* What each kind of request asks for, given the values of a commit.
Query(s) ==
  [namespaces |-> s.context,
   workloads  |-> [context |-> s.context, namespace |-> s.namespace],
   details    |-> [context |-> s.context, workload |-> s.workload]]

\* The namespace selected when the list of a context arrives, if there is one.
Preselected(c) ==
  IF Preferred \in Range(NamespacesOf[c]) THEN Preferred ELSE NamespacesOf[c][1]

ContextRequest == [kind |-> "context"]

\* The page has mounted: every effect has run once.
Init ==
  /\ sel = [context |-> Unset, namespace |-> None, workload |-> None]
  /\ rendered = sel
  /\ contextInfo = FALSE
  /\ shown = [k \in Kinds |-> None]
  /\ loading = [k \in Kinds |-> k = "namespaces"]
  /\ asked = [k \in Kinds |->
       IF k = "namespaces" THEN [number |-> 1, query |-> Unset, ok |-> FALSE]
                           ELSE [number |-> 0, query |-> None, ok |-> FALSE]]
  /\ pending = {ContextRequest, [kind |-> "namespaces", number |-> 1, query |-> Unset]}
  /\ overtaken = {}
  /\ hasty = FALSE
  /\ events = 0

-----------------------------------------------------------------------------
(* Effects.                                                                *)

\* Mutant of NamespacesEffect: the effect depends on what it sets.
NamespacesEffectLooping ==
  sel.context # rendered.context \/ sel.namespace # rendered.namespace

NamespacesEffect == sel.context # rendered.context

\* Mutant of WorkloadsEffect: selectedContext is not among its dependencies.
WorkloadsEffectNoContext == sel.namespace \notin {None, rendered.namespace}

\* Mutant of WorkloadsEffect: no early return without a namespace.
WorkloadsEffectAlways ==
  \/ sel.namespace # rendered.namespace
  \/ sel.context # rendered.context

WorkloadsEffect ==
  /\ sel.namespace # None
  /\ \/ sel.namespace # rendered.namespace
     \/ sel.context # rendered.context

DetailsEffect ==
  \/ sel.workload # rendered.workload
  \/ sel.context # rendered.context

Started ==
  {k \in Kinds :
     \/ k = "namespaces" /\ NamespacesEffect
     \/ k = "workloads" /\ WorkloadsEffect
     \/ k = "details" /\ DetailsEffect /\ sel.workload # None}

\* What the effects empty before they ask, or instead of asking.
Emptied == Started \cup {k \in {"details"} : DetailsEffect}

\* Mutant of Reset: a new list of workloads leaves the selected workload.
ResetKeepingWorkload ==
  [sel EXCEPT !.namespace = IF NamespacesEffect THEN None ELSE @]

\* Loading namespaces clears the selected namespace, loading workloads the
\* selected workload.
Reset ==
  [sel EXCEPT !.namespace = IF NamespacesEffect THEN None ELSE @,
              !.workload = IF WorkloadsEffect THEN None ELSE @]

\* A commit, and its effects with the values of that commit.
Render ==
  /\ sel # rendered
  /\ rendered' = sel
  /\ sel' = Reset
  /\ shown' = [k \in Kinds |-> IF k \in Emptied THEN None ELSE shown[k]]
  /\ loading' = [k \in Kinds |-> k \in Started \/ loading[k]]
  /\ asked' = [k \in Kinds |->
       IF k \in Started
         THEN [number |-> asked[k].number + 1, query |-> Query(sel)[k], ok |-> FALSE]
         ELSE asked[k]]
  /\ pending' = pending \cup
       {[kind |-> k, number |-> asked'[k].number, query |-> asked'[k].query] :
          k \in Started}
  /\ overtaken' = (overtaken \ Emptied) \cup
       {k \in Emptied \ Started : \E q \in pending : q.kind = k}
  /\ UNCHANGED <<contextInfo, hasty, events>>

-----------------------------------------------------------------------------
(* What the tabs of a workload show: the query whose answer they show, or  *)
(* why they show none.  They differ in what they test, and in which order. *)

Says(what) == [says |-> what, of |-> None]

Answered == IF shown.details = None THEN Says("empty") ELSE [says |-> "data", of |-> shown.details]

PodTab ==
  CASE sel.workload = None -> Says("unselected")
    [] sel.workload # None /\ loading.details -> Says("loading")
    [] OTHER -> Answered

EnvTabContent == IF loading.details THEN Says("loading") ELSE Answered

\* The sections of the health tab, one of which is the timeline.
TimelineTab == IF loading.details THEN Says("loading") ELSE Answered
HealthTab == IF sel.workload = None THEN Says("unselected") ELSE TimelineTab

EnvTab ==
  CASE loading.details -> Says("loading")
    [] ~loading.details /\ sel.workload = None -> Says("unselected")
    [] OTHER -> Answered

SpecTab == EnvTab

Tabs == {PodTab, EnvTabContent, HealthTab, EnvTab, SpecTab}

-----------------------------------------------------------------------------
(* Answers.                                                                *)

\* fetchContext succeeds or fails; the current context becomes the selected one.
ContextArrives ==
  /\ ContextRequest \in pending
  /\ pending' = pending \ {ContextRequest}
  /\ contextInfo' \in BOOLEAN
  /\ sel' = IF contextInfo' /\ Current # Unset
              THEN [sel EXCEPT !.context = Current] ELSE sel
  /\ UNCHANGED <<rendered, shown, loading, asked, overtaken, hasty, events>>

\* An answer is dealt with, whatever it is: the finally block clears the flag.
Settle(r, ok) ==
  /\ r \in pending
  /\ pending' = pending \ {r}
  /\ loading' = [loading EXCEPT ![r.kind] = FALSE]
  /\ asked' = [asked EXCEPT ![r.kind].ok =
                 IF r.number = asked[r.kind].number THEN ok ELSE @]
  /\ overtaken' = overtaken \cup
       {k \in {r.kind} : \E q \in pending : q.kind = k /\ q.number < r.number}
  /\ UNCHANGED <<rendered, contextInfo, hasty, events>>

\* Mutant of NamespacesArrive: an empty list is not taken over.
NamespacesArriveUnlessEmpty(r) ==
  /\ r.kind = "namespaces"
  /\ Settle(r, TRUE)
  /\ IF NamespacesOf[r.query] = <<>>
       THEN UNCHANGED <<shown, sel>>
       ELSE /\ shown' = [shown EXCEPT !.namespaces = r.query]
            /\ sel' = [sel EXCEPT !.namespace = Preselected(r.query)]

NamespacesArrive(r) ==
  /\ r.kind = "namespaces"
  /\ Settle(r, TRUE)
  /\ shown' = [shown EXCEPT !.namespaces = r.query]
  /\ sel' = IF NamespacesOf[r.query] = <<>> THEN sel
            ELSE [sel EXCEPT !.namespace = Preselected(r.query)]

WorkloadsArrive(r) ==
  /\ r.kind = "workloads"
  /\ Settle(r, TRUE)
  /\ shown' = [shown EXCEPT !.workloads = r.query]
  /\ UNCHANGED sel

DetailsArrive(r) ==
  /\ r.kind = "details"
  /\ Settle(r, TRUE)
  /\ shown' = [shown EXCEPT !.details = r.query]
  /\ UNCHANGED sel

\* An error leaves the lists, but empties the details.
Fails(r) ==
  /\ r.kind \in Kinds
  /\ Settle(r, FALSE)
  /\ shown' = [k \in Kinds |-> IF k = r.kind /\ k = "details" THEN None ELSE shown[k]]
  /\ UNCHANGED sel

-----------------------------------------------------------------------------
(* The user, who chooses from what is shown.                               *)

Acts == events < MaxEvents /\ events' = events + 1

ChooseContext(c) ==
  /\ Acts
  /\ contextInfo /\ c # sel.context
  /\ sel' = [sel EXCEPT !.context = c]
  /\ UNCHANGED <<rendered, contextInfo, shown, loading, pending, asked, overtaken, hasty>>

ChooseNamespace(n) ==
  /\ Acts
  /\ shown.namespaces # None
  /\ n \in Range(NamespacesOf[shown.namespaces]) \ {sel.namespace}
  /\ sel' = [sel EXCEPT !.namespace = n]
  /\ UNCHANGED <<rendered, contextInfo, shown, loading, pending, asked, overtaken, hasty>>

ChooseWorkload(i) ==
  /\ Acts
  /\ shown.workloads # None
  /\ sel' = [sel EXCEPT !.workload = [from |-> shown.workloads, item |-> i]]
  /\ sel' # sel
  /\ hasty' = (hasty \/ \E r \in pending : r.kind = "workloads")
  /\ UNCHANGED <<rendered, contextInfo, shown, loading, pending, asked, overtaken>>

-----------------------------------------------------------------------------
User ==
  \/ \E c \in Contexts : ChooseContext(c)
  \/ \E n \in Names : ChooseNamespace(n)
  \/ \E i \in Items : ChooseWorkload(i)

Answer(r) ==
  NamespacesArrive(r) \/ WorkloadsArrive(r) \/ DetailsArrive(r) \/ Fails(r)

Next == Render \/ ContextArrives \/ (\E r \in pending : Answer(r)) \/ User

Spec == Init /\ [][Next]_vars

-----------------------------------------------------------------------------
(* Properties.                                                             *)

TypeOK ==
  /\ sel \in Selections /\ rendered \in Selections
  /\ contextInfo \in BOOLEAN
  /\ DOMAIN shown = Kinds /\ DOMAIN asked = Kinds
  /\ \A k \in Kinds :
       /\ shown[k] \in Queries[k] \cup {None}
       /\ asked[k] \in [number : Nat, query : Queries[k] \cup {None}, ok : BOOLEAN]
  /\ loading \in [Kinds -> BOOLEAN]
  /\ \A r \in pending \ {ContextRequest} :
       /\ r \in [kind : Kinds, number : Nat, query : Queries[r.kind]]
       /\ r.number \in 1..asked[r.kind].number
  /\ overtaken \subseteq Kinds
  /\ hasty \in BOOLEAN
  /\ events \in 0..MaxEvents

\* What is set is on the screen, and no request is under way.
AtRest == sel = rendered /\ pending = {}

\* After every commit the last request of each kind is the one for what is
\* selected: no chain of effects, which reset each other's dependencies, ends with
\* a selection nobody asked about.
LastAskedIsSelected ==
  sel = rendered =>
    /\ asked.namespaces.query = Query(sel).namespaces
    /\ sel.namespace # None => asked.workloads.query = Query(sel).workloads
    /\ sel.workload # None => asked.details.query = Query(sel).details

\* The last request of the kind succeeded and no answer to an older one came later.
Trusted(k) == asked[k].ok /\ k \notin overtaken

\* At rest the lists and every tab show what is selected, and the tabs show no workload
\* when none is selected, unless answers came out of order or the last one is an error
\* (nothing else goes wrong, however quick the user is).
ShownIsSelectedAtRest ==
  AtRest =>
    /\ Trusted("namespaces") => shown.namespaces = Query(sel).namespaces
    /\ Trusted("workloads") /\ sel.namespace # None =>
         shown.workloads = Query(sel).workloads
    /\ Trusted("details") /\ sel.workload # None =>
         Tabs = {[says |-> "data", of |-> Query(sel).details]}
    /\ "details" \notin overtaken /\ sel.workload = None =>
         Tabs \subseteq {Says("unselected"), Says("empty")}

\* At rest the selected namespace is one of the selected context, and the selected
\* workload one of the selected namespace, with the same exceptions, a context with
\* no namespace, and a workload chosen while the list was being replaced.
SelectionNestsAtRest ==
  AtRest =>
    /\ Trusted("namespaces") /\ NamespacesOf[sel.context] # <<>> =>
         sel.namespace \in Range(NamespacesOf[sel.context])
    /\ Trusted("workloads") /\ ~hasty /\ {sel.namespace, sel.workload} \cap {None} = {} =>
         sel.workload.from = Query(sel).workloads

\* The effects that set each other's dependencies do not set one another off for
\* ever: the requests are bounded by what the user did.
EffectsSettle ==
  /\ asked.namespaces.number <= 2 + events
  /\ asked.workloads.number <= 2 * asked.namespaces.number + events
  /\ asked.details.number <= 2 * events

=============================================================================

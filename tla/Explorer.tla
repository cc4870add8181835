------------------------------ MODULE Explorer ------------------------------
(***************************************************************************)
(* The two places a namespace and a workload are chosen in: the side bar   *)
(* (components/workload-explorer.tsx) and the search of the top bar        *)
(* (components/global-search.tsx), on the lists of useMonitorData          *)
(* (hooks/use-monitor-data.ts).  The effects that a change of context or   *)
(* of namespace sets off, which Selection takes one commit at a time, are  *)
(* part of the action that makes the change.                               *)
(*                                                                         *)
(* A term that is typed is the set of the things whose name (or kind)      *)
(* contains it.  Paging and the arrow keys do not count as events.         *)
(***************************************************************************)
EXTENDS Scope, Sequences, Bags

CONSTANTS
  Start,         \* the context selected once the contexts are known
  Preferred,     \* "mfoa-sit"
  NamespacesOf,  \* the namespaces of each context, as a sequence
  WorkloadsOf,   \* [context][namespace]: its workloads, as a sequence
  Terms,         \* what is typed into the three inputs
  Blank,         \* nothing typed
  PerPage,       \* WORKLOADS_PER_PAGE
  MostNamespaces, MostWorkloads  \* the results of the search: 5 and 8

ASSUME ExplorerAssumption ==
  /\ Start \in Contexts
  /\ NamespacesOf \in [Contexts -> Seq(Names)]
  /\ Blank \notin Terms
  /\ {PerPage, MostNamespaces, MostWorkloads} \subseteq Nat \ {0}

VARIABLES
  namespaces, workloads,  \* the lists in the state
  workload,               \* selectedWorkload
  loadingNamespaces, loadingWorkloads,
  requests,               \* a bag: no request is aborted
  namespaceSearch, workloadSearch,
  page,                   \* workloadPage
  search,                 \* the global search: [query, open, focus]
  moved,                  \* history: its results changed since focus was last set
  replaced                \* history: a late list came while a later page was shown

lists == <<namespaces, workloads, loadingNamespaces, loadingWorkloads, requests>>
explorerVars ==
  <<lists, workload, namespaceSearch, workloadSearch, page, search, moved, replaced>>

ExplorerInit ==
  /\ scope = [context |-> Start, namespace |-> None]
  /\ namespaces = <<>> /\ workloads = <<>>
  /\ workload = None
  /\ loadingNamespaces = TRUE /\ loadingWorkloads = FALSE
  /\ requests = SetToBag({[kind |-> "namespaces", of |-> scope]})
  /\ namespaceSearch = Blank /\ workloadSearch = Blank
  /\ page = 1
  /\ search = [query |-> Blank, open |-> FALSE, focus |-> 1]
  /\ moved = FALSE /\ replaced = FALSE

-----------------------------------------------------------------------------
(* What is derived from the state on every render.                         *)

Least(a, b) == IF a < b THEN a ELSE b
Most(a, b) == IF a < b THEN b ELSE a

Matching(list, term) ==
  IF term = Blank THEN list ELSE SelectSeq(list, LAMBDA x : x \in term)

filteredNamespaces == Matching(namespaces, namespaceSearch)
filteredWorkloads == Matching(workloads, workloadSearch)

totalWorkloadPages ==
  Most(1, (Len(filteredWorkloads) + PerPage - 1) \div PerPage)

currentWorkloadPage == Least(page, totalWorkloadPages)

displayedWorkloads ==
  SubSeq(filteredWorkloads, (currentWorkloadPage - 1) * PerPage + 1,
         Least(currentWorkloadPage * PerPage, Len(filteredWorkloads)))

\* The side bar: no rows while their list is loading, and the buttons that are enabled.
SideBar ==
  [namespaces |-> IF loadingNamespaces THEN <<>> ELSE filteredNamespaces,
   workloads |-> IF loadingWorkloads THEN <<>> ELSE displayedWorkloads,
   prev |-> totalWorkloadPages > 1 /\ currentWorkloadPage # 1,
   next |-> totalWorkloadPages > 1 /\ currentWorkloadPage # totalWorkloadPages]

In(x, list) == \E i \in DOMAIN list : list[i] = x

\* The global search looks through the whole lists, namespaces first.
First(list, most) ==
  IF search.query = Blank THEN <<>>
  ELSE SubSeq(Matching(list, search.query), 1,
              Least(most, Len(Matching(list, search.query))))

nsResults == First(namespaces, MostNamespaces)
wlResults == First(workloads, MostWorkloads)
totalResults == Len(nsResults) + Len(wlResults)

-----------------------------------------------------------------------------
(* The requests.                                                           *)

FetchWorkloads ==
  /\ workloads' = <<>>
  /\ workloadSearch' = Blank
  /\ page' = 1 /\ replaced' = FALSE
  /\ workload' = None
  /\ loadingWorkloads' = TRUE

Asking(kind, s) == SetToBag({[kind |-> kind, of |-> s]})

\* The namespace becomes n; only another one is asked for its workloads.
SetNamespace(n, others) ==
  /\ scope' = [scope EXCEPT !.namespace = n]
  /\ IF n = scope.namespace
       THEN /\ requests' = others
            /\ UNCHANGED <<workloads, workloadSearch, page, replaced, workload,
                           loadingWorkloads>>
       ELSE /\ requests' = others (+) Asking("workloads", scope')
            /\ FetchWorkloads

\* History, for an action that does not set the focus.
Watch == moved' = (moved \/ nsResults' # nsResults \/ wlResults' # wlResults)

Preselected(c) ==
  IF In(Preferred, NamespacesOf[c]) THEN Preferred ELSE NamespacesOf[c][1]

NamespacesArrive(r) ==
  /\ r.kind = "namespaces"
  /\ namespaces' = NamespacesOf[r.of.context]
  /\ loadingNamespaces' = FALSE
  /\ IF namespaces' # <<>>
       THEN SetNamespace(Preselected(r.of.context), requests (-) SetToBag({r}))
       ELSE /\ requests' = requests (-) SetToBag({r})
            /\ UNCHANGED <<scope, workloads, workloadSearch, page, replaced, workload,
                           loadingWorkloads>>
  /\ UNCHANGED <<namespaceSearch, search, events>>
  /\ Watch

WorkloadsArrive(r) ==
  /\ r.kind = "workloads"
  /\ requests' = requests (-) SetToBag({r})
  /\ workloads' = WorkloadsOf[r.of.context][r.of.namespace]
  /\ loadingWorkloads' = FALSE
  /\ replaced' = (replaced \/ page > 1)
  /\ UNCHANGED <<scope, namespaces, loadingNamespaces, workload, namespaceSearch,
                 workloadSearch, page, search, events>>
  /\ Watch

RequestFails(r) ==
  /\ requests' = requests (-) SetToBag({r})
  /\ loadingNamespaces' = (loadingNamespaces /\ r.kind # "namespaces")
  /\ loadingWorkloads' = (loadingWorkloads /\ r.kind # "workloads")
  /\ UNCHANGED <<scope, namespaces, workloads, workload, namespaceSearch,
                 workloadSearch, page, search, moved, replaced, events>>

-----------------------------------------------------------------------------
(* The top bar and the side bar.                                           *)

\* A press of the mouse elsewhere closes the global search, the keyboard does not.
Elsewhere == search' \in {search, [search EXCEPT !.open = FALSE]}

\* The effects run with the new context and still the old namespace, whose workloads
\* are asked for too.
ChooseContext(c) ==
  /\ Acts("explorer")
  /\ c # scope.context
  /\ scope' = [context |-> c, namespace |-> None]
  /\ namespaces' = <<>>
  /\ loadingNamespaces' = TRUE
  /\ IF scope.namespace = None
       THEN /\ requests' = requests (+) Asking("namespaces", scope')
            /\ UNCHANGED <<workloads, workloadSearch, page, replaced, workload,
                           loadingWorkloads>>
       ELSE /\ requests' = requests (+) Asking("namespaces", scope')
                             (+) Asking("workloads", [scope EXCEPT !.context = c])
            /\ FetchWorkloads
  /\ Elsewhere
  /\ Watch
  /\ UNCHANGED namespaceSearch

TypeNamespaceSearch(term) ==
  /\ Acts("explorer")
  /\ term # namespaceSearch
  /\ namespaceSearch' = term
  /\ Elsewhere
  /\ UNCHANGED <<scope, lists, workload, workloadSearch, page, moved, replaced>>

\* Mutant of TypeWorkloadSearch: the page stays where it was.
TypeWorkloadSearchSamePage(term) ==
  /\ Acts("explorer")
  /\ term # workloadSearch
  /\ workloadSearch' = term
  /\ Elsewhere
  /\ UNCHANGED <<scope, lists, workload, namespaceSearch, page, moved, replaced>>

TypeWorkloadSearch(term) ==
  /\ Acts("explorer")
  /\ term # workloadSearch
  /\ workloadSearch' = term
  /\ page' = 1 /\ replaced' = FALSE
  /\ Elsewhere
  /\ UNCHANGED <<scope, lists, workload, namespaceSearch, moved>>

ClickNamespace(n) ==
  /\ Acts("explorer")
  /\ In(n, SideBar.namespaces)
  /\ search' = [search EXCEPT !.open = FALSE]
  /\ IF n = scope.namespace
       THEN /\ page' = 1 /\ replaced' = FALSE
            /\ UNCHANGED <<scope, requests, workloads, workloadSearch, workload,
                           loadingWorkloads>>
       ELSE SetNamespace(n, requests)
  /\ UNCHANGED <<namespaces, loadingNamespaces, namespaceSearch>>
  /\ Watch

ClickWorkload(w) ==
  /\ Acts("explorer")
  /\ In(w, SideBar.workloads)
  /\ workload' = w
  /\ search' = [search EXCEPT !.open = FALSE]
  /\ UNCHANGED <<scope, lists, namespaceSearch, workloadSearch, page, moved, replaced>>

PrevPage ==
  /\ SideBar.prev
  /\ page' = Most(page - 1, 1)
  /\ Elsewhere
  /\ UNCHANGED <<scope, events, lists, workload, namespaceSearch, workloadSearch,
                 moved, replaced>>

NextPage ==
  /\ SideBar.next
  /\ page' = Least(page + 1, totalWorkloadPages)
  /\ Elsewhere
  /\ UNCHANGED <<scope, events, lists, workload, namespaceSearch, workloadSearch,
                 moved, replaced>>

-----------------------------------------------------------------------------
(* The global search.                                                      *)

Closed == [search EXCEPT !.open = FALSE, !.query = Blank]

\* Mutant of TypeQuery: the focus stays where it was.
TypeQuerySameFocus(term) ==
  /\ Acts("explorer")
  /\ term # search.query
  /\ search' = [search EXCEPT !.query = term, !.open = term # Blank]
  /\ moved' = FALSE
  /\ UNCHANGED <<scope, lists, workload, namespaceSearch, workloadSearch, page, replaced>>

TypeQuery(term) ==
  /\ Acts("explorer")
  /\ term # search.query
  /\ search' = [query |-> term, open |-> term # Blank, focus |-> 1]
  /\ moved' = FALSE
  /\ UNCHANGED <<scope, lists, workload, namespaceSearch, workloadSearch, page, replaced>>

\* Cmd+K, or a click into the input when something is typed.
Open ==
  /\ ~search.open
  /\ search' = [search EXCEPT !.open = TRUE]
  /\ UNCHANGED <<scope, events, lists, workload, namespaceSearch, workloadSearch, page,
                 moved, replaced>>

\* Escape, or the button that clears the input.
Close ==
  /\ search.open \/ search.query # Blank
  /\ search' = Closed
  /\ UNCHANGED <<scope, events, lists, workload, namespaceSearch, workloadSearch, page,
                 replaced>>
  /\ Watch

Focused == search.open /\ totalResults > 0

ArrowKey ==
  /\ Focused
  /\ \E f \in {Least(search.focus + 1, totalResults), Most(search.focus - 1, 1)} :
       search' = [search EXCEPT !.focus = f]
  /\ search' # search
  /\ UNCHANGED <<scope, events, lists, workload, namespaceSearch, workloadSearch, page,
                 moved, replaced>>

MouseEnter(i) ==
  /\ Focused
  /\ search' = [search EXCEPT !.focus = i]
  /\ search' # search
  /\ moved' = FALSE
  /\ UNCHANGED <<scope, events, lists, workload, namespaceSearch, workloadSearch, page,
                 replaced>>

\* Enter, or a click on the result: beyond the results, the workload is undefined.
Pick(i) ==
  /\ Acts("explorer")
  /\ Focused
  /\ search' = Closed
  /\ IF i <= Len(nsResults)
       THEN SetNamespace(nsResults[i], requests)
       ELSE /\ workload' = IF i <= totalResults THEN wlResults[i - Len(nsResults)] ELSE None
            /\ UNCHANGED <<scope, requests, workloads, workloadSearch, page, replaced,
                           loadingWorkloads>>
  /\ UNCHANGED <<namespaces, loadingNamespaces, namespaceSearch>>
  /\ Watch

-----------------------------------------------------------------------------
ExplorerAnswered ==
  \E r \in BagToSet(requests) : NamespacesArrive(r) \/ WorkloadsArrive(r) \/ RequestFails(r)

SideBarUsed ==
  \/ \E term \in Terms \cup {Blank} : TypeNamespaceSearch(term) \/ TypeWorkloadSearch(term)
  \/ \E n \in Names : ClickNamespace(n)
  \/ \E i \in DOMAIN displayedWorkloads : ClickWorkload(displayedWorkloads[i])
  \/ PrevPage \/ NextPage

SearchUsed ==
  \/ \E term \in Terms \cup {Blank} : TypeQuery(term)
  \/ Open \/ Close
  \/ ArrowKey
  \/ \E i \in 1..totalResults : MouseEnter(i)
  \/ Pick(search.focus)

ExplorerNext ==
  \/ ExplorerAnswered
  \/ \E c \in Contexts : ChooseContext(c)
  \/ SideBarUsed
  \/ SearchUsed

-----------------------------------------------------------------------------
(* Properties.                                                             *)

\* Enter in the global search picks one of its results, never something undefined
\* beyond them, unless a list has changed under the focus.
EnterPicksAResult == totalResults > 0 /\ ~moved => search.focus <= totalResults

\* A paging button that is enabled moves the page shown by one, whatever was filtered
\* or selected before; the one back, unless a late answer replaced the list under a
\* later page.
PagingButtonsMove ==
  [][ /\ ~replaced /\ PrevPage => currentWorkloadPage' + 1 = currentWorkloadPage
      /\ NextPage => currentWorkloadPage' = currentWorkloadPage + 1
    ]_<<scope, explorerVars>>

=============================================================================

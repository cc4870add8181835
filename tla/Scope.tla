------------------------------- MODULE Scope --------------------------------
(***************************************************************************)
(* What the panels of the page share: the selected context and namespace   *)
(* (selectedContext and selectedNamespace of useMonitorData, handed to     *)
(* every panel by page.tsx).  Explorer changes them, ChainPanel and        *)
(* ServiceMapPanel follow them, Workspace puts the three together.  What   *)
(* the user does in the panels is bounded by one of the Budgets.           *)
(***************************************************************************)
EXTENDS Naturals

CONSTANTS
  Contexts,  \* the contexts of the kubeconfig
  Names,     \* names of namespaces
  None,      \* the empty string, or null
  Budgets    \* how much the user does at most in each panel, a set of choices

ASSUME ScopeAssumption ==
  /\ None \notin Contexts \cup Names
  /\ Budgets \subseteq [{"explorer", "chain", "map"} -> Nat]

VARIABLES
  scope,  \* [context, namespace]
  events  \* what the user has done so far in each panel

Scopes == [context : Contexts, namespace : Names \cup {None}]

Panels == {"explorer", "chain", "map"}

Within(used) == \E b \in Budgets : \A p \in Panels : used[p] <= b[p]

Acts(panel) ==
  /\ events' = [events EXCEPT ![panel] = @ + 1]
  /\ Within(events')

=============================================================================

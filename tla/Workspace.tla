----------------------------- MODULE Workspace ------------------------------
(***************************************************************************)
(* The panels of the page together (app/page.tsx): the explorer and the    *)
(* global search choose the context and the namespace, and the request     *)
(* chain and the service map are asked for what is chosen.  The effect of  *)
(* the service map runs in the commit of the change; the request chain     *)
(* keeps what it shows.                                                    *)
(***************************************************************************)
EXTENDS Explorer, ChainPanel, ServiceMapPanel

vars == <<scope, events, explorerVars, chainVars, mapVars>>

Init ==
  /\ ExplorerInit /\ ChainInit /\ MapInit
  /\ events = [p \in Panels |-> 0]

Next ==
  \/ ExplorerNext /\ MapEffect /\ UNCHANGED chainVars
  \/ ChainNext /\ UNCHANGED <<scope, explorerVars, mapVars>>
  \/ MapNext /\ UNCHANGED <<scope, explorerVars, chainVars>>

Spec == Init /\ [][Next]_vars

=============================================================================

--------------------------- MODULE ServiceMapPanel ---------------------------
(***************************************************************************)
(* The service map of the selected namespace: useServiceMap                *)
(* (hooks/use-service-map.ts), which ignores the answers it has cancelled  *)
(* and never aborts a request, and ServiceMapView                          *)
(* (components/service-map-view.tsx).  No page of the repository mounts    *)
(* them yet; they are modelled as a panel of the page that has a map to    *)
(* show when the hook returns one.                                         *)
(*                                                                         *)
(* The map of a scope is [nodes, kind, edges].  Coordinates, colours and   *)
(* texts are left out, and computeCascadeRisk has no body yet: nothing is  *)
(* at risk.                                                                *)
(***************************************************************************)
EXTENDS Scope, FiniteSets

CONSTANT
  MapOf  \* the service map of each scope

VARIABLES
  data,        \* the scope whose map is in the state, or None
  mapLoading, mapError,
  mapRequests, \* [of, cancelled]: the scope and its cancelled flag
  node,        \* localSelectedNodeId
  hovered      \* hoveredId

mapVars == <<data, mapLoading, mapError, mapRequests, node, hovered>>

MapInit ==
  /\ data = None
  /\ mapLoading = FALSE /\ mapError = FALSE
  /\ mapRequests = {}
  /\ node = None /\ hovered = None

-----------------------------------------------------------------------------
(* What the hook returns, and what the view shows of it.                   *)

Returned ==
  [data |-> IF scope.namespace = None THEN None ELSE data,
   loading |-> scope.namespace # None /\ mapLoading,
   error |-> scope.namespace # None /\ mapError]

layerOrder(kind) == CASE kind = "Ingress" -> 0 [] kind = "Service" -> 1 [] OTHER -> 2

\* The rows of computeLayout from top to bottom.
Layers(nodes, kind) == [l \in 0..2 |-> {n \in nodes : layerOrder(kind[n]) = l}]

\* What is drawn: the nodes in their rows, the edges both of whose ends are drawn, those
\* that are dimmed while a node is hovered, and, of the selected node if the map has it,
\* the edges that its panel lists.
View ==
  LET m == MapOf[Returned.data]
      chosen == {node} \cap m.nodes
  IN  [layers |-> Layers(m.nodes, m.kind),
       edges |-> {e \in m.edges : {e.source, e.target} \subseteq m.nodes},
       dimmed |-> {e \in m.edges : hovered \notin {None, e.target}},
       detail |-> chosen,
       inbound |-> {e \in m.edges : e.target \in chosen},
       outbound |-> {e \in m.edges : e.source \in chosen}]

Drawn == IF Returned.data = None THEN {} ELSE UNION {View.layers[l] : l \in 0..2}

-----------------------------------------------------------------------------
Cancelled(r) == [r EXCEPT !.cancelled = TRUE]

\* The view is unmounted, and forgets what was chosen in it, when there is no map.
Unmounted == data' = None \/ scope'.namespace = None

\* The effect of a new scope: the last request is cancelled, and the map of another
\* namespace asked for.  The map that is shown stays until it is answered.
MapEffect ==
  /\ IF scope' = scope
       THEN UNCHANGED <<mapLoading, mapError, mapRequests>>
       ELSE IF scope'.namespace = None
         THEN /\ mapRequests' = {Cancelled(r) : r \in mapRequests}
              /\ UNCHANGED <<mapLoading, mapError>>
         ELSE /\ mapRequests' = {Cancelled(r) : r \in mapRequests}
                                  \cup {[of |-> scope', cancelled |-> FALSE]}
              /\ mapLoading' = TRUE /\ mapError' = FALSE
  /\ UNCHANGED data
  /\ IF Unmounted THEN node' = None /\ hovered' = None ELSE UNCHANGED <<node, hovered>>

\* Mutant of Heeded: a cancelled answer counts.
HeededAlways(r) == TRUE

Heeded(r) == ~r.cancelled

MapArrives(r) ==
  /\ mapRequests' = mapRequests \ {r}
  /\ IF Heeded(r)
       THEN data' = r.of /\ mapLoading' = FALSE
       ELSE UNCHANGED <<data, mapLoading>>
  /\ UNCHANGED <<mapError, node, hovered, events>>

\* An error leaves the map of before.
MapFails(r) ==
  /\ mapRequests' = mapRequests \ {r}
  /\ IF Heeded(r)
       THEN mapError' = TRUE /\ mapLoading' = FALSE
       ELSE UNCHANGED <<mapError, mapLoading>>
  /\ UNCHANGED <<data, node, hovered, events>>

\* A click on a node selects it, or no node if it is selected; the cross of its panel
\* does the same.
ClickNode(n) ==
  /\ Acts("map")
  /\ n \in Drawn
  /\ node' = IF node = n THEN None ELSE n
  /\ UNCHANGED <<data, mapLoading, mapError, mapRequests, hovered>>

HoverNode(n) ==
  /\ Acts("map")
  /\ n \in Drawn \cup {None} /\ n # hovered
  /\ hovered' = n
  /\ UNCHANGED <<data, mapLoading, mapError, mapRequests, node>>

-----------------------------------------------------------------------------
Nodes == UNION {MapOf[s].nodes : s \in DOMAIN MapOf}

MapNext ==
  \/ \E r \in mapRequests : MapArrives(r) \/ MapFails(r)
  \/ \E n \in Nodes : ClickNode(n) \/ HoverNode(n)
  \/ HoverNode(None)

-----------------------------------------------------------------------------
(* Properties.                                                             *)

\* When the hook reports neither loading nor an error, the map it returns is that of
\* the selected context and namespace, however quickly these were changed; and it
\* reports loading only while an answer that it will heed is awaited.
MapSettles ==
  /\ scope.namespace # None /\ ~Returned.loading /\ ~Returned.error =>
       Returned.data = scope
  /\ Returned.loading => \E r \in mapRequests : Heeded(r) /\ r.of = scope

=============================================================================

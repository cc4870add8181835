---------------------------- MODULE MCWorkspace -----------------------------
EXTENDS Workspace

CONSTANTS c1, c2, n1, n2, w1, w2, w3, w4, trace, corr

\* The second namespace of the first context has fewer pages than the first, the
\* second context one namespace.
MCNamespacesOf == c1 :> <<n1, n2>> @@ c2 :> <<n1>>
MCWorkloadsOf ==
  c1 :> (n1 :> <<w1, w2, w3>> @@ n2 :> <<w4>>) @@ c2 :> (n1 :> <<w2, w4>> @@ n2 :> <<>>)

\* A term that some of everything has, and one that little has.
MCTerms == {{n1, n2, w1, w2}, {w2}}

Budget(e, c, m) == [explorer |-> e, chain |-> c, map |-> m]
MCBudgets == {Budget(2, 0, 1), Budget(1, 2, 1), Budget(0, 5, 0)}

Item(w, e, s, t, to) ==
  [workload |-> w, event |-> e, span |-> s, time |-> t, target |-> to]

\* A trace with a repeated span whose last item is not its latest, an item without a
\* time and one without a span; and a query that matches nothing.
MCItemsOf ==
  trace :> <<Item(1, "http-request", "a", 2, None), Item(2, "kafka-publish", "b", 1, "topic"),
             Item(2, "log", None, 4, None), Item(1, "http-call", "a", 5, None),
             Item(1, "kafka", "b", None, None), Item(2, "log", "a", 3, None)>>
  @@ corr :> <<>>

MCMapOf ==
  [s \in [context : Contexts, namespace : Names] |->
     [nodes |-> {s.namespace, "svc"},
      kind |-> s.namespace :> "Deployment" @@ "svc" :> "Service",
      edges |-> {[source |-> "svc", target |-> s.namespace]}]]

=============================================================================

-------------------------- MODULE SelectionProofs ---------------------------
(* Theorems about Selection, for any contexts, namespaces and workloads and  *)
(* any number of things the user does.                                       *)
EXTENDS Selection, FiniteSetTheorems, TLAPS

\* The requests of one kind under way.
Of(k) == {r \in pending : r.kind = k}

LastIsLast ==
  \A r \in pending \ {ContextRequest} :
    r.number = asked[r.kind].number => r.query = asked[r.kind].query

\* The last request of each kind was for the values of the last commit.
AskedRendered ==
  /\ asked.namespaces.query = Query(rendered).namespaces
  /\ rendered.namespace # None => asked.workloads.query = Query(rendered).workloads
  /\ rendered.workload # None => asked.details.query = Query(rendered).details

LoadingIsPending == \A k \in Kinds : loading[k] => Of(k) # {}

\* A kind whose last request succeeded, with no older one to follow, has no request
\* under way, and what that request asked for is shown; details may have been emptied
\* since.
TrustedIsShown ==
  /\ \A k \in Kinds : Trusted(k) =>
       /\ Of(k) = {}
       /\ (k = "details" => rendered.workload # None) => shown[k] = asked[k].query
  /\ "details" \notin overtaken /\ rendered.workload = None =>
       Of("details") = {} /\ shown.details = None

Nested ==
  /\ Trusted("namespaces") /\ NamespacesOf[asked.namespaces.query] # <<>> =>
       sel.namespace \in Range(NamespacesOf[asked.namespaces.query])
  /\ ~hasty /\ Of("workloads") # {} => sel.workload = None
  /\ ~hasty /\ Trusted("workloads") /\ sel.workload # None =>
       sel.workload.from = asked.workloads.query

One(happens) == IF happens THEN 1 ELSE 0

\* The requests sent, and those that what happened so far can still set off.
NamespacesDue ==
  asked.namespaces.number + One(NamespacesEffect) + One(ContextRequest \in pending)
    <= 2 + events

WorkloadsDue ==
  asked.workloads.number + One(sel.namespace \notin {None, rendered.namespace})
      + Cardinality(Of("namespaces"))
    <= 2 * asked.namespaces.number + events

DetailsDue ==
  /\ events = 0 => asked.details.number = 0 /\ sel.workload = None
  /\ events > 0 =>
       asked.details.number + One(DetailsEffect /\ sel.workload # None)
           + One(ContextRequest \in pending)
         <= events + 1

Due == NamespacesDue /\ WorkloadsDue /\ DetailsDue

IInv ==
  /\ TypeOK /\ IsFiniteSet(pending)
  /\ LastIsLast /\ AskedRendered /\ LoadingIsPending /\ TrustedIsShown
  /\ Nested /\ Due

-----------------------------------------------------------------------------
(* Facts about one state.                                                  *)

LEMMA RequestTyped ==
  ASSUME TypeOK, NEW r \in pending, r.kind \in Kinds
  PROVE  /\ r \in [kind : Kinds, number : Nat, query : Queries[r.kind]]
         /\ r.number \in 1..asked[r.kind].number
<1>1. r # ContextRequest
  BY DEF ContextRequest, Kinds
<1> QED
  BY <1>1 DEF TypeOK

LEMMA ContextRequestIsOther == \A k \in Kinds : ContextRequest.kind # k
BY DEF ContextRequest, Kinds

LEMMA OfIsFinite ==
  ASSUME IInv, NEW k
  PROVE  IsFiniteSet(Of(k)) /\ Cardinality(Of(k)) \in Nat
BY FS_Subset, FS_CardinalityType DEF IInv, Of

\* What a commit asks for is something the kind of request can ask for.
LEMMA QueryTyped ==
  ASSUME sel \in Selections, NEW k \in Started
  PROVE  Query(sel)[k] \in Queries[k]
<1>1. CASE k = "namespaces"
  BY <1>1 DEF Selections, Query, Queries
<1>2. CASE k = "workloads"
  <2>1. sel.namespace \in Names
    BY <1>2 DEF Started, WorkloadsEffect, Selections
  <2> QED
    BY <1>2, <2>1 DEF Selections, Query, Queries, Sources
<1>3. CASE k = "details"
  <2>1. sel.workload \in Workloads
    BY <1>3 DEF Started, Selections
  <2> QED
    BY <1>3, <2>1 DEF Selections, Query, Queries
<1> QED
  BY <1>1, <1>2, <1>3 DEF Started, Kinds

\* The namespace a list preselects is in the list.
LEMMA PreselectedIsListed ==
  ASSUME NEW c \in Contexts \cup {Unset}, NamespacesOf[c] # <<>>
  PROVE  Preselected(c) \in Range(NamespacesOf[c]) /\ Preselected(c) \in Names
<1>1. NamespacesOf[c] \in Seq(Names)
  BY SelectionAssumption
<1>2. Range(NamespacesOf[c]) \subseteq Names
  BY <1>1 DEF Range
<1>3. NamespacesOf[c][1] \in Range(NamespacesOf[c])
  BY <1>1 DEF Range
<1> QED
  BY <1>2, <1>3 DEF Preselected

-----------------------------------------------------------------------------
(* Steps.                                                                  *)

LEMMA InitInv == Init => IInv
<1> SUFFICES ASSUME Init PROVE IInv
  OBVIOUS
<1> DEFINE first == [kind |-> "namespaces", number |-> 1, query |-> Unset]
<1>1. /\ sel \in Selections /\ rendered = sel
      /\ sel.context = Unset /\ sel.namespace = None /\ sel.workload = None
  BY DEF Init, Selections
<1>2. /\ DOMAIN asked = Kinds
      /\ asked["namespaces"] = [number |-> 1, query |-> Unset, ok |-> FALSE]
      /\ asked["workloads"] = [number |-> 0, query |-> None, ok |-> FALSE]
      /\ asked["details"] = [number |-> 0, query |-> None, ok |-> FALSE]
  BY DEF Init, Kinds
<1>3. /\ first.kind = "namespaces" /\ first.number = 1 /\ first.query = Unset
      /\ pending = {ContextRequest, first}
      /\ first \in [kind : Kinds, number : Nat, query : Queries[first.kind]]
  BY DEF Init, Kinds, Queries
<1> HIDE DEF first
<1>4. TypeOK
  <2>1. \A k \in Kinds :
          /\ shown[k] = None
          /\ asked[k] \in [number : Nat, query : Queries[k] \cup {None}, ok : BOOLEAN]
    BY <1>2 DEF Init, Kinds, Queries
  <2>2. \A r \in pending \ {ContextRequest} :
          /\ r \in [kind : Kinds, number : Nat, query : Queries[r.kind]]
          /\ r.number \in 1..asked[r.kind].number
    BY <1>2, <1>3
  <2>3. events \in 0..MaxEvents /\ overtaken \subseteq Kinds
    BY SelectionAssumption DEF Init
  <2>4. contextInfo \in BOOLEAN /\ hasty \in BOOLEAN
    BY DEF Init
  <2>5. DOMAIN shown = Kinds /\ loading \in [Kinds -> BOOLEAN]
    BY DEF Init
  <2> QED
    BY <1>1, <1>2, <2>1, <2>2, <2>3, <2>4, <2>5 DEF TypeOK
<1>5. IsFiniteSet(pending)
  <2>1. IsFiniteSet({ContextRequest}) /\ pending = {ContextRequest} \cup {first}
    BY <1>3, FS_Singleton
  <2> QED
    BY <2>1, FS_AddElement
<1>6. LastIsLast
  BY <1>2, <1>3 DEF LastIsLast
<1>7. AskedRendered
  BY <1>1, <1>2 DEF AskedRendered, Query
<1>8. Of("namespaces") = {first} /\ Of("workloads") = {} /\ Of("details") = {}
  BY <1>3 DEF Of, ContextRequest
<1>9. LoadingIsPending
  BY <1>8 DEF LoadingIsPending, Init
<1>10. \A k \in Kinds : ~Trusted(k)
  BY <1>2 DEF Trusted, Kinds
<1>11. TrustedIsShown
  BY <1>8, <1>10 DEF TrustedIsShown, Init, Kinds
<1>12. Nested
  BY <1>1, <1>8, <1>10 DEF Nested, Kinds
<1>13. Due
  <2>1. ~NamespacesEffect /\ One(NamespacesEffect) = 0
    BY <1>1 DEF NamespacesEffect, One
  <2>2. One(ContextRequest \in pending) = 1
    BY <1>3 DEF One
  <2>3. One(sel.namespace \notin {None, rendered.namespace}) = 0
    BY <1>1 DEF One
  <2>4. Cardinality(Of("namespaces")) = 1
    BY <1>8, FS_Singleton
  <2>5. events = 0
    BY DEF Init
  <2> QED
    BY <1>1, <1>2, <2>1, <2>2, <2>3, <2>4, <2>5
    DEF Due, NamespacesDue, WorkloadsDue, DetailsDue
<1> QED
  BY <1>4, <1>5, <1>6, <1>7, <1>9, <1>11, <1>12, <1>13 DEF IInv

\* A step that only selects: no request is sent and none is answered but, perhaps, the
\* one for the contexts.
LEMMA SelectKeeps ==
  ASSUME IInv, sel' \in Selections, contextInfo' \in BOOLEAN, hasty' \in BOOLEAN,
         events' \in 0..MaxEvents, pending' \in {pending, pending \ {ContextRequest}},
         UNCHANGED <<rendered, shown, loading, asked, overtaken>>,
         Nested', Due'
  PROVE  IInv'
<1>1. IsFiniteSet(pending')
  BY FS_RemoveElement DEF IInv
<1>2. \A k \in Kinds : Of(k)' = Of(k)
  BY ContextRequestIsOther DEF Of
<1>3. TypeOK'
  <2>1. pending' \ {ContextRequest} = pending \ {ContextRequest}
    OBVIOUS
  <2> QED
    BY <2>1 DEF IInv, TypeOK
<1>4. LastIsLast' /\ AskedRendered'
  BY DEF IInv, LastIsLast, AskedRendered, Query
<1>5. LoadingIsPending' /\ TrustedIsShown'
  BY <1>2 DEF IInv, LoadingIsPending, TrustedIsShown, Trusted, Kinds
<1> QED
  BY <1>1, <1>3, <1>4, <1>5 DEF IInv

LEMMA ContextArrivesKeeps ==
  ASSUME IInv, ContextArrives
  PROVE  IInv'
<1>1. /\ ContextRequest \in pending /\ ContextRequest \notin pending'
      /\ pending' = pending \ {ContextRequest}
      /\ UNCHANGED <<rendered, shown, loading, asked, overtaken, hasty, events>>
  BY DEF ContextArrives
<1>2. /\ sel' \in Selections
      /\ sel'.namespace = sel.namespace /\ sel'.workload = sel.workload
  BY SelectionAssumption DEF ContextArrives, Selections, IInv, TypeOK
<1>3. \A k \in Kinds : Of(k)' = Of(k)
  BY <1>1, ContextRequestIsOther DEF Of
<1>4. Nested'
  BY <1>1, <1>2, <1>3 DEF IInv, Nested, Trusted, Kinds
<1>5. /\ One(ContextRequest \in pending) = 1 /\ One(ContextRequest \in pending)' = 0
  BY <1>1 DEF One
<1>6. /\ asked.namespaces.number \in Nat /\ asked.workloads.number \in Nat
      /\ asked.details.number \in Nat /\ events \in Nat
  BY DEF IInv, TypeOK, Kinds
<1>7. NamespacesDue'
  BY <1>1, <1>5, <1>6 DEF IInv, Due, NamespacesDue, One
<1>8. WorkloadsDue'
  BY <1>1, <1>2, <1>3 DEF IInv, Due, WorkloadsDue, Kinds
<1>9. DetailsDue'
  BY <1>1, <1>2, <1>5, <1>6 DEF IInv, Due, DetailsDue, One
<1> QED
  BY <1>1, <1>2, <1>4, <1>7, <1>8, <1>9, SelectKeeps DEF Due, ContextArrives, IInv, TypeOK

LEMMA ChooseContextKeeps ==
  ASSUME IInv, NEW c \in Contexts, ChooseContext(c)
  PROVE  IInv'
<1>1. /\ events' = events + 1 /\ events' \in 0..MaxEvents
      /\ UNCHANGED <<rendered, contextInfo, shown, loading, pending, asked, overtaken, hasty>>
  BY SelectionAssumption DEF ChooseContext, Acts, IInv, TypeOK
<1>2. /\ sel' \in Selections
      /\ sel'.namespace = sel.namespace /\ sel'.workload = sel.workload
  BY DEF ChooseContext, Selections, IInv, TypeOK
<1>3. \A k \in Kinds : Of(k)' = Of(k)
  BY <1>1 DEF Of
<1>4. Nested'
  BY <1>1, <1>2, <1>3 DEF IInv, Nested, Trusted, Kinds
<1>5. /\ asked.namespaces.number \in Nat /\ asked.workloads.number \in Nat
      /\ asked.details.number \in Nat /\ events \in Nat /\ Cardinality(Of("namespaces")) \in Nat
  BY OfIsFinite DEF IInv, TypeOK, Kinds
<1>6. NamespacesDue'
  BY <1>1, <1>5 DEF IInv, Due, NamespacesDue, One
<1>7. WorkloadsDue'
  <2>1. Cardinality(Of("namespaces"))' = Cardinality(Of("namespaces"))
    BY <1>3 DEF Kinds
  <2> QED
    BY <1>1, <1>2, <1>5, <2>1 DEF IInv, Due, WorkloadsDue, One
<1>8. DetailsDue'
  BY <1>1, <1>2, <1>5 DEF IInv, Due, DetailsDue, One
<1> QED
  BY <1>1, <1>2, <1>4, <1>6, <1>7, <1>8, SelectKeeps DEF Due, IInv, TypeOK

LEMMA ChooseNamespaceKeeps ==
  ASSUME IInv, NEW n \in Names, ChooseNamespace(n)
  PROVE  IInv'
<1>1. /\ events' = events + 1 /\ events' \in 0..MaxEvents
      /\ UNCHANGED <<rendered, contextInfo, shown, loading, pending, asked, overtaken, hasty>>
      /\ n \in Range(NamespacesOf[shown.namespaces])
  BY SelectionAssumption DEF ChooseNamespace, Acts, IInv, TypeOK
<1>2. /\ sel' \in Selections /\ sel'.namespace = n
      /\ sel'.context = sel.context /\ sel'.workload = sel.workload
  BY DEF ChooseNamespace, Selections, IInv, TypeOK
<1>3. \A k \in Kinds : Of(k)' = Of(k)
  BY <1>1 DEF Of
<1>4. Nested'
  <2>1. Trusted("namespaces") => shown.namespaces = asked.namespaces.query
    BY DEF IInv, TrustedIsShown, Kinds
  <2> QED
    BY <1>1, <1>2, <1>3, <2>1 DEF IInv, Nested, Trusted, Kinds
<1>5. /\ asked.namespaces.number \in Nat /\ asked.workloads.number \in Nat
      /\ asked.details.number \in Nat /\ events \in Nat /\ Cardinality(Of("namespaces")) \in Nat
  BY OfIsFinite DEF IInv, TypeOK, Kinds
<1>6. NamespacesDue'
  BY <1>1, <1>2, <1>5 DEF IInv, Due, NamespacesDue, NamespacesEffect, One
<1>7. WorkloadsDue'
  <2>1. Cardinality(Of("namespaces"))' = Cardinality(Of("namespaces"))
    BY <1>3 DEF Kinds
  <2> QED
    BY <1>1, <1>2, <1>5, <2>1 DEF IInv, Due, WorkloadsDue, One
<1>8. DetailsDue'
  BY <1>1, <1>2, <1>5 DEF IInv, Due, DetailsDue, DetailsEffect, One
<1> QED
  BY <1>1, <1>2, <1>4, <1>6, <1>7, <1>8, SelectKeeps DEF Due, IInv, TypeOK

LEMMA ChooseWorkloadKeeps ==
  ASSUME IInv, NEW i \in Items, ChooseWorkload(i)
  PROVE  IInv'
<1>1. /\ events' = events + 1 /\ events' \in 0..MaxEvents
      /\ UNCHANGED <<rendered, contextInfo, shown, loading, pending, asked, overtaken>>
      /\ hasty' = (hasty \/ \E r \in pending : r.kind = "workloads")
  BY SelectionAssumption DEF ChooseWorkload, Acts, IInv, TypeOK
<1>2. hasty' \in BOOLEAN
  BY <1>1 DEF IInv, TypeOK
<1>3. /\ sel' \in Selections /\ sel'.workload.from = shown.workloads
      /\ sel'.context = sel.context /\ sel'.namespace = sel.namespace
  <2>1. shown.workloads \in Sources
    BY DEF ChooseWorkload, IInv, TypeOK, Kinds, Queries
  <2>2. [from |-> shown.workloads, item |-> i] \in Workloads
    BY <2>1 DEF Workloads
  <2> QED
    BY <2>2 DEF ChooseWorkload, Selections, IInv, TypeOK
<1>4. \A k \in Kinds : Of(k)' = Of(k)
  BY <1>1 DEF Of
<1>5. Nested'
  <2>1. Trusted("workloads") => shown.workloads = asked.workloads.query
    BY DEF IInv, TrustedIsShown, Kinds
  <2>2. ~hasty' => ~hasty /\ Of("workloads") = {}
    BY <1>1 DEF Of
  <2> QED
    BY <1>1, <1>3, <1>4, <2>1, <2>2 DEF IInv, Nested, Trusted, Kinds
<1>6. /\ asked.namespaces.number \in Nat /\ asked.workloads.number \in Nat
      /\ asked.details.number \in Nat /\ events \in Nat
  BY DEF IInv, TypeOK, Kinds
<1>7. NamespacesDue'
  BY <1>1, <1>3, <1>6 DEF IInv, Due, NamespacesDue, NamespacesEffect, One
<1>8. WorkloadsDue'
  <2>1. /\ Cardinality(Of("namespaces"))' = Cardinality(Of("namespaces"))
        /\ Cardinality(Of("namespaces")) \in Nat
    BY <1>4, OfIsFinite DEF Kinds
  <2> QED
    BY <1>1, <1>3, <1>6, <2>1 DEF IInv, Due, WorkloadsDue, One
<1>9. DetailsDue'
  BY <1>1, <1>6 DEF IInv, Due, DetailsDue, One
<1> QED
  BY <1>1, <1>2, <1>3, <1>5, <1>7, <1>8, <1>9, SelectKeeps DEF Due, IInv, TypeOK

\* What an answer does to the requests of its kind, and leaves of the others.
LEMMA SettledFacts ==
  ASSUME IInv, NEW r \in pending, NEW ok \in BOOLEAN, r.kind \in Kinds, Settle(r, ok)
  PROVE  /\ r \in [kind : Kinds, number : Nat, query : Queries[r.kind]]
         /\ r # ContextRequest
         /\ pending' = pending \ {r} /\ IsFiniteSet(pending')
         /\ DOMAIN asked' = Kinds
         /\ \A k \in Kinds :
              /\ asked'[k].number = asked[k].number /\ asked'[k].query = asked[k].query
              /\ asked'[k] \in [number : Nat, query : Queries[k] \cup {None}, ok : BOOLEAN]
              /\ k # r.kind => asked'[k] = asked[k]
              /\ Of(k)' = IF k = r.kind THEN Of(k) \ {r} ELSE Of(k)
         /\ overtaken \subseteq overtaken'
         /\ overtaken' \subseteq overtaken \cup {r.kind}
<1>1. /\ r \in [kind : Kinds, number : Nat, query : Queries[r.kind]]
      /\ r # ContextRequest
  BY RequestTyped, ContextRequestIsOther DEF IInv
<1>2. pending' = pending \ {r} /\ IsFiniteSet(pending')
  BY FS_RemoveElement DEF IInv, Settle
<1>3. PICK to \in BOOLEAN : asked' = [asked EXCEPT ![r.kind].ok = to]
  BY DEF Settle, IInv, TypeOK
<1>4. DOMAIN asked' = Kinds
  BY <1>3 DEF IInv, TypeOK
<1>5. \A k \in Kinds :
        /\ asked'[k].number = asked[k].number /\ asked'[k].query = asked[k].query
        /\ asked'[k] \in [number : Nat, query : Queries[k] \cup {None}, ok : BOOLEAN]
        /\ k # r.kind => asked'[k] = asked[k]
  BY <1>3 DEF IInv, TypeOK
<1>6. \A k \in Kinds : Of(k)' = IF k = r.kind THEN Of(k) \ {r} ELSE Of(k)
  BY <1>2 DEF Of
<1>7. overtaken \subseteq overtaken' /\ overtaken' \subseteq overtaken \cup {r.kind}
  BY DEF Settle
<1> QED
  BY <1>1, <1>2, <1>4, <1>5, <1>6, <1>7

\* A kind that an answer makes trustworthy has no other request under way, and the
\* answer is to its last one.
LEMMA LastAnswer ==
  ASSUME IInv, NEW r \in pending, NEW ok \in BOOLEAN, r.kind \in Kinds, Settle(r, ok),
         Trusted(r.kind)'
  PROVE  ok /\ Of(r.kind)' = {} /\ r.query = asked[r.kind].query
<1>1. /\ r.number \in 1..asked[r.kind].number /\ asked[r.kind].number \in Nat
      /\ r \in Of(r.kind)
  BY RequestTyped DEF IInv, TypeOK, Of
<1>2. ~Trusted(r.kind)
  BY <1>1 DEF IInv, TrustedIsShown
<1>3. r.kind \notin overtaken
  BY SettledFacts DEF Trusted
<1>4. /\ asked'[r.kind].ok
      /\ asked'[r.kind].ok = IF r.number = asked[r.kind].number THEN ok ELSE asked[r.kind].ok
  BY DEF Settle, Trusted, IInv, TypeOK
<1>5. r.number = asked[r.kind].number /\ ok
  BY <1>2, <1>3, <1>4 DEF Trusted
<1>6. ASSUME NEW q \in pending, q.kind = r.kind PROVE q = r
  <2>1. ~(q.number < r.number)
    BY <1>6 DEF Settle, Trusted
  <2>2. /\ q \in [kind : Kinds, number : Nat, query : Queries[q.kind]]
        /\ q.number \in 1..asked[q.kind].number
    BY <1>6, RequestTyped DEF IInv
  <2>3. q.number = r.number
    BY <1>1, <1>5, <1>6, <2>1, <2>2
  <2>4. q.query = asked[r.kind].query /\ r.query = asked[r.kind].query
    BY <1>5, <1>6, <2>3, SettledFacts, ContextRequestIsOther DEF IInv, LastIsLast
  <2> QED
    BY <1>6, <2>2, <2>3, <2>4, SettledFacts
<1>7. r.query = asked[r.kind].query
  BY <1>5, SettledFacts DEF IInv, LastIsLast
<1> QED
  BY <1>5, <1>6, <1>7, SettledFacts DEF Of

\* An answer that shows what was asked for, or nothing, and at most selects a namespace
\* of the list that arrived.
LEMMA SettleKeeps ==
  ASSUME IInv, NEW r \in pending, NEW ok \in BOOLEAN, r.kind \in Kinds, Settle(r, ok),
         DOMAIN shown' = Kinds,
         \A k \in Kinds : shown'[k] = IF k # r.kind THEN shown[k]
                                      ELSE IF ok THEN r.query
                                      ELSE IF k = "details" THEN None ELSE shown[k],
         sel' \in Selections,
         sel'.context = sel.context, sel'.workload = sel.workload,
         r.kind # "namespaces" => sel' = sel,
         ok /\ r.kind = "namespaces" /\ NamespacesOf[r.query] # <<>> =>
           sel'.namespace \in Range(NamespacesOf[r.query])
  PROVE  IInv'
<1>1. /\ r \in [kind : Kinds, number : Nat, query : Queries[r.kind]]
      /\ r # ContextRequest
      /\ pending' = pending \ {r} /\ IsFiniteSet(pending')
      /\ DOMAIN asked' = Kinds
      /\ overtaken \subseteq overtaken' /\ overtaken' \subseteq overtaken \cup {r.kind}
  BY SettledFacts
<1>2. \A k \in Kinds :
        /\ asked'[k].number = asked[k].number /\ asked'[k].query = asked[k].query
        /\ asked'[k] \in [number : Nat, query : Queries[k] \cup {None}, ok : BOOLEAN]
        /\ k # r.kind => asked'[k] = asked[k]
        /\ Of(k)' = IF k = r.kind THEN Of(k) \ {r} ELSE Of(k)
  BY SettledFacts
<1>3. UNCHANGED <<rendered, contextInfo, hasty, events>>
  BY DEF Settle
<1>4. ~loading'[r.kind] /\ \A k \in Kinds \ {r.kind} : loading'[k] = loading[k]
  BY DEF Settle, IInv, TypeOK
<1>5. TypeOK'
  <2>1. \A k \in Kinds : shown'[k] \in Queries[k] \cup {None}
    BY <1>1 DEF IInv, TypeOK
  <2>2. loading' \in [Kinds -> BOOLEAN]
    BY DEF Settle, IInv, TypeOK
  <2>3. \A p \in pending' \ {ContextRequest} :
          /\ p \in [kind : Kinds, number : Nat, query : Queries[p.kind]]
          /\ p.number \in 1..asked'[p.kind].number
    BY <1>1, <1>2 DEF IInv, TypeOK
  <2> QED
    BY <1>1, <1>2, <1>3, <2>1, <2>2, <2>3 DEF IInv, TypeOK
<1>6. LastIsLast'
  <2>1. \A p \in pending' \ {ContextRequest} : p.kind \in Kinds
    BY <1>1 DEF IInv, TypeOK
  <2> QED
    BY <1>1, <1>2, <2>1 DEF IInv, LastIsLast
<1>7. AskedRendered'
  BY <1>2, <1>3 DEF IInv, AskedRendered, Query, Kinds
<1>8. LoadingIsPending'
  <2> SUFFICES ASSUME NEW k \in Kinds, loading'[k] PROVE Of(k)' # {}
    BY DEF LoadingIsPending
  <2>1. k # r.kind
    BY <1>4
  <2> QED
    BY <1>2, <1>4, <2>1 DEF IInv, LoadingIsPending
<1>9. \A k \in Kinds : k # r.kind => (Trusted(k)' <=> Trusted(k))
  BY <1>1, <1>2 DEF Trusted
<1>10. TrustedIsShown'
  <2>1. ASSUME NEW k \in Kinds, Trusted(k)'
        PROVE  /\ Of(k)' = {}
               /\ (k = "details" => rendered'.workload # None) => shown'[k] = asked'[k].query
    <3>1. CASE k = r.kind
      BY <1>2, <2>1, <3>1, LastAnswer
    <3>2. CASE k # r.kind
      BY <1>2, <1>3, <1>9, <2>1, <3>2 DEF IInv, TrustedIsShown
    <3> QED
      BY <3>1, <3>2
  <2>2. ASSUME "details" \notin overtaken', rendered'.workload = None
        PROVE  Of("details")' = {} /\ shown'.details = None
    <3>1. Of("details") = {} /\ shown.details = None
      BY <1>1, <1>3, <2>2 DEF IInv, TrustedIsShown
    <3>2. r.kind # "details"
      BY <3>1 DEF Of
    <3> QED
      BY <1>2, <3>1, <3>2 DEF Kinds
  <2> QED
    BY <2>1, <2>2 DEF TrustedIsShown
<1>11. Nested'
  <2>1. ASSUME Trusted("namespaces")', NamespacesOf[asked'.namespaces.query] # <<>>
        PROVE  sel'.namespace \in Range(NamespacesOf[asked'.namespaces.query])
    <3>1. CASE r.kind = "namespaces"
      BY <1>2, <2>1, <3>1, LastAnswer
    <3>2. CASE r.kind # "namespaces"
      BY <1>2, <1>9, <2>1, <3>2 DEF IInv, Nested, Kinds
    <3> QED
      BY <3>1, <3>2
  <2>2. ~hasty' /\ Of("workloads")' # {} => sel'.workload = None
    BY <1>2, <1>3 DEF IInv, Nested, Kinds
  <2>3. ASSUME ~hasty', Trusted("workloads")', sel'.workload # None
        PROVE  sel'.workload.from = asked'.workloads.query
    <3>1. Of("workloads") = {}
      BY <1>3, <2>3 DEF IInv, Nested
    <3>2. r.kind # "workloads"
      BY <3>1 DEF Of
    <3> QED
      BY <1>2, <1>3, <1>9, <2>3, <3>2 DEF IInv, Nested, Kinds
  <2> QED
    BY <2>1, <2>2, <2>3 DEF Nested
<1>12. Due'
  <2>1. ContextRequest \in pending' <=> ContextRequest \in pending
    BY <1>1
  <2>2. NamespacesDue'
    BY <1>2, <1>3, <2>1 DEF IInv, Due, NamespacesDue, NamespacesEffect, One, Kinds
  <2>3. DetailsDue'
    BY <1>2, <1>3, <2>1 DEF IInv, Due, DetailsDue, DetailsEffect, One, Kinds
  <2>4. CASE r.kind = "namespaces"
    <3>1. /\ Cardinality(Of("namespaces"))' = Cardinality(Of("namespaces")) - 1
          /\ Cardinality(Of("namespaces")) \in Nat
      <4>1. Of("namespaces")' = Of("namespaces") \ {r} /\ r \in Of("namespaces")
        BY <1>2, <2>4 DEF Of, Kinds
      <4> QED
        BY <4>1, FS_RemoveElement, OfIsFinite
    <3>2. /\ asked.namespaces.number \in Nat /\ asked.workloads.number \in Nat
          /\ events \in Nat
      BY DEF IInv, TypeOK, Kinds
    <3>3. /\ asked'.namespaces.number = asked.namespaces.number
          /\ asked'.workloads.number = asked.workloads.number
      BY <1>2 DEF Kinds
    <3>4. WorkloadsDue'
      BY <1>3, <3>1, <3>2, <3>3 DEF IInv, Due, WorkloadsDue, One
    <3> QED
      BY <2>2, <2>3, <3>4 DEF Due
  <2>5. CASE r.kind # "namespaces"
    <3>1. sel' = sel /\ Of("namespaces")' = Of("namespaces")
      BY <1>2, <2>5 DEF Kinds
    <3>2. WorkloadsDue'
      BY <1>2, <1>3, <3>1 DEF IInv, Due, WorkloadsDue, Kinds
    <3> QED
      BY <2>2, <2>3, <3>2 DEF Due
  <2> QED
    BY <2>4, <2>5
<1> QED
  BY <1>1, <1>5, <1>6, <1>7, <1>8, <1>10, <1>11, <1>12 DEF IInv

LEMMA AnswerKeeps ==
  ASSUME IInv, NEW r \in pending, Answer(r)
  PROVE  IInv'
<1>1. r.kind \in Kinds
  BY DEF Answer, NamespacesArrive, WorkloadsArrive, DetailsArrive, Fails, Kinds
<1>2. sel \in Selections /\ r.query \in Queries[r.kind] /\ DOMAIN shown = Kinds
  BY <1>1, RequestTyped DEF IInv, TypeOK
<1>3. CASE NamespacesArrive(r)
  <2>1. /\ r.kind = "namespaces" /\ Settle(r, TRUE)
        /\ shown' = [shown EXCEPT !.namespaces = r.query]
    BY <1>3 DEF NamespacesArrive
  <2>2. /\ DOMAIN shown' = Kinds
        /\ \A k \in Kinds : shown'[k] = IF k # r.kind THEN shown[k] ELSE r.query
    BY <1>2, <2>1
  <2>3. r.query \in Contexts \cup {Unset}
    BY <1>2, <2>1 DEF Queries
  <2>4. CASE NamespacesOf[r.query] = <<>>
    <3>1. sel' = sel
      BY <1>3, <2>4 DEF NamespacesArrive
    <3> QED
      BY <1>1, <1>2, <2>1, <2>2, <2>4, <3>1, SettleKeeps
  <2>5. CASE NamespacesOf[r.query] # <<>>
    <3>1. /\ sel' = [sel EXCEPT !.namespace = Preselected(r.query)]
          /\ Preselected(r.query) \in Range(NamespacesOf[r.query])
          /\ Preselected(r.query) \in Names
      BY <1>3, <2>3, <2>5, PreselectedIsListed DEF NamespacesArrive
    <3>2. /\ sel' \in Selections /\ sel'.namespace = Preselected(r.query)
          /\ sel'.context = sel.context /\ sel'.workload = sel.workload
      BY <1>2, <3>1 DEF Selections
    <3> QED
      BY <1>1, <2>1, <2>2, <3>1, <3>2, SettleKeeps
  <2> QED
    BY <2>4, <2>5
<1>4. CASE WorkloadsArrive(r) \/ DetailsArrive(r)
  <2>1. /\ r.kind \in {"workloads", "details"} /\ Settle(r, TRUE) /\ sel' = sel
        /\ shown' = [shown EXCEPT ![r.kind] = r.query]
    BY <1>4 DEF WorkloadsArrive, DetailsArrive
  <2>2. /\ DOMAIN shown' = Kinds
        /\ \A k \in Kinds : shown'[k] = IF k # r.kind THEN shown[k] ELSE r.query
    BY <1>2, <2>1
  <2> QED
    BY <1>1, <1>2, <2>1, <2>2, SettleKeeps
<1>5. CASE Fails(r)
  BY <1>1, <1>2, <1>5, SettleKeeps DEF Fails
<1> QED
  BY <1>3, <1>4, <1>5 DEF Answer

\* A commit and its effects.
LEMMA RenderKeeps ==
  ASSUME IInv, Render
  PROVE  IInv'
<1> DEFINE Sent(k) == [kind |-> k, number |-> asked'[k].number, query |-> asked'[k].query]
<1>1. /\ sel \in Selections /\ rendered' = sel /\ sel' \in Selections
      /\ sel'.context = sel.context
      /\ sel'.namespace = IF NamespacesEffect THEN None ELSE sel.namespace
      /\ sel'.workload = IF WorkloadsEffect THEN None ELSE sel.workload
  BY DEF Render, Reset, Selections, IInv, TypeOK
<1>2. UNCHANGED <<contextInfo, hasty, events>>
  BY DEF Render
<1>3. /\ DOMAIN asked' = Kinds
      /\ \A k \in Kinds \ Started : asked'[k] = asked[k]
      /\ \A k \in Started :
           /\ asked'[k].number = asked[k].number + 1
           /\ asked'[k].query = Query(sel)[k] /\ ~asked'[k].ok
           /\ asked'[k] \in [number : Nat, query : Queries[k] \cup {None}, ok : BOOLEAN]
           /\ asked'[k].query \in Queries[k]
  BY <1>1, QueryTyped DEF Render, IInv, TypeOK, Started
<1>4. \A k \in Started :
        /\ k \in Kinds /\ Sent(k).kind = k /\ Sent(k) # ContextRequest
        /\ Sent(k).number = asked'[k].number /\ Sent(k).query = asked'[k].query
        /\ Sent(k) \in [kind : Kinds, number : Nat, query : Queries[k]]
  <2>1. \A k \in Kinds : Sent(k).kind = k
    OBVIOUS
  <2>2. \A k \in Kinds : Sent(k) # ContextRequest
    BY <2>1, ContextRequestIsOther
  <2> QED
    BY <1>3, <2>2 DEF Started
<1>5. pending' = pending \cup {Sent(k) : k \in Started}
  BY DEF Render
<1> HIDE DEF Sent
<1>6. \A k \in Kinds : Of(k)' = IF k \in Started THEN Of(k) \cup {Sent(k)} ELSE Of(k)
  BY <1>4, <1>5 DEF Of
<1>7. /\ DOMAIN shown' = Kinds
      /\ \A k \in Kinds : shown'[k] = IF k \in Emptied THEN None ELSE shown[k]
  BY DEF Render
<1>8. TypeOK'
  <2>1. \A p \in pending' \ {ContextRequest} :
          /\ p \in [kind : Kinds, number : Nat, query : Queries[p.kind]]
          /\ p.number \in 1..asked'[p.kind].number
    <3>1. ASSUME NEW p \in pending \ {ContextRequest}
          PROVE  /\ p \in [kind : Kinds, number : Nat, query : Queries[p.kind]]
                 /\ p.number \in 1..asked'[p.kind].number
      <4>1. /\ p \in [kind : Kinds, number : Nat, query : Queries[p.kind]]
            /\ p.number \in 1..asked[p.kind].number
            /\ asked[p.kind].number \in Nat
        BY <3>1 DEF IInv, TypeOK
      <4>2. asked'[p.kind].number \in {asked[p.kind].number, asked[p.kind].number + 1}
        BY <1>3, <4>1
      <4> QED
        BY <4>1, <4>2
    <3>2. ASSUME NEW k \in Started PROVE Sent(k).number \in 1..asked'[k].number
      <4>1. asked[k].number \in Nat
        BY <1>4 DEF IInv, TypeOK
      <4> QED
        BY <1>3, <1>4, <4>1
    <3> QED
      BY <1>4, <1>5, <3>1, <3>2
  <2>2. \A k \in Kinds :
          /\ shown'[k] \in Queries[k] \cup {None}
          /\ asked'[k] \in [number : Nat, query : Queries[k] \cup {None}, ok : BOOLEAN]
    BY <1>3, <1>7 DEF IInv, TypeOK
  <2>3. loading' \in [Kinds -> BOOLEAN]
    <3>1. \A k \in Kinds : (k \in Started \/ loading[k]) \in BOOLEAN
      OBVIOUS
    <3> QED
      BY <3>1 DEF Render
  <2>4. overtaken' \subseteq Kinds
    <3>1. Emptied \subseteq Kinds
      BY DEF Emptied, Started, Kinds
    <3> QED
      BY <3>1 DEF Render, IInv, TypeOK
  <2>5. contextInfo' \in BOOLEAN /\ hasty' \in BOOLEAN
    BY <1>2 DEF IInv, TypeOK
  <2>6. events' \in 0..MaxEvents
    BY <1>2 DEF IInv, TypeOK
  <2>7. sel' \in Selections /\ rendered' \in Selections
    BY <1>1
  <2>8. DOMAIN shown' = Kinds /\ DOMAIN asked' = Kinds
    BY <1>3, <1>7
  <2> QED
    BY <2>1, <2>2, <2>3, <2>4, <2>5, <2>6, <2>7, <2>8 DEF TypeOK
<1>9. IsFiniteSet(pending')
  <2> DEFINE all == {Sent("namespaces")} \cup {Sent("workloads")} \cup {Sent("details")}
  <2>1. IsFiniteSet(all)
    BY FS_Singleton, FS_AddElement
  <2>2. {Sent(k) : k \in Started} \subseteq all
    BY DEF Started, Kinds
  <2>3. IsFiniteSet({Sent(k) : k \in Started})
    BY <2>1, <2>2, FS_Subset
  <2> QED
    BY <1>5, <2>3, FS_Union DEF IInv
<1>10. LastIsLast'
  <2>1. ASSUME NEW p \in pending \ {ContextRequest}, p.number = asked'[p.kind].number
        PROVE  p.query = asked'[p.kind].query
    <3>1. /\ p.kind \in Kinds /\ p.number \in 1..asked[p.kind].number
          /\ asked[p.kind].number \in Nat
      BY <2>1 DEF IInv, TypeOK
    <3>2. p.kind \notin Started
      BY <1>3, <2>1, <3>1
    <3> QED
      BY <1>3, <2>1, <3>1, <3>2 DEF IInv, LastIsLast
  <2> QED
    BY <1>4, <1>5, <2>1 DEF LastIsLast
<1>11. AskedRendered'
  <2>1. asked'.namespaces.query = Query(sel).namespaces
    <3>1. CASE "namespaces" \in Started
      BY <1>3, <3>1
    <3>2. CASE "namespaces" \notin Started
      <4>1. sel.context = rendered.context
        BY <3>2 DEF Started, Kinds, NamespacesEffect
      <4> QED
        BY <1>3, <3>2, <4>1 DEF IInv, AskedRendered, Query, Kinds
    <3> QED
      BY <3>1, <3>2
  <2>2. ASSUME sel.namespace # None
        PROVE  asked'.workloads.query = Query(sel).workloads
    <3>1. CASE "workloads" \in Started
      BY <1>3, <3>1
    <3>2. CASE "workloads" \notin Started
      <4>1. sel.context = rendered.context /\ sel.namespace = rendered.namespace
        BY <2>2, <3>2 DEF Started, Kinds, WorkloadsEffect
      <4> QED
        BY <1>3, <2>2, <3>2, <4>1 DEF IInv, AskedRendered, Query, Kinds
    <3> QED
      BY <3>1, <3>2
  <2>3. ASSUME sel.workload # None
        PROVE  asked'.details.query = Query(sel).details
    <3>1. CASE "details" \in Started
      BY <1>3, <3>1
    <3>2. CASE "details" \notin Started
      <4>1. sel.context = rendered.context /\ sel.workload = rendered.workload
        BY <2>3, <3>2 DEF Started, Kinds, DetailsEffect
      <4> QED
        BY <1>3, <2>3, <3>2, <4>1 DEF IInv, AskedRendered, Query, Kinds
    <3> QED
      BY <3>1, <3>2
  <2>4. Query(rendered)' = Query(sel)
    BY <1>1 DEF Query
  <2> QED
    BY <1>1, <2>1, <2>2, <2>3, <2>4 DEF AskedRendered
<1>12. LoadingIsPending'
  <2> SUFFICES ASSUME NEW k \in Kinds, loading'[k] PROVE Of(k)' # {}
    BY DEF LoadingIsPending
  <2>1. k \in Started \/ loading[k]
    BY DEF Render
  <2> QED
    BY <1>6, <2>1 DEF IInv, LoadingIsPending
<1>13. ASSUME NEW k \in Kinds, Trusted(k)'
       PROVE  k \notin Started /\ (Trusted(k) \/ (k \in Emptied /\ Of(k) = {}))
  <2>1. k \notin Started /\ asked[k].ok
    BY <1>3, <1>13 DEF Trusted
  <2>2. k \notin overtaken'
    BY <1>13 DEF Trusted
  <2>3. CASE k \in Emptied
    BY <2>1, <2>2, <2>3 DEF Render, Of
  <2>4. CASE k \notin Emptied
    <3>1. overtaken \ Emptied \subseteq overtaken'
      BY DEF Render
    <3>2. k \notin overtaken
      BY <2>2, <2>4, <3>1
    <3> QED
      BY <2>1, <3>2 DEF Trusted
  <2> QED
    BY <2>1, <2>3, <2>4
<1>14. TrustedIsShown'
  <2>1. ASSUME NEW k \in Kinds, Trusted(k)'
        PROVE  /\ Of(k)' = {}
               /\ (k = "details" => rendered'.workload # None) => shown'[k] = asked'[k].query
    <3>1. CASE k \in Emptied
      <4>1. k = "details" /\ sel.workload = None /\ k \notin Started
        BY <1>13, <2>1, <3>1 DEF Emptied, Started
      <4>2. Of(k) = {}
        BY <1>13, <2>1 DEF IInv, TrustedIsShown
      <4> QED
        BY <1>1, <1>6, <4>1, <4>2
    <3>2. CASE k \notin Emptied
      <4>1. Trusted(k) /\ k \notin Started
        BY <1>13, <2>1, <3>2
      <4>2. k = "details" => rendered.workload = sel.workload
        BY <3>2 DEF Emptied, DetailsEffect
      <4> QED
        BY <1>1, <1>3, <1>6, <1>7, <3>2, <4>1, <4>2 DEF IInv, TrustedIsShown
    <3> QED
      BY <3>1, <3>2
  <2>2. ASSUME "details" \notin overtaken', sel.workload = None
        PROVE  Of("details")' = {} /\ shown'.details = None
    <3>1. "details" \notin Started
      BY <2>2 DEF Started
    <3>2. CASE DetailsEffect
      <4>1. "details" \in Emptied
        BY <3>2 DEF Emptied
      <4>2. Of("details") = {}
        BY <2>2, <3>1, <4>1 DEF Render, Of
      <4> QED
        BY <1>6, <1>7, <3>1, <4>1, <4>2 DEF Kinds
    <3>3. CASE ~DetailsEffect
      <4>1. "details" \notin Emptied /\ rendered.workload = None
        BY <2>2, <3>1, <3>3 DEF Emptied, DetailsEffect
      <4>2. "details" \notin overtaken
        BY <2>2, <4>1 DEF Render
      <4> QED
        BY <1>6, <1>7, <3>1, <4>1, <4>2 DEF IInv, TrustedIsShown, Kinds
    <3> QED
      BY <3>2, <3>3
  <2> QED
    BY <1>1, <2>1, <2>2 DEF TrustedIsShown
<1>15. Nested'
  <2>1. ASSUME Trusted("namespaces")', NamespacesOf[asked'.namespaces.query] # <<>>
        PROVE  sel'.namespace \in Range(NamespacesOf[asked'.namespaces.query])
    <3>1. "namespaces" \notin Started
      BY <1>13, <2>1 DEF Kinds
    <3>2. Trusted("namespaces")
      BY <1>13, <2>1, <3>1 DEF Kinds, Emptied
    <3>3. ~NamespacesEffect
      BY <3>1 DEF Started, Kinds
    <3> QED
      BY <1>1, <1>3, <2>1, <3>1, <3>2, <3>3 DEF IInv, Nested, Kinds
  <2>2. ASSUME ~hasty', Of("workloads")' # {}
        PROVE  sel'.workload = None
    <3>1. CASE WorkloadsEffect
      BY <1>1, <3>1
    <3>2. CASE ~WorkloadsEffect
      <4>1. "workloads" \notin Started
        BY <3>2 DEF Started
      <4> QED
        BY <1>1, <1>2, <1>6, <2>2, <3>2, <4>1 DEF IInv, Nested, Kinds
    <3> QED
      BY <3>1, <3>2
  <2>3. ASSUME ~hasty', Trusted("workloads")', sel'.workload # None
        PROVE  sel'.workload.from = asked'.workloads.query
    <3>1. "workloads" \notin Started
      BY <1>13, <2>3 DEF Kinds
    <3>2. Trusted("workloads") /\ ~WorkloadsEffect
      BY <1>13, <2>3, <3>1 DEF Kinds, Emptied, Started
    <3> QED
      BY <1>1, <1>2, <1>3, <2>3, <3>1, <3>2 DEF IInv, Nested, Kinds
  <2> QED
    BY <2>1, <2>2, <2>3 DEF Nested
<1>16. /\ asked.namespaces.number \in Nat /\ asked.workloads.number \in Nat
       /\ asked.details.number \in Nat /\ events \in Nat
       /\ Cardinality(Of("namespaces")) \in Nat
  BY OfIsFinite DEF IInv, TypeOK, Kinds
<1>17. ContextRequest \in pending' <=> ContextRequest \in pending
  BY <1>4, <1>5
<1>18. /\ "namespaces" \in Started <=> NamespacesEffect
       /\ "workloads" \in Started <=> WorkloadsEffect
       /\ "details" \in Started <=> DetailsEffect /\ sel.workload # None
  BY DEF Started, Kinds
<1>19. NamespacesDue'
  <2>1. ~NamespacesEffect'
    BY <1>1 DEF NamespacesEffect
  <2>2. asked'.namespaces.number
          = asked.namespaces.number + One(NamespacesEffect)
    BY <1>3, <1>16, <1>18 DEF One, Kinds
  <2> QED
    BY <1>2, <1>16, <1>17, <2>1, <2>2 DEF IInv, Due, NamespacesDue, One
<1>20. WorkloadsDue'
  <2>1. sel'.namespace \in {None, rendered'.namespace}
    BY <1>1
  <2>2. asked'.workloads.number = asked.workloads.number + One(WorkloadsEffect)
    BY <1>3, <1>16, <1>18 DEF One, Kinds
  <2>3. CASE NamespacesEffect
    <3>1. asked'.namespaces.number = asked.namespaces.number + 1
      BY <1>3, <1>18, <2>3
    <3>2. Cardinality(Of("namespaces"))' = Cardinality(Of("namespaces")) + 1
      <4>1. Of("namespaces")' = Of("namespaces") \cup {Sent("namespaces")}
        BY <1>6, <1>18, <2>3 DEF Kinds
      <4>2. Sent("namespaces") \notin Of("namespaces")
        BY <1>4, <1>16, <1>18, <2>3, <3>1, RequestTyped DEF IInv, Of, Kinds
      <4> QED
        BY <4>1, <4>2, FS_AddElement, OfIsFinite
    <3> QED
      BY <1>2, <1>16, <2>1, <2>2, <3>1, <3>2 DEF IInv, Due, WorkloadsDue, One
  <2>4. CASE ~NamespacesEffect
    <3>1. /\ asked'.namespaces.number = asked.namespaces.number
          /\ Cardinality(Of("namespaces"))' = Cardinality(Of("namespaces"))
      BY <1>3, <1>6, <1>18, <2>4 DEF Kinds
    <3>2. WorkloadsEffect => sel.namespace \notin {None, rendered.namespace}
      BY <2>4 DEF NamespacesEffect, WorkloadsEffect
    <3> QED
      BY <1>2, <1>16, <2>1, <2>2, <3>1, <3>2 DEF IInv, Due, WorkloadsDue, One
  <2> QED
    BY <2>3, <2>4
<1>21. DetailsDue'
  <2>1. ~(DetailsEffect' /\ sel'.workload # None)
    BY <1>1 DEF DetailsEffect
  <2>2. asked'.details.number
          = asked.details.number + One(DetailsEffect /\ sel.workload # None)
    BY <1>3, <1>16, <1>18 DEF One, Kinds
  <2>3. ASSUME events' = 0 PROVE asked'.details.number = 0 /\ sel'.workload = None
    BY <1>1, <1>2, <2>2, <2>3 DEF IInv, Due, DetailsDue, One
  <2>4. One(DetailsEffect /\ sel.workload # None)' = 0
    BY <2>1 DEF One
  <2>5. ASSUME events' > 0
        PROVE  asked'.details.number + One(ContextRequest \in pending') <= events' + 1
    BY <1>2, <1>16, <1>17, <2>2, <2>5 DEF IInv, Due, DetailsDue, One
  <2>6. One(ContextRequest \in pending') \in {0, 1} /\ asked'.details.number \in Nat
    BY <1>16, <2>2 DEF One
  <2> QED
    BY <2>3, <2>4, <2>5, <2>6 DEF DetailsDue
<1> QED
  BY <1>8, <1>9, <1>10, <1>11, <1>12, <1>14, <1>15, <1>19, <1>20, <1>21 DEF IInv, Due

LEMMA NextInv == IInv /\ [Next]_vars => IInv'
<1> SUFFICES ASSUME IInv, [Next]_vars PROVE IInv'
  OBVIOUS
<1>1. CASE UNCHANGED vars
  <2>1. UNCHANGED <<sel, rendered, contextInfo, shown, loading, pending, asked, overtaken,
                    hasty, events>>
    BY <1>1 DEF vars
  <2>2. Of("namespaces")' = Of("namespaces") /\ Of("workloads")' = Of("workloads")
    BY <2>1 DEF Of
  <2>3. Due'
    BY <2>1, <2>2 DEF IInv, Due, NamespacesDue, WorkloadsDue, DetailsDue, NamespacesEffect,
                      DetailsEffect, One
  <2>4. Nested'
    BY <2>1, <2>2 DEF IInv, Nested, Trusted
  <2> QED
    BY <2>1, <2>3, <2>4, SelectKeeps DEF IInv, TypeOK
<1> QED
  BY <1>1, RenderKeeps, ContextArrivesKeeps, AnswerKeeps, ChooseContextKeeps,
     ChooseNamespaceKeeps, ChooseWorkloadKeeps DEF Next, User

-----------------------------------------------------------------------------
(* Theorems.                                                               *)

\* At every step what is selected, rendered, asked, under way and shown agree, and the
\* effects that are still due are counted (use-monitor-data.ts).
THEOREM Inductive == Spec => []IInv
BY InitInv, NextInv, PTL DEF Spec

\* Every selection, request and answer of the data hook keeps its type, the queries
\* those of the lists.
THEOREM TypeCorrect == Spec => []TypeOK
<1>1. IInv => TypeOK
  BY DEF IInv
<1> QED
  BY Inductive, <1>1, PTL

\* After every commit the last request of each kind is the one for what is selected
\* (the dependencies and early returns of the effects of use-monitor-data.ts).
THEOREM AskedIsSelected == Spec => []LastAskedIsSelected
<1>1. IInv => LastAskedIsSelected
  BY DEF IInv, AskedRendered, LastAskedIsSelected
<1> QED
  BY Inductive, <1>1, PTL

\* At rest the lists and the tabs show what is selected, and nothing when nothing is,
\* unless answers came out of order or the last one is an error.
THEOREM RestShowsSelected == Spec => []ShownIsSelectedAtRest
<1>1. ASSUME IInv, AtRest
      PROVE  /\ sel = rendered
             /\ \A k \in Kinds : ~loading[k]
             /\ \A k \in Kinds : Trusted(k) /\ (k = "details" => sel.workload # None) =>
                  shown[k] = asked[k].query
             /\ "details" \notin overtaken /\ sel.workload = None => shown.details = None
  BY <1>1 DEF AtRest, IInv, LoadingIsPending, TrustedIsShown, Of
<1>2. ASSUME IInv, AtRest, Trusted("details"), sel.workload # None
      PROVE  Tabs = {[says |-> "data", of |-> Query(sel).details]}
  <2>1. shown.details = Query(sel).details /\ ~loading.details
    BY <1>1, <1>2 DEF IInv, AskedRendered, Kinds
  <2>2. shown.details # None
    <3>1. Query(sel).details \in Queries.details
      BY <1>2 DEF IInv, TypeOK, Selections, Query, Queries
    <3> QED
      BY <2>1, <3>1, SelectionAssumption
  <2>3. Answered = [says |-> "data", of |-> Query(sel).details]
    BY <2>1, <2>2 DEF Answered
  <2> QED
    BY <1>2, <2>1, <2>3
    DEF Tabs, PodTab, EnvTabContent, HealthTab, TimelineTab, EnvTab, SpecTab
<1>3. ASSUME IInv, AtRest, "details" \notin overtaken, sel.workload = None
      PROVE  Tabs \subseteq {Says("unselected"), Says("empty")}
  <2>1. shown.details = None /\ ~loading.details
    BY <1>1, <1>3 DEF Kinds
  <2>2. Answered = Says("empty")
    BY <2>1 DEF Answered
  <2> QED
    BY <1>3, <2>1, <2>2
    DEF Tabs, PodTab, EnvTabContent, HealthTab, TimelineTab, EnvTab, SpecTab
<1>4. ASSUME IInv, AtRest
      PROVE  /\ Trusted("namespaces") => shown.namespaces = Query(sel).namespaces
             /\ Trusted("workloads") /\ sel.namespace # None =>
                  shown.workloads = Query(sel).workloads
  BY <1>1, <1>4 DEF IInv, AskedRendered, Kinds
<1>5. IInv => ShownIsSelectedAtRest
  BY <1>2, <1>3, <1>4 DEF ShownIsSelectedAtRest
<1> QED
  BY Inductive, <1>5, PTL

\* At rest the selected namespace is one of the selected context and the selected
\* workload one of the selected namespace, with the exceptions the property names.
THEOREM RestNests == Spec => []SelectionNestsAtRest
<1>1. IInv => SelectionNestsAtRest
  BY DEF IInv, AskedRendered, Nested, SelectionNestsAtRest, AtRest, Query
<1> QED
  BY Inductive, <1>1, PTL

\* The effects do not set one another off for ever: what the page asks for is bounded
\* by what the user did, however many contexts and namespaces there are.
THEOREM EffectsAreBounded == Spec => []EffectsSettle
<1>1. ASSUME IInv PROVE EffectsSettle
  <2>1. /\ asked.namespaces.number \in Nat /\ asked.workloads.number \in Nat
        /\ asked.details.number \in Nat /\ events \in Nat
        /\ Cardinality(Of("namespaces")) \in Nat
    BY <1>1, OfIsFinite DEF IInv, TypeOK, Kinds
  <2> QED
    BY <1>1, <2>1
    DEF IInv, Due, NamespacesDue, WorkloadsDue, DetailsDue, One, EffectsSettle
<1> QED
  BY Inductive, <1>1, PTL

=============================================================================

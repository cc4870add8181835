--------------------------- MODULE WorkspaceProofs ---------------------------
(* Proofs about Workspace: the service map settles on the selected scope,    *)
(* the request chain shows what was asked last and adds it up, and the       *)
(* explorer and the global search go where the user sends them.              *)
EXTENDS Workspace, FiniteSetTheorems, TLAPS

-----------------------------------------------------------------------------
(* The service map.                                                        *)

MapTypeOK ==
  /\ mapLoading \in BOOLEAN /\ mapError \in BOOLEAN
  /\ \A r \in mapRequests : r \in [of : {r.of}, cancelled : BOOLEAN]

\* An answer that will be heeded is for the scope of now.
HeededIsCurrent == \A r \in mapRequests : ~r.cancelled => r.of = scope

\* While it loads, such an answer is under way.
LoadingIsAwaited ==
  scope.namespace # None /\ mapLoading =>
    \E r \in mapRequests : ~r.cancelled /\ r.of = scope

\* When it has loaded without an error, the map is that of the scope.
LoadedIsCurrent ==
  scope.namespace # None /\ ~mapLoading /\ ~mapError => data = scope

MapInv == MapTypeOK /\ HeededIsCurrent /\ LoadingIsAwaited /\ LoadedIsCurrent

LEMMA MapInitial == Init => MapInv
<1> SUFFICES ASSUME Init PROVE MapInv
  OBVIOUS
<1>1. scope = [context |-> Start, namespace |-> None] /\ MapInit
  BY DEF Init, ExplorerInit
<1> QED
  BY <1>1 DEF MapInit, MapInv, MapTypeOK, HeededIsCurrent, LoadingIsAwaited, LoadedIsCurrent

LEMMA CancelledRecord ==
  ASSUME MapTypeOK, NEW r \in mapRequests
  PROVE  /\ Cancelled(r) \in [of : {r.of}, cancelled : BOOLEAN]
         /\ Cancelled(r).of = r.of /\ Cancelled(r).cancelled = TRUE
<1>1. r \in [of : {r.of}, cancelled : BOOLEAN]
  BY DEF MapTypeOK
<1> QED
  BY <1>1 DEF Cancelled

LEMMA MapEffectKeeps == MapInv /\ MapEffect => MapInv'
<1> SUFFICES ASSUME MapInv, MapEffect PROVE MapInv'
  OBVIOUS
<1> USE DEF MapInv, MapTypeOK, HeededIsCurrent, LoadingIsAwaited, LoadedIsCurrent
<1>0. UNCHANGED data
  BY DEF MapEffect
<1>1. CASE scope' = scope
  <2>1. UNCHANGED <<mapLoading, mapError, mapRequests>>
    BY <1>1 DEF MapEffect
  <2> QED
    BY <1>0, <1>1, <2>1
<1>2. CASE scope' # scope /\ scope'.namespace = None
  <2>1. /\ mapRequests' = {Cancelled(r) : r \in mapRequests}
        /\ UNCHANGED <<mapLoading, mapError>>
    BY <1>2 DEF MapEffect
  <2>2. \A r \in mapRequests' :
          r \in [of : {r.of}, cancelled : BOOLEAN] /\ r.cancelled = TRUE
    BY <2>1, CancelledRecord
  <2> QED
    BY <1>2, <2>1, <2>2
<1>3. CASE scope' # scope /\ scope'.namespace # None
  <2> DEFINE new == [of |-> scope', cancelled |-> FALSE]
  <2>1. /\ mapRequests' = {Cancelled(r) : r \in mapRequests} \cup {new}
        /\ mapLoading' = TRUE /\ mapError' = FALSE
    BY <1>3 DEF MapEffect
  <2>2. \A r \in mapRequests' :
          r = new \/ (r \in [of : {r.of}, cancelled : BOOLEAN] /\ r.cancelled = TRUE)
    <3> SUFFICES ASSUME NEW q \in mapRequests
                 PROVE  /\ Cancelled(q) \in [of : {Cancelled(q).of}, cancelled : BOOLEAN]
                        /\ Cancelled(q).cancelled = TRUE
      BY <2>1
    <3> QED
      BY CancelledRecord
  <2>3. new \in mapRequests' /\ ~new.cancelled /\ new.of = scope'
    BY <2>1
  <2>4. MapTypeOK'
    <3>1. new \in [of : {new.of}, cancelled : BOOLEAN]
      OBVIOUS
    <3>2. \A r \in mapRequests' : r \in [of : {r.of}, cancelled : BOOLEAN]
      BY <2>2, <3>1
    <3> QED
      BY <2>1, <3>2
  <2>6. HeededIsCurrent'
    BY <2>2, <2>3
  <2>5. LoadingIsAwaited' /\ LoadedIsCurrent'
    BY <2>1, <2>3
  <2> QED
    BY <2>4, <2>5, <2>6
<1> QED
  BY <1>1, <1>2, <1>3

LEMMA MapStepKeeps == MapInv /\ MapNext /\ UNCHANGED scope => MapInv'
<1> SUFFICES ASSUME MapInv, MapNext, UNCHANGED scope PROVE MapInv'
  OBVIOUS
<1> USE DEF MapInv, MapTypeOK, HeededIsCurrent, LoadingIsAwaited, LoadedIsCurrent
<1>1. ASSUME NEW r \in mapRequests, MapArrives(r) PROVE MapInv'
  <2>1. CASE Heeded(r)
    BY <1>1, <2>1 DEF MapArrives, Heeded
  <2>2. CASE ~Heeded(r)
    BY <1>1, <2>2 DEF MapArrives, Heeded
  <2> QED
    BY <2>1, <2>2
<1>2. ASSUME NEW r \in mapRequests, MapFails(r) PROVE MapInv'
  <2>1. CASE Heeded(r)
    BY <1>2, <2>1 DEF MapFails, Heeded
  <2>2. CASE ~Heeded(r)
    BY <1>2, <2>2 DEF MapFails, Heeded
  <2> QED
    BY <2>1, <2>2
<1>3. ASSUME NEW n, ClickNode(n) \/ HoverNode(n) PROVE MapInv'
  BY <1>3 DEF ClickNode, HoverNode
<1> QED
  BY <1>1, <1>2, <1>3 DEF MapNext

LEMMA MapInductive == Spec => []MapInv
<1>1. MapInv /\ [Next]_vars => MapInv'
  <2> SUFFICES ASSUME MapInv, [Next]_vars PROVE MapInv'
    OBVIOUS
  <2>1. CASE ExplorerNext /\ MapEffect /\ UNCHANGED chainVars
    BY <2>1, MapEffectKeeps
  <2>2. CASE UNCHANGED <<scope, mapVars>>
    BY <2>2 DEF mapVars, MapInv, MapTypeOK, HeededIsCurrent, LoadingIsAwaited,
                LoadedIsCurrent
  <2>3. CASE MapNext /\ UNCHANGED <<scope, explorerVars, chainVars>>
    BY <2>3, MapStepKeeps
  <2> QED
    BY <2>1, <2>2, <2>3 DEF Next, vars
<1> QED
  BY MapInitial, <1>1, PTL DEF Spec

\* However quickly contexts and namespaces are changed, a map that is shown without
\* loading and without an error is that of the selected scope, and one that loads is
\* awaited (the cancelled flag of use-service-map.ts).
THEOREM MapAlwaysSettles == Spec => []MapSettles
<1>1. MapInv => MapSettles
  BY DEF MapInv, MapSettles, Returned, Heeded, LoadingIsAwaited, LoadedIsCurrent, MapTypeOK
<1> QED
  BY MapInductive, <1>1, PTL

-----------------------------------------------------------------------------
(* The request chain.                                                      *)

ChainTypeOK ==
  /\ asked \in [number : Nat, for : {asked.for}, ok : BOOLEAN]
  /\ crossed \in BOOLEAN

\* Searches are numbered in the order they were begun.
SearchesNumbered ==
  /\ \A r \in searches :
       /\ r \in [number : Nat, ask : {r.ask}]
       /\ r.number \in 1..asked.number
  /\ \A q, r \in searches : q.number = r.number => q = r

\* As long as the answers come in order, the last search is the last to be answered.
LastUnderWay ==
  ~crossed /\ searches # {} =>
    /\ ~asked.ok
    /\ \E r \in searches : r.number = asked.number /\ r.ask = asked.for

ChainInv == ChainTypeOK /\ SearchesNumbered /\ LastUnderWay /\ ChainShowsLastAsked

LEMMA ChainInitial == Init => ChainInv
<1> SUFFICES ASSUME Init PROVE ChainInv
  OBVIOUS
<1>1. /\ asked = [number |-> 0, for |-> None, ok |-> TRUE]
      /\ searches = {} /\ crossed = FALSE /\ result = None
  BY DEF Init, ChainInit
<1> QED
  BY <1>1 DEF ChainInv, ChainTypeOK, SearchesNumbered, LastUnderWay, ChainShowsLastAsked

\* When the earliest search is answered, the last one is still under way or is that one.
LEMMA AnsweredInOrder ==
  ASSUME ChainInv, NEW r \in searches, Answer(r), ~crossed'
  PROVE  /\ ~crossed /\ ~asked.ok
         /\ searches' # {} => \E q \in searches' : q.number = asked.number /\ q.ask = asked.for
         /\ searches' = {} => r.number = asked.number /\ r.ask = asked.for
<1> USE DEF ChainInv, ChainTypeOK, SearchesNumbered
<1>1. ~crossed /\ \A q \in searches : ~(q.number < r.number)
  BY DEF Answer
<1>2. PICK last \in searches : last.number = asked.number /\ last.ask = asked.for
  BY <1>1 DEF LastUnderWay
<1>3. ~asked.ok
  BY <1>1 DEF LastUnderWay
<1>4. searches' = searches \ {r}
  BY DEF Answer
<1>5. CASE r = last
  <2>1. \A q \in searches : q = r
    <3> TAKE q \in searches
    <3>1. q.number \in Nat /\ r.number \in Nat /\ q.number <= r.number
      BY <1>2, <1>5
    <3>2. q.number = r.number
      BY <1>1, <3>1
    <3> QED
      BY <3>2
  <2> QED
    BY <1>1, <1>2, <1>3, <1>4, <1>5, <2>1
<1>6. CASE r # last
  BY <1>1, <1>2, <1>3, <1>4, <1>6
<1> QED
  BY <1>5, <1>6

LEMMA ChainStepKeeps == ChainInv /\ ChainNext => ChainInv'
<1> SUFFICES ASSUME ChainInv, ChainNext PROVE ChainInv'
  OBVIOUS
<1> USE DEF ChainInv, ChainTypeOK, SearchesNumbered
<1>1. CASE UNCHANGED <<result, failed, searches, asked, crossed>>
  BY <1>1 DEF LastUnderWay, ChainShowsLastAsked
<1>2. ASSUME SearchNothing \/ Clear PROVE ChainInv'
  <2>1. /\ result' = None /\ searches' = searches /\ crossed' = (searches # {})
        /\ asked'.number = asked.number /\ asked'.for = None /\ asked'.ok = asked.ok
        /\ asked' \in [number : Nat, for : {asked'.for}, ok : BOOLEAN]
    BY <1>2 DEF SearchNothing, Clear
  <2> QED
    BY <2>1 DEF LastUnderWay, ChainShowsLastAsked
<1>3. ASSUME Search PROVE ChainInv'
  <2>1. PICK ask :
          /\ asked' = [number |-> asked.number + 1, for |-> ask, ok |-> FALSE]
          /\ searches' = searches \cup {[number |-> asked.number + 1, ask |-> ask]}
          /\ crossed' = FALSE
    BY <1>3 DEF Search
  <2> DEFINE n == asked.number
             new == [number |-> n + 1, ask |-> ask]
  <2>2. n \in Nat /\ asked'.number = n + 1 /\ asked'.for = ask /\ ~asked'.ok
    BY <2>1
  <2>3. searches' = searches \cup {new} /\ new.number = n + 1 /\ new.ask = ask
    BY <2>1
  <2>4. ChainTypeOK'
    <3>1. [number |-> n + 1, for |-> ask, ok |-> FALSE] \in
            [number : Nat, for : {ask}, ok : BOOLEAN]
      BY <2>2
    <3> QED
      BY <2>1, <2>2, <3>1
  <2>5. \A r \in searches : r.number \in 1..n
    OBVIOUS
  <2> HIDE DEF new, n
  <2>6. 1..n \subseteq 1..(n + 1) /\ n + 1 \in 1..(n + 1) /\ n + 1 \notin 1..n
    BY <2>2
  <2>7. \A r \in searches' : r \in [number : Nat, ask : {r.ask}]
    BY <2>2, <2>3 DEF new, n
  <2>8. SearchesNumbered'
    BY <2>2, <2>3, <2>5, <2>6, <2>7
  <2>9. LastUnderWay' /\ ChainShowsLastAsked'
    BY <2>1, <2>2, <2>3 DEF LastUnderWay, ChainShowsLastAsked
  <2> QED
    BY <2>4, <2>8, <2>9
<1>4. ASSUME NEW r \in searches, ChainArrives(r) PROVE ChainInv'
  <2>1. /\ Answer(r) /\ result' = r.ask /\ failed' = failed
        /\ asked'.number = asked.number /\ asked'.for = asked.for
        /\ asked'.ok = (asked.ok \/ r.number = asked.number)
        /\ asked' \in [number : Nat, for : {asked'.for}, ok : BOOLEAN]
        /\ searches' = searches \ {r} /\ crossed' \in BOOLEAN
    BY <1>4 DEF ChainArrives, Answer
  <2>2. SearchesNumbered' /\ ChainTypeOK'
    BY <2>1
  <2>3. LastUnderWay' /\ ChainShowsLastAsked'
    <3> SUFFICES ASSUME ~crossed' PROVE LastUnderWay' /\ ChainShowsLastAsked'
      BY DEF LastUnderWay, ChainShowsLastAsked
    <3>1. CASE searches' = {}
      BY <2>1, <3>1, AnsweredInOrder DEF LastUnderWay, ChainShowsLastAsked
    <3>2. CASE searches' # {}
      <4>1. PICK q \in searches' : q.number = asked.number /\ q.ask = asked.for
        BY <2>1, <3>2, AnsweredInOrder
      <4>2. r.number # asked.number /\ ~asked.ok
        BY <2>1, <4>1, AnsweredInOrder
      <4> QED
        BY <2>1, <3>2, <4>1, <4>2 DEF LastUnderWay, ChainShowsLastAsked
    <3> QED
      BY <3>1, <3>2
  <2> QED
    BY <2>2, <2>3
<1>5. ASSUME NEW r \in searches, ChainFails(r) PROVE ChainInv'
  <2>1. /\ Answer(r) /\ result' = None /\ failed' = TRUE /\ asked' = asked
        /\ searches' = searches \ {r} /\ crossed' \in BOOLEAN
    BY <1>5 DEF ChainFails, Answer
  <2>2. SearchesNumbered' /\ ChainTypeOK'
    BY <2>1
  <2>3. LastUnderWay' /\ ChainShowsLastAsked'
    BY <2>1, AnsweredInOrder DEF LastUnderWay, ChainShowsLastAsked
  <2> QED
    BY <2>2, <2>3
<1>6. ASSUME NEW mode, ShowView(mode) PROVE ChainInv'
  BY <1>1, <1>6 DEF ShowView
<1>7. ASSUME NEW f, FillIn(f) PROVE ChainInv'
  BY <1>1, <1>7 DEF FillIn
<1>8. ASSUME NEW f, NEW raw, Narrow(f, raw) PROVE ChainInv'
  BY <1>1, <1>8 DEF Narrow
<1> QED
  BY <1>2, <1>3, <1>4, <1>5, <1>6, <1>7, <1>8 DEF ChainNext

\* Whenever no search is under way and no answer came out of order, the panel shows the
\* answer to the last search, or that it failed, whatever was cleared, searched for or
\* selected in between (search and clear of request-chain.tsx).
THEOREM ChainAlwaysShowsLastAsked == Spec => []ChainShowsLastAsked
<1>1. ChainInv /\ [Next]_vars => ChainInv'
  <2> SUFFICES ASSUME ChainInv, [Next]_vars PROVE ChainInv'
    OBVIOUS
  <2>1. CASE ChainNext
    BY <2>1, ChainStepKeeps
  <2>2. CASE UNCHANGED chainVars
    BY <2>2 DEF chainVars, ChainInv, ChainTypeOK, SearchesNumbered, LastUnderWay,
                ChainShowsLastAsked
  <2> QED
    BY <2>1, <2>2 DEF Next, vars
<1>2. ChainInv => ChainShowsLastAsked
  BY DEF ChainInv
<1> QED
  BY ChainInitial, <1>1, <1>2, PTL DEF Spec

-----------------------------------------------------------------------------
(* Navigation.                                                             *)

SearchTypeOK == search \in [query : Terms \cup {Blank}, open : BOOLEAN, focus : Nat \ {0}]

FocusInv == SearchTypeOK /\ moved \in BOOLEAN /\ EnterPicksAResult

\* The page is one of the pages there are.
PageInv ==
  /\ page \in Nat \ {0} /\ replaced \in BOOLEAN
  /\ ~replaced => page <= totalWorkloadPages

LEMMA PagesAreCounted == totalWorkloadPages \in Nat \ {0}
<1> DEFINE n == Len(filteredWorkloads)
<1>1. n \in Nat /\ PerPage \in Nat \ {0}
  BY ExplorerAssumption
<1> HIDE DEF n
<1>2. (n + PerPage - 1) \div PerPage \in Int
  BY <1>1
<1>3. totalWorkloadPages = Most(1, (n + PerPage - 1) \div PerPage)
  BY DEF totalWorkloadPages, n
<1> QED
  BY <1>2, <1>3 DEF Most

LEMMA ResultsAreCounted == totalResults \in Nat
BY DEF totalResults

LEMMA ResultsUnchanged ==
  ASSUME UNCHANGED <<namespaces, workloads>>, search'.query = search.query
  PROVE  totalResults' = totalResults
BY DEF totalResults, nsResults, wlResults, First

(* How a step may treat the focus: it keeps it and watches the results,     *)
(* keeps both, starts again from the first result, or moves to a result or  *)
(* towards them.                                                            *)

FocusKept == SearchTypeOK' /\ search'.focus = search.focus

FocusMoves(f) ==
  /\ f <= totalResults \/ (f <= search.focus /\ moved' = moved)
  /\ search' = [search EXCEPT !.focus = f]
  /\ UNCHANGED <<namespaces, workloads>>
  /\ moved' \in BOOLEAN

FocusStep ==
  \/ FocusKept /\ Watch
  \/ FocusKept /\ search'.query = search.query /\ UNCHANGED <<namespaces, workloads, moved>>
  \/ SearchTypeOK' /\ search'.focus = 1 /\ moved' = FALSE
  \/ \E f \in Nat \ {0} : FocusMoves(f)

LEMMA FocusStepKeeps == FocusInv /\ FocusStep => FocusInv'
<1> SUFFICES ASSUME FocusInv, FocusStep PROVE FocusInv'
  OBVIOUS
<1> USE DEF FocusInv
<1>1. CASE FocusKept /\ Watch
  <2>1. moved' \in BOOLEAN
    BY <1>1 DEF Watch
  <2>2. ~moved' => ~moved /\ totalResults' = totalResults
    BY <1>1 DEF Watch, totalResults
  <2> QED
    BY <1>1, <2>1, <2>2 DEF FocusKept, EnterPicksAResult
<1>2. CASE /\ FocusKept /\ search'.query = search.query
           /\ UNCHANGED <<namespaces, workloads, moved>>
  <2>1. totalResults' = totalResults
    BY <1>2, ResultsUnchanged
  <2> QED
    BY <1>2, <2>1 DEF FocusKept, EnterPicksAResult
<1>3. CASE SearchTypeOK' /\ search'.focus = 1 /\ moved' = FALSE
  <2>1. (totalResults \in Nat)'
    BY ResultsAreCounted, PTL
  <2>2. totalResults' > 0 => 1 <= totalResults'
    BY <2>1
  <2>3. EnterPicksAResult'
    BY <1>3, <2>2 DEF EnterPicksAResult
  <2> QED
    BY <1>3, <2>3
<1>4. ASSUME NEW f \in Nat \ {0}, FocusMoves(f) PROVE FocusInv'
  <2>1. totalResults \in Nat /\ search.focus \in Nat
    BY ResultsAreCounted DEF SearchTypeOK
  <2>2. SearchTypeOK' /\ search'.focus = f /\ search'.query = search.query
    BY <1>4 DEF SearchTypeOK, FocusMoves
  <2>3. totalResults' = totalResults
    BY <1>4, <2>2, ResultsUnchanged DEF FocusMoves
  <2> QED
    BY <1>4, <2>1, <2>2, <2>3 DEF EnterPicksAResult, FocusMoves
<1> QED
  BY <1>1, <1>2, <1>3, <1>4 DEF FocusStep

(* How a step may treat the page.                                           *)

PageReset == page' = 1 /\ replaced' = FALSE

PageKept == UNCHANGED <<page, replaced, workloads, workloadSearch>>

PageStep ==
  \/ PageReset \/ PageKept
  \/ page' = page /\ replaced' = (replaced \/ page > 1)
  \/ /\ page' \in {Most(page - 1, 1), Least(page + 1, totalWorkloadPages)}
     /\ UNCHANGED <<replaced, workloads, workloadSearch>>

LEMMA FirstPageIsThere == page = 1 /\ replaced \in BOOLEAN => PageInv
<1>1. page = 1 => page \in Nat \ {0} /\ page <= totalWorkloadPages
  BY PagesAreCounted
<1> QED
  BY <1>1 DEF PageInv

LEMMA PageStepKeeps == PageInv /\ PageStep => PageInv'
<1> SUFFICES ASSUME PageInv, PageStep PROVE PageInv'
  OBVIOUS
<1> USE DEF PageInv
<1>0. totalWorkloadPages \in Nat \ {0} /\ (totalWorkloadPages \in Nat \ {0})'
  BY PagesAreCounted, PTL
<1>1. UNCHANGED <<workloads, workloadSearch>> => totalWorkloadPages' = totalWorkloadPages
  BY DEF totalWorkloadPages, filteredWorkloads
<1>2. CASE PageReset
  <2>1. (page = 1 /\ replaced \in BOOLEAN => PageInv)'
    BY FirstPageIsThere, PTL
  <2>2. (page = 1)' /\ (replaced \in BOOLEAN)'
    BY <1>2 DEF PageReset
  <2> HIDE DEF PageInv
  <2> QED
    BY <2>1, <2>2
<1>3. CASE PageKept
  BY <1>1, <1>3 DEF PageKept
<1>4. CASE page' = page /\ replaced' = (replaced \/ page > 1)
  <2>1. replaced' \in BOOLEAN /\ page' \in Nat \ {0}
    BY <1>4
  <2>2. ~replaced' => page = 1
    <3>1. ~(page > 1) => page = 1
      OBVIOUS
    <3>2. ~replaced' => ~(page > 1)
      BY <1>4, Zenon
    <3> QED
      BY <3>1, <3>2, Zenon
  <2>3. 1 <= totalWorkloadPages'
    BY <1>0
  <2> QED
    BY <1>4, <2>1, <2>2, <2>3
<1>5. CASE /\ page' \in {Most(page - 1, 1), Least(page + 1, totalWorkloadPages)}
           /\ UNCHANGED <<replaced, workloads, workloadSearch>>
  BY <1>0, <1>1, <1>5 DEF Most, Least
<1> QED
  BY <1>2, <1>3, <1>4, <1>5 DEF PageStep

LEMMA SearchStaysTyped ==
  ASSUME SearchTypeOK
  PROVE  /\ \A b \in BOOLEAN :
              LET s == [search EXCEPT !.open = b]
              IN  /\ s \in [query : Terms \cup {Blank}, open : BOOLEAN, focus : Nat \ {0}]
                  /\ s.focus = search.focus /\ s.query = search.query
         /\ Closed \in [query : Terms \cup {Blank}, open : BOOLEAN, focus : Nat \ {0}]
         /\ Closed.focus = search.focus
BY DEF SearchTypeOK, Closed

LEMMA ElsewhereKeepsFocus ==
  SearchTypeOK /\ Elsewhere => FocusKept /\ search'.query = search.query
BY SearchStaysTyped DEF Elsewhere, FocusKept, SearchTypeOK

LEMMA SetNamespacePages ==
  ASSUME NEW n, NEW others, SetNamespace(n, others)
  PROVE  PageReset \/ PageKept
BY DEF SetNamespace, FetchWorkloads, PageReset, PageKept

LEMMA NavigationStep ==
  ASSUME SearchTypeOK, moved \in BOOLEAN, ExplorerNext
  PROVE  FocusStep /\ PageStep
<1> USE DEF PageStep
<1>1. ASSUME NEW r \in BagToSet(requests), NamespacesArrive(r) PROVE FocusStep /\ PageStep
  <2>1. PageReset \/ PageKept
    BY <1>1, SetNamespacePages DEF NamespacesArrive, PageKept
  <2> QED
    BY <1>1, <2>1 DEF NamespacesArrive, FocusStep, FocusKept, SearchTypeOK
<1>2. ASSUME NEW r \in BagToSet(requests), WorkloadsArrive(r) PROVE FocusStep /\ PageStep
  BY <1>2 DEF WorkloadsArrive, FocusStep, FocusKept, SearchTypeOK
<1>3. ASSUME NEW r \in BagToSet(requests), RequestFails(r) PROVE FocusStep /\ PageStep
  BY <1>3 DEF RequestFails, FocusStep, FocusKept, SearchTypeOK, PageKept
<1>4. ASSUME NEW c \in Contexts, ChooseContext(c) PROVE FocusStep /\ PageStep
  <2>1. PageReset \/ PageKept
    BY <1>4 DEF ChooseContext, FetchWorkloads, PageReset, PageKept
  <2> QED
    BY <1>4, <2>1, ElsewhereKeepsFocus DEF ChooseContext, FocusStep
<1>5. ASSUME NEW term, TypeNamespaceSearch(term) PROVE FocusStep /\ PageStep
  BY <1>5, ElsewhereKeepsFocus DEF TypeNamespaceSearch, FocusStep, PageKept, lists
<1>6. ASSUME NEW term, TypeWorkloadSearch(term) PROVE FocusStep /\ PageStep
  BY <1>6, ElsewhereKeepsFocus DEF TypeWorkloadSearch, FocusStep, PageReset, lists
<1>7. ASSUME NEW n, ClickNamespace(n) PROVE FocusStep /\ PageStep
  <2>1. PageReset \/ PageKept
    BY <1>7, SetNamespacePages DEF ClickNamespace, PageReset
  <2>2. FocusKept
    BY <1>7, SearchStaysTyped DEF ClickNamespace, FocusKept, SearchTypeOK
  <2> QED
    BY <1>7, <2>1, <2>2 DEF ClickNamespace, FocusStep
<1>8. ASSUME NEW w, ClickWorkload(w) PROVE FocusStep /\ PageStep
  <2>1. FocusKept /\ search'.query = search.query
    BY <1>8, SearchStaysTyped DEF ClickWorkload, FocusKept, SearchTypeOK
  <2> QED
    BY <1>8, <2>1 DEF ClickWorkload, FocusStep, PageKept, lists
<1>9. ASSUME PrevPage PROVE FocusStep /\ PageStep
  BY <1>9, ElsewhereKeepsFocus DEF PrevPage, FocusStep, lists
<1>10. ASSUME NextPage PROVE FocusStep /\ PageStep
  BY <1>10, ElsewhereKeepsFocus DEF NextPage, FocusStep, lists
<1>11. ASSUME NEW term \in Terms \cup {Blank}, TypeQuery(term) PROVE FocusStep /\ PageStep
  BY <1>11 DEF TypeQuery, FocusStep, SearchTypeOK, PageKept, lists
<1>12. ASSUME Open PROVE FocusStep /\ PageStep
  <2>1. FocusKept /\ search'.query = search.query
    BY <1>12, SearchStaysTyped DEF Open, FocusKept, SearchTypeOK
  <2> QED
    BY <1>12, <2>1 DEF Open, FocusStep, PageKept, lists
<1>13. ASSUME Close PROVE FocusStep /\ PageStep
  <2>1. FocusKept
    BY <1>13, SearchStaysTyped DEF Close, FocusKept, SearchTypeOK
  <2> QED
    BY <1>13, <2>1 DEF Close, FocusStep, PageKept, lists
<1>14. ASSUME ArrowKey PROVE FocusStep /\ PageStep
  <2>1. PICK f \in {Least(search.focus + 1, totalResults), Most(search.focus - 1, 1)} :
          search' = [search EXCEPT !.focus = f]
    BY <1>14 DEF ArrowKey
  <2>2. totalResults \in Nat \ {0} /\ search.focus \in Nat \ {0}
    BY <1>14, ResultsAreCounted DEF ArrowKey, Focused, SearchTypeOK
  <2>3. f \in Nat \ {0} /\ (f <= totalResults \/ f <= search.focus)
    BY <2>2 DEF Least, Most
  <2>4. UNCHANGED <<namespaces, workloads, moved>> /\ PageKept
    BY <1>14 DEF ArrowKey, PageKept, lists
  <2>5. FocusMoves(f)
    BY <2>1, <2>3, <2>4 DEF FocusMoves
  <2> QED
    BY <2>3, <2>4, <2>5 DEF FocusStep
<1>15. ASSUME NEW i \in 1..totalResults, MouseEnter(i) PROVE FocusStep /\ PageStep
  <2>1. i \in Nat \ {0} /\ i <= totalResults
    BY ResultsAreCounted
  <2>2. /\ search' = [search EXCEPT !.focus = i] /\ moved' = FALSE
        /\ UNCHANGED <<namespaces, workloads>> /\ PageKept
    BY <1>15 DEF MouseEnter, PageKept, lists
  <2>3. moved' \in BOOLEAN
    BY <2>2
  <2>4. FocusMoves(i)
    BY <2>1, <2>2, <2>3 DEF FocusMoves
  <2> QED
    BY <2>1, <2>2, <2>4 DEF FocusStep
<1>16. ASSUME NEW i, Pick(i) PROVE FocusStep /\ PageStep
  <2>1. PageReset \/ PageKept
    BY <1>16, SetNamespacePages DEF Pick, PageKept
  <2>2. FocusKept
    BY <1>16, SearchStaysTyped DEF Pick, FocusKept, SearchTypeOK
  <2> QED
    BY <1>16, <2>1, <2>2 DEF Pick, FocusStep
<1> QED
  BY <1>1, <1>2, <1>3, <1>4, <1>5, <1>6, <1>7, <1>8, <1>9, <1>10, <1>11, <1>12, <1>13,
     <1>14, <1>15, <1>16
  DEF ExplorerNext, ExplorerAnswered, SideBarUsed, SearchUsed

NavigationInv == FocusInv /\ PageInv

LEMMA NavigationInductive == Spec => []NavigationInv
<1>1. Init => NavigationInv
  <2> SUFFICES ASSUME Init PROVE NavigationInv
    OBVIOUS
  <2>1. /\ search = [query |-> Blank, open |-> FALSE, focus |-> 1]
        /\ page = 1 /\ moved = FALSE /\ replaced = FALSE
    BY DEF Init, ExplorerInit
  <2>2. search \in [query : Terms \cup {Blank}, open : BOOLEAN, focus : Nat \ {0}]
    BY <2>1
  <2>3. totalResults > 0 => 1 <= totalResults
    BY ResultsAreCounted
  <2>5. FocusInv
    BY <2>1, <2>2, <2>3 DEF FocusInv, SearchTypeOK, EnterPicksAResult
  <2>6. PageInv
    BY <2>1, FirstPageIsThere
  <2> QED
    BY <2>5, <2>6 DEF NavigationInv
<1>2. NavigationInv /\ [Next]_vars => NavigationInv'
  <2> SUFFICES ASSUME NavigationInv, [Next]_vars PROVE NavigationInv'
    OBVIOUS
  <2>1. CASE ExplorerNext
    BY <2>1, NavigationStep, FocusStepKeeps, PageStepKeeps DEF NavigationInv, FocusInv
  <2>2. CASE UNCHANGED explorerVars
    <3>1. FocusStep /\ PageStep
      BY <2>2 DEF explorerVars, lists, NavigationInv, FocusInv, FocusStep, FocusKept,
                  SearchTypeOK, PageStep, PageKept
    <3> QED
      BY <3>1, FocusStepKeeps, PageStepKeeps DEF NavigationInv
  <2> QED
    BY <2>1, <2>2 DEF Next, vars
<1> QED
  BY <1>1, <1>2, PTL DEF Spec

\* For any lists, limits and searches, Enter in the global search picks one of its
\* results as long as no list has changed under the focus (handleKeyDown of
\* global-search.tsx).
THEOREM EnterAlwaysPicksAResult == Spec => []EnterPicksAResult
<1>1. NavigationInv => EnterPicksAResult
  BY DEF NavigationInv, FocusInv
<1> QED
  BY NavigationInductive, <1>1, PTL

\* For any number of workloads and any page size, a button that is enabled moves the
\* page shown by one (workload-explorer.tsx); the one back, unless a late list came in
\* between.
THEOREM PagingButtonsAlwaysMove == Spec => PagingButtonsMove
<1>1. ASSUME PageInv, ~replaced, PrevPage PROVE currentWorkloadPage' + 1 = currentWorkloadPage
  <2>1. totalWorkloadPages \in Nat \ {0} /\ page \in Nat \ {0} /\ page <= totalWorkloadPages
    BY <1>1, PagesAreCounted DEF PageInv
  <2>2. currentWorkloadPage = page
    BY <2>1 DEF currentWorkloadPage, Least
  <2>3. page # 1 /\ page' = Most(page - 1, 1)
    BY <1>1, <2>2 DEF PrevPage, SideBar
  <2>6. page > 1 /\ page' = page - 1
    BY <2>1, <2>3 DEF Most
  <2>4. totalWorkloadPages' = totalWorkloadPages
    BY <1>1 DEF PrevPage, lists, totalWorkloadPages, filteredWorkloads
  <2>5. currentWorkloadPage' = page'
    BY <2>1, <2>4, <2>6 DEF currentWorkloadPage, Least
  <2> QED
    BY <2>1, <2>2, <2>5, <2>6
<1>2. ASSUME PageInv, NextPage PROVE currentWorkloadPage' = currentWorkloadPage + 1
  <2>1. totalWorkloadPages \in Nat \ {0} /\ page \in Nat \ {0}
    BY <1>2, PagesAreCounted DEF PageInv
  <2>2. page < totalWorkloadPages /\ page' = Least(page + 1, totalWorkloadPages)
    BY <1>2, <2>1 DEF NextPage, SideBar, currentWorkloadPage, Least
  <2>3. currentWorkloadPage = page
    BY <2>1, <2>2 DEF currentWorkloadPage, Least
  <2>6. page' = page + 1
    BY <2>1, <2>2 DEF Least
  <2>4. totalWorkloadPages' = totalWorkloadPages
    BY <1>2 DEF NextPage, lists, totalWorkloadPages, filteredWorkloads
  <2>5. currentWorkloadPage' = page'
    BY <2>1, <2>2, <2>4, <2>6 DEF currentWorkloadPage, Least
  <2> QED
    BY <2>1, <2>3, <2>5, <2>6
<1>3. NavigationInv =>
        [ /\ ~replaced /\ PrevPage => currentWorkloadPage' + 1 = currentWorkloadPage
          /\ NextPage => currentWorkloadPage' = currentWorkloadPage + 1
        ]_<<scope, explorerVars>>
  BY <1>1, <1>2 DEF NavigationInv
<1> QED
  BY NavigationInductive, <1>3, PTL DEF PagingButtonsMove

-----------------------------------------------------------------------------
(* What the chain panel adds up: induction and recursion.                  *)

\* A set that holds 0 and the successor of each of its numbers holds them all: if n is
\* missing, adding 1 maps the numbers of the set up to n one to one into those but 0.
LEMMA Induction ==
  ASSUME NEW S, 0 \in S, \A n \in Nat : n \in S => n + 1 \in S
  PROVE  Nat \subseteq S
<1>1. ASSUME NEW n \in Nat, n \notin S PROVE FALSE
  <2> DEFINE T == {m \in 0..n : m \in S}
             f == [m \in T |-> m + 1]
  <2>1. T \in SUBSET Nat /\ 0 \in T /\ \A m \in T : m <= n /\ m + 1 # 0
    BY <1>1
  <2>2. \A m \in T : m + 1 \in T
    <3> SUFFICES ASSUME NEW m \in 0..n, m \in S PROVE m + 1 \in 0..n /\ m + 1 \in S
      OBVIOUS
    <3>1. m # n
      BY <1>1
    <3> QED
      BY <3>1
  <2>3. f \in [T -> T \ {0}] /\ \A x, y \in T : f[x] = f[y] => x = y
    BY <2>1, <2>2
  <2> HIDE DEF f, T
  <2>4. IsFiniteSet(T)
    BY <2>1, <1>1, FS_BoundedSetOfNaturals
  <2>5. IsFiniteSet(T \ {0}) /\ Cardinality(T \ {0}) = Cardinality(T) - 1
    BY <2>1, <2>4, FS_RemoveElement
  <2>6. Cardinality(T) \in Nat
    BY <2>4, FS_CardinalityType
  <2>7. Cardinality(T \ {0}) < Cardinality(T)
    BY <2>5, <2>6
  <2> QED
    BY <2>3, <2>4, <2>5, <2>7, FS_PigeonHole
<1> QED
  BY <1>1

\* The same for the numbers up to n.
LEMMA InductionTo ==
  ASSUME NEW n \in Nat, NEW S, 0 \in S, \A m \in 0..(n - 1) : m \in S => m + 1 \in S
  PROVE  \A m \in 0..n : m \in S
<1> DEFINE D == {m \in Nat : m <= n => m \in S}
<1>1. 0 \in D
  OBVIOUS
<1>2. \A m \in Nat : m \in D => m + 1 \in D
  <2> SUFFICES ASSUME NEW m \in Nat, m \in D, m + 1 <= n PROVE m + 1 \in S
    OBVIOUS
  <2>1. m \in 0..(n - 1) /\ m <= n
    OBVIOUS
  <2> QED
    BY <2>1
<1> HIDE DEF D
<1>3. Nat \subseteq D
  BY <1>1, <1>2, Induction
<1> QED
  BY <1>3 DEF D

\* A recursion over the numbers up to n, given by the function of each step.
IsRecursion(n, V, base, step) ==
  n \in Nat /\ base \in V /\ step \in [1..n -> [V -> V]]

IsSolution(n, V, base, step, f) ==
  /\ f \in [0..n -> V]
  /\ f[0] = base
  /\ \A i \in 1..n : f[i] = step[i][f[i - 1]]

\* It has a solution.
LEMMA Recursion ==
  ASSUME NEW n, NEW V, NEW base, NEW step, IsRecursion(n, V, base, step)
  PROVE  \E f : IsSolution(n, V, base, step, f)
<1> USE DEF IsRecursion
<1> DEFINE Solves(m, f) ==
             f[0] = base /\ \A i \in 1..m : f[i] = step[i][f[i - 1]]
           D == {m \in 0..n : \E f \in [0..m -> V] : Solves(m, f)}
<1>1. 0 \in D
  <2> DEFINE f == [i \in 0..0 |-> base]
  <2>1. f \in [0..0 -> V] /\ Solves(0, f) /\ 0 \in 0..n
    OBVIOUS
  <2> HIDE DEF f
  <2> QED
    BY <2>1
<1>2. ASSUME NEW m \in 0..(n - 1), m \in D PROVE m + 1 \in D
  <2>1. PICK f \in [0..m -> V] : Solves(m, f)
    BY <1>2
  <2> DEFINE g == [i \in 0..(m + 1) |-> IF i <= m THEN f[i] ELSE step[m + 1][f[m]]]
  <2>2. m \in Nat /\ m + 1 \in 1..n /\ m \in 0..m /\ f[m] \in V /\ m + 1 \in 0..n
    OBVIOUS
  <2>3. step[m + 1] \in [V -> V]
    BY <2>2
  <2>4. step[m + 1][f[m]] \in V
    BY <2>2, <2>3
  <2>5. g \in [0..(m + 1) -> V]
    BY <2>2, <2>4
  <2>6. \A i \in 0..m : g[i] = f[i]
    BY <2>2
  <2>7. g[m + 1] = step[m + 1][f[m]]
    BY <2>2
  <2> HIDE DEF g
  <2>8. g[0] = base
    BY <2>1, <2>2, <2>6
  <2>9. ASSUME NEW i \in 1..(m + 1) PROVE g[i] = step[i][g[i - 1]]
    <3>1. CASE i \in 1..m
      <4>1. i \in 0..m /\ i - 1 \in 0..m
        BY <2>2, <3>1
      <4> QED
        BY <2>1, <2>6, <3>1, <4>1
    <3>2. CASE i = m + 1
      <4>1. i - 1 = m
        BY <2>2, <3>2
      <4> QED
        BY <2>2, <2>6, <2>7, <3>2, <4>1
    <3> QED
      BY <2>2, <3>1, <3>2
  <2> QED
    BY <2>2, <2>5, <2>8, <2>9
<1> HIDE DEF D
<1>3. \A m \in 0..n : m \in D
  BY <1>1, <1>2, InductionTo
<1>4. n \in D
  BY <1>3
<1> QED
  BY <1>4 DEF D, IsSolution

\* Min is what it should be.
LEMMA MinFacts ==
  ASSUME NEW S \in SUBSET Nat, S # {}
  PROVE  Min(S) \in S /\ \A y \in S : Min(S) <= y
<1> DEFINE D == {n \in Nat : (\E x \in S : x <= n) => \E x \in S : \A y \in S : x <= y}
<1>1. 0 \in D
  OBVIOUS
<1>2. ASSUME NEW n \in Nat, n \in D PROVE n + 1 \in D
  <2>1. CASE \E x \in S : x <= n
    BY <1>2, <2>1
  <2>2. CASE ~\E x \in S : x <= n
    BY <2>2
  <2> QED
    BY <2>1, <2>2
<1> HIDE DEF D
<1>3. Nat \subseteq D
  BY <1>1, <1>2, Induction
<1>4. PICK z \in S : TRUE
  OBVIOUS
<1>5. z \in D
  BY <1>3
<1>6. \E x \in S : \A y \in S : x <= y
  BY <1>5 DEF D
<1> QED
  BY <1>6 DEF Min

-----------------------------------------------------------------------------
(* The chips.                                                              *)

\* Filter keeps one element for each place that passes.
LEMMA FilterLength ==
  ASSUME NEW A, NEW s \in Seq(A), NEW passes
  PROVE  /\ Filter(s, passes) \in Seq(A)
         /\ Len(Filter(s, passes)) = Cardinality({i \in DOMAIN s : passes[i]})
<1> DEFINE n == Len(s)
           Kept(f) == f = [i \in 0..n |->
                             IF i = 0 THEN <<>>
                             ELSE IF passes[i] THEN Append(f[i - 1], s[i]) ELSE f[i - 1]]
           step == [i \in 1..n |->
                      [k \in Seq(A) |-> IF passes[i] THEN Append(k, s[i]) ELSE k]]
           f == CHOOSE g : Kept(g)
           at(m) == {i \in 1..m : passes[i]}
<1>1. n \in Nat /\ DOMAIN s = 1..n /\ \A i \in 1..n : s[i] \in A
  OBVIOUS
<1>2. Kept(f)
  <2>1. step \in [1..n -> [Seq(A) -> Seq(A)]]
    BY <1>1
  <2>2. <<>> \in Seq(A)
    OBVIOUS
  <2>3. \A i \in 1..n : \A k \in Seq(A) :
          step[i][k] = IF passes[i] THEN Append(k, s[i]) ELSE k
    OBVIOUS
  <2> HIDE DEF step
  <2>4. IsRecursion(n, Seq(A), <<>>, step)
    BY <1>1, <2>1, <2>2 DEF IsRecursion
  <2>5. PICK g : IsSolution(n, Seq(A), <<>>, step, g)
    BY <2>4, Recursion
  <2>6. /\ g \in [0..n -> Seq(A)]
        /\ g[0] = <<>> /\ \A i \in 1..n : g[i] = step[i][g[i - 1]]
    BY <2>5 DEF IsSolution
  <2> DEFINE h == [i \in 0..n |-> IF i = 0 THEN <<>>
                     ELSE IF passes[i] THEN Append(g[i - 1], s[i]) ELSE g[i - 1]]
  <2>7. ASSUME NEW i \in 0..n PROVE g[i] = h[i]
    <3>1. CASE i = 0
      BY <2>6, <3>1
    <3>2. CASE i \in 1..n
      <4>1. i # 0 /\ i - 1 \in 0..n
        BY <1>1, <3>2
      <4>2. g[i - 1] \in Seq(A)
        BY <2>6, <4>1
      <4> QED
        BY <2>3, <2>6, <3>2, <4>1, <4>2
    <3> QED
      BY <1>1, <3>1, <3>2
  <2>8. g = h
    BY <2>6, <2>7
  <2>9. Kept(g)
    BY <2>8
  <2> QED
    BY <2>9
<1> HIDE DEF f
<1>3. \A i \in 0..n : f[i] = IF i = 0 THEN <<>>
                     ELSE IF passes[i] THEN Append(f[i - 1], s[i]) ELSE f[i - 1]
  BY <1>2
<1> DEFINE D == {m \in 0..n : f[m] \in Seq(A) /\ IsFiniteSet(at(m))
                              /\ Len(f[m]) = Cardinality(at(m))}
<1>4. 0 \in D
  <2>1. at(0) = {} /\ 0 \in 0..n
    BY <1>1
  <2>2. f[0] = <<>>
    BY <1>3, <2>1
  <2>3. f[0] \in Seq(A) /\ Len(f[0]) = 0
    BY <2>2
  <2>4. IsFiniteSet(at(0)) /\ Cardinality(at(0)) = 0
    BY <2>1, FS_EmptySet
  <2> HIDE DEF at
  <2> QED
    BY <2>1, <2>3, <2>4
<1>5. ASSUME NEW m \in 0..(n - 1), m \in D PROVE m + 1 \in D
  <2>1. m \in Nat /\ m + 1 \in 0..n /\ m + 1 \in 1..n /\ m + 1 # 0 /\ (m + 1) - 1 = m
    BY <1>1
  <2>2. f[m + 1] = IF passes[m + 1] THEN Append(f[m], s[m + 1]) ELSE f[m]
    BY <1>3, <2>1
  <2>3. f[m] \in Seq(A) /\ IsFiniteSet(at(m)) /\ Len(f[m]) = Cardinality(at(m))
    BY <1>5
  <2>4. CASE passes[m + 1]
    <3>1. at(m + 1) = at(m) \cup {m + 1} /\ m + 1 \notin at(m)
      BY <2>1, <2>4
    <3> HIDE DEF at
    <3>2. IsFiniteSet(at(m + 1)) /\ Cardinality(at(m + 1)) = Cardinality(at(m)) + 1
      BY <2>3, <3>1, FS_AddElement
    <3>3. f[m + 1] \in Seq(A) /\ Len(f[m + 1]) = Len(f[m]) + 1
      BY <1>1, <2>1, <2>2, <2>3, <2>4
    <3>4. Len(f[m + 1]) = Cardinality(at(m + 1))
      BY <2>3, <3>2, <3>3
    <3> QED
      BY <2>1, <3>2, <3>3, <3>4
  <2>5. CASE ~passes[m + 1]
    <3>1. at(m + 1) = at(m)
      BY <2>1, <2>5
    <3>2. f[m + 1] = f[m]
      BY <2>2, <2>5
    <3> HIDE DEF at
    <3> QED
      BY <2>1, <2>3, <3>1, <3>2
  <2> QED
    BY <2>4, <2>5
<1> HIDE DEF D
<1>6. \A m \in 0..n : m \in D
  BY <1>1, <1>4, <1>5, InductionTo
<1>7. n \in D
  BY <1>1, <1>6
<1>8. Filter(s, passes) = f[n]
  BY DEF Filter, f
<1>9. at(n) = {i \in DOMAIN s : passes[i]}
  BY <1>1
<1> QED
  BY <1>7, <1>8, <1>9 DEF D

-----------------------------------------------------------------------------
(* The path and its graph.                                                 *)

\* What is assumed of the items of an answer.
ItemsOK ==
  /\ items \in Seq(ToSet(items))
  /\ \A i \in DOMAIN items :
       items[i].workload \in Nat /\ items[i].time \in Nat \cup {None}

\* The recursion of uniquePath.
IsPath(f) ==
  f = [i \in 0..Len(items) |->
         IF i = 0 THEN <<>>
         ELSE IF f[i - 1] # <<>> /\ Last(f[i - 1]) = items[i].workload
                THEN f[i - 1]
                ELSE Append(f[i - 1], items[i].workload)]

\* It has a solution.
LEMMA PathExists ==
  ASSUME ItemsOK
  PROVE  \E f : IsPath(f)
<1> DEFINE n == Len(items)
           step == [i \in 1..n |-> [p \in Seq(Nat) |->
                      IF p # <<>> /\ Last(p) = items[i].workload THEN p
                      ELSE Append(p, items[i].workload)]]
<1>1. n \in Nat /\ DOMAIN items = 1..n /\ \A i \in 1..n : items[i].workload \in Nat
  BY DEF ItemsOK
<1>2. ASSUME NEW i \in 1..n, NEW p \in Seq(Nat)
      PROVE  (IF p # <<>> /\ Last(p) = items[i].workload THEN p
              ELSE Append(p, items[i].workload)) \in Seq(Nat)
  BY <1>1
<1>3. step \in [1..n -> [Seq(Nat) -> Seq(Nat)]]
  BY <1>2
<1>4. \A i \in 1..n : \A p \in Seq(Nat) :
        step[i][p] = IF p # <<>> /\ Last(p) = items[i].workload THEN p
                     ELSE Append(p, items[i].workload)
  OBVIOUS
<1> HIDE DEF step
<1>5. <<>> \in Seq(Nat)
  OBVIOUS
<1>6. IsRecursion(n, Seq(Nat), <<>>, step)
  BY <1>1, <1>3, <1>5 DEF IsRecursion
<1>7. PICK g : IsSolution(n, Seq(Nat), <<>>, step, g)
  BY <1>6, Recursion
<1>8. /\ g \in [0..n -> Seq(Nat)] /\ g[0] = <<>>
      /\ \A i \in 1..n : g[i] = step[i][g[i - 1]]
  BY <1>7 DEF IsSolution
<1> DEFINE h == [i \in 0..n |->
                   IF i = 0 THEN <<>>
                   ELSE IF g[i - 1] # <<>> /\ Last(g[i - 1]) = items[i].workload
                          THEN g[i - 1]
                          ELSE Append(g[i - 1], items[i].workload)]
<1>9. ASSUME NEW i \in 0..n PROVE g[i] = h[i]
  <2>1. CASE i = 0
    BY <1>8, <2>1
  <2>2. CASE i \in 1..n
    <3>1. i # 0 /\ i - 1 \in 0..n
      BY <1>1, <2>2
    <3>2. g[i - 1] \in Seq(Nat)
      BY <1>8, <3>1
    <3> QED
      BY <1>4, <1>8, <2>2, <3>1, <3>2
  <2> QED
    BY <1>1, <2>1, <2>2
<1>10. g = h
  BY <1>8, <1>9
<1> QED
  BY <1>10 DEF IsPath

\* No workload of the path is followed by itself.
LEMMA PathFacts ==
  ASSUME ItemsOK, items # <<>>
  PROVE  /\ uniquePath \in Seq(Nat) /\ Len(uniquePath) # 0
         /\ \A k \in 1..(Len(uniquePath) - 1) : uniquePath[k] # uniquePath[k + 1]
<1> DEFINE n == Len(items)
           f == CHOOSE g : IsPath(g)
           Good(p) == p \in Seq(Nat) /\ \A k \in 1..(Len(p) - 1) : p[k] # p[k + 1]
           D == {m \in 0..n : Good(f[m]) /\ (m # 0 => Len(f[m]) # 0)}
<1>1. n \in Nat /\ n # 0 /\ \A i \in 1..n : items[i].workload \in Nat
  BY DEF ItemsOK
<1>2. IsPath(f)
  BY PathExists
<1>3. uniquePath = f[n]
  BY DEF uniquePath, IsPath
<1> HIDE DEF f
<1>4. \A i \in 0..n : f[i] = IF i = 0 THEN <<>>
         ELSE IF f[i - 1] # <<>> /\ Last(f[i - 1]) = items[i].workload
                THEN f[i - 1]
                ELSE Append(f[i - 1], items[i].workload)
  BY <1>2 DEF IsPath
<1>5. 0 \in D
  <2>1. 0 \in 0..n
    BY <1>1
  <2>2. f[0] = <<>>
    BY <1>4, <2>1
  <2>3. <<>> \in Seq(Nat) /\ Len(<<>>) = 0 /\ 1..(0 - 1) = {}
    OBVIOUS
  <2>4. Good(<<>>)
    BY <2>3
  <2> HIDE DEF Good
  <2> QED
    BY <2>1, <2>2, <2>4
<1>6. ASSUME NEW m \in 0..(n - 1), m \in D PROVE m + 1 \in D
  <2> DEFINE w == items[m + 1].workload
             p == f[m]
  <2>1. m + 1 \in 0..n /\ m + 1 \in 1..n /\ m + 1 # 0 /\ (m + 1) - 1 = m /\ w \in Nat
    BY <1>1
  <2>2. f[m + 1] = IF p # <<>> /\ Last(p) = w THEN p ELSE Append(p, w)
    BY <1>4, <2>1
  <2>3. Good(p)
    BY <1>6
  <2> HIDE DEF w, p
  <2>4. CASE p # <<>> /\ Last(p) = w
    <3>1. f[m + 1] = p /\ Len(p) # 0
      BY <2>2, <2>3, <2>4
    <3> QED
      BY <2>1, <2>3, <3>1
  <2>5. CASE ~(p # <<>> /\ Last(p) = w)
    <3> DEFINE q == Append(p, w)
    <3>1. q \in Seq(Nat) /\ Len(q) = Len(p) + 1 /\ Len(p) \in Nat
      BY <2>1, <2>3
    <3>2. q[Len(p) + 1] = w /\ \A k \in 1..Len(p) : q[k] = p[k]
      BY <2>1, <2>3
    <3>3. f[m + 1] = q
      BY <2>2, <2>5
    <3>4. p # <<>> => p[Len(p)] # w
      BY <2>5 DEF Last
    <3>5. p = <<>> <=> Len(p) = 0
      BY <2>3
    <3> HIDE DEF q
    <3>6. ASSUME NEW k \in 1..(Len(q) - 1) PROVE q[k] # q[k + 1]
      <4>1. k \in 1..Len(p) /\ Len(p) # 0 /\ q[k] = p[k]
        BY <3>1, <3>2
      <4>2. CASE k = Len(p)
        BY <3>2, <3>4, <3>5, <4>1, <4>2
      <4>3. CASE k # Len(p)
        <5>1. k \in 1..(Len(p) - 1) /\ k + 1 \in 1..Len(p)
          BY <3>1, <4>1, <4>3
        <5> QED
          BY <2>3, <3>2, <4>1, <5>1
      <4> QED
        BY <4>2, <4>3
    <3>7. Len(q) # 0
      BY <3>1
    <3> QED
      BY <2>1, <3>1, <3>3, <3>6, <3>7
  <2> QED
    BY <2>4, <2>5
<1> HIDE DEF D
<1>7. \A m \in 0..n : m \in D
  BY <1>1, <1>5, <1>6, InductionTo
<1>8. n \in D
  BY <1>1, <1>7
<1> QED
  BY <1>1, <1>3, <1>8 DEF D

\* Counting the members of a finite set by their values and adding up the counts gives
\* the number of members.
LEMMA CountsAddUp ==
  ASSUME NEW I, IsFiniteSet(I), NEW V, NEW value \in [I -> V]
  PROVE  SumFunction([v \in {value[i] : i \in I} |-> Cardinality({i \in I : value[i] = v})])
           = Cardinality(I)
<1> DEFINE D == {value[i] : i \in I}
           count == [v \in D |-> Cardinality({i \in I : value[i] = v})]
           those(s) == {i \in I : value[i] \in s}
           one(s) == CHOOSE x \in s : TRUE
           IsIter(f) == f = [s \in SUBSET D |->
                               IF s = {} THEN 0 ELSE count[one(s)] + f[s \ {one(s)}]]
           f == CHOOSE g : IsIter(g)
           h == [s \in SUBSET D |-> Cardinality(those(s))]
<1>1. IsFiniteSet(D)
  <2>1. value \in Surjection(I, D)
    BY DEF Surjection
  <2> QED
    BY <2>1, FS_Surjection
<1>2. \A s \in SUBSET D : IsFiniteSet(those(s)) /\ Cardinality(those(s)) \in Nat
  BY FS_Subset, FS_CardinalityType
<1>3. ASSUME NEW s \in SUBSET D, s # {}
      PROVE  h[s] = count[one(s)] + h[s \ {one(s)}]
  <2> DEFINE x == one(s)
             r == s \ {x}
             A == {i \in I : value[i] = x}
             B == those(r)
  <2>1. x \in s /\ x \in D /\ r \in SUBSET D
    BY <1>3
  <2>2. those(s) = A \cup B /\ A \cap B = {}
    BY <2>1
  <2>3. IsFiniteSet(A) /\ IsFiniteSet(B)
    BY FS_Subset
  <2>4. Cardinality(A) \in Nat /\ Cardinality(B) \in Nat
    BY <2>3, FS_CardinalityType
  <2>5. count[x] = Cardinality(A)
    BY <2>1
  <2>6. h[s] = Cardinality(those(s)) /\ h[r] = Cardinality(B)
    BY <2>1
  <2> HIDE DEF x, A, B, h, count, those
  <2>7. Cardinality(A \cup B) = Cardinality(A) + Cardinality(B) - Cardinality(A \cap B)
    BY <2>3, FS_Union
  <2>8. Cardinality(A \cap B) = 0
    BY <2>2, FS_EmptySet
  <2>9. h[s] = count[x] + h[r]
    BY <2>2, <2>4, <2>5, <2>6, <2>7, <2>8
  <2> QED
    BY <2>9 DEF x
<1>4. h[{}] = 0
  <2>1. those({}) = {} /\ {} \in SUBSET D
    OBVIOUS
  <2>2. h[{}] = Cardinality(those({}))
    BY <2>1
  <2> QED
    BY <2>1, <2>2, FS_EmptySet
<1>5. IsIter(h)
  <2> DEFINE k == [s \in SUBSET D |-> IF s = {} THEN 0 ELSE count[one(s)] + h[s \ {one(s)}]]
  <2>1. \A s \in SUBSET D : h[s] = k[s]
    <3> HIDE DEF h, count, D, one
    <3> QED
      BY <1>3, <1>4
  <2>2. h = k
    BY <2>1
  <2> QED
    BY <2>2
<1>6. IsIter(f)
  BY <1>5
<1>7. SumFunction(count) = f[D]
  BY DEF SumFunction, SumFunctionOnSet, FoldFunctionOnSet, MapThenFoldSet
<1> HIDE DEF f, h, count, D
<1>8. \A s \in SUBSET D : f[s] = IF s = {} THEN 0 ELSE count[one(s)] + f[s \ {one(s)}]
  BY <1>6
<1> DEFINE N == {n \in Nat : \A s \in SUBSET D : Cardinality(s) = n => f[s] = h[s]}
<1>9. 0 \in N
  <2>1. ASSUME NEW s \in SUBSET D, Cardinality(s) = 0 PROVE s = {}
    <3>1. IsFiniteSet(s)
      BY <1>1, FS_Subset
    <3> QED
      BY <2>1, <3>1, FS_EmptySet
  <2> QED
    BY <1>4, <1>8, <2>1
<1>10. ASSUME NEW n \in Nat, n \in N PROVE n + 1 \in N
  <2> SUFFICES ASSUME NEW s \in SUBSET D, Cardinality(s) = n + 1 PROVE f[s] = h[s]
    OBVIOUS
  <2>1. IsFiniteSet(s)
    BY <1>1, FS_Subset
  <2>2. s # {}
    BY FS_EmptySet
  <2>3. one(s) \in s /\ s \ {one(s)} \in SUBSET D
    BY <2>2
  <2> HIDE DEF one
  <2>4. Cardinality(s \ {one(s)}) = Cardinality(s) - 1
    BY <2>1, <2>3, FS_RemoveElement
  <2>5a. Cardinality(s \ {one(s)}) = n
    BY <2>4
  <2>5. f[s \ {one(s)}] = h[s \ {one(s)}]
    BY <1>10, <2>3, <2>5a
  <2> QED
    BY <1>3, <1>8, <2>2, <2>5
<1> HIDE DEF N
<1>11. Nat \subseteq N
  BY <1>9, <1>10, Induction
<1>12. Cardinality(D) \in Nat
  BY <1>1, FS_CardinalityType
<1>13. f[D] = h[D]
  BY <1>11, <1>12 DEF N
<1>14. h[D] = Cardinality(I)
  <2>1. those(D) = I
    BY DEF D
  <2> QED
    BY <2>1 DEF h
<1> QED
  BY <1>7, <1>13, <1>14 DEF count, D

\* When no workload of a path follows itself, the edges add up to its steps.
LEMMA EdgesAddUp ==
  ASSUME NEW p \in Seq(Nat), Len(p) # 0, \A k \in 1..(Len(p) - 1) : p[k] # p[k + 1]
  PROVE  SumFunction(edgeCounts(p)) = Len(p) - 1
<1> DEFINE at == {i \in 1..(Len(p) - 1) : p[i] # p[i + 1]}
           step == [i \in at |-> <<p[i], p[i + 1]>>]
           V == {step[i] : i \in at}
<1>1. Len(p) \in Nat /\ Len(p) - 1 \in Nat
  OBVIOUS
<1>2. at = 1..(Len(p) - 1)
  OBVIOUS
<1>3. IsFiniteSet(at) /\ Cardinality(at) = Len(p) - 1
  <2> DEFINE n == Len(p) - 1
  <2> HIDE DEF n
  <2>1. n \in Nat
    BY <1>1 DEF n
  <2>2. IsFiniteSet(1..n) /\ Cardinality(1..n) = n
    BY <2>1, FS_Interval
  <2> QED
    BY <1>2, <2>2 DEF n
<1>4. step \in [at -> V]
  OBVIOUS
<1>5. {<<p[i], p[i + 1]>> : i \in at} = {step[i] : i \in at}
  OBVIOUS
<1>6. \A s : {i \in at : <<p[i], p[i + 1]>> = s} = {i \in at : step[i] = s}
  OBVIOUS
<1>7. edgeCounts(p) = [s \in {step[i] : i \in at} |-> Cardinality({i \in at : step[i] = s})]
  BY <1>5, <1>6 DEF edgeCounts
<1> HIDE DEF at, step, V
<1>8. SumFunction([s \in {step[i] : i \in at} |-> Cardinality({i \in at : step[i] = s})])
        = Cardinality(at)
  BY <1>3, <1>4, CountsAddUp
<1> QED
  BY <1>3, <1>7, <1>8

\* A node is numbered by the first place of the path where it is.
LEMMA NodesAreFirst ==
  ASSUME NEW p \in Seq(Nat), NEW w \in ToSet(p)
  PROVE  \A i \in 1..(SelectInSeq(p, LAMBDA v : v = w) - 1) : p[i] # w
<1> DEFINE I == {i \in 1..Len(p) : p[i] = w}
<1>1. I # {} /\ I \subseteq Nat
  BY DEF ToSet
<1>2. SelectInSeq(p, LAMBDA v : v = w) = Min(I)
  BY <1>1 DEF SelectInSeq
<1>3. Min(I) \in I /\ \A j \in I : Min(I) <= j
  BY <1>1, MinFacts
<1>4. Len(p) \in Nat /\ Min(I) \in 1..Len(p)
  BY <1>3
<1> SUFFICES ASSUME NEW i \in 1..(Min(I) - 1) PROVE i \notin I /\ i \in 1..Len(p)
  BY <1>2
<1>5. i \in 1..Len(p) /\ i < Min(I) /\ i \in Nat
  BY <1>4
<1> QED
  BY <1>3, <1>4, <1>5

-----------------------------------------------------------------------------
(* The rows of the spans.                                                  *)

Row ==
  [span : {items[i].span : i \in DOMAIN items}, workload : Nat, start : Nat, end : Nat,
   count : Nat, events : SUBSET {items[i].event : i \in DOMAIN items}]

Rows == UNION {[S -> Row] : S \in SUBSET {items[i].span : i \in DOMAIN items}}

\* The items of a span with a time among the first m.
Mine(m, span) ==
  {i \in 1..m : None \notin {items[i].span, items[i].time} /\ items[i].span = span}

\* What the rows tell of the first m items.
Tell(rows, m) ==
  /\ \A span : span \in DOMAIN rows <=> Mine(m, span) # {}
  /\ \A span \in DOMAIN rows :
       /\ rows[span].span = span
       /\ \E i \in Mine(m, span) : rows[span].start = items[i].time
       /\ \E i \in Mine(m, span) : rows[span].end = items[i].time
       /\ \A i \in Mine(m, span) :
            rows[span].start <= items[i].time /\ items[i].time <= rows[span].end
       /\ rows[span].count = Cardinality(Mine(m, span))

\* Those of a span are finitely many.
LEMMA MineFinite ==
  ASSUME NEW m \in Nat, NEW span
  PROVE  IsFiniteSet(Mine(m, span)) /\ Cardinality(Mine(m, span)) \in Nat
<1>1. IsFiniteSet(1..m)
  BY FS_Interval
<1>2. Mine(m, span) \in SUBSET (1..m)
  BY DEF Mine
<1> QED
  BY <1>1, <1>2, FS_Subset, FS_CardinalityType

\* An item joins those of its span, if it has a time, and no others.
LEMMA MineGrows ==
  ASSUME NEW m \in Nat, NEW span
  PROVE  /\ Mine(m + 1, span) =
              IF None \notin {items[m + 1].span, items[m + 1].time} /\ items[m + 1].span = span
                THEN Mine(m, span) \cup {m + 1} ELSE Mine(m, span)
         /\ m + 1 \notin Mine(m, span)
<1>1. \A i : i \in 1..(m + 1) <=> i \in 1..m \/ i = m + 1
  OBVIOUS
<1>2. m + 1 \notin 1..m
  OBVIOUS
<1> QED
  BY <1>1, <1>2 DEF Mine

\* A row that takes an item stays a row.
LEMMA WidenedFacts ==
  ASSUME NEW row \in Row, NEW item, item.time \in Nat,
         item.event \in {items[i].event : i \in DOMAIN items}
  PROVE  /\ Widened(row, item) \in Row
         /\ Widened(row, item).span = row.span
         /\ Widened(row, item).start = Smaller(row.start, item.time)
         /\ Widened(row, item).end = Larger(row.end, item.time)
         /\ Widened(row, item).count = row.count + 1
<1>1. Smaller(row.start, item.time) \in Nat /\ Larger(row.end, item.time) \in Nat
  BY DEF Smaller, Larger, Row
<1>2. row.count + 1 \in Nat
  BY DEF Row
<1>3. row.events \cup {item.event} \in SUBSET {items[i].event : i \in DOMAIN items}
  BY DEF Row
<1> QED
  BY <1>1, <1>2, <1>3 DEF Widened, Row

\* What becomes of the rows with the next item.
LEMMA GroupedFacts ==
  ASSUME ItemsOK, NEW rows \in Rows, NEW k \in DOMAIN items
  PROVE  LET item == items[k]
             next == Grouped(rows, item)
         IN  /\ next \in Rows
             /\ None \in {item.span, item.time} => next = rows
             /\ None \notin {item.span, item.time} =>
                  /\ item.time \in Nat
                  /\ DOMAIN next = DOMAIN rows \cup {item.span}
                  /\ \A span \in DOMAIN rows :
                       next[span] = IF span = item.span THEN Widened(rows[span], item)
                                    ELSE rows[span]
                  /\ item.span \notin DOMAIN rows =>
                       /\ next[item.span].span = item.span
                       /\ next[item.span].start = item.time
                       /\ next[item.span].end = item.time
                       /\ next[item.span].count = 1
<1> DEFINE item == items[k]
           next == Grouped(rows, item)
           Spans == {items[i].span : i \in DOMAIN items}
           Events == {items[i].event : i \in DOMAIN items}
           new == [span |-> item.span, workload |-> item.workload,
                   start |-> item.time, end |-> item.time,
                   count |-> 1, events |-> {item.event}]
<1>1. item.workload \in Nat /\ item.time \in Nat \cup {None}
  BY DEF ItemsOK
<1>2. item.span \in Spans /\ item.event \in Events
  OBVIOUS
<1>3. DOMAIN rows \in SUBSET Spans /\ rows \in [DOMAIN rows -> Row]
  BY DEF Rows
<1>4. Row = [span : Spans, workload : Nat, start : Nat, end : Nat, count : Nat,
             events : SUBSET Events]
  BY DEF Row
<1>5. \A S \in SUBSET Spans : \A f \in [S -> Row] : f \in Rows
  BY DEF Rows
<1> HIDE DEF item, Spans, Events
<1>6. CASE None \in {item.span, item.time}
  <2>1. next = rows
    BY <1>6 DEF Grouped
  <2> HIDE DEF next
  <2> QED
    BY <1>6, <2>1 DEF item, next
<1>7. CASE None \notin {item.span, item.time} /\ item.span \in DOMAIN rows
  <2>1. next = [span \in DOMAIN rows |->
                  IF span = item.span THEN Widened(rows[span], item) ELSE rows[span]]
    BY <1>7 DEF Grouped
  <2>2. item.time \in Nat
    BY <1>1, <1>7
  <2>3. Widened(rows[item.span], item) \in Row
    BY <1>2, <1>3, <1>7, <2>2, WidenedFacts DEF Events
  <2>4. next \in [DOMAIN rows -> Row]
    BY <1>3, <2>1, <2>3
  <2>5. \A span \in DOMAIN rows :
          next[span] = IF span = item.span THEN Widened(rows[span], item) ELSE rows[span]
    BY <1>3, <2>1
  <2> HIDE DEF next
  <2>6. DOMAIN next = DOMAIN rows \cup {item.span} /\ next \in Rows
    BY <1>3, <1>5, <1>7, <2>4
  <2> QED
    BY <1>7, <2>2, <2>5, <2>6 DEF item, next
<1>8. CASE None \notin {item.span, item.time} /\ item.span \notin DOMAIN rows
  <2>1. next = [span \in DOMAIN rows \cup {item.span} |->
                  IF span = item.span THEN new ELSE rows[span]]
    BY <1>8 DEF Grouped
  <2>2. item.time \in Nat
    BY <1>1, <1>8
  <2>3. new \in Row
    BY <1>1, <1>2, <1>4, <2>2
  <2>4. /\ new.span = item.span /\ new.start = item.time /\ new.end = item.time
        /\ new.count = 1
    OBVIOUS
  <2> HIDE DEF new, next
  <2>6. /\ DOMAIN next = DOMAIN rows \cup {item.span} /\ next[item.span] = new
        /\ \A span \in DOMAIN rows : next[span] = rows[span]
    BY <1>8, <2>1
  <2>7. next \in [DOMAIN rows \cup {item.span} -> Row]
    BY <1>3, <2>1, <2>3
  <2>8. next \in Rows
    BY <1>2, <1>3, <1>5, <2>7
  <2> QED
    BY <1>8, <2>2, <2>4, <2>6, <2>8 DEF item, next
<1> QED
  BY <1>6, <1>7, <1>8

\* The next item is told of too.
LEMMA TellStep ==
  ASSUME ItemsOK, NEW rows \in Rows, NEW m \in 0..(Len(items) - 1), Tell(rows, m)
  PROVE  Tell(Grouped(rows, items[m + 1]), m + 1)
<1> DEFINE item == items[m + 1]
           next == Grouped(rows, item)
           Told(r, k, span) ==
             /\ r[span].span = span
             /\ \E i \in Mine(k, span) : r[span].start = items[i].time
             /\ \E i \in Mine(k, span) : r[span].end = items[i].time
             /\ \A i \in Mine(k, span) :
                  r[span].start <= items[i].time /\ items[i].time <= r[span].end
             /\ r[span].count = Cardinality(Mine(k, span))
<1>1. m \in Nat /\ m + 1 \in DOMAIN items
  BY DEF ItemsOK
<1>2. /\ next \in Rows
      /\ None \in {item.span, item.time} => next = rows
      /\ None \notin {item.span, item.time} =>
           /\ item.time \in Nat
           /\ DOMAIN next = DOMAIN rows \cup {item.span}
           /\ \A span \in DOMAIN rows :
                next[span] = IF span = item.span THEN Widened(rows[span], item)
                             ELSE rows[span]
           /\ item.span \notin DOMAIN rows =>
                /\ next[item.span].span = item.span
                /\ next[item.span].start = item.time
                /\ next[item.span].end = item.time
                /\ next[item.span].count = 1
  BY <1>1, GroupedFacts
<1>3. \A span :
        Mine(m + 1, span) = IF None \notin {item.span, item.time} /\ item.span = span
                              THEN Mine(m, span) \cup {m + 1} ELSE Mine(m, span)
  BY <1>1, MineGrows
<1>4. /\ \A span : span \in DOMAIN rows <=> Mine(m, span) # {}
      /\ \A span \in DOMAIN rows : Told(rows, m, span)
  BY DEF Tell
<1>5. SUFFICES /\ \A span : span \in DOMAIN next <=> Mine(m + 1, span) # {}
               /\ \A span \in DOMAIN next : Told(next, m + 1, span)
  BY DEF Tell
<1>6. \A i, span : i \in Mine(m, span) => items[i].time \in Nat
  BY <1>1 DEF Mine, ItemsOK
<1>7. \A span \in DOMAIN rows : rows[span] \in Row
  BY DEF Rows
<1>8. item.event \in {items[i].event : i \in DOMAIN items}
  BY <1>1
<1> HIDE DEF next
<1>9. CASE None \in {item.span, item.time}
  <2>1. next = rows /\ \A span : Mine(m + 1, span) = Mine(m, span)
    BY <1>2, <1>3, <1>9
  <2> HIDE DEF item
  <2> QED
    BY <1>4, <2>1
<1>10. CASE None \notin {item.span, item.time}
  <2> DEFINE x == item.span
             t == item.time
  <2>1. t \in Nat /\ items[m + 1].time = t
    BY <1>2, <1>10
  <2>2. DOMAIN next = DOMAIN rows \cup {x}
    BY <1>2, <1>10
  <2>3. \A span : span # x => Mine(m + 1, span) = Mine(m, span)
    BY <1>3, <1>10
  <2>4. Mine(m + 1, x) = Mine(m, x) \cup {m + 1} /\ m + 1 \notin Mine(m, x)
    BY <1>1, <1>3, <1>10, MineGrows
  <2>5. IsFiniteSet(Mine(m, x)) /\ Cardinality(Mine(m, x)) \in Nat
    BY <1>1, MineFinite
  <2>6. Cardinality(Mine(m + 1, x)) = Cardinality(Mine(m, x)) + 1
    BY <2>4, <2>5, FS_AddElement
  <2>7. \A span \in DOMAIN rows :
          next[span] = IF span = x THEN Widened(rows[span], item) ELSE rows[span]
    BY <1>2, <1>10
  <2>8. x \notin DOMAIN rows =>
          next[x].span = x /\ next[x].start = t /\ next[x].end = t /\ next[x].count = 1
    BY <1>2, <1>10
  <2>9. x \in DOMAIN rows =>
          LET row == rows[x]
              wide == Widened(rows[x], item)
          IN  /\ wide.span = row.span /\ wide.count = row.count + 1
              /\ wide.start = Smaller(row.start, t) /\ wide.end = Larger(row.end, t)
              /\ row.start \in Nat /\ row.end \in Nat
    <3> SUFFICES ASSUME x \in DOMAIN rows
                 PROVE  LET row == rows[x]
                            wide == Widened(rows[x], item)
                        IN  /\ wide.span = row.span /\ wide.count = row.count + 1
                            /\ wide.start = Smaller(row.start, t)
                            /\ wide.end = Larger(row.end, t)
                            /\ row.start \in Nat /\ row.end \in Nat
      OBVIOUS
    <3>1. rows[x] \in Row
      BY <1>7
    <3>2. rows[x].start \in Nat /\ rows[x].end \in Nat
      BY <3>1 DEF Row
    <3> QED
      BY <1>8, <2>1, <3>1, <3>2, WidenedFacts
  <2> HIDE DEF x, t, item
  <2>10. \A span : span \in DOMAIN next <=> Mine(m + 1, span) # {}
    BY <1>4, <2>2, <2>3, <2>4
  <2>11. ASSUME NEW span \in DOMAIN next PROVE Told(next, m + 1, span)
    <3>1. CASE span # x
      <4>1. span \in DOMAIN rows /\ next[span] = rows[span]
        BY <2>2, <2>7, <3>1
      <4>2. Mine(m + 1, span) = Mine(m, span)
        BY <2>3, <3>1
      <4>3. Told(rows, m, span)
        BY <1>4, <4>1
      <4> QED
        BY <4>1, <4>2, <4>3
    <3>2. CASE span = x /\ x \notin DOMAIN rows
      <4>1. Mine(m, x) = {}
        BY <1>4, <3>2
      <4>2. Cardinality(Mine(m, x)) = 0 /\ Mine(m + 1, x) = {m + 1}
        BY <2>4, <4>1, FS_EmptySet
      <4>3. Cardinality(Mine(m + 1, x)) = 1
        BY <2>6, <4>2
      <4>4. t <= t
        BY <2>1
      <4> QED
        BY <2>1, <2>8, <3>2, <4>2, <4>3, <4>4
    <3>3. CASE span = x /\ x \in DOMAIN rows
      <4> DEFINE row == rows[x]
                 wide == next[x]
      <4>1. Told(rows, m, x)
        BY <1>4, <3>3
      <4>2. /\ wide.span = row.span /\ wide.count = row.count + 1
            /\ wide.start = Smaller(row.start, t) /\ wide.end = Larger(row.end, t)
            /\ row.start \in Nat /\ row.end \in Nat
        BY <2>7, <2>9, <3>3
      <4> HIDE DEF row, wide
      <4>3. /\ row.span = x /\ row.count = Cardinality(Mine(m, x))
            /\ \E i \in Mine(m, x) : row.start = items[i].time
            /\ \E i \in Mine(m, x) : row.end = items[i].time
            /\ \A i \in Mine(m, x) :
                 row.start <= items[i].time /\ items[i].time <= row.end
        BY <4>1 DEF row
      <4>4. wide.start = row.start \/ wide.start = t
        BY <4>2 DEF Smaller
      <4>5. wide.end = row.end \/ wide.end = t
        BY <4>2 DEF Larger
      <4>6. /\ wide.start <= row.start /\ wide.start <= t /\ wide.start \in Nat
            /\ row.end <= wide.end /\ t <= wide.end /\ wide.end \in Nat
        BY <2>1, <4>2 DEF Smaller, Larger
      <4>7. ASSUME NEW i \in Mine(m + 1, x)
            PROVE  wide.start <= items[i].time /\ items[i].time <= wide.end
        <5>1. CASE i = m + 1
          BY <2>1, <4>6, <5>1
        <5>2. CASE i \in Mine(m, x)
          <6>1. items[i].time \in Nat
            BY <1>6, <5>2
          <6>2. row.start <= items[i].time /\ items[i].time <= row.end
            BY <4>3, <5>2
          <6> QED
            BY <4>2, <4>6, <6>1, <6>2
        <5> QED
          BY <2>4, <5>1, <5>2
      <4>8. \E i \in Mine(m + 1, x) : wide.start = items[i].time
        BY <2>1, <2>4, <4>3, <4>4
      <4>9. \E i \in Mine(m + 1, x) : wide.end = items[i].time
        BY <2>1, <2>4, <4>3, <4>5
      <4>10. wide.span = x /\ wide.count = Cardinality(Mine(m + 1, x))
        BY <2>6, <4>2, <4>3
      <4> QED
        BY <3>3, <4>7, <4>8, <4>9, <4>10 DEF wide
    <3> QED
      BY <3>1, <3>2, <3>3
  <2> HIDE DEF Told
  <2> QED
    BY <2>10, <2>11
<1> QED
  BY <1>9, <1>10

\* The rows tell of all the items.
LEMMA RowsTell ==
  ASSUME ItemsOK
  PROVE  grouped \in Rows /\ Tell(grouped, Len(items))
<1> DEFINE n == Len(items)
           none == [span \in {} |-> None]
           IsGrouped(f) ==
             f = [i \in 0..n |-> IF i = 0 THEN none ELSE Grouped(f[i - 1], items[i])]
           f == CHOOSE g : IsGrouped(g)
           step == [i \in 1..n |-> [rows \in Rows |-> Grouped(rows, items[i])]]
<1>1. n \in Nat /\ DOMAIN items = 1..n
  BY DEF ItemsOK
<1>2. none \in Rows
  BY DEF Rows
<1>3. grouped = f[n]
  BY DEF grouped
<1>4. \A i \in 1..n : \A rows \in Rows : Grouped(rows, items[i]) \in Rows
  BY <1>1, GroupedFacts
<1>5. IsGrouped(f)
  <2>1. step \in [1..n -> [Rows -> Rows]]
    BY <1>4
  <2>2. \A i \in 1..n : \A rows \in Rows : step[i][rows] = Grouped(rows, items[i])
    OBVIOUS
  <2> HIDE DEF step, none
  <2>3. IsRecursion(n, Rows, none, step)
    BY <1>1, <1>2, <2>1 DEF IsRecursion
  <2>4. PICK g : IsSolution(n, Rows, none, step, g)
    BY <2>3, Recursion
  <2>5. /\ g \in [0..n -> Rows] /\ g[0] = none
        /\ \A i \in 1..n : g[i] = step[i][g[i - 1]]
    BY <2>4 DEF IsSolution
  <2> DEFINE h == [i \in 0..n |-> IF i = 0 THEN none ELSE Grouped(g[i - 1], items[i])]
  <2>6. ASSUME NEW i \in 0..n PROVE g[i] = h[i]
    <3>1. CASE i = 0
      BY <2>5, <3>1
    <3>2. CASE i \in 1..n
      <4>1. i # 0 /\ i - 1 \in 0..n
        BY <1>1, <3>2
      <4>2. g[i - 1] \in Rows
        BY <2>5, <4>1
      <4> QED
        BY <2>2, <2>5, <3>2, <4>1, <4>2
    <3> QED
      BY <1>1, <3>1, <3>2
  <2>7. g = h
    BY <2>5, <2>6
  <2>8. IsGrouped(g)
    BY <2>7
  <2> QED
    BY <2>8
<1> HIDE DEF f
<1>6. \A i \in 0..n : f[i] = IF i = 0 THEN none ELSE Grouped(f[i - 1], items[i])
  BY <1>5
<1> DEFINE D == {m \in 0..n : f[m] \in Rows /\ Tell(f[m], m)}
<1>7. 0 \in D
  <2>1. f[0] = none /\ 0 \in 0..n
    BY <1>1, <1>6
  <2>2. DOMAIN none = {}
    OBVIOUS
  <2>3. \A span : Mine(0, span) = {}
    BY DEF Mine
  <2> HIDE DEF none
  <2>4. Tell(none, 0)
    BY <2>2, <2>3 DEF Tell
  <2> QED
    BY <1>2, <2>1, <2>4
<1>8. ASSUME NEW m \in 0..(n - 1), m \in D PROVE m + 1 \in D
  <2>1. /\ m + 1 \in 0..n /\ m + 1 \in 1..n /\ m + 1 # 0 /\ (m + 1) - 1 = m
        /\ f[m] \in Rows /\ Tell(f[m], m)
    BY <1>1, <1>8
  <2>2. f[m + 1] = Grouped(f[m], items[m + 1])
    BY <1>6, <2>1
  <2>3. Tell(Grouped(f[m], items[m + 1]), m + 1)
    BY <2>1, TellStep
  <2>4. Grouped(f[m], items[m + 1]) \in Rows
    BY <1>4, <2>1
  <2> QED
    BY <2>1, <2>2, <2>3, <2>4
<1> HIDE DEF D
<1>9. \A m \in 0..n : m \in D
  BY <1>1, <1>7, <1>8, InductionTo
<1>10. n \in D
  BY <1>1, <1>9
<1> QED
  BY <1>3, <1>10 DEF D

-----------------------------------------------------------------------------
(* The order of the rows.                                                  *)

\* What buildTraceStack chooses from.
IsStack(values, stack) ==
  /\ stack \in [1..Cardinality(values) -> values]
  /\ \A row \in values : \E k \in DOMAIN stack : stack[k] = row
  /\ \A j, k \in DOMAIN stack : j < k => ~Before(stack[k], stack[j])

\* Before is a strict order.
LEMMA BeforeOrders ==
  ASSUME NEW a, NEW b, NEW c, {a.start, b.start, c.start} \subseteq Nat,
         {a.workload, b.workload, c.workload} \subseteq Nat
  PROVE  ~Before(a, a) /\ (Before(a, b) /\ Before(b, c) => Before(a, c))
BY DEF Before

\* Some row of a finite set is before no other.
LEMMA LastRow ==
  ASSUME NEW U, \A row \in U : row.start \in Nat /\ row.workload \in Nat,
         NEW values \in SUBSET U, IsFiniteSet(values), values # {}
  PROVE  \E x \in values : \A y \in values : ~Before(x, y)
<1> DEFINE IsLast(x, S) == x \in S /\ \A y \in S : ~Before(x, y)
           D == {n \in Nat : \A S \in SUBSET U :
                   IsFiniteSet(S) /\ Cardinality(S) = n /\ S # {} => \E x : IsLast(x, S)}
<1>1. 0 \in D
  <2>1. \A S : IsFiniteSet(S) /\ Cardinality(S) = 0 => S = {}
    BY FS_EmptySet
  <2> QED
    BY <2>1
<1>2. ASSUME NEW n \in Nat, n \in D PROVE n + 1 \in D
  <2> SUFFICES ASSUME NEW S \in SUBSET U, IsFiniteSet(S), Cardinality(S) = n + 1, S # {}
               PROVE  \E x : IsLast(x, S)
    OBVIOUS
  <2>1. PICK z \in S : TRUE
    OBVIOUS
  <2> DEFINE R == S \ {z}
  <2>2. R \in SUBSET U /\ S = R \cup {z} /\ z \in U
    BY <2>1
  <2>3. IsFiniteSet(R) /\ Cardinality(R) = Cardinality(S) - 1
    BY <2>1, FS_RemoveElement
  <2>4. Cardinality(R) = n
    BY <2>3
  <2>5. ~Before(z, z)
    BY <2>2, BeforeOrders
  <2> HIDE DEF R
  <2>6. CASE R = {}
    <3>1. IsLast(z, S)
      BY <2>2, <2>5, <2>6
    <3> QED
      BY <3>1
  <2>7. CASE R # {}
    <3>1. PICK x : IsLast(x, R)
      BY <1>2, <2>2, <2>3, <2>4, <2>7
    <3>2. CASE ~Before(x, z)
      <4>1. IsLast(x, S)
        BY <2>2, <3>1, <3>2
      <4> QED
        BY <4>1
    <3>3. CASE Before(x, z)
      <4>1. ASSUME NEW y \in R PROVE ~Before(z, y)
        <5>1. ~Before(x, y) /\ x \in U /\ y \in U
          BY <2>2, <3>1
        <5> QED
          BY <2>2, <3>3, <5>1, BeforeOrders
      <4>2. IsLast(z, S)
        BY <2>2, <2>5, <4>1
      <4> QED
        BY <4>2
    <3> QED
      BY <3>2, <3>3
  <2> QED
    BY <2>6, <2>7
<1> HIDE DEF D
<1>3. Nat \subseteq D
  BY <1>1, <1>2, Induction
<1>4. Cardinality(values) \in D
  BY <1>3, FS_CardinalityType
<1>5. \E x : IsLast(x, values)
  BY <1>4 DEF D
<1> QED
  BY <1>5

\* Such a list exists, for any finite set of rows.
LEMMA StackExists ==
  ASSUME NEW U, \A row \in U : row.start \in Nat /\ row.workload \in Nat,
         NEW values \in SUBSET U, IsFiniteSet(values)
  PROVE  \E stack : IsStack(values, stack)
<1> DEFINE D == {n \in Nat : \A S \in SUBSET U :
                   IsFiniteSet(S) /\ Cardinality(S) = n => \E q : IsStack(S, q)}
<1>1. 0 \in D
  <2> SUFFICES ASSUME NEW S \in SUBSET U, IsFiniteSet(S), Cardinality(S) = 0
               PROVE  \E q : IsStack(S, q)
    OBVIOUS
  <2>1. S = {}
    BY FS_EmptySet
  <2> DEFINE q == [k \in {} |-> S]
  <2>2. 1..0 = {}
    OBVIOUS
  <2>3. q \in [1..0 -> S] /\ DOMAIN q = {}
    BY <2>2
  <2> HIDE DEF q
  <2>4. IsStack(S, q)
    BY <2>1, <2>3 DEF IsStack
  <2> QED
    BY <2>4
<1>2. ASSUME NEW n \in Nat, n \in D PROVE n + 1 \in D
  <2> SUFFICES ASSUME NEW S \in SUBSET U, IsFiniteSet(S), Cardinality(S) = n + 1
               PROVE  \E q : IsStack(S, q)
    OBVIOUS
  <2>1. S # {}
    BY FS_EmptySet
  <2>2. PICK x \in S : \A y \in S : ~Before(x, y)
    BY <2>1, LastRow
  <2> DEFINE R == S \ {x}
  <2>3. R \in SUBSET U /\ S = R \cup {x}
    OBVIOUS
  <2>4. IsFiniteSet(R) /\ Cardinality(R) = Cardinality(S) - 1
    BY FS_RemoveElement
  <2>5. Cardinality(R) = n
    BY <2>4
  <2> HIDE DEF R
  <2>6. PICK p : IsStack(R, p)
    BY <1>2, <2>3, <2>4, <2>5
  <2>7. /\ p \in [1..n -> R]
        /\ \A row \in R : \E k \in 1..n : p[k] = row
        /\ \A j, k \in 1..n : j < k => ~Before(p[k], p[j])
    BY <2>5, <2>6 DEF IsStack
  <2> DEFINE q == [k \in 1..(n + 1) |-> IF k \in 1..n THEN p[k] ELSE x]
  <2>8. /\ \A k \in 1..n : q[k] = p[k] /\ k \in 1..(n + 1)
        /\ q[n + 1] = x /\ n + 1 \in 1..(n + 1)
    OBVIOUS
  <2>9. q \in [1..(n + 1) -> S] /\ DOMAIN q = 1..(n + 1)
    BY <2>3, <2>7
  <2> HIDE DEF q
  <2>10. ASSUME NEW row \in S PROVE \E k \in 1..(n + 1) : q[k] = row
    BY <2>3, <2>7, <2>8
  <2>11. ASSUME NEW j \in 1..(n + 1), NEW k \in 1..(n + 1), j < k
         PROVE  ~Before(q[k], q[j])
    <3>1. CASE k \in 1..n
      <4>1. j \in 1..n
        BY <2>11, <3>1
      <4> QED
        BY <2>7, <2>8, <2>11, <3>1, <4>1
    <3>2. CASE k = n + 1
      BY <2>2, <2>8, <2>9, <3>2
    <3> QED
      BY <3>1, <3>2
  <2>12. IsStack(S, q)
    BY <2>9, <2>10, <2>11 DEF IsStack
  <2> QED
    BY <2>12
<1> HIDE DEF D
<1>3. Nat \subseteq D
  BY <1>1, <1>2, Induction
<1>4. Cardinality(values) \in D
  BY <1>3, FS_CardinalityType
<1> QED
  BY <1>4 DEF D

\* So buildTraceStack is one.
LEMMA StackFacts ==
  ASSUME ItemsOK
  PROVE  LET values == {grouped[span] : span \in DOMAIN grouped}
         IN  IsFiniteSet(values) /\ IsStack(values, buildTraceStack)
<1> DEFINE values == {grouped[span] : span \in DOMAIN grouped}
           Spans == {items[i].span : i \in DOMAIN items}
<1>1. DOMAIN grouped \in SUBSET Spans /\ values \in SUBSET Row
  BY RowsTell DEF Rows
<1>2. IsFiniteSet(DOMAIN items)
  <2>1. Len(items) \in Nat /\ DOMAIN items = 1..Len(items)
    BY DEF ItemsOK
  <2> QED
    BY <2>1, FS_Interval
<1>3. IsFiniteSet(Spans)
  <2> DEFINE f == [i \in DOMAIN items |-> items[i].span]
  <2>1. f \in Surjection(DOMAIN items, Spans)
    BY DEF Surjection
  <2> HIDE DEF f, Spans
  <2> QED
    BY <1>2, <2>1, FS_Surjection
<1>4. IsFiniteSet(DOMAIN grouped)
  BY <1>1, <1>3, FS_Subset
<1>5. IsFiniteSet(values)
  <2> DEFINE f == [span \in DOMAIN grouped |-> grouped[span]]
  <2>1. f \in Surjection(DOMAIN grouped, values)
    BY DEF Surjection
  <2> HIDE DEF f, values
  <2> QED
    BY <1>4, <2>1, FS_Surjection
<1>6. \A row \in Row : row.start \in Nat /\ row.workload \in Nat
  BY DEF Row
<1> HIDE DEF values
<1>7. \E stack : IsStack(values, stack)
  BY <1>1, <1>5, <1>6, StackExists
<1>8. buildTraceStack = CHOOSE stack \in [1..Cardinality(values) -> values] :
        /\ \A row \in values : \E k \in DOMAIN stack : stack[k] = row
        /\ \A j, k \in DOMAIN stack : j < k => ~Before(stack[k], stack[j])
  BY DEF buildTraceStack, values
<1> QED
  BY <1>5, <1>7, <1>8 DEF IsStack, values

-----------------------------------------------------------------------------
(* What the panel shows adds up.                                           *)

\* A chip shows the items of its group.
LEMMA ChipsPart ==
  ASSUME ItemsOK
  PROVE  Len(Articles) = Cardinality({i \in DOMAIN items :
           ~(eventFilter \notin {"all", eventGroup(items[i].event)})})
<1> DEFINE n == Len(items)
           A == ToSet(items)
           in == {i \in DOMAIN items : ~(eventFilter \notin {"all", eventGroup(items[i].event)})}
<1>1. n \in Nat /\ DOMAIN items = 1..n /\ items \in Seq(A)
  BY DEF ItemsOK
<1>2. filteredItems \in Seq(A) /\ Len(filteredItems) = Cardinality(in)
  <2>1. CASE eventFilter = "all"
    <3>1. filteredItems = items /\ in = 1..n
      BY <1>1, <2>1 DEF filteredItems
    <3>2. Cardinality(1..n) = n
      BY <1>1, FS_Interval
    <3> QED
      BY <1>1, <3>1, <3>2
  <2>2. CASE eventFilter # "all"
    <3> DEFINE passes == [i \in DOMAIN items |-> eventGroup(items[i].event) = eventFilter]
    <3>1. filteredItems = Filter(items, passes)
      BY <2>2 DEF filteredItems
    <3>2. in = {i \in DOMAIN items : passes[i]}
      BY <2>2
    <3> HIDE DEF passes, in, A
    <3> QED
      BY <1>1, <3>1, <3>2, FilterLength
  <2> QED
    BY <2>1, <2>2
<1> HIDE DEF in
<1>3. Articles \in [1..Len(filteredItems) -> {Articles[i] : i \in DOMAIN Articles}]
  BY <1>2 DEF Articles
<1>4. Len(filteredItems) \in Nat
  BY <1>2
<1>5. Len(Articles) = Len(filteredItems)
  BY <1>3, <1>4
<1> QED
  BY <1>2, <1>5 DEF in

\* The graph is that of the path.
LEMMA GraphPart ==
  ASSUME ItemsOK, items # <<>>
  PROVE  /\ SumFunction(PathGraph.edges) = Len(uniquePath) - 1
         /\ \A w \in DOMAIN PathGraph.nodes :
              \A i \in 1..(PathGraph.nodes[w] - 1) : uniquePath[i] # w
<1> DEFINE nodes == [w \in ToSet(uniquePath) |-> SelectInSeq(uniquePath, LAMBDA v : v = w)]
<1>1. PathGraph.edges = edgeCounts(uniquePath) /\ PathGraph.nodes = nodes
  BY DEF PathGraph
<1>2. SumFunction(edgeCounts(uniquePath)) = Len(uniquePath) - 1
  BY PathFacts, EdgesAddUp
<1>3. ASSUME NEW w \in DOMAIN nodes, NEW i \in 1..(nodes[w] - 1)
      PROVE  uniquePath[i] # w
  <2>1. w \in ToSet(uniquePath)
    OBVIOUS
  <2>2. nodes[w] = SelectInSeq(uniquePath, LAMBDA v : v = w)
    BY <2>1
  <2>3. \A j \in 1..(SelectInSeq(uniquePath, LAMBDA v : v = w) - 1) : uniquePath[j] # w
    BY <2>1, PathFacts, NodesAreFirst
  <2> HIDE DEF nodes
  <2> QED
    BY <1>3, <2>2, <2>3
<1> HIDE DEF nodes
<1> QED
  BY <1>1, <1>2, <1>3

\* The rows and their bars are those of the items with a span and a time.
LEMMA StackPart ==
  ASSUME ItemsOK
  PROVE  LET stack == buildTraceStack
             bars == Bars(stack)
         IN  /\ {stack[k].span : k \in DOMAIN stack} = {items[i].span : i \in Timed}
             /\ \A k \in DOMAIN stack :
                  LET mine == {i \in Timed : items[i].span = stack[k].span}
                      times == {items[i].time : i \in mine}
                  IN  /\ {stack[k].start, stack[k].end} \subseteq times
                      /\ times \subseteq stack[k].start..stack[k].end
                      /\ stack[k].count = Cardinality(mine)
                      /\ bars[k].offset >= 0
                      /\ \A j \in 1..(k - 1) : stack[j].start <= stack[k].start
<1> DEFINE stack == buildTraceStack
           values == {grouped[span] : span \in DOMAIN grouped}
           begin == Min({stack[k].start : k \in DOMAIN stack})
           n == Cardinality(values)
<1>1. grouped \in Rows /\ Tell(grouped, Len(items))
  BY RowsTell
<1>2. Len(items) \in Nat /\ DOMAIN items = 1..Len(items)
  BY DEF ItemsOK
<1>3. \A span : Mine(Len(items), span) = {i \in Timed : items[i].span = span}
  BY <1>2 DEF Mine, Timed
<1>4. /\ \A span : span \in DOMAIN grouped <=> {i \in Timed : items[i].span = span} # {}
      /\ \A span \in DOMAIN grouped :
           /\ grouped[span].span = span
           /\ \E i \in Timed : items[i].span = span /\ grouped[span].start = items[i].time
           /\ \E i \in Timed : items[i].span = span /\ grouped[span].end = items[i].time
           /\ \A i \in Timed : items[i].span = span =>
                grouped[span].start <= items[i].time /\ items[i].time <= grouped[span].end
           /\ grouped[span].count = Cardinality({i \in Timed : items[i].span = span})
  <2> DEFINE mine(span) == {i \in Timed : items[i].span = span}
  <2>1. \A span : span \in DOMAIN grouped <=> mine(span) # {}
    BY <1>1, <1>3 DEF Tell
  <2>2. ASSUME NEW span \in DOMAIN grouped
        PROVE  /\ grouped[span].span = span
               /\ \E i \in mine(span) : grouped[span].start = items[i].time
               /\ \E i \in mine(span) : grouped[span].end = items[i].time
               /\ \A i \in mine(span) :
                    grouped[span].start <= items[i].time /\ items[i].time <= grouped[span].end
               /\ grouped[span].count = Cardinality(mine(span))
    <3>1. Mine(Len(items), span) = mine(span)
      BY <1>3
    <3> HIDE DEF mine
    <3> QED
      BY <1>1, <3>1 DEF Tell
  <2> QED
    BY <2>1, <2>2
<1>5. \A span \in DOMAIN grouped : grouped[span] \in Row
  BY <1>1 DEF Rows
<1>6. \A row \in Row : row.start \in Nat /\ row.end \in Nat /\ row.workload \in Nat
  BY DEF Row
<1>7. \A i \in Timed : items[i].time \in Nat
  BY DEF Timed, ItemsOK
<1>8. IsFiniteSet(values) /\ IsStack(values, stack)
  BY StackFacts
<1>9. /\ DOMAIN stack = 1..n
      /\ \A k \in DOMAIN stack : stack[k] \in values
      /\ \A row \in values : \E k \in DOMAIN stack : stack[k] = row
      /\ \A j, k \in DOMAIN stack : j < k => ~Before(stack[k], stack[j])
  BY <1>8 DEF IsStack
<1> HIDE DEF stack
<1>10. ASSUME NEW k \in DOMAIN stack
       PROVE  stack[k].span \in DOMAIN grouped /\ grouped[stack[k].span] = stack[k]
  <2>1. PICK span \in DOMAIN grouped : stack[k] = grouped[span]
    BY <1>9
  <2>2. grouped[span].span = span
    BY <1>4
  <2> QED
    BY <2>1, <2>2
<1>11. {stack[k].span : k \in DOMAIN stack} = {items[i].span : i \in Timed}
  <2>1. ASSUME NEW k \in DOMAIN stack PROVE \E i \in Timed : items[i].span = stack[k].span
    BY <1>4, <1>10
  <2>2. ASSUME NEW i \in Timed PROVE \E k \in DOMAIN stack : stack[k].span = items[i].span
    <3>1. items[i].span \in DOMAIN grouped
      BY <1>4
    <3>2. PICK k \in DOMAIN stack : stack[k] = grouped[items[i].span]
      BY <1>9, <3>1
    <3> QED
      BY <1>4, <3>1, <3>2
  <2> QED
    BY <2>1, <2>2
<1>12. ASSUME NEW k \in DOMAIN stack
       PROVE  LET mine == {i \in Timed : items[i].span = stack[k].span}
                  times == {items[i].time : i \in mine}
              IN  /\ {stack[k].start, stack[k].end} \subseteq times
                  /\ times \subseteq stack[k].start..stack[k].end
                  /\ stack[k].count = Cardinality(mine)
  <2> DEFINE row == stack[k]
             mine == {i \in Timed : items[i].span = row.span}
  <2>1. /\ \E i \in mine : row.start = items[i].time
        /\ \E i \in mine : row.end = items[i].time
        /\ \A i \in mine : row.start <= items[i].time /\ items[i].time <= row.end
        /\ row.count = Cardinality(mine)
    BY <1>4, <1>10
  <2>2. row.start \in Nat /\ row.end \in Nat
    BY <1>5, <1>6, <1>10
  <2>3. \A i \in mine : items[i].time \in Nat
    BY <1>7
  <2> HIDE DEF mine, row
  <2>4. \A i \in mine : items[i].time \in row.start..row.end
    BY <2>1, <2>2, <2>3
  <2> QED
    BY <2>1, <2>4 DEF mine, row
<1>13. ASSUME NEW k \in DOMAIN stack PROVE Bars(stack)[k].offset >= 0
  <2> DEFINE S == {stack[j].start : j \in DOMAIN stack}
  <2>1. \A j \in DOMAIN stack : stack[j].start \in Nat
    BY <1>5, <1>6, <1>10
  <2>2. S \in SUBSET Nat /\ S # {} /\ stack[k].start \in S
    BY <2>1
  <2> HIDE DEF S
  <2>3. Min(S) \in Nat /\ Min(S) <= stack[k].start /\ stack[k].start \in Nat
    BY <2>2, MinFacts
  <2>4. Bars(stack)[k].offset = stack[k].start - Min(S)
    BY DEF Bars, S
  <2> QED
    BY <2>3, <2>4
<1>14. ASSUME NEW k \in DOMAIN stack, NEW j \in 1..(k - 1)
       PROVE  stack[j].start <= stack[k].start
  <2>1. n \in Nat
    BY <1>8, FS_CardinalityType
  <2>2. j \in DOMAIN stack /\ j < k
    BY <1>9, <2>1
  <2>3. ~Before(stack[k], stack[j])
    BY <1>9, <2>2
  <2>4. stack[j].start \in Nat /\ stack[k].start \in Nat
    BY <1>5, <1>6, <1>10, <2>2
  <2> QED
    BY <2>3, <2>4 DEF Before
<1> QED
  BY <1>11, <1>12, <1>13, <1>14 DEF stack

\* What is shown of any answer adds up.
LEMMA ItemsAddUp == (items # <<>> => ItemsOK) => ChainAddsUp
<1> SUFFICES ASSUME ItemsOK, items # <<>> PROVE ChainAddsUp
  BY DEF ChainAddsUp
<1> QED
  BY ChipsPart, GraphPart, StackPart DEF ChainAddsUp

\* The query of the form is one that can be typed.
FormOK == form \in [query : Queries, mode : Modes \cup {"auto"}, minutes : Minutes \cup {60}]

\* Only queries are searched for, never the blank.
AnswersOfQueries ==
  /\ result # None => result.query \in ChainQueries
  /\ \A r \in searches : r.ask.query \in ChainQueries

\* Nothing is asked at first.
LEMMA AnswersInitial == Init => FormOK /\ AnswersOfQueries
BY DEF Init, ChainInit, EmptyForm, FormOK, AnswersOfQueries, Queries

\* No step asks for or shows anything else.
LEMMA AnswersStep ==
  FormOK /\ AnswersOfQueries /\ [Next]_vars => (FormOK /\ AnswersOfQueries)'
<1> SUFFICES ASSUME FormOK, AnswersOfQueries, [Next]_vars
             PROVE  FormOK' /\ AnswersOfQueries'
  OBVIOUS
<1>1. CASE UNCHANGED <<form, result, searches>>
  BY <1>1 DEF FormOK, AnswersOfQueries
<1>2. ASSUME NEW f, FillIn(f),
             f \in [query : Queries, mode : Modes \cup {"auto"}, minutes : Minutes \cup {60}]
      PROVE  FormOK' /\ AnswersOfQueries'
  BY <1>2 DEF FillIn, FormOK, AnswersOfQueries
<1>3. CASE SearchNothing
  BY <1>3 DEF SearchNothing, FormOK, AnswersOfQueries
<1>4. CASE Clear
  <2>1. result' = None /\ searches' = searches /\ form' = [EmptyForm EXCEPT !.minutes = form.minutes]
    BY <1>4 DEF Clear
  <2>2. form' \in [query : Queries, mode : Modes \cup {"auto"}, minutes : Minutes \cup {60}]
    BY <2>1 DEF EmptyForm, FormOK, Queries
  <2> QED
    BY <2>1, <2>2 DEF FormOK, AnswersOfQueries
<1>5. CASE Search
  <2> DEFINE ask == [query |-> form.query, mode |-> form.mode, minutes |-> form.minutes,
                     scope |-> scope]
             new == [number |-> asked.number + 1, ask |-> ask]
  <2>1. /\ form' = form /\ result' = result
        /\ searches' = searches \cup {new}
        /\ form.query # BlankQuery
    BY <1>5 DEF Search
  <2>2. form.query \in ChainQueries
    BY <2>1 DEF FormOK, Queries
  <2>3. new.ask.query \in ChainQueries
    BY <2>2
  <2> HIDE DEF new
  <2> QED
    BY <2>1, <2>3 DEF FormOK, AnswersOfQueries
<1>6. ASSUME NEW r \in searches, ChainArrives(r) PROVE FormOK' /\ AnswersOfQueries'
  BY <1>6 DEF ChainArrives, Answer, FormOK, AnswersOfQueries
<1>7. ASSUME NEW r \in searches, ChainFails(r) PROVE FormOK' /\ AnswersOfQueries'
  BY <1>7 DEF ChainFails, Answer, FormOK, AnswersOfQueries
<1>8. ASSUME NEW mode, ShowView(mode) PROVE FormOK' /\ AnswersOfQueries'
  BY <1>1, <1>8 DEF ShowView
<1>9. ASSUME NEW f, NEW raw, Narrow(f, raw) PROVE FormOK' /\ AnswersOfQueries'
  BY <1>1, <1>9 DEF Narrow
<1>10. CASE ChainNext
  <2>1. ASSUME NEW q \in Queries, FillIn([form EXCEPT !.query = q])
        PROVE  FormOK' /\ AnswersOfQueries'
    BY <1>2, <2>1 DEF FormOK
  <2>2. ASSUME NEW m \in Modes \cup {"auto"}, FillIn([form EXCEPT !.mode = m])
        PROVE  FormOK' /\ AnswersOfQueries'
    BY <1>2, <2>2 DEF FormOK
  <2>3. ASSUME NEW m \in Minutes \cup {60}, FillIn([form EXCEPT !.minutes = m])
        PROVE  FormOK' /\ AnswersOfQueries'
    BY <1>2, <2>3 DEF FormOK
  <2> QED
    BY <1>3, <1>4, <1>5, <1>6, <1>7, <1>8, <1>9, <1>10, <2>1, <2>2, <2>3 DEF ChainNext
<1>11. CASE UNCHANGED chainVars
  BY <1>1, <1>11 DEF chainVars
<1> QED
  BY <1>10, <1>11 DEF Next, vars

\* What the panel adds up of an answer is that answer, for any queries and answers: the
\* chips part the items, the edges add up to the path, each span has one row from the
\* earliest to the latest of its items, in the order they start (buildTraceStack,
\* uniquePath and PathGraph of request-chain.tsx).
THEOREM ChainAlwaysAddsUp == Spec => []ChainAddsUp
<1>1. FormOK /\ AnswersOfQueries => (items # <<>> => ItemsOK)
  <2> SUFFICES ASSUME AnswersOfQueries, items # <<>> PROVE ItemsOK
    OBVIOUS
  <2>1. items = ItemsOf[result.query] /\ result.query \in ChainQueries
    BY DEF items, AnswersOfQueries
  <2> QED
    BY <2>1, ChainAssumption DEF ItemsOK
<1>2. FormOK /\ AnswersOfQueries => ChainAddsUp
  BY <1>1, ItemsAddUp
<1> QED
  BY AnswersInitial, AnswersStep, <1>2, PTL DEF Spec

=============================================================================

----------------------------- MODULE ChainPanel -----------------------------
(***************************************************************************)
(* The request-chain panel (components/request-chain.tsx): its search,     *)
(* whose requests are never aborted, and what it computes from an answer.  *)
(* The panel is always mounted, and shown when viewMode is "trace"         *)
(* (components/workload-details.tsx).                                      *)
(*                                                                         *)
(* An item of an answer is [workload, event, span, time, target]: a        *)
(* workload is its number in the order of their names, a time the instant  *)
(* of its timestamp, and None is a missing value.  Items come in the       *)
(* order of the server, which need not be that of their instants.          *)
(***************************************************************************)
EXTENDS Scope, Lists, FiniteSets, SequencesExt

CONSTANTS
  ChainQueries,  \* what is typed, trimmed
  BlankQuery,    \* nothing but spaces
  Modes, Minutes, \* the choices besides "auto" and 60 minutes
  ItemsOf        \* the items of the answer to each query

ASSUME ChainAssumption ==
  /\ BlankQuery \notin ChainQueries
  /\ "auto" \notin Modes /\ 60 \notin Minutes
  /\ DOMAIN ItemsOf = ChainQueries
  /\ None \notin Nat
  /\ \A q \in ChainQueries :
       /\ ItemsOf[q] \in Seq(ToSet(ItemsOf[q]))
       /\ \A i \in DOMAIN ItemsOf[q] :
            ItemsOf[q][i].workload \in Nat /\ ItemsOf[q][i].time \in Nat \cup {None}

VARIABLES
  viewMode,     \* "tail" or "trace"
  form,         \* [query, mode, minutes]: query, queryMode, sinceMinutes
  eventFilter, showRaw,
  result,       \* what the shown answer was asked with, or None
  searching,    \* loading
  failed,       \* error: whether a message is shown
  searches,     \* the requests under way
  asked,        \* history: number of the last search, what should show, if it succeeded
  crossed       \* history: an answer came that a later search or Clear had made stale

chainVars ==
  <<viewMode, form, eventFilter, showRaw, result, searching, failed, searches, asked,
    crossed>>

EmptyForm == [query |-> BlankQuery, mode |-> "auto", minutes |-> 60]

ChainInit ==
  /\ viewMode = "tail"
  /\ form = EmptyForm
  /\ eventFilter = "all" /\ showRaw = FALSE
  /\ result = None
  /\ searching = FALSE /\ failed = FALSE
  /\ searches = {}
  /\ asked = [number |-> 0, for |-> None, ok |-> TRUE]
  /\ crossed = FALSE

-----------------------------------------------------------------------------
(* What is shown of an answer.                                             *)

items == IF result = None THEN <<>> ELSE ItemsOf[result.query]

eventGroup(event) ==
  CASE event \in {"http-request", "http-call", "request-log"} -> "http"
    [] event \in {"kafka-publish", "kafka-consume", "kafka"} -> "kafka"
    [] OTHER -> "other"

filteredItems ==
  IF eventFilter = "all" THEN items
  ELSE Filter(items, [i \in DOMAIN items |-> eventGroup(items[i].event) = eventFilter])

\* The time since the first item, shown only when it is known and not negative.
elapsedFrom(item) ==
  IF None \in {items[1].time, item.time} \/ item.time < items[1].time THEN None
  ELSE item.time - items[1].time

\* One article per item, which names its target and its spans, and has its raw line
\* under it if the box is ticked.
Articles ==
  [i \in DOMAIN filteredItems |->
     [item |-> filteredItems[i], elapsed |-> elapsedFrom(filteredItems[i]),
      raw |-> showRaw]]

\* The workloads the items go through, one after the other.
uniquePath ==
  LET path[i \in 0..Len(items)] ==
        IF i = 0 THEN <<>>
        ELSE IF path[i - 1] # <<>> /\ Last(path[i - 1]) = items[i].workload
               THEN path[i - 1]
               ELSE Append(path[i - 1], items[i].workload)
  IN  path[Len(items)]

\* Each step of the path from a workload to another is an edge, with the number of times
\* it is taken.
edgeCounts(path) ==
  LET step(i) == <<path[i], path[i + 1]>>
      at == {i \in 1..(Len(path) - 1) : path[i] # path[i + 1]}
  IN  [s \in {step(i) : i \in at} |-> Cardinality({i \in at : step(i) = s})]

\* Each workload is drawn once, numbered by where the path first meets it.
PathGraph ==
  LET path == uniquePath
  IN  [nodes |-> [w \in ToSet(path) |-> SelectInSeq(path, LAMBDA v : v = w)],
       edges |-> edgeCounts(path)]

Smaller(a, b) == IF b < a THEN b ELSE a
Larger(a, b) == IF a < b THEN b ELSE a

\* Mutant of Widened: the row ends with its last item.
WidenedToLast(row, item) ==
  [row EXCEPT !.start = Smaller(@, item.time), !.end = item.time,
              !.count = @ + 1, !.events = @ \cup {item.event}]

Widened(row, item) ==
  [row EXCEPT !.start = Smaller(@, item.time), !.end = Larger(@, item.time),
              !.count = @ + 1, !.events = @ \cup {item.event}]

\* Joins an item to the row of its span, or starts one; without a span or a time it
\* is left out.
Grouped(rows, item) ==
  IF None \in {item.span, item.time} THEN rows
  ELSE [span \in DOMAIN rows \cup {item.span} |->
          IF span # item.span THEN rows[span]
          ELSE IF span \in DOMAIN rows THEN Widened(rows[span], item)
          ELSE [span |-> span, workload |-> item.workload,
                start |-> item.time, end |-> item.time,
                count |-> 1, events |-> {item.event}]]

\* The row of each span.
grouped ==
  LET after[i \in 0..Len(items)] ==
        IF i = 0 THEN [span \in {} |-> None] ELSE Grouped(after[i - 1], items[i])
  IN  after[Len(items)]

Before(a, b) == a.start < b.start \/ (a.start = b.start /\ a.workload < b.workload)

\* The rows in the order of their starts and then of their workloads.  The sort keeps
\* rows equal in both as they came; here their order is left open.
buildTraceStack ==
  LET rows == grouped
      values == {rows[span] : span \in DOMAIN rows}
  IN  CHOOSE stack \in [1..Cardinality(values) -> values] :
        /\ \A row \in values : \E k \in DOMAIN stack : stack[k] = row
        /\ \A j, k \in DOMAIN stack : j < k => ~Before(stack[k], stack[j])

\* The bars of TraceStack: where each row begins and how long it is in its trace.
Bars(stack) ==
  LET begin == Min({stack[k].start : k \in DOMAIN stack})
  IN  [k \in DOMAIN stack |->
         [offset |-> stack[k].start - begin, width |-> stack[k].end - stack[k].start]]

\* The signals: the items with a target, of which the first twelve are listed.
targets == Filter(items, [i \in DOMAIN items |-> items[i].target # None])

-----------------------------------------------------------------------------
ShowView(mode) ==
  /\ Acts("chain")
  /\ mode # viewMode
  /\ viewMode' = mode
  /\ UNCHANGED <<form, eventFilter, showRaw, result, searching, failed, searches, asked,
                 crossed>>

\* A user who sees the panel.
AtPanel == Acts("chain") /\ viewMode = "trace" /\ UNCHANGED viewMode

FillIn(f) ==
  /\ AtPanel
  /\ f # form
  /\ form' = f
  /\ UNCHANGED <<eventFilter, showRaw, result, searching, failed, searches, asked, crossed>>

\* Mutant of SearchNothing: the result stays.
SearchNothingKeeps ==
  /\ AtPanel
  /\ None = scope.namespace \/ form.query = BlankQuery
  /\ asked' = [asked EXCEPT !.for = None]
  /\ crossed' = (searches # {})
  /\ UNCHANGED <<form, result, eventFilter, showRaw, searching, failed, searches>>

\* Enter in the input, also while a search is under way, or the button.  Without a
\* namespace or a query the result goes, and what is under way and the message stay.
SearchNothing ==
  /\ AtPanel
  /\ None = scope.namespace \/ form.query = BlankQuery
  /\ result' = None
  /\ asked' = [asked EXCEPT !.for = None]
  /\ crossed' = (searches # {})
  /\ UNCHANGED <<form, eventFilter, showRaw, searching, failed, searches>>

Search ==
  /\ AtPanel
  /\ scope.namespace # None /\ form.query # BlankQuery
  /\ searching' = TRUE /\ failed' = FALSE
  /\ LET ask == [query |-> form.query, mode |-> form.mode, minutes |-> form.minutes,
                 scope |-> scope]
     IN  /\ asked' = [number |-> asked.number + 1, for |-> ask, ok |-> FALSE]
         /\ searches' = searches \cup {[number |-> asked.number + 1, ask |-> ask]}
  /\ crossed' = FALSE
  /\ UNCHANGED <<form, eventFilter, showRaw, result>>

Answer(r) ==
  /\ searches' = searches \ {r}
  /\ searching' = FALSE
  /\ crossed' = (crossed \/ \E q \in searches : q.number < r.number)
  /\ UNCHANGED <<events, viewMode, form, eventFilter, showRaw>>

ChainArrives(r) ==
  /\ Answer(r)
  /\ result' = r.ask
  /\ asked' = [asked EXCEPT !.ok = @ \/ r.number = asked.number]
  /\ UNCHANGED failed

ChainFails(r) ==
  /\ Answer(r)
  /\ result' = None /\ failed' = TRUE
  /\ UNCHANGED asked

\* Clear: the window, the search under way and its flag stay.
Clear ==
  /\ AtPanel
  /\ form.query # BlankQuery \/ result # None
  /\ form' = [EmptyForm EXCEPT !.minutes = form.minutes]
  /\ result' = None /\ failed' = FALSE
  /\ eventFilter' = "all" /\ showRaw' = FALSE
  /\ asked' = [asked EXCEPT !.for = None]
  /\ crossed' = (searches # {})
  /\ UNCHANGED <<searching, searches>>

\* The chips and the box above the items, shown when there are some.
Narrow(filter, raw) ==
  /\ AtPanel
  /\ items # <<>>
  /\ <<filter, raw>> # <<eventFilter, showRaw>>
  /\ eventFilter' = filter /\ showRaw' = raw
  /\ UNCHANGED <<form, result, searching, failed, searches, asked, crossed>>

-----------------------------------------------------------------------------
Filters == {"all", "http", "kafka", "other"}
Queries == ChainQueries \cup {BlankQuery}

ChainNext ==
  \/ \E mode \in {"tail", "trace"} : ShowView(mode)
  \/ \E q \in Queries : FillIn([form EXCEPT !.query = q])
  \/ \E m \in Modes \cup {"auto"} : FillIn([form EXCEPT !.mode = m])
  \/ \E m \in Minutes \cup {60} : FillIn([form EXCEPT !.minutes = m])
  \/ SearchNothing \/ Search \/ Clear
  \/ \E r \in searches : ChainArrives(r) \/ ChainFails(r)
  \/ \E f \in Filters : Narrow(f, showRaw)
  \/ Narrow(eventFilter, ~showRaw)

-----------------------------------------------------------------------------
(* Properties.                                                             *)

\* When no search is under way the panel shows the answer to the last one, and
\* nothing if it failed, with a message, or was empty or cleared, unless an older
\* answer came after it.
ChainShowsLastAsked ==
  searches = {} /\ ~crossed =>
    /\ result = IF asked.ok THEN asked.for ELSE None
    /\ asked.for # None /\ ~asked.ok => failed

Timed == {i \in DOMAIN items : None \notin {items[i].span, items[i].time}}

\* What the panel adds up of an answer is that answer: the chips part the items, the
\* edges of the graph are the steps of the path and its nodes are numbered along it, and
\* each span with a time has one row, from the earliest to the latest of its items in
\* whatever order they came, the rows in the order they start and no bar before the
\* first.
ChainAddsUp ==
  items # <<>> =>
  LET stack == buildTraceStack
      bars == Bars(stack)
      path == uniquePath
      graph == PathGraph
      outside(i) == eventFilter \notin {"all", eventGroup(items[i].event)}
  IN  /\ Len(Articles) = Cardinality({i \in DOMAIN items : ~outside(i)})
      /\ SumFunction(graph.edges) = Len(path) - 1
      /\ \A w \in DOMAIN graph.nodes :
           \A i \in 1..(graph.nodes[w] - 1) : path[i] # w
      /\ {stack[k].span : k \in DOMAIN stack} = {items[i].span : i \in Timed}
      /\ \A k \in DOMAIN stack :
           LET mine == {i \in Timed : items[i].span = stack[k].span}
               times == {items[i].time : i \in mine}
           IN  /\ {stack[k].start, stack[k].end} \subseteq times
               /\ times \subseteq stack[k].start..stack[k].end
               /\ stack[k].count = Cardinality(mine)
               /\ bars[k].offset >= 0
               /\ \A j \in 1..(k - 1) : stack[j].start <= stack[k].start

=============================================================================

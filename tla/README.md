# Go Kube Monitor: verification project

TLA+ models of the Go Kube Monitor backend and frontend, TLC runs that check
them on small instances, and TLAPS proofs for every value of the constants.
Paths below are relative to the repository (`src/`).

Contents: [the system](#1-the-system), [modules](#2-modules),
[runs](#3-runs-and-bounds), [proofs](#4-proofs), [limits](#5-what-is-not-modelled),
[plan](#6-plan).

## 1. The system

A Go process (`backend/internal/server`) answers a browser over HTTP and other
clients over gRPC; it keeps no state of its own except one cache in memory and
reads everything else from the Kubernetes API. A Next.js application
(`frontend/src`) is the browser side.

| Part | State | Operations | What is hard |
|---|---|---|---|
| Read-through cache (`state.go`, `context_handlers.go`, `workloads.go`, `logs.go`) | `appState.cache`: one RWMutex, a context entry, three maps of entries with an expiry | `getContextInfo`, `listNamespacesCached`, `listWorkloadsCached`, `getLogsCached` | the lock is released between lookup and store; several calls miss together; reads take any time; the log map has a limit and an eviction |
| Fan-out search (`handlers.go`) | per call: semaphore channel, results channel, wait group | `handleGlobalLogSearch`, `handleRequestChain` | goroutines, buffered channels, closing, partial failure |
| Serial search (`grpc.go`) | per call: loop index, matches | `SearchLogsGlobal` | must answer like the fan-out |
| Live stream (`logs.go`) | per call: channel of 256, wait group, a goroutine per pod | `streamLiveLogs`, `streamPodLogs` | cancellation, a client that is slow or gone, pods that end or never do |
| Log reading and windows (`logs.go`, `helpers.go`) | none | `fetchLogs`, `logsForPod`, `readPodLog`, `normalizeSinceMinutes`, `timeRangeKey` | absent, unparsable and one-sided bounds; caps |
| Log ordering (`logs.go`) | none | `newerFirst`, `olderFirst`, `filterAndSortLogs`, `splitTimestampedLogLine` | comparators over missing and differently written timestamps |
| Request chain (`request_chain.go`) | none | `inferChainEvent`, `inferRequestChainEdges`, `requestChainSummary`, trace extraction | inference from the order of a list whose order depends on scheduling |
| Service map (`service_map.go`) | none | `buildServiceMap`, `healthFor`, owners and edges | counts of pods against counts of containers; map order |
| Health (`health.go`) | none | `podStatuses`, `workloadTimeline`, `crashDiagnostics`, `workloadMetrics` | optional fields |
| Authentication (`middleware.go`) | `authRequired`, `clientID` | HTTP middleware, gRPC interceptors | two entry points, one rule |
| Lifecycle (`server.go`) | HTTP server, optional gRPC server, one shutdown context | `Run` | one budget of ten seconds for two servers |
| Kubernetes access (`kube.go`) | none | clients, snapshots, env and spec | no timeout |
| Data hook (`use-monitor-data.ts`) | selection, lists, logs, loading flags, one AbortController | effects and fetchers | stale responses, aborts, timers |
| Service-map hook and view (`use-service-map.ts`, `service-map-view.tsx`) | map, flags, selected and hovered node | one effect with a cancelled flag | answers of earlier scopes |
| Request-chain panel (`request-chain.tsx`) | form, answer, flag, message, filters | search, clear, narrowing | requests that are never aborted; items in any order, with repeated spans and missing times |
| Logs view (`logs-tab.tsx`, `inspector-panel.tsx`) | selected index, unfolded rows, tags, field filter | clicks and typing | one index into two lists, both of which change |
| Navigation (`workload-explorer.tsx`, `global-search.tsx`, `app-topbar.tsx`) | searches, page, focus | keys, mouse, buttons | numbers that count lists which late answers replace |

How they interact: every HTTP and gRPC handler runs in its own goroutine. The
context, namespace, workload and log handlers go through the cache. The two
fan-out handlers list the workloads through the cache and then start goroutines
that read logs through the same cache, all sharing its mutex. The service map
lists workloads through the cache too. The live stream and the HTTP log stream
bypass it. The browser calls the HTTP side only; its hook aborts a log request
when another replaces it and lets all other requests run to their end.

What makes each part correct, in short:

- cache: an answer is for the question asked, fresh enough, never a replayed
  failure of a listing; the log map stays within its limit and gives up the
  oldest result first;
- searches: one reply, after every workload was read or failed, with everything
  that was read; no deadlock, no send on a closed channel, never more reads than
  slots;
- live stream: each pod's lines in order, none lost while the call lasts; the
  call ends when it should and leaves no goroutine;
- hook: what is shown belongs to what is selected, a loading flag is never left
  set, effects that set each other's dependencies come to an end;
- service map: at rest it is the map of the selected scope, or an error;
- request chain: at rest the panel shows the answer to the last search, and what it
  adds up of it agrees with its items;
- logs view and navigation: a mark, a focus or a page stays on what the user put it
  on, and a control does what it shows.

The hazards of this code, with the properties that cover them, are listed in
`PROJECT.json`.

## 2. Modules

| Module | Models | State and actions |
|---|---|---|
| `ReadContract` | what the cached functions promise callers, with no cache | `call[r]` as the caller sees it; `Ask`, `Answer`, `Refuse`, `Tick` |
| `ApiCache` | the cache and the four functions | below |
| `ApiCacheProofs` | theorems about `ApiCache` | - |
| `LogSearch` | what a search over a namespace promises | outcome per workload, one reply |
| `LogFanout` | one call of a fan-out handler | below |
| `LogFanoutProofs` | theorems about `LogFanout` and `LogSearchSerial` | - |
| `LogSearchSerial` | `SearchLogsGlobal` | loop index, outcome per workload |
| `LiveLogStream` | one call of `streamLiveLogs` | below |
| `LiveLogStreamProofs` | theorems about `LiveLogStream` | - |
| `Selection` | selection, lists and details of `useMonitorData` | below |
| `SelectionProofs` | theorems about `Selection` | - |
| `LogPanel` | `fetchLogs` of `useMonitorData`, its timer, and `handleLogStream` | below |
| `LogPanelProofs` | theorems about `LogPanel` | - |
| `LogsView` | the lines on the screen: `LogsTab`, the log detail of `InspectorPanel`, the derived values they show | below |
| `LogsViewProofs` | theorems about `LogsView` | - |
| `Lists` | `Array.prototype.filter`, for `LogsView` and `ChainPanel` | - |
| `Scope` | what the panels of the page share: the selected context and namespace | `scope`, and the budgets of the user |
| `Explorer` | side bar and global search | below |
| `ChainPanel` | the request-chain panel | below |
| `ServiceMapPanel` | `useServiceMap` and `ServiceMapView` | below |
| `Workspace` | `page.tsx`: the three panels together | their variables and actions |
| `WorkspaceProofs` | theorems about `Workspace` | - |
| `Lifecycle` | `Run`: both servers, signals, the shutdown | below |
| `LifecycleProofs` | theorems about `Lifecycle` | - |
| `MC...` | the instances TLC checks | - |

Composition: `ApiCache` implements `ReadContract`; `LogFanout` and
`LogSearchSerial` both implement `LogSearch`, so the HTTP and the gRPC search keep
one promise. `LogPanel` has both sides of the log request, browser and handler.
`Workspace` composes `Explorer`, `ChainPanel` and `ServiceMapPanel` over the shared
`scope`: a change of scope by one is followed by the others in the same step, by the
effect of the service map, or not at all, by the request chain.

**ApiCache.** `cache[a]` is the map of API `a` (the context entry is a map with
one key), `pc[r]` is where call `r` stands, `now[r]` the time it took on entry,
`value[r]` what it found or read. `Begin` takes the time; `Hit` and `Miss` are
the section under `RLock`; `Fetch` and `FetchFails` the read of the cluster, at
any later time; `StoreContext`, `StoreList` and `StoreLogs` the section under
`Lock`, with pruning, eviction and storing together, as in the code. A value is
abstracted to the query it was fetched for, the moment of the read, whether the
read was whole and the text filter of the fetch (always none). A read may be
partial exactly where the code drops an error: `getContextInfo` and
`readPodLog`. Cache keys are records where the code joins strings with `|` and
`:`; the names Kubernetes allows contain neither, so nothing collides that does
not in the model, except for context names and time strings chosen to contain
the separators, which are left out. `NamesAssumption` says that no kubeconfig
context is named `__default`.

**LogFanout.** One variable per Go object: `sem` (tokens in the channel), `wg`,
`results` with `closed`, and where each goroutine and the handler stand. The
deferred functions run last-in first-out: `Release` then `Done`. `Endpoint`
chooses between the two handlers, which differ in their early returns.
`ReadLogs` stands for `getLogsCached`: it returns logs or an error.

**LiveLogStream.** The two `select` statements are alternatives that may both be
enabled. A goroutine's `defer wg.Done()` is part of every action that leaves it
(`Leave`). A log line is two booleans: it matches the search, it is after the
end. The lines of a pod are numbered as the pod gives them; `Queued`, `Held`, `Offered`
and `Sent` are the sets of those in the channel, in the handler's hand, in the
goroutine's, and with the client, and `InOrder` compares their places, so that
`PodOrderKept` and `EndedMeansDelivered` are about sets and order and need no operator
on sequences. gRPC cancelling the context of a call that has returned is `Cancel`, the
only action that stands for code outside the repository.

**Selection.** `sel` is what the `useState` setters have set, `rendered` the same
at the last commit. `Render` is a commit of React with the effects whose
dependencies changed, run on the values of that commit, including the state they
reset before their first `await`. A request is a record in `pending`;
`NamespacesArrive`, `WorkloadsArrive`, `DetailsArrive` and `Fails` are its
continuation after the `await`, with the `finally` block, and come in any order,
because the hook cancels none of these requests. An answer is abstracted to the
query it answers. The six detail effects have one form and share no state, so one
stands for them. The user chooses from the lists that are shown, which may be
old. Two history variables name the exceptions of the properties: `overtaken`
(an answer came after the answer to a later question) and `hasty` (a workload was
chosen while its list was being replaced). The code protects against neither,
and no document says it does: the properties say that nothing else goes wrong.

**LogPanel.** A JavaScript task is one action. The continuation of an aborted
request (`AbortSeen`) is a microtask: it runs after the task that called
`abort()`, hence after the new call has set the loading flag, and before any
other task, which is the guard `TaskMayStart`. That is why the flag is clear
while a request that replaced another is in flight (`LoadingTellsTheTruth` says
exactly when). `search` is not a dependency of the effect (line 292), so
`TypeSearch` leaves the timer alone and the request carries the search of the
render that set the timer. On the server side, `PodAnswers` is `logsForPod` for
one pod, read or counted as empty, and `Respond` is the end of `fetchLogs` in
Go, after which the lines are written.

**LogsView.** A line is a record of what the filters ask of it: its rank in the
order of `sortLogs`, its pod, whether it is JSON, the values of the keys
`detectLogLevel` tries, and the words and fields a search finds in it. `Arrive`,
`sortLogs` and `StartFetch` are what the hook does to the list (how it comes to do
so is `LogPanel`); everything the code computes in a render is an operator
(`parsedLogs`, `allTags`, `activeSelectedTags`, `filteredLogs`, `Rows`,
`LogDetailTab`). `selected` is the one number that page, list and inspector share:
the list marks that row of `filteredLogs`, the inspector shows that line of
`parsedLogs`. The history variable `meant` records the lines that were clicked or
unfolded, `moved` whether rows have changed under them since. `Filter` (`Lists`) is
`Array.prototype.filter` as a recursive function: the library's `SelectSeq` is opaque
to the prover. `sortLogs` says what a sorted list is, not how it is made: a list of the
same lines in which every rank is below the next, of which there is one.

**Explorer.** The requests of the hook are a bag, because equal ones may be under way
and none is aborted. The effects of a change of context or namespace are part of
the action that makes the change; the single commits are `Selection`'s matter. The
global search is `[query, open, focus]`; `Pick` beyond the results chooses `None`,
the `undefined` of the code. `moved` and `replaced` are history: a list of results
changed under the focus; a late list came while a later page was shown.

**ChainPanel.** `result` is what the shown answer was asked with; the items of an
answer are a constant, in any order. `asked` and `crossed` are history: the last
search and whether an answer came that a later search or Clear had made stale. What
is computed from the items is an operator each: the chips (`eventGroup`), elapsed
times, the path and its edges, the trace stack with its bars. The two loops, of
`uniquePath` and of `buildTraceStack`, are recursive functions over the items
(`uniquePath`, `grouped`); the `Map` of the second is a function from spans to rows. The
sort is by what it returns, a list of the rows in their order; of rows with equal start
and workload it leaves the order open, where the code keeps that of insertion.

**ServiceMapPanel.** A request carries its `cancelled` flag, as the closure in the
effect does. No page of the repository mounts the view yet, so it is modelled as a
panel that has a map to show when the hook returns one; `computeCascadeRisk` is a
stub there and nothing is at risk.

**Lifecycle.** `main` is where `Run` stands; `http` and `grpc` the two servers,
`errs` and `shutdown` whether the channels hold something, `ctx` the timeout,
`stopped` the goroutine that calls `GracefulStop`. `Signal` before `Notify` kills
the process, as Go does by default, though both servers may be serving by then.
What `net/http` and gRPC do inside `Shutdown`, `GracefulStop` and `Stop` is
modelled by what `Run` relies on: no new connections, the first two wait for
what is open, the last breaks it off.

Operators called "Mutant of ..." are deliberately wrong versions of a
definition, used to check that a property notices them; the specifications never
use them.

## 3. Runs and bounds

| Run | What it shows | Bounds |
|---|---|---|
| `cache_crowding` | limit, freshness, eviction; the key tells apart what is read | 2 calls, 3 results for 2 places, times 0..2, log TTL 2: results expire, are evicted, and are stored late; the queries differ in end, context, search and minutes |
| `cache_contract` | refinement of `ReadContract`, inductive invariant | one query of each kind of failure, times 0..1 |
| `cache_end_only` | a counterexample, see Findings | two queries |
| `fanout` | channels, slots, the inductive invariant, refinement of `LogSearch` with liveness | 5 workloads, 3 slots: there is always somebody waiting for one; the request chain, whose early returns include those of the search; the theorems are for both |
| `serial_search` | refinement of `LogSearch` with liveness | 6 workloads |
| `live_stream` | order, no loss, the inductive invariant; the call ends, nothing stays behind | 2 pods, 8 lines, a channel of 2 (full and empty both occur) |
| `log_panel` | lines of the last request and of the selection, flag, completeness, cleanup; the panel comes to rest | 2 workloads, one range, 2 pods with a line each, one of which matches; 3 user actions: a choice, another that replaces its request, and a search or a closed page |
| `log_panel_pods` | a counterexample, see Findings | 1 workload |
| `selection` | lists and details against the selection | 2 contexts, one with two namespaces and one with none, no context, 1 workload name, 2 user actions |
| `logs_view` | marks stay on their lines, a pill toggles its tag, tags never empty the list | 3 lines: two JSON ones of one pod and two levels, one named by a second key, and a plain one; 3 searches, 3 field filters, 5 user actions between the lines' arrivals |
| `workspace` | focus, paging, the chain panel at rest and what it adds up, the service map at rest | 2 contexts, 2 namespaces and 1, up to 3 workloads, a page of one, 1 result of each kind; the user does 2 things in the explorer and 1 in the map, or 1 in the explorer, 2 in the chain and 1 in the map, or 5 in the chain |
| `lifecycle` | grace until the timeout, the end of the process, HTTP without gRPC, the inductive invariant | 2 HTTP requests, 2 gRPC calls, any number of signals |

Two calls are enough for the cache because the actions of a call read and write
its own variables and the cache only: every pairwise race (two misses, a slow
store after a fast one, a hit between another's lookup and store) occurs with
two, and the theorems hold for any number. Symmetry is used only in runs without
liveness, over calls and interchangeable workloads. In `selection` two choices
after the start-up requests give up to four lists of namespaces in flight, and
the preferred namespace of a context may be missing in the next. In `workspace` the
three budgets stand for three questions: changes of scope against late lists and
maps, searches in a scope that changes, and searches and clears among themselves
(five are needed to open the panel, fill in, search, change and search or clear);
paging, keys, mouse and answers count towards none of them. The limits of one page
row and one result of each kind make every list reach them. `selection`,
`lifecycle`, `log_panel`, `log_panel_pods`, `logs_view` and `workspace` have
`CHECK_DEADLOCK FALSE`: a process may end, the user may stop for good, and a pod that
never answers leaves nothing to do. In `cache_contract` an entry with the
short time-to-live is seen live, expired and replaced.

Fairness. `LogFanout` and `LogSearchSerial` assume that a goroutine that can run
does, which is the Go scheduler's guarantee, and that a read of the cluster
returns; the code sets no timeout (`kube.go`), so the latter rests on the API
server or on the client ending its request. `LiveLogStream` does not assume that
a pod's log ever ends: a scan has to return only when the context is cancelled.
`LogPanel` has two specifications: `FairSpec` assumes that timers fire and that
what the server wrote arrives; `AnsweringSpec` adds that the log of every pod is
read in the end, which only `ComesToRest` needs. The user is never forced to
act. `Lifecycle` assumes that goroutines run and that the timeout passes; no
request need end and no signal need come. `ApiCache`, `Selection`,
`LogsView` and `Workspace` state safety only.

### Findings

`cache_end_only`: `timeRangeKey` (`logs.go:250`) ignores the minutes as soon as
an end is given, while `logsForPod` uses them when no start is given. Two
requests for the same end and different minutes share an entry, so the second
one gets the first one's window, against "Stream pod logs with text search, time
windows" (`README.md:14`). `AnswersOwnQuery` excepts these ranges and holds for
all others.

`log_panel_pods`: `handleLogStream` (`handlers.go:36`) reads the pods one after the
other and writes the first line after the last read, so a pod that does not
answer keeps all lines from the browser, against "Flush every chunk so logs
appear as each pod responds." (`use-monitor-data.ts:259`). The run uses
`FairSpec`, under which a pod need not answer: the promise is about exactly
that case, and everything else is fair.

### What the properties except

The frontend protects against fewer races than it meets, and no document says
otherwise. Properties that hold name the exceptions with history variables; each
is a behaviour of the code that TLC finds when its exception is removed:

- `overtaken`, `hasty` (`Selection`): lists and details are not aborted, so an answer
  that comes late replaces a newer one, and details that come after the workload was
  unselected are shown by the environment and timeline tabs.
- `moved` (`LogsView`): sorting at the end of a stream, a filter or a refresh leaves
  the selected index and the row keys, which then mark other lines
  (`logs-tab.tsx:324`, `logs-tab.tsx:596`).
- A tag no line has any more stays in the state and is counted, so that a click on
  one of two pills may light up All (`TogglesOneTag`).
- `moved` (`Explorer`): the focused index outlives the list, and Enter picks
  `undefined` (`global-search.tsx:60`).
- `replaced` (`Explorer`): a shorter list that comes late leaves the page beyond the
  end; Prev then has to be pressed more than once (`workload-explorer.tsx:301`).
- `crossed` (`ChainPanel`): the answer of an earlier search, or of one that was
  cleared, replaces what is shown (`request-chain.tsx:494`). The panel also keeps its
  answer when the namespace changes, and its message after an empty search, which
  `ChainShowsLastAsked` allows: it speaks of the search, not of the scope.

## 4. Proofs

`ApiCacheProofs` proves, for any sets of calls and queries, any time-to-live and
any limit of the log cache:

- `TypeCorrect`: `TypeOK`;
- `Inductive`: `IInv`, the conjunction of the type invariant, the limit, `Stamped`
  (an entry expires at most a time-to-live after its own read; a call reads after
  the time it took), `Sourced` (an entry was fetched for a query of its map and
  key) and what they give to served calls. `ServedFresh` alone is not inductive:
  that a hit is fresh follows from how the entry was stamped by another call,
  earlier; likewise `AnswersOwnQuery` needs `Sourced` and the lemma
  `KeyDeterminesSource`, which is the correctness of the cache key;
- `LogCacheStaysBounded`, `ServedValuesAreFresh`, `AnswersAreOwn`: the three
  safety properties;
- `EvictionIsOldestFirst`: the action property. It needs the limit: an entry is
  evicted only when pruning removed nothing, because the map was exactly full;
- `ImplementsReadContract`: the refinement, step by step.

They rest on the assumptions named in `ApiCache`: positive bounds, queries that
are well formed, and no context named `__default`.

`LogFanoutProofs` proves, for any finite set of workloads, any number of slots and
both handlers:

- `Inductive`: `IInv`, which joins the type invariant with `Counted` (the tokens in
  `sem` and the counter of the wait group are the numbers of goroutines that hold a
  slot and that have not called `Done`), `Delivered` (the
  channel and what the handler has taken from it hold the result of exactly the
  goroutines that have sent), `Staged` (what the handler's place says about the
  channel and the goroutines) and `ClosedAfterLastSend`. Without `Counted`,
  nothing relates `wg.Wait` to the goroutines, and a closed channel with a sender
  left cannot be excluded;
- `FetchesStayBounded`, `NeverSendsOnClosed`, `SendsNeverWait`: the safety
  properties of the run. `RoomToSend` is a count of goroutines against the
  capacity: each sends once;
- `KeepsSearchPromise`: every step is a step of `LogSearch` or a stutter, the safety
  part of `ImplementsSearch`;
- `SerialKeepsSearchPromise`: the same for `LogSearchSerial` and any list without
  repetitions; its invariant says that what the loop has passed is read or failed, what
  it has not is pending, and that what is collected is what was read. The module
  declares that search's variables under names of their own.

`LifecycleProofs` proves, for any sets of requests, `Inductive` (`IInv`: `Quiet` says
which server can still take a request, `Drained` what each stage of the shutdown
knows of the open ones) and from it `ShutdownIsGraceful`: no request is broken off
before the timeout. The property alone is not inductive: that `Exit` breaks off
nothing follows from what `Shutdown` and `GracefulStop` waited for, several steps
earlier, and from no request having come in since.

`LiveLogStreamProofs` proves, for any finite set of pods, any logs and any capacity,
`Inductive` (`IInv`: the type invariant, whose `ReadOK` bounds what each goroutine
has read, `Counted` for the wait group, `Staged` for the place of the handler) and
from it `ClosesAfterTheLast`: the channel is closed only after the last goroutine
that sends on it. As in the fan-out, the count is what ties the closing goroutine to
the others. `LinesKeepTheirOrder` and `EndDelivers` follow a line on its way from the
scan to the client. `PodOrderKept` is the heart of a second invariant, `WayInv`: what
was sent, what the handler holds, what is in the channel and what the goroutine offers
are, in this order, exactly the selected lines read so far, unless the goroutine gave up
the last one it read when the call was cancelled. It joins `IInv` (a goroutine that has
ended offers nothing) and `HandlerDone` (a call that ended by itself left an empty, closed
channel): with those, nothing can be between the scan and the client at the end.

`LogPanelProofs` proves, for any workloads, pods, lines and number of requests,
`Inductive`: only the last request can be in flight (`OnlyLast`), the lines are its lines
(`LogsOfLast`), the timer will ask, or the last request has asked, for what is selected
(`Asked`), and what matched is either on its way or shown (`Collected`). The properties
need one another: that an old request adds no line follows from its having been aborted
by the one that replaced it, that a closed page leaves none in flight from there being
only one to abort, and that nothing is missing at the end from nothing having been lost
since the first answer. `LinesAreOfTheLastRequest`,
`LoadingIsTrue`, `DoneIsComplete` and `ClosedPageIsQuiet` are the properties.

`SelectionProofs` proves, for any contexts, namespaces and workloads and any number of
user actions and requests, `Inductive`, whose parts say that the last number of a kind
was given to the last question (`LastIsLast`), that this question was for what is
rendered (`AskedRendered`), that a list is loading only while a request for it is
under way (`LoadingIsPending`), that a trusted answer is the one shown (`TrustedIsShown`),
that a selected name came from its list (`Nested`), and that what was asked plus what the
effects can still ask is bounded (`Due`). The last is a potential: an answer that
changes the selection makes an effect due, and each one that runs pays for itself;
without it `EffectsSettle` says nothing about the step after next. From it come
`TypeCorrect`, `AskedIsSelected`, `RestShowsSelected`, `RestNests` and
`EffectsAreBounded`.

`LogsViewProofs` proves, for any lines, searches, fields and number of clicks,
`Inductive` and from it `TypeCorrect`, `MarksKeepTheirLines` and the action property
`ClickTurnsOneTag`; `TagsLeaveALine` holds in every typed state. `MarksStayOnLines` alone
is not inductive: that the inspector shows the clicked line says nothing about a line
that is appended next, so the invariant says that the index is that of the line
(`SelectedFollows`) and the open keys those of their lines (`ExpandedFollows`) as long as
the rows have only grown, and `GrownKeeps` that growing moves no row. `ClickTurnsOneTag`
needs that the tags are finite: the code compares sizes, and as many of them as there
are is all of them only then. What a filter returns (`KeptFacts`) is proved by induction.
The induction theorems of the library take an operator, which the provers cannot
instantiate; `Induction` takes the set of the numbers a formula holds for, and is proved
from the pigeonhole principle. `Recursion` (`WorkspaceProofs`) follows from it: a
recursive function over `0..n` exists, so its definition can be expanded.

`WorkspaceProofs` proves about the composed page, for any contexts, lists, terms,
limits and budgets:

- `MapAlwaysSettles`: at rest the map is that of the scope. The invariant says
  that a request whose answer will be heeded is for the current scope, that loading
  is awaited, and that what was loaded is current; it is the cleanup of the effect,
  which cancels in the step that changes the scope, that keeps the first;
- `ChainAlwaysShowsLastAsked`: the invariant numbers the searches and says that the
  last one is among those under way until it is answered (`LastUnderWay`);
  `AnsweredInOrder` is the step from there to an answer that is not crossed;
- `ChainAlwaysAddsUp`: for any answers. The only fact about the state is that what is
  shown answers one of the queries (`AnswersOfQueries`); the rest is about the code's
  loops, by induction over the items. A path never repeats its last workload
  (`PathFacts`), so none of its steps is skipped and the counts of the edges add up
  (`CountsAddUp`, by induction over the set of edges). After any number of items the
  rows tell of exactly these (`Tell`, kept by `TellStep`): a row for each of their spans,
  its ends the times of two of its items, every time between them, and the count right.
  `StackExists` says that any finite set of rows can be put in order, so that the choice
  in `buildTraceStack` is one of such a list. It rests on `ChainAssumption`: workloads
  and known times are natural numbers;
- `EnterAlwaysPicksAResult` and `PagingButtonsAlwaysMove`: every action of the
  explorer is one of the few ways to treat the focus (`FocusStep`) and the page
  (`PageStep`), each of which keeps its invariant. The second is an action property:
  with the page in range, the clamped page that is shown moves as the page does.

Only model-checked: everything under fairness. Liveness and `ENABLED` are out of the
prover's reach: `CancelCleansUp`, `EndsWithPods`, `ComesToRest`, `SignalEndsProcess`,
`HttpWithoutGrpc`, and the fair part of both refinements of `LogSearch`. Every safety
property of a passing run is a theorem.

## 5. What is not modelled

- Contents of log lines, JSON decoding and formatting, colours, layout, texts, the
  theme; the conversion of replies to protobuf messages; generated code
  (`backend/proto/monitor/v1/*.pb.go`).
- Kubernetes access (`kube.go`) and health (`health.go`): reads of objects, field by
  field. Their failures are the failing actions of the modules that call them. That
  they have no timeout is an assumption of the fairness above.
- The inference of the server: request-chain edges and summaries
  (`request_chain.go`), the service map (`service_map.go`), comparators and windows
  of log lines (`logs.go`, apart from the part that decides the cache key). They
  are functions of their input, without state or interleaving; models take their
  results as given.
- Authentication: validation of a token is Google's library, the rest a guard.
- In the browser, the messages of the data hook's errors and the spec, environment,
  timeline and health tabs beyond which request's data they show. The context
  selector and the theme toggle keep no state of the program's logic.

`PROJECT.json` gives the state of every part, and says of each hazard without a
property why it has none.

## 6. Plan

Done: the cache, both searches, the live stream, the lifecycle, the data hook, the
logs view, navigation, the request chain and the service map of the browser; proofs
for every module that has state, and of every safety property of a run. Left, in this
order:

1. Searches through the shared cache, with `ReadContract` in the place of the cache;
   the workload listing as three reads.
2. Pure modules checked against reference definitions in one run: windows and caps,
   comparators against instants, request-chain edges, owners of the service map.

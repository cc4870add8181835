------------------------------ MODULE ApiCache ------------------------------
(***************************************************************************)
(* The read-through cache of the backend: appState.cache and the four      *)
(* functions that go through it, getContextInfo, listNamespacesCached,     *)
(* listWorkloadsCached and getLogsCached                                   *)
(* (backend/internal/server: state.go, context_handlers.go, workloads.go,  *)
(* logs.go).                                                               *)
(*                                                                         *)
(* HTTP handlers, gRPC handlers and the goroutines of a fan-out call these *)
(* functions concurrently.  A call takes "now", looks the key up under the *)
(* read lock, releases the lock, reads the cluster without any lock, then  *)
(* takes the write lock to prune, evict and store.  A section that holds   *)
(* the lock is one action; whatever the other calls do in between is       *)
(* interleaved, and so is the passing of time.                             *)
(*                                                                         *)
(* What was read is abstracted to where it came from and when: the query   *)
(* it was fetched for, the moment of the read, whether the read was        *)
(* complete, and the text filter it was fetched with.                      *)
(***************************************************************************)
EXTENDS Integers, FiniteSets

CONSTANTS
  Requests,           \* calls in progress: HTTP, gRPC and fan-out goroutines
  Queries,            \* what the calls ask for, a set of Query records
  Targets,            \* a namespace, or a workload (namespace, kind, name)
  Contexts,           \* the kubeconfig context names a client may pass
  DefaultKey,         \* "__default", the key used when no context is passed
  Times,              \* RFC 3339 times of start_time and end_time
  BadTimes,           \* strings given as times that do not parse
  Terms,              \* search terms
  Nil,                \* an absent parameter, or no value yet
  ApiTTL,             \* apiCacheTTL
  LogTTL,             \* logCacheTTL
  LogCacheMaxEntries, \* logCacheMaxEntries
  DefaultSince,       \* defaultLogSinceMin
  MaxSince,           \* maxLogSinceMin
  MaxTime             \* bound of the model: the clock stops here

Apis == {"context", "namespaces", "workloads", "logs"}

Query ==
  [ api: Apis, target: Targets \cup {Nil}, ctx: Contexts \cup {Nil},
    since: Nat, start: Times \cup BadTimes \cup {Nil},
    end: Times \cup BadTimes \cup {Nil}, search: Terms \cup {Nil} ]

ASSUME BoundsAssumption ==
  /\ ApiTTL \in Nat \ {0} /\ LogTTL \in Nat \ {0}
  /\ LogCacheMaxEntries \in Nat \ {0}
  /\ DefaultSince \in Nat \ {0} /\ MaxSince \in Nat \ {0}
  /\ MaxTime \in Nat

ASSUME QueriesAssumption == Queries \subseteq Query

\* No context of the kubeconfig is called "__default", and absence is not a name.
ASSUME NamesAssumption ==
  /\ DefaultKey \notin Contexts
  /\ Nil \notin Targets \cup Contexts \cup Times \cup BadTimes \cup Terms \cup Queries
  /\ Times \cap BadTimes = {}

VARIABLES
  clock,    \* wall-clock time
  cache,    \* [Apis -> partial function from keys to entries]
  pc,       \* where each call stands
  query,    \* what each call asks for
  now,      \* the time each call took before its lookup
  value     \* what each call found, read or returned

vars == <<clock, cache, pc, query, now, value>>

-----------------------------------------------------------------------------
(* Keys and what a fetch reads.                                            *)

normalizeSinceMinutes(minutes) ==
  LET m == IF minutes = 0 THEN DefaultSince ELSE minutes
  IN  IF m > MaxSince THEN MaxSince ELSE m

contextCacheKey(ctx) == IF ctx = Nil THEN DefaultKey ELSE ctx

\* Mutant of timeRangeKey: the end is left out of the key.
timeRangeKeyNoEnd(q) ==
  IF q.start # Nil \/ q.end # Nil
  THEN [since |-> 0, start |-> q.start, end |-> Nil]
  ELSE [since |-> normalizeSinceMinutes(q.since), start |-> Nil, end |-> Nil]

timeRangeKey(q) ==
  IF q.start # Nil \/ q.end # Nil
  THEN [since |-> 0, start |-> q.start, end |-> q.end]
  ELSE [since |-> normalizeSinceMinutes(q.since), start |-> Nil, end |-> Nil]

NoRange == [since |-> 0, start |-> Nil, end |-> Nil]

\* The key under which the answer to q is looked up and stored.  The search
\* term is not part of it.
cacheKey(q) ==
  [ target |-> IF q.api \in {"workloads", "logs"} THEN q.target ELSE Nil,
    ctx    |-> IF q.api = "context" THEN Nil ELSE contextCacheKey(q.ctx),
    range  |-> IF q.api = "logs" THEN timeRangeKey(q) ELSE NoRange ]

\* The window a log fetch asks the cluster for: a start that parses, or the
\* last "since" minutes when no start is given, or no lower bound at all when
\* the start does not parse; an end only if it parses.
fetchWindow(q) ==
  [ since |-> IF q.start = Nil THEN normalizeSinceMinutes(q.since) ELSE 0,
    start |-> IF q.start \in Times THEN q.start ELSE Nil,
    end   |-> IF q.end \in Times THEN q.end ELSE Nil ]

\* Everything a fetch for q depends on.
source(q) ==
  [ api    |-> q.api,
    target |-> IF q.api \in {"workloads", "logs"} THEN q.target ELSE Nil,
    ctx    |-> IF q.api = "context" THEN Nil ELSE q.ctx,
    window |-> IF q.api = "logs" THEN fetchWindow(q) ELSE NoRange ]

TTL(api) == IF api = "logs" THEN LogTTL ELSE ApiTTL

\* Mutant of SwallowsErrors: a listing keeps what it has when a List fails.
SwallowsEveryError(api) == TRUE

\* Calls that turn a failed read into a smaller answer and not into an error:
\* getContextInfo drops the error of loadKubeConfig, readPodLog returns what
\* it has (or nothing) when a pod's log stream fails or is cut off.
SwallowsErrors(api) == api \in {"context", "logs"}

Value ==
  [query: Queries, readAt: 0..MaxTime, complete: BOOLEAN, filter: Terms \cup {Nil}]
Entry ==
  [value: Value, expiresAt: 0..(MaxTime + ApiTTL + LogTTL)]
Keys  == {cacheKey(q) : q \in Queries}

-----------------------------------------------------------------------------
(* The cache as a map from keys to entries.                                *)

\* entry.expiresAt.After(t)
Live(entry, t) == entry.expiresAt > t

prune(items, t) ==
  [k \in {j \in DOMAIN items : Live(items[j], t)} |-> items[k]]

\* Mutant of Oldest: the comparison of the scan is turned round.
Newest(items) ==
  {k \in DOMAIN items : \A j \in DOMAIN items : items[k].expiresAt >= items[j].expiresAt}

\* The keys the scan of getLogsCached may end on: Go visits a map in no
\* particular order, and a tie keeps the first key met.
Oldest(items) ==
  {k \in DOMAIN items : \A j \in DOMAIN items : items[k].expiresAt <= items[j].expiresAt}

Without(items, k) == [j \in DOMAIN items \ {k} |-> items[j]]

With(items, k, entry) ==
  [j \in DOMAIN items \cup {k} |-> IF j = k THEN entry ELSE items[j]]

\* Mutant of MakeRoom: off by one, ">" for ">=".
MakeRoomLate(items) ==
  IF Cardinality(DOMAIN items) > LogCacheMaxEntries
  THEN {Without(items, k) : k \in Oldest(items)}
  ELSE {items}

\* The maps getLogsCached may leave after making room.  The check does not ask
\* whether the key to be stored is already there.
MakeRoom(items) ==
  IF Cardinality(DOMAIN items) >= LogCacheMaxEntries
  THEN {Without(items, k) : k \in Oldest(items)}
  ELSE {items}

\* Mutant of newEntry: stamped with the time of the store.
newEntryStampedLate(r) ==
  [value |-> value[r], expiresAt |-> clock + TTL(query[r].api)]

\* The entry a call stores: stamped with the time taken before the lookup.
newEntry(r) ==
  [value |-> value[r], expiresAt |-> now[r] + TTL(query[r].api)]

-----------------------------------------------------------------------------
Init ==
  /\ clock = 0
  /\ cache = [a \in Apis |-> <<>>]
  /\ pc = [r \in Requests |-> "idle"]
  /\ query = [r \in Requests |-> Nil]
  /\ now = [r \in Requests |-> 0]
  /\ value = [r \in Requests |-> Nil]

Finished == {"idle", "hit", "fetched", "failed"}

Tick ==
  /\ clock < MaxTime
  /\ clock' = clock + 1
  /\ UNCHANGED <<cache, pc, query, now, value>>

\* A call starts: now := time.Now().
Begin(r, q) ==
  /\ pc[r] \in Finished
  /\ pc' = [pc EXCEPT ![r] = "lookup"]
  /\ query' = [query EXCEPT ![r] = q]
  /\ now' = [now EXCEPT ![r] = clock]
  /\ value' = [value EXCEPT ![r] = Nil]
  /\ UNCHANGED <<clock, cache>>

Cached(r) ==
  LET items == cache[query[r].api]  k == cacheKey(query[r])
  IN  k \in DOMAIN items /\ Live(items[k], now[r])

\* The lookup under the read lock finds a live entry and returns its value.
Hit(r) ==
  /\ pc[r] = "lookup"
  /\ Cached(r)
  /\ pc' = [pc EXCEPT ![r] = "hit"]
  /\ value' = [value EXCEPT ![r] = cache[query[r].api][cacheKey(query[r])].value]
  /\ UNCHANGED <<clock, cache, query, now>>

Miss(r) ==
  /\ pc[r] = "lookup"
  /\ ~Cached(r)
  /\ pc' = [pc EXCEPT ![r] = "fetch"]
  /\ UNCHANGED <<clock, cache, query, now, value>>

\* The read of the cluster, at some time after the lookup.  getLogsCached asks
\* for everything and filters afterwards: the fetch is never filtered.
Fetch(r) ==
  /\ pc[r] = "fetch"
  /\ \E whole \in BOOLEAN :
       /\ ~whole => SwallowsErrors(query[r].api)
       /\ value' = [value EXCEPT ![r] = [query |-> query[r], readAt |-> clock,
                                         complete |-> whole, filter |-> Nil]]
  /\ pc' = [pc EXCEPT ![r] = "store"]
  /\ UNCHANGED <<clock, cache, query, now>>

\* kubeClient, a List, or the reading of the workload fails: the call returns
\* the error and leaves the cache alone.  getContextInfo has no such path.
FetchFails(r) ==
  /\ pc[r] = "fetch"
  /\ query[r].api # "context"
  /\ pc' = [pc EXCEPT ![r] = "failed"]
  /\ UNCHANGED <<clock, cache, query, now, value>>

\* The three ways of storing, each a section under the write lock.
StoreContext(r) ==
  /\ pc[r] = "store"
  /\ query[r].api = "context"
  /\ cache' = [cache EXCEPT !["context"] = With(<<>>, cacheKey(query[r]), newEntry(r))]
  /\ pc' = [pc EXCEPT ![r] = "fetched"]
  /\ UNCHANGED <<clock, query, now, value>>

StoreList(r) ==
  /\ pc[r] = "store"
  /\ query[r].api \in {"namespaces", "workloads"}
  /\ cache' = [cache EXCEPT ![query[r].api] =
                 With(prune(@, now[r]), cacheKey(query[r]), newEntry(r))]
  /\ pc' = [pc EXCEPT ![r] = "fetched"]
  /\ UNCHANGED <<clock, query, now, value>>

StoreLogs(r) ==
  /\ pc[r] = "store"
  /\ query[r].api = "logs"
  /\ \E items \in MakeRoom(prune(cache["logs"], now[r])) :
       cache' = [cache EXCEPT !["logs"] = With(items, cacheKey(query[r]), newEntry(r))]
  /\ pc' = [pc EXCEPT ![r] = "fetched"]
  /\ UNCHANGED <<clock, query, now, value>>

Next ==
  \/ Tick
  \/ \E r \in Requests :
       \/ \E q \in Queries : Begin(r, q)
       \/ Hit(r) \/ Miss(r)
       \/ Fetch(r) \/ FetchFails(r)
       \/ StoreContext(r) \/ StoreList(r) \/ StoreLogs(r)

Spec == Init /\ [][Next]_vars

-----------------------------------------------------------------------------
(* Properties.                                                             *)

Stages == Finished \cup {"lookup", "fetch", "store"}

\* Every variable keeps its type: entries hold values that were really read,
\* under keys of queries of their own map.
TypeOK ==
  /\ clock \in 0..MaxTime
  /\ DOMAIN cache = Apis
  /\ \A a \in Apis :
       /\ DOMAIN cache[a] \subseteq Keys
       /\ \A k \in DOMAIN cache[a] : cache[a][k] \in Entry
  /\ pc \in [Requests -> Stages]
  /\ query \in [Requests -> Queries \cup {Nil}]
  /\ now \in [Requests -> 0..MaxTime]
  /\ value \in [Requests -> Value \cup {Nil}]
  /\ \A r \in Requests :
       /\ pc[r] # "idle" => query[r] \in Queries
       /\ pc[r] \in {"store", "hit", "fetched"} => value[r] \in Value

\* The log cache never holds more than logCacheMaxEntries results, however
\* many calls miss together and store one after the other (logs.go, the check
\* of the length under the write lock).
LogCacheBounded == Cardinality(DOMAIN cache["logs"]) <= LogCacheMaxEntries

\* A value served from the cache was read less than one time-to-live before
\* the call that is served began, even when slow fetches stored it late and
\* out of order: entries are stamped with the time taken before the read.
ServedFresh ==
  \A r \in Requests :
    pc[r] = "hit" => value[r].readAt + TTL(query[r].api) > now[r]

\* An end without a start: the minutes still decide what is fetched.
EndOnly(q) == q.api = "logs" /\ q.start = Nil /\ q.end # Nil

Answered(r) == pc[r] \in {"hit", "fetched"}

\* A call is answered with what a fetch for its own query would read: same
\* cluster, same workload, same window, and not narrowed to another call's
\* search term.  Ranges with an end and no start are excepted, see
\* AnswersEveryWindow.
AnswersOwnQuery ==
  \A r \in Requests :
    Answered(r) =>
      /\ value[r].filter \in {Nil, query[r].search}
      /\ ~EndOnly(query[r]) => source(value[r].query) = source(query[r])

\* The keys that leave the log cache in a step had expired, or the cache was
\* full and none of those that stay would have expired earlier.
RemovesOldest ==
  LET before == cache["logs"]  after == cache'["logs"]
  IN  \A k \in DOMAIN before \ DOMAIN after :
        \/ ~Live(before[k], clock)
        \/ /\ Cardinality(DOMAIN before) >= LogCacheMaxEntries
           /\ \A j \in DOMAIN before \cap DOMAIN after :
                before[k].expiresAt <= before[j].expiresAt

\* A result leaves the log cache before it expires only when the cache is full,
\* and then it is one that would have expired first (logs.go, the scan for the
\* oldest entry): calls that store late cannot push out what others just read.
EvictsOldestOnly == [][RemovesOldest]_cache

\* What makes the above inductive.  No entry outlives a time-to-live counted
\* from its own read, every read is in the past, and no call reads before the
\* time it took.
StampedEntry(entry, a) ==
  /\ entry.value.readAt <= clock
  /\ entry.expiresAt <= entry.value.readAt + TTL(a)

Stamped ==
  /\ \A a \in Apis : \A k \in DOMAIN cache[a] : StampedEntry(cache[a][k], a)
  /\ \A r \in Requests :
       /\ now[r] <= clock
       /\ pc[r] = "store" => now[r] <= value[r].readAt
       /\ pc[r] \in {"store", "hit", "fetched"} => value[r].readAt <= clock

\* v is what a fetch for q would have produced.
FetchedFor(v, q) ==
  /\ v.query = q
  /\ v.filter = Nil
  /\ ~v.complete => SwallowsErrors(q.api)

\* An entry was fetched for a query of its own map and key.
Sourced ==
  /\ \A a \in Apis : \A k \in DOMAIN cache[a] :
       LET v == cache[a][k].value
       IN  FetchedFor(v, v.query) /\ v.query.api = a /\ cacheKey(v.query) = k
  /\ \A r \in Requests :
       pc[r] \in {"store", "fetched"} => FetchedFor(value[r], query[r])

\* A served value is one of those entries.
ServedFromOwnKey ==
  \A r \in Requests :
    pc[r] = "hit" =>
      /\ FetchedFor(value[r], value[r].query)
      /\ value[r].query.api = query[r].api
      /\ cacheKey(value[r].query) = cacheKey(query[r])

\* The inductive invariant.
IInv ==
  /\ TypeOK
  /\ IsFiniteSet(DOMAIN cache["logs"]) /\ LogCacheBounded
  /\ Stamped /\ ServedFresh
  /\ Sourced /\ ServedFromOwnKey

\* The promise to callers, by refinement: cacheless, in ReadContract.
Interchangeable(q) ==
  {p \in Queries : source(p) = source(q) \/ (EndOnly(q) /\ cacheKey(p) = cacheKey(q))}

CallOf(r) ==
  [ status |-> CASE pc[r] = "idle" -> "none"
                 [] pc[r] \in {"lookup", "fetch", "store"} -> "waiting"
                 [] pc[r] = "failed" -> "refused"
                 [] OTHER -> "answered",
    query  |-> query[r],
    asked  |-> now[r],
    of     |-> IF Answered(r) THEN value[r].query ELSE Nil,
    readAt |-> IF Answered(r) THEN value[r].readAt ELSE 0,
    whole  |-> IF Answered(r) THEN value[r].complete ELSE FALSE ]

Contract == INSTANCE ReadContract WITH
  call <- [r \in Requests |-> CallOf(r)],
  MaxAge <- [q \in Queries |-> TTL(q.api)],
  AnsweredBy <- [q \in Queries |-> Interchangeable(q)],
  Whole <- {q \in Queries : q.api \in {"namespaces", "workloads"}},
  Reliable <- {q \in Queries : q.api = "context"}

\* Every behaviour of the cache is one of ReadContract: a call is answered
\* once, fresh enough, for its own query, and a failed or partial listing is
\* never replayed to another call.
ImplementsContract == Contract!Spec

\* "Stream pod logs with text search, time windows" (README.md): the logs a
\* call is given are those of the window it asked for.  The code breaks this
\* for a range with an end and no start, whose key leaves the minutes out.
AnswersEveryWindow ==
  \A r \in Requests :
    Answered(r) => source(value[r].query).window = source(query[r]).window

=============================================================================

--------------------------- MODULE ApiCacheProofs ---------------------------
(* Theorems about ApiCache, for any set of calls, of queries and of bounds. *)
EXTENDS ApiCache, FiniteSetTheorems, TLAPS

-----------------------------------------------------------------------------
(* The helpers on the cache's maps.                                        *)

\* Storing an entry adds its key and changes no other entry.
LEMMA WithFacts ==
  ASSUME NEW items, NEW k, NEW entry
  PROVE  /\ DOMAIN With(items, k, entry) = DOMAIN items \cup {k}
         /\ With(items, k, entry)[k] = entry
         /\ \A j \in DOMAIN items : j # k => With(items, k, entry)[j] = items[j]
BY DEF With

\* Pruning only removes entries, and only those that have expired.
LEMMA PruneFacts ==
  ASSUME NEW items, NEW t
  PROVE  /\ DOMAIN prune(items, t) \subseteq DOMAIN items
         /\ \A j \in DOMAIN prune(items, t) : prune(items, t)[j] = items[j]
         /\ \A j \in DOMAIN items \ DOMAIN prune(items, t) : ~Live(items[j], t)
BY DEF prune

\* Making room removes at most one entry, and then an oldest one of a full map.
LEMMA MakeRoomFacts ==
  ASSUME NEW items, NEW left \in MakeRoom(items)
  PROVE  /\ DOMAIN left \subseteq DOMAIN items
         /\ \A j \in DOMAIN left : left[j] = items[j]
         /\ \A k \in DOMAIN items \ DOMAIN left :
              /\ Cardinality(DOMAIN items) >= LogCacheMaxEntries
              /\ DOMAIN left = DOMAIN items \ {k}
              /\ \A j \in DOMAIN items : items[k].expiresAt <= items[j].expiresAt
<1>1. CASE Cardinality(DOMAIN items) >= LogCacheMaxEntries
  <2>1. PICK k \in Oldest(items) : left = Without(items, k)
    BY <1>1 DEF MakeRoom
  <2> QED BY <1>1, <2>1 DEF Without, Oldest
<1>2. CASE ~(Cardinality(DOMAIN items) >= LogCacheMaxEntries)
  BY <1>2 DEF MakeRoom
<1> QED BY <1>1, <1>2

\* What a store of the log cache leaves, seen from the map before it.
LEMMA StoreLogsFacts ==
  ASSUME NEW items, NEW t, NEW left \in MakeRoom(prune(items, t)), NEW k, NEW entry
  PROVE  /\ DOMAIN With(left, k, entry) \subseteq DOMAIN items \cup {k}
         /\ With(left, k, entry)[k] = entry
         /\ \A j \in DOMAIN With(left, k, entry) :
              j # k => j \in DOMAIN items /\ With(left, k, entry)[j] = items[j]
<1> DEFINE pruned == prune(items, t)
<1>1. /\ DOMAIN pruned \subseteq DOMAIN items
      /\ \A j \in DOMAIN pruned : pruned[j] = items[j]
  BY PruneFacts
<1>2. /\ DOMAIN left \subseteq DOMAIN pruned
      /\ \A j \in DOMAIN left : left[j] = pruned[j]
  <2>1. left \in MakeRoom(pruned)
    OBVIOUS
  <2> HIDE DEF pruned
  <2> QED BY <2>1, MakeRoomFacts
<1>3. /\ DOMAIN With(left, k, entry) = DOMAIN left \cup {k}
      /\ With(left, k, entry)[k] = entry
      /\ \A j \in DOMAIN left : j # k => With(left, k, entry)[j] = left[j]
  BY DEF With
<1> HIDE DEF pruned
<1> QED BY <1>1, <1>2, <1>3

\* Room is made for one more entry: a finite map within the limit stays finite
\* and ends one below the limit.
LEMMA StoreLogsBounded ==
  ASSUME NEW items, NEW t, NEW left \in MakeRoom(prune(items, t)), NEW k, NEW entry,
         IsFiniteSet(DOMAIN items), Cardinality(DOMAIN items) <= LogCacheMaxEntries
  PROVE  /\ IsFiniteSet(DOMAIN With(left, k, entry))
         /\ Cardinality(DOMAIN With(left, k, entry)) <= LogCacheMaxEntries
<1> DEFINE pruned == prune(items, t)
<1>1. /\ IsFiniteSet(DOMAIN pruned)
      /\ Cardinality(DOMAIN pruned) <= LogCacheMaxEntries
      /\ Cardinality(DOMAIN pruned) \in Nat
  <2>1. DOMAIN pruned \subseteq DOMAIN items
    BY PruneFacts
  <2> HIDE DEF pruned
  <2>2. /\ IsFiniteSet(DOMAIN pruned)
        /\ Cardinality(DOMAIN pruned) <= Cardinality(DOMAIN items)
    BY <2>1, FS_Subset
  <2>3. Cardinality(DOMAIN pruned) \in Nat /\ Cardinality(DOMAIN items) \in Nat
    BY <2>2, FS_CardinalityType
  <2> QED BY <2>2, <2>3, BoundsAssumption
<1>2. left \in MakeRoom(pruned)
  OBVIOUS
<1> HIDE DEF pruned
<1>3. /\ IsFiniteSet(DOMAIN left)
      /\ Cardinality(DOMAIN left) \in Nat
      /\ Cardinality(DOMAIN left) < LogCacheMaxEntries
  <2>1. CASE Cardinality(DOMAIN pruned) >= LogCacheMaxEntries
    <3>1. PICK j \in Oldest(pruned) : left = Without(pruned, j)
      BY <1>2, <2>1 DEF MakeRoom
    <3>2. j \in DOMAIN pruned /\ DOMAIN left = DOMAIN pruned \ {j}
      BY <3>1 DEF Oldest, Without
    <3>3. /\ IsFiniteSet(DOMAIN left)
          /\ Cardinality(DOMAIN left) = Cardinality(DOMAIN pruned) - 1
      BY <1>1, <3>2, FS_RemoveElement
    <3> QED BY <1>1, <3>3, FS_CardinalityType, BoundsAssumption
  <2>2. CASE ~(Cardinality(DOMAIN pruned) >= LogCacheMaxEntries)
    <3>1. left = pruned
      BY <1>2, <2>2 DEF MakeRoom
    <3> QED BY <1>1, <2>2, <3>1, BoundsAssumption
  <2> QED BY <2>1, <2>2
<1>4. DOMAIN With(left, k, entry) = DOMAIN left \cup {k}
  BY DEF With
<1>5. /\ IsFiniteSet(DOMAIN left \cup {k})
      /\ Cardinality(DOMAIN left \cup {k}) <= Cardinality(DOMAIN left) + 1
      /\ Cardinality(DOMAIN left \cup {k}) \in Nat
  <2>1. /\ IsFiniteSet(DOMAIN left \cup {k})
        /\ \/ Cardinality(DOMAIN left \cup {k}) = Cardinality(DOMAIN left)
           \/ Cardinality(DOMAIN left \cup {k}) = Cardinality(DOMAIN left) + 1
    BY <1>3, FS_AddElement
  <2> QED BY <1>3, <2>1
<1> QED BY <1>3, <1>4, <1>5, BoundsAssumption

-----------------------------------------------------------------------------
(* Types.                                                                  *)

\* The entry a call stores is well typed.
LEMMA NewEntryType ==
  ASSUME TypeOK, NEW r \in Requests, pc[r] = "store"
  PROVE  newEntry(r) \in Entry /\ cacheKey(query[r]) \in Keys /\ query[r].api \in Apis
<1>1. value[r] \in Value /\ query[r] \in Queries /\ now[r] \in 0..MaxTime
  BY DEF TypeOK
<1>2. query[r].api \in Apis
  BY <1>1, QueriesAssumption DEF Query
<1>3. now[r] + TTL(query[r].api) \in 0..(MaxTime + ApiTTL + LogTTL)
  BY <1>1, BoundsAssumption DEF TTL
<1>4. cacheKey(query[r]) \in Keys
  BY <1>1 DEF Keys
<1> QED BY <1>1, <1>2, <1>3, <1>4 DEF newEntry, Entry

LEMMA TypeInit == Init => TypeOK
BY BoundsAssumption DEF Init, TypeOK, Stages, Finished, Keys

LEMMA TypeStep == TypeOK /\ [Next]_vars => TypeOK'
<1> SUFFICES ASSUME TypeOK, [Next]_vars PROVE TypeOK'
  OBVIOUS
<1> USE DEF Stages, Finished
<1>1. CASE Tick
  BY <1>1, BoundsAssumption DEF Tick, TypeOK
<1>2. ASSUME NEW r \in Requests, NEW q \in Queries, Begin(r, q) PROVE TypeOK'
  BY <1>2, BoundsAssumption DEF Begin, TypeOK
<1>3. ASSUME NEW r \in Requests, Hit(r) PROVE TypeOK'
  <2>1. cache[query[r].api][cacheKey(query[r])] \in Entry
    BY <1>3, QueriesAssumption DEF Hit, Cached, TypeOK, Query
  <2>2. cache[query[r].api][cacheKey(query[r])].value \in Value
    BY <2>1 DEF Entry
  <2> QED BY <1>3, <2>2 DEF Hit, TypeOK
<1>4. ASSUME NEW r \in Requests, Miss(r) PROVE TypeOK'
  BY <1>4 DEF Miss, TypeOK
<1>5. ASSUME NEW r \in Requests, Fetch(r) PROVE TypeOK'
  <2>1. query[r] \in Queries /\ clock \in 0..MaxTime
    BY <1>5 DEF Fetch, TypeOK
  <2>2. PICK whole \in BOOLEAN :
          value' = [value EXCEPT ![r] = [query |-> query[r], readAt |-> clock,
                                         complete |-> whole, filter |-> Nil]]
    BY <1>5 DEF Fetch
  <2>3. [query |-> query[r], readAt |-> clock, complete |-> whole, filter |-> Nil] \in Value
    BY <2>1 DEF Value
  <2> QED BY <1>5, <2>2, <2>3 DEF Fetch, TypeOK
<1>6. ASSUME NEW r \in Requests, FetchFails(r) PROVE TypeOK'
  BY <1>6 DEF FetchFails, TypeOK
<1>7. ASSUME NEW r \in Requests, StoreContext(r) PROVE TypeOK'
  <2>1. newEntry(r) \in Entry /\ cacheKey(query[r]) \in Keys
    BY <1>7, NewEntryType DEF StoreContext
  <2> DEFINE items == With(<<>>, cacheKey(query[r]), newEntry(r))
  <2>2. DOMAIN items = {cacheKey(query[r])} /\ \A k \in DOMAIN items : items[k] \in Entry
    BY <2>1 DEF With
  <2>3. cache' = [cache EXCEPT !["context"] = items]
    BY <1>7 DEF StoreContext
  <2> HIDE DEF items
  <2> QED BY <1>7, <2>1, <2>2, <2>3 DEF StoreContext, TypeOK
<1>8. ASSUME NEW r \in Requests, StoreList(r) PROVE TypeOK'
  <2>1. newEntry(r) \in Entry /\ cacheKey(query[r]) \in Keys /\ query[r].api \in Apis
    BY <1>8, NewEntryType DEF StoreList
  <2> DEFINE old == cache[query[r].api]
             items == With(prune(old, now[r]), cacheKey(query[r]), newEntry(r))
  <2>2. DOMAIN old \subseteq Keys /\ \A k \in DOMAIN old : old[k] \in Entry
    BY <2>1 DEF TypeOK
  <2>3. DOMAIN items \subseteq Keys /\ \A k \in DOMAIN items : items[k] \in Entry
    <3> HIDE DEF old
    <3> QED BY <2>1, <2>2 DEF With, prune
  <2>4. cache' = [cache EXCEPT ![query[r].api] = items]
    BY <1>8 DEF StoreList
  <2> HIDE DEF items, old
  <2> QED BY <1>8, <2>1, <2>3, <2>4 DEF StoreList, TypeOK
<1>9. ASSUME NEW r \in Requests, StoreLogs(r) PROVE TypeOK'
  <2>1. newEntry(r) \in Entry /\ cacheKey(query[r]) \in Keys
    BY <1>9, NewEntryType DEF StoreLogs
  <2> DEFINE old == cache["logs"]
  <2>2. DOMAIN old \subseteq Keys /\ \A k \in DOMAIN old : old[k] \in Entry
    BY DEF TypeOK, Apis
  <2>3. PICK left \in MakeRoom(prune(old, now[r])) :
          cache' = [cache EXCEPT !["logs"] = With(left, cacheKey(query[r]), newEntry(r))]
    BY <1>9 DEF StoreLogs
  <2> DEFINE items == With(left, cacheKey(query[r]), newEntry(r))
  <2>4. DOMAIN items \subseteq Keys /\ \A k \in DOMAIN items : items[k] \in Entry
    <3>1. /\ DOMAIN items \subseteq DOMAIN old \cup {cacheKey(query[r])}
          /\ items[cacheKey(query[r])] = newEntry(r)
          /\ \A j \in DOMAIN items :
               j # cacheKey(query[r]) => j \in DOMAIN old /\ items[j] = old[j]
      <4> HIDE DEF old
      <4> QED BY StoreLogsFacts
    <3> HIDE DEF items, old
    <3> QED BY <2>1, <2>2, <3>1
  <2> HIDE DEF items, old
  <2> QED BY <1>9, <2>3, <2>4 DEF StoreLogs, TypeOK, items
<1>10. CASE UNCHANGED vars
  BY <1>10 DEF vars, TypeOK
<1> QED BY <1>1, <1>2, <1>3, <1>4, <1>5, <1>6, <1>7, <1>8, <1>9, <1>10 DEF Next

\* Every variable keeps its type in every reachable state.
THEOREM TypeCorrect == Spec => []TypeOK
<1>1. Init => TypeOK
  BY TypeInit
<1>2. TypeOK /\ [Next]_vars => TypeOK'
  BY TypeStep
<1> QED BY <1>1, <1>2, PTL DEF Spec

-----------------------------------------------------------------------------
(* The limit of the log cache.                                             *)

\* Only StoreLogs touches the log cache, and it makes room first.
LEMMA LogCacheStep ==
  ASSUME TypeOK, IsFiniteSet(DOMAIN cache["logs"]), LogCacheBounded, [Next]_vars
  PROVE  IsFiniteSet(DOMAIN cache'["logs"]) /\ LogCacheBounded'
<1>1. ASSUME NEW r \in Requests, StoreLogs(r)
      PROVE  IsFiniteSet(DOMAIN cache'["logs"]) /\ LogCacheBounded'
  <2> DEFINE old == cache["logs"]
  <2>1. PICK left \in MakeRoom(prune(old, now[r])) :
          cache' = [cache EXCEPT !["logs"] = With(left, cacheKey(query[r]), newEntry(r))]
    BY <1>1 DEF StoreLogs
  <2> DEFINE items == With(left, cacheKey(query[r]), newEntry(r))
  <2>2. IsFiniteSet(DOMAIN items) /\ Cardinality(DOMAIN items) <= LogCacheMaxEntries
    <3>1. IsFiniteSet(DOMAIN old) /\ Cardinality(DOMAIN old) <= LogCacheMaxEntries
      BY DEF LogCacheBounded
    <3> HIDE DEF old
    <3> QED BY <3>1, StoreLogsBounded
  <2>3. cache'["logs"] = items
    BY <2>1 DEF TypeOK, Apis
  <2> HIDE DEF items, old
  <2> QED BY <2>2, <2>3 DEF LogCacheBounded
<1>2. ASSUME cache'["logs"] = cache["logs"]
      PROVE  IsFiniteSet(DOMAIN cache'["logs"]) /\ LogCacheBounded'
  BY <1>2 DEF LogCacheBounded
<1>3. CASE Tick
  BY <1>2, <1>3 DEF Tick
<1>4. ASSUME NEW r \in Requests,
             \/ \E q \in Queries : Begin(r, q)
             \/ Hit(r) \/ Miss(r) \/ Fetch(r) \/ FetchFails(r)
      PROVE  cache'["logs"] = cache["logs"]
  BY <1>4 DEF Begin, Hit, Miss, Fetch, FetchFails
<1>5. ASSUME NEW r \in Requests, StoreContext(r) \/ StoreList(r)
      PROVE  cache'["logs"] = cache["logs"]
  BY <1>5 DEF StoreContext, StoreList, TypeOK, Apis
<1>6. CASE UNCHANGED vars
  BY <1>2, <1>6 DEF vars
<1> QED BY <1>1, <1>2, <1>3, <1>4, <1>5, <1>6 DEF Next

-----------------------------------------------------------------------------
(* Freshness.                                                              *)

\* Whatever is stored is stamped from before its own read.
LEMMA NewEntryStamped ==
  ASSUME TypeOK, Stamped, NEW r \in Requests, pc[r] = "store"
  PROVE  StampedEntry(newEntry(r), query[r].api)
<1>1. now[r] <= value[r].readAt /\ value[r].readAt <= clock
  BY DEF Stamped
<1>2. value[r] \in Value /\ now[r] \in 0..MaxTime
  BY DEF TypeOK
<1>3. value[r].readAt \in Int
  BY <1>2, BoundsAssumption DEF Value
<1>4. TTL(query[r].api) \in Int
  BY BoundsAssumption DEF TTL
<1> QED BY <1>1, <1>2, <1>3, <1>4, BoundsAssumption DEF newEntry, StampedEntry

LEMMA StampedStep ==
  ASSUME TypeOK, Stamped, ServedFresh, [Next]_vars
  PROVE  Stamped' /\ ServedFresh'
<1> USE DEF Stages, Finished
<1>1. CASE Tick
  <2>1. clock \in Int /\ clock' = clock + 1 /\ UNCHANGED <<cache, pc, query, now, value>>
    BY <1>1, BoundsAssumption DEF Tick, TypeOK
  <2>2. \A a \in Apis : \A k \in DOMAIN cache[a] : StampedEntry(cache[a][k], a)'
    <3> SUFFICES ASSUME NEW a \in Apis, NEW k \in DOMAIN cache[a]
                 PROVE  StampedEntry(cache[a][k], a)'
      OBVIOUS
    <3>1. cache[a][k].value.readAt \in Int
      BY BoundsAssumption DEF TypeOK, Entry, Value
    <3> QED BY <2>1, <3>1 DEF Stamped, StampedEntry, TTL
  <2>3. \A r \in Requests : now[r] \in Int /\ (value[r] \in Value => value[r].readAt \in Int)
    BY BoundsAssumption DEF TypeOK, Value
  <2> QED BY <2>1, <2>2, <2>3 DEF Stamped, ServedFresh, TypeOK
<1>2. ASSUME NEW r \in Requests, NEW q \in Queries, Begin(r, q)
      PROVE  Stamped' /\ ServedFresh'
  BY <1>2, BoundsAssumption DEF Begin, Stamped, StampedEntry, ServedFresh, TypeOK
<1>3. ASSUME NEW r \in Requests, Hit(r) PROVE Stamped' /\ ServedFresh'
  <2> DEFINE a == query[r].api
             entry == cache[a][cacheKey(query[r])]
  <2>1. a \in Apis /\ cacheKey(query[r]) \in DOMAIN cache[a] /\ entry.expiresAt > now[r]
    BY <1>3, QueriesAssumption DEF Hit, Cached, Live, TypeOK, Query
  <2>2. /\ entry \in Entry
        /\ entry.expiresAt <= entry.value.readAt + TTL(a)
        /\ entry.value.readAt <= clock
    BY <2>1 DEF TypeOK, Stamped, StampedEntry
  <2>3. /\ entry.expiresAt \in Int /\ entry.value.readAt \in Int
        /\ now[r] \in Int /\ TTL(a) \in Int
    BY <2>2, BoundsAssumption DEF Entry, Value, TypeOK, TTL
  <2>4. entry.value.readAt + TTL(a) > now[r]
    <3> HIDE DEF entry, a
    <3> QED BY <2>1, <2>2, <2>3
  <2>5. value' = [value EXCEPT ![r] = entry.value] /\ pc' = [pc EXCEPT ![r] = "hit"]
    BY <1>3 DEF Hit
  <2>6. UNCHANGED <<clock, cache, query, now>>
    BY <1>3 DEF Hit
  <2>7. Stamped'
    <3> HIDE DEF entry
    <3> QED BY <2>2, <2>5, <2>6 DEF Stamped, StampedEntry, TypeOK
  <2>8. ServedFresh'
    <3> HIDE DEF entry
    <3> QED BY <2>4, <2>5, <2>6 DEF ServedFresh, TypeOK
  <2> QED BY <2>7, <2>8
<1>4. ASSUME NEW r \in Requests, Miss(r) \/ FetchFails(r) PROVE Stamped' /\ ServedFresh'
  BY <1>4 DEF Miss, FetchFails, Stamped, StampedEntry, ServedFresh, TypeOK
<1>5. ASSUME NEW r \in Requests, Fetch(r) PROVE Stamped' /\ ServedFresh'
  BY <1>5, BoundsAssumption DEF Fetch, Stamped, StampedEntry, ServedFresh, TypeOK
<1>6. ASSUME NEW r \in Requests, pc[r] = "store",
             pc' = [pc EXCEPT ![r] = "fetched"], UNCHANGED <<clock, query, now, value>>,
             \A a \in Apis : \A k \in DOMAIN cache'[a] :
               StampedEntry(cache'[a][k], a)
      PROVE  Stamped' /\ ServedFresh'
  BY <1>6 DEF Stamped, StampedEntry, ServedFresh, TypeOK
<1>7. ASSUME NEW r \in Requests, StoreContext(r) PROVE Stamped' /\ ServedFresh'
  <2> DEFINE items == With(<<>>, cacheKey(query[r]), newEntry(r))
  <2>1. DOMAIN items = {cacheKey(query[r])} /\ items[cacheKey(query[r])] = newEntry(r)
    BY DEF With
  <2>2. \A k \in DOMAIN items : StampedEntry(items[k], "context")
    <3> HIDE DEF items
    <3> QED BY <1>7, <2>1, NewEntryStamped DEF StoreContext
  <2>3. cache' = [cache EXCEPT !["context"] = items]
    BY <1>7 DEF StoreContext
  <2> HIDE DEF items
  <2>4. \A a \in Apis : \A k \in DOMAIN cache'[a] : StampedEntry(cache'[a][k], a)
    BY <2>2, <2>3 DEF Stamped, TypeOK
  <2> QED BY <1>6, <1>7, <2>4 DEF StoreContext
<1>8. ASSUME NEW r \in Requests, StoreList(r) PROVE Stamped' /\ ServedFresh'
  <2> DEFINE a == query[r].api
             old == cache[a]
             items == With(prune(old, now[r]), cacheKey(query[r]), newEntry(r))
  <2>1. a \in Apis
    BY <1>8 DEF StoreList, Apis
  <2>2. \A k \in DOMAIN old : StampedEntry(old[k], a)
    BY <2>1 DEF Stamped
  <2>3. StampedEntry(newEntry(r), a)
    BY <1>8, NewEntryStamped DEF StoreList
  <2>4. \A k \in DOMAIN items : items[k] = newEntry(r) \/ (k \in DOMAIN old /\ items[k] = old[k])
    <3> HIDE DEF old
    <3> QED BY DEF With, prune
  <2>5. \A k \in DOMAIN items : StampedEntry(items[k], a)
    <3> HIDE DEF old, items, a
    <3> QED BY <2>2, <2>3, <2>4
  <2>6. cache' = [cache EXCEPT ![a] = items]
    BY <1>8 DEF StoreList
  <2> HIDE DEF items, old, a
  <2>7. \A b \in Apis : \A k \in DOMAIN cache'[b] : StampedEntry(cache'[b][k], b)
    BY <2>1, <2>5, <2>6 DEF Stamped, TypeOK
  <2> QED BY <1>6, <1>8, <2>7 DEF StoreList
<1>9. ASSUME NEW r \in Requests, StoreLogs(r) PROVE Stamped' /\ ServedFresh'
  <2> DEFINE old == cache["logs"]
  <2>1. PICK left \in MakeRoom(prune(old, now[r])) :
          cache' = [cache EXCEPT !["logs"] = With(left, cacheKey(query[r]), newEntry(r))]
    BY <1>9 DEF StoreLogs
  <2> DEFINE items == With(left, cacheKey(query[r]), newEntry(r))
  <2>2. \A k \in DOMAIN old : StampedEntry(old[k], "logs")
    BY DEF Stamped, Apis
  <2>3. StampedEntry(newEntry(r), "logs")
    BY <1>9, NewEntryStamped DEF StoreLogs
  <2>4. /\ items[cacheKey(query[r])] = newEntry(r)
        /\ \A j \in DOMAIN items :
             j # cacheKey(query[r]) => j \in DOMAIN old /\ items[j] = old[j]
    <3> HIDE DEF old
    <3> QED BY StoreLogsFacts
  <2>5. \A k \in DOMAIN items : StampedEntry(items[k], "logs")
    <3> HIDE DEF old, items
    <3> QED BY <2>2, <2>3, <2>4
  <2>6. cache' = [cache EXCEPT !["logs"] = items]
    BY <2>1
  <2> HIDE DEF items, old
  <2>7. \A b \in Apis : \A k \in DOMAIN cache'[b] : StampedEntry(cache'[b][k], b)
    BY <2>5, <2>6 DEF Stamped, TypeOK
  <2> QED BY <1>6, <1>9, <2>7 DEF StoreLogs
<1>10. CASE UNCHANGED vars
  BY <1>10 DEF vars, Stamped, StampedEntry, ServedFresh
<1> QED BY <1>1, <1>2, <1>3, <1>4, <1>5, <1>7, <1>8, <1>9, <1>10 DEF Next

-----------------------------------------------------------------------------
(* Keys.                                                                   *)

\* Two queries of one map with one key read the same thing, unless the one
\* that is answered has an end and no start.
LEMMA KeyDeterminesSource ==
  ASSUME NEW p \in Queries, NEW q \in Queries, p.api = q.api,
         cacheKey(p) = cacheKey(q), ~EndOnly(q)
  PROVE  source(p) = source(q)
<1>1. p \in Query /\ q \in Query
  BY QueriesAssumption
<1>2. /\ cacheKey(p).target = cacheKey(q).target
      /\ cacheKey(p).ctx = cacheKey(q).ctx
      /\ cacheKey(p).range = cacheKey(q).range
  OBVIOUS
<1>3. ASSUME q.api \in {"workloads", "logs"} PROVE p.target = q.target
  BY <1>2, <1>3 DEF cacheKey
<1>4. ASSUME q.api # "context" PROVE p.ctx = q.ctx
  <2>1. contextCacheKey(p.ctx) = contextCacheKey(q.ctx)
    BY <1>2, <1>4 DEF cacheKey
  <2>2. p.ctx \in Contexts \cup {Nil} /\ q.ctx \in Contexts \cup {Nil}
    BY <1>1 DEF Query
  <2> QED BY <2>1, <2>2, NamesAssumption DEF contextCacheKey
<1>5. ASSUME q.api = "logs" PROVE fetchWindow(p) = fetchWindow(q)
  <2>1. timeRangeKey(p) = timeRangeKey(q)
    BY <1>2, <1>5 DEF cacheKey
  <2>2. /\ timeRangeKey(p).since = timeRangeKey(q).since
        /\ timeRangeKey(p).start = timeRangeKey(q).start
        /\ timeRangeKey(p).end = timeRangeKey(q).end
    BY <2>1
  <2>3. p.start = q.start /\ p.end = q.end
    BY <2>2 DEF timeRangeKey
  <2>4. CASE q.start # Nil
    BY <2>3, <2>4 DEF fetchWindow
  <2>5. CASE q.start = Nil
    <3>1. q.end = Nil
      BY <1>5, <2>5 DEF EndOnly
    <3>2. normalizeSinceMinutes(p.since) = normalizeSinceMinutes(q.since)
      BY <2>2, <2>3, <2>5, <3>1 DEF timeRangeKey
    <3> QED BY <2>3, <3>2 DEF fetchWindow
  <2> QED BY <2>4, <2>5
<1> QED BY <1>3, <1>4, <1>5 DEF source

\* What a call stores was fetched for its own query, and goes under its key.
LEMMA SourcedStep ==
  ASSUME TypeOK, Sourced, ServedFromOwnKey, [Next]_vars
  PROVE  Sourced' /\ ServedFromOwnKey'
<1> DEFINE Kept(entry, a, k) ==
             /\ FetchedFor(entry.value, entry.value.query)
             /\ entry.value.query.api = a
             /\ cacheKey(entry.value.query) = k
<1> USE DEF Stages, Finished
<1>1. CASE Tick
  BY <1>1 DEF Tick, Sourced, ServedFromOwnKey
<1>2. ASSUME NEW r \in Requests, NEW q \in Queries, Begin(r, q)
      PROVE  Sourced' /\ ServedFromOwnKey'
  BY <1>2 DEF Begin, Sourced, ServedFromOwnKey, TypeOK
<1>3. ASSUME NEW r \in Requests, Hit(r) PROVE Sourced' /\ ServedFromOwnKey'
  <2> DEFINE a == query[r].api
             entry == cache[a][cacheKey(query[r])]
  <2>1. a \in Apis /\ cacheKey(query[r]) \in DOMAIN cache[a]
    BY <1>3, QueriesAssumption DEF Hit, Cached, TypeOK, Query
  <2>2. Kept(entry, a, cacheKey(query[r]))
    BY <2>1 DEF Sourced
  <2>3. /\ value' = [value EXCEPT ![r] = entry.value]
        /\ pc' = [pc EXCEPT ![r] = "hit"]
        /\ UNCHANGED <<clock, cache, query, now>>
    BY <1>3 DEF Hit
  <2>4. Sourced'
    BY <2>3 DEF Sourced, TypeOK
  <2>5. ServedFromOwnKey'
    <3> HIDE DEF entry
    <3> QED BY <2>2, <2>3 DEF ServedFromOwnKey, TypeOK
  <2> QED BY <2>4, <2>5
<1>4. ASSUME NEW r \in Requests, Miss(r) \/ FetchFails(r)
      PROVE  Sourced' /\ ServedFromOwnKey'
  BY <1>4 DEF Miss, FetchFails, Sourced, ServedFromOwnKey, TypeOK
<1>5. ASSUME NEW r \in Requests, Fetch(r) PROVE Sourced' /\ ServedFromOwnKey'
  <2>1. PICK whole \in BOOLEAN :
          /\ ~whole => SwallowsErrors(query[r].api)
          /\ value' = [value EXCEPT ![r] = [query |-> query[r], readAt |-> clock,
                                            complete |-> whole, filter |-> Nil]]
    BY <1>5 DEF Fetch
  <2>2. FetchedFor([query |-> query[r], readAt |-> clock,
                    complete |-> whole, filter |-> Nil], query[r])
    BY <2>1 DEF FetchedFor
  <2> QED BY <1>5, <2>1, <2>2 DEF Fetch, Sourced, ServedFromOwnKey, TypeOK
<1>6. ASSUME NEW r \in Requests, pc[r] = "store",
             pc' = [pc EXCEPT ![r] = "fetched"], UNCHANGED <<clock, query, now, value>>,
             \A a \in Apis : \A k \in DOMAIN cache'[a] : Kept(cache'[a][k], a, k)
      PROVE  Sourced' /\ ServedFromOwnKey'
  BY <1>6 DEF Sourced, ServedFromOwnKey, TypeOK
<1>7. ASSUME NEW r \in Requests, pc[r] = "store"
      PROVE  Kept(newEntry(r), query[r].api, cacheKey(query[r]))
  BY <1>7 DEF Sourced, FetchedFor, newEntry
<1>8. ASSUME NEW r \in Requests, StoreContext(r) PROVE Sourced' /\ ServedFromOwnKey'
  <2> DEFINE items == With(<<>>, cacheKey(query[r]), newEntry(r))
  <2>1. DOMAIN items = {cacheKey(query[r])} /\ items[cacheKey(query[r])] = newEntry(r)
    BY DEF With
  <2>2. Kept(newEntry(r), "context", cacheKey(query[r]))
    BY <1>7, <1>8 DEF StoreContext
  <2>3. \A k \in DOMAIN items : Kept(items[k], "context", k)
    <3> HIDE DEF items
    <3> QED BY <2>1, <2>2
  <2>4. cache' = [cache EXCEPT !["context"] = items]
    BY <1>8 DEF StoreContext
  <2> HIDE DEF items
  <2>5. \A a \in Apis : \A k \in DOMAIN cache'[a] : Kept(cache'[a][k], a, k)
    BY <2>3, <2>4 DEF Sourced, TypeOK
  <2> QED BY <1>6, <1>8, <2>5 DEF StoreContext
<1>9. ASSUME NEW r \in Requests, StoreList(r) PROVE Sourced' /\ ServedFromOwnKey'
  <2> DEFINE a == query[r].api
             old == cache[a]
             key == cacheKey(query[r])
             items == With(prune(old, now[r]), key, newEntry(r))
  <2>1. a \in Apis
    BY <1>9 DEF StoreList, Apis
  <2>2. \A k \in DOMAIN old : Kept(old[k], a, k)
    BY <2>1 DEF Sourced
  <2>3. Kept(newEntry(r), a, key)
    BY <1>7, <1>9 DEF StoreList
  <2>4. \A k \in DOMAIN items :
          (k = key /\ items[k] = newEntry(r)) \/ (k \in DOMAIN old /\ items[k] = old[k])
    <3> HIDE DEF old, key
    <3> QED BY DEF With, prune
  <2>5. \A k \in DOMAIN items : Kept(items[k], a, k)
    <3> HIDE DEF old, items, a, key
    <3> QED BY <2>2, <2>3, <2>4
  <2>6. cache' = [cache EXCEPT ![a] = items]
    BY <1>9 DEF StoreList
  <2> HIDE DEF items, old, a, key
  <2>7. \A b \in Apis : \A k \in DOMAIN cache'[b] : Kept(cache'[b][k], b, k)
    BY <2>1, <2>5, <2>6 DEF Sourced, TypeOK
  <2> QED BY <1>6, <1>9, <2>7 DEF StoreList
<1>10. ASSUME NEW r \in Requests, StoreLogs(r) PROVE Sourced' /\ ServedFromOwnKey'
  <2> DEFINE old == cache["logs"]
             key == cacheKey(query[r])
  <2>1. PICK left \in MakeRoom(prune(old, now[r])) :
          cache' = [cache EXCEPT !["logs"] = With(left, key, newEntry(r))]
    BY <1>10 DEF StoreLogs
  <2> DEFINE items == With(left, key, newEntry(r))
  <2>2. \A k \in DOMAIN old : Kept(old[k], "logs", k)
    BY DEF Sourced, Apis
  <2>3. Kept(newEntry(r), "logs", key)
    BY <1>7, <1>10 DEF StoreLogs
  <2>4. /\ items[key] = newEntry(r)
        /\ \A j \in DOMAIN items : j # key => j \in DOMAIN old /\ items[j] = old[j]
    <3> HIDE DEF old, key
    <3> QED BY StoreLogsFacts
  <2>5. \A k \in DOMAIN items : Kept(items[k], "logs", k)
    <3> HIDE DEF old, items, key
    <3> QED BY <2>2, <2>3, <2>4
  <2>6. cache' = [cache EXCEPT !["logs"] = items]
    BY <2>1
  <2> HIDE DEF items, old, key
  <2>7. \A b \in Apis : \A k \in DOMAIN cache'[b] : Kept(cache'[b][k], b, k)
    BY <2>5, <2>6 DEF Sourced, TypeOK
  <2> QED BY <1>6, <1>10, <2>7 DEF StoreLogs
<1>11. CASE UNCHANGED vars
  BY <1>11 DEF vars, Sourced, ServedFromOwnKey
<1> QED BY <1>1, <1>2, <1>3, <1>4, <1>5, <1>8, <1>9, <1>10, <1>11 DEF Next

-----------------------------------------------------------------------------
(* The inductive invariant and what follows from it.                       *)

\* IInv holds in every reachable state.
THEOREM Inductive == Spec => []IInv
<1>1. Init => IInv
  <2> SUFFICES ASSUME Init PROVE IInv
    OBVIOUS
  <2>1. TypeOK
    BY TypeInit
  <2>2. DOMAIN cache["logs"] = {} /\ \A a \in Apis : DOMAIN cache[a] = {}
    BY DEF Init, Apis
  <2>3. IsFiniteSet(DOMAIN cache["logs"]) /\ LogCacheBounded
    BY <2>2, FS_EmptySet, BoundsAssumption DEF LogCacheBounded
  <2>4. Stamped /\ ServedFresh /\ Sourced /\ ServedFromOwnKey
    BY <2>2 DEF Init, Stamped, ServedFresh, Sourced, ServedFromOwnKey
  <2> QED BY <2>1, <2>3, <2>4 DEF IInv
<1>2. IInv /\ [Next]_vars => IInv'
  BY TypeStep, LogCacheStep, StampedStep, SourcedStep DEF IInv
<1> QED BY <1>1, <1>2, PTL DEF Spec

\* The log cache never exceeds its limit.
THEOREM LogCacheStaysBounded == Spec => []LogCacheBounded
<1>1. IInv => LogCacheBounded
  BY DEF IInv
<1> QED BY <1>1, Inductive, PTL

\* No call is served a value older than the time-to-live.
THEOREM ServedValuesAreFresh == Spec => []ServedFresh
<1>1. IInv => ServedFresh
  BY DEF IInv
<1> QED BY <1>1, Inductive, PTL

\* Every call is answered with what its own query reads.
THEOREM AnswersAreOwn == Spec => []AnswersOwnQuery
<1>1. IInv => AnswersOwnQuery
  <2> SUFFICES ASSUME IInv, NEW r \in Requests, Answered(r)
               PROVE  /\ value[r].filter \in {Nil, query[r].search}
                      /\ ~EndOnly(query[r]) => source(value[r].query) = source(query[r])
    BY DEF AnswersOwnQuery
  <2>1. CASE pc[r] = "fetched"
    BY <2>1 DEF IInv, Sourced, FetchedFor
  <2>2. CASE pc[r] = "hit"
    <3>1. /\ FetchedFor(value[r], value[r].query)
          /\ value[r].query.api = query[r].api
          /\ cacheKey(value[r].query) = cacheKey(query[r])
      BY <2>2 DEF IInv, ServedFromOwnKey
    <3>2. value[r].query \in Queries /\ query[r] \in Queries
      BY <2>2 DEF IInv, TypeOK, Value
    <3>3. ~EndOnly(query[r]) => source(value[r].query) = source(query[r])
      BY <3>1, <3>2, KeyDeterminesSource
    <3> QED BY <3>1, <3>3 DEF FetchedFor
  <2> QED BY <2>1, <2>2 DEF Answered
<1> QED BY <1>1, Inductive, PTL

-----------------------------------------------------------------------------
(* Eviction.                                                               *)

\* A result that is pushed out had expired or was an oldest one of a full cache.
THEOREM EvictionIsOldestFirst == Spec => EvictsOldestOnly
<1>1. ASSUME IInv, [Next]_vars PROVE [RemovesOldest]_cache
  <2>1. ASSUME NEW r \in Requests, StoreLogs(r) PROVE RemovesOldest
    <3> DEFINE old == cache["logs"]
               pruned == prune(old, now[r])
               key == cacheKey(query[r])
    <3>1. PICK left \in MakeRoom(pruned) :
            cache' = [cache EXCEPT !["logs"] = With(left, key, newEntry(r))]
      BY <2>1 DEF StoreLogs
    <3>2. cache'["logs"] = With(left, key, newEntry(r))
      BY <1>1, <3>1 DEF IInv, TypeOK, Apis
    <3>3. DOMAIN With(left, key, newEntry(r)) = DOMAIN left \cup {key}
      BY DEF With
    <3>4. /\ DOMAIN pruned \subseteq DOMAIN old
          /\ \A j \in DOMAIN pruned : pruned[j] = old[j]
          /\ \A j \in DOMAIN old \ DOMAIN pruned : ~Live(old[j], now[r])
      <4> HIDE DEF old
      <4> QED BY PruneFacts
    <3>5. /\ DOMAIN left \subseteq DOMAIN pruned
          /\ \A k \in DOMAIN pruned \ DOMAIN left :
               /\ Cardinality(DOMAIN pruned) >= LogCacheMaxEntries
               /\ DOMAIN left = DOMAIN pruned \ {k}
               /\ \A j \in DOMAIN pruned : pruned[k].expiresAt <= pruned[j].expiresAt
      <4> HIDE DEF pruned
      <4> QED BY MakeRoomFacts
    <3>6. \A j \in DOMAIN old : old[j].expiresAt \in Int
      BY <1>1, BoundsAssumption DEF IInv, TypeOK, Entry, Apis
    <3>7. now[r] \in Int /\ clock \in Int /\ now[r] <= clock
      BY <1>1, BoundsAssumption DEF IInv, TypeOK, Stamped
    <3>8. ASSUME Cardinality(DOMAIN pruned) >= LogCacheMaxEntries
          PROVE  DOMAIN pruned = DOMAIN old /\ Cardinality(DOMAIN old) >= LogCacheMaxEntries
      <4>1. IsFiniteSet(DOMAIN old) /\ Cardinality(DOMAIN old) <= LogCacheMaxEntries
        BY <1>1 DEF IInv, LogCacheBounded
      <4> HIDE DEF old, pruned
      <4>2. /\ IsFiniteSet(DOMAIN pruned)
            /\ Cardinality(DOMAIN pruned) <= Cardinality(DOMAIN old)
            /\ Cardinality(DOMAIN pruned) = Cardinality(DOMAIN old)
                 => DOMAIN pruned = DOMAIN old
        BY <4>1, <3>4, FS_Subset
      <4>3. Cardinality(DOMAIN pruned) \in Nat /\ Cardinality(DOMAIN old) \in Nat
        BY <4>1, <4>2, FS_CardinalityType
      <4> QED BY <3>8, <4>1, <4>2, <4>3, BoundsAssumption
    <3>9. ASSUME NEW k \in DOMAIN old, k \notin DOMAIN left \cup {key}
          PROVE  \/ ~Live(old[k], clock)
                 \/ /\ Cardinality(DOMAIN old) >= LogCacheMaxEntries
                    /\ \A j \in DOMAIN old : old[k].expiresAt <= old[j].expiresAt
      <4> HIDE DEF old, pruned, key
      <4>1. CASE k \notin DOMAIN pruned
        BY <3>4, <3>6, <3>7, <3>9, <4>1 DEF Live
      <4>2. CASE k \in DOMAIN pruned
        <5>1. /\ Cardinality(DOMAIN pruned) >= LogCacheMaxEntries
              /\ \A j \in DOMAIN pruned : pruned[k].expiresAt <= pruned[j].expiresAt
          BY <3>5, <3>9, <4>2
        <5> QED BY <3>4, <3>8, <4>2, <5>1
      <4> QED BY <4>1, <4>2
    <3> HIDE DEF pruned
    <3> QED BY <3>2, <3>3, <3>9 DEF RemovesOldest
  <2>2. ASSUME cache'["logs"] = cache["logs"] PROVE RemovesOldest
    BY <2>2 DEF RemovesOldest
  <2>3. CASE Tick
    BY <2>3 DEF Tick
  <2>4. ASSUME NEW r \in Requests,
               \/ \E q \in Queries : Begin(r, q)
               \/ Hit(r) \/ Miss(r) \/ Fetch(r) \/ FetchFails(r)
        PROVE  UNCHANGED cache
    BY <2>4 DEF Begin, Hit, Miss, Fetch, FetchFails
  <2>5. ASSUME NEW r \in Requests, StoreContext(r) \/ StoreList(r)
        PROVE  RemovesOldest
    BY <1>1, <2>2, <2>5 DEF StoreContext, StoreList, IInv, TypeOK, Apis
  <2>6. CASE UNCHANGED vars
    BY <2>6 DEF vars
  <2> QED BY <1>1, <2>1, <2>3, <2>4, <2>5, <2>6 DEF Next
<1> QED BY <1>1, Inductive, PTL DEF EvictsOldestOnly, Spec

-----------------------------------------------------------------------------
(* Refinement: the cache implements the cacheless promise of ReadContract. *)

\* A fetch for the query of a call, or a live entry of its key, is an answer
\* the contract allows.
LEMMA AnswerAllowed ==
  ASSUME TypeOK, NEW r \in Requests, NEW v \in Value, query[r] \in Queries,
         FetchedFor(v, v.query), v.query.api = query[r].api,
         cacheKey(v.query) = cacheKey(query[r])
  PROVE  /\ v.query \in Interchangeable(query[r])
         /\ query[r].api \in {"namespaces", "workloads"} => v.complete
<1>1. v.query \in Queries /\ v.complete \in BOOLEAN
  BY DEF Value
<1>2. v.query \in Interchangeable(query[r])
  BY <1>1, KeyDeterminesSource DEF Interchangeable
<1>3. query[r].api \in {"namespaces", "workloads"} => v.complete
  BY <1>1 DEF FetchedFor, SwallowsErrors
<1> QED BY <1>2, <1>3

\* A step of one call maps to a step of the contract for that call.
LEMMA AnswerStep ==
  ASSUME IInv, NEW r \in Requests, NEW v \in Value,
         pc[r] \in {"lookup", "fetch", "store"},
         pc' \in [Requests -> Stages], Answered(r)',
         \A s \in Requests \ {r} : pc'[s] = pc[s],
         value' = [value EXCEPT ![r] = v],
         UNCHANGED <<clock, query, now>>,
         v.query \in Interchangeable(query[r]),
         query[r].api \in {"namespaces", "workloads"} => v.complete,
         v.readAt <= clock, v.readAt + TTL(query[r].api) > now[r]
  PROVE  Contract!Answer(r) /\ UNCHANGED clock
<1> DEFINE call == [s \in Requests |-> CallOf(s)]
<1>1. query[r] \in Queries /\ v.readAt \in 0..clock /\ v.complete \in BOOLEAN
  BY BoundsAssumption DEF IInv, TypeOK, Value
<1>2. /\ CallOf(r).status = "waiting" /\ CallOf(r).query = query[r]
      /\ CallOf(r).asked = now[r]
  BY DEF CallOf
<1>3. CallOf(r)' = Contract!Call("answered", query[r], now[r], v.query, v.readAt, v.complete)
  <2>1. value'[r] = v /\ query'[r] = query[r] /\ now'[r] = now[r]
    BY DEF IInv, TypeOK
  <2>2. pc'[r] \in {"hit", "fetched"}
    BY DEF Answered
  <2> QED BY <2>1, <2>2 DEF CallOf, Answered, Contract!Call
<1>4. \A s \in Requests \ {r} : CallOf(s)' = CallOf(s)
  BY DEF CallOf, Answered, IInv, TypeOK
<1>5. call' = [call EXCEPT ![r] = Contract!Call("answered", query[r], now[r],
                                                 v.query, v.readAt, v.complete)]
  BY <1>3, <1>4
<1>6. /\ call[r].status = "waiting"
      /\ call[r].query = query[r]
      /\ call[r].asked = now[r]
  BY <1>2
<1>7. Contract!AnswerWith(r, v.query, v.readAt, v.complete)
  <2> HIDE DEF call
  <2> QED BY <1>1, <1>5, <1>6 DEF Contract!AnswerWith, call
<1>8. v.query \in [q \in Queries |-> Interchangeable(q)][call[r].query]
  BY <1>1, <1>6
<1> HIDE DEF call
<1> QED BY <1>1, <1>6, <1>7, <1>8 DEF Contract!Answer, call

\* Every step is a step of the contract or leaves what callers see unchanged.
LEMMA ContractStep ==
  ASSUME IInv, IInv', [Next]_vars
  PROVE  [Contract!Next]_<<clock, [r \in Requests |-> CallOf(r)]>>
<1> DEFINE call == [r \in Requests |-> CallOf(r)]
<1> USE DEF Stages, Finished
<1>1. CASE Tick
  <2>1. \A r \in Requests : CallOf(r)' = CallOf(r)
    BY <1>1 DEF Tick, CallOf, Answered
  <2>2. call' = call
    BY <2>1
  <2> QED BY <1>1, <2>2 DEF Tick, Contract!Next, Contract!Tick
<1>2. ASSUME NEW r \in Requests, NEW q \in Queries, Begin(r, q) PROVE Contract!Ask(r, q)
  <2>1. call[r].status # "waiting"
    BY <1>2 DEF Begin, CallOf
  <2>2. CallOf(r)' = Contract!Call("waiting", q, clock, Nil, 0, FALSE)
    BY <1>2 DEF Begin, CallOf, Answered, Contract!Call, IInv, TypeOK
  <2>3. \A s \in Requests \ {r} : CallOf(s)' = CallOf(s)
    BY <1>2 DEF Begin, CallOf, Answered, IInv, TypeOK
  <2>4. call' = [call EXCEPT ![r] = Contract!Call("waiting", q, clock, Nil, 0, FALSE)]
    BY <2>2, <2>3
  <2> QED BY <1>2, <2>1, <2>4 DEF Begin, Contract!Ask
<1>3. ASSUME NEW r \in Requests, Hit(r) PROVE Contract!Answer(r)
  <2> DEFINE a == query[r].api
             v == cache[a][cacheKey(query[r])].value
  <2>1. a \in Apis /\ cacheKey(query[r]) \in DOMAIN cache[a] /\ query[r] \in Queries
    BY <1>3, QueriesAssumption DEF Hit, Cached, IInv, TypeOK, Query
  <2>2. v \in Value
    BY <2>1 DEF IInv, TypeOK, Entry
  <2>3. /\ FetchedFor(v, v.query) /\ v.query.api = a
        /\ cacheKey(v.query) = cacheKey(query[r])
    BY <2>1 DEF IInv, Sourced
  <2>4. v.readAt <= clock
    BY <2>1 DEF IInv, Stamped, StampedEntry
  <2>5. /\ value' = [value EXCEPT ![r] = v]
        /\ pc[r] = "lookup" /\ pc' = [pc EXCEPT ![r] = "hit"]
        /\ UNCHANGED <<clock, query, now>>
    BY <1>3 DEF Hit
  <2>6. v.readAt + TTL(a) > now[r]
    <3>1. value'[r] = v /\ pc'[r] = "hit" /\ query'[r] = query[r] /\ now'[r] = now[r]
      BY <2>5 DEF IInv, TypeOK
    <3>2. value'[r].readAt + TTL(query'[r].api) > now'[r]
      BY <3>1 DEF IInv, ServedFresh
    <3> HIDE DEF v
    <3> QED BY <3>1, <3>2
  <2> HIDE DEF v
  <2>7. /\ v.query \in Interchangeable(query[r])
        /\ query[r].api \in {"namespaces", "workloads"} => v.complete
    BY <2>1, <2>2, <2>3, AnswerAllowed DEF IInv
  <2>8. /\ pc' \in [Requests -> Stages] /\ Answered(r)'
        /\ \A s \in Requests \ {r} : pc'[s] = pc[s]
    BY <2>5 DEF Answered, IInv, TypeOK
  <2> QED BY <2>2, <2>4, <2>5, <2>6, <2>7, <2>8, AnswerStep
<1>4. ASSUME NEW r \in Requests, Miss(r) \/ Fetch(r) PROVE UNCHANGED <<clock, call>>
  <2>1. \A s \in Requests : CallOf(s)' = CallOf(s)
    BY <1>4 DEF Miss, Fetch, CallOf, Answered, IInv, TypeOK
  <2>2. call' = call
    BY <2>1
  <2> QED BY <1>4, <2>2 DEF Miss, Fetch
<1>5. ASSUME NEW r \in Requests, FetchFails(r) PROVE Contract!Refuse(r)
  <2>1. /\ call[r].status = "waiting" /\ call[r].query = query[r]
        /\ call[r].asked = now[r]
    BY <1>5 DEF FetchFails, CallOf
  <2>2. CallOf(r)' = Contract!Call("refused", query[r], now[r], Nil, 0, FALSE)
    BY <1>5 DEF FetchFails, CallOf, Answered, Contract!Call, IInv, TypeOK
  <2>3. \A s \in Requests \ {r} : CallOf(s)' = CallOf(s)
    BY <1>5 DEF FetchFails, CallOf, Answered, IInv, TypeOK
  <2>4. call' = [call EXCEPT ![r] = Contract!Call("refused", call[r].query,
                                                  call[r].asked, Nil, 0, FALSE)]
    BY <2>1, <2>2, <2>3
  <2>5. call[r].query \notin {q \in Queries : q.api = "context"}
    BY <1>5, <2>1 DEF FetchFails
  <2> HIDE DEF call
  <2> QED BY <1>5, <2>1, <2>4, <2>5 DEF FetchFails, Contract!Refuse, call
<1>6. ASSUME NEW r \in Requests, StoreContext(r) \/ StoreList(r) \/ StoreLogs(r)
      PROVE  Contract!Answer(r)
  <2>1. /\ pc[r] = "store" /\ pc' = [pc EXCEPT ![r] = "fetched"]
        /\ UNCHANGED <<clock, query, now, value>>
    BY <1>6 DEF StoreContext, StoreList, StoreLogs
  <2>2. value[r] \in Value /\ query[r] \in Queries /\ value[r].query = query[r]
    BY <2>1 DEF IInv, TypeOK, Sourced, FetchedFor
  <2>3. FetchedFor(value[r], value[r].query)
    BY <2>1, <2>2 DEF IInv, Sourced
  <2>4. /\ value[r].query \in Interchangeable(query[r])
        /\ query[r].api \in {"namespaces", "workloads"} => value[r].complete
    BY <2>2, <2>3, AnswerAllowed DEF IInv
  <2>5. now[r] <= value[r].readAt /\ value[r].readAt <= clock
    BY <2>1 DEF IInv, Stamped
  <2>6. value[r].readAt + TTL(query[r].api) > now[r]
    BY <2>2, <2>5, BoundsAssumption DEF TTL, IInv, TypeOK, Value
  <2>7. /\ pc' \in [Requests -> Stages] /\ Answered(r)'
        /\ \A s \in Requests \ {r} : pc'[s] = pc[s]
        /\ value' = [value EXCEPT ![r] = value[r]]
    BY <2>1 DEF Answered, IInv, TypeOK
  <2> QED BY <2>1, <2>2, <2>4, <2>5, <2>6, <2>7, AnswerStep
<1>7. CASE UNCHANGED vars
  <2>1. \A s \in Requests : CallOf(s)' = CallOf(s)
    BY <1>7 DEF vars, CallOf, Answered
  <2>2. call' = call
    BY <2>1
  <2> QED BY <1>7, <2>2 DEF vars
<1> HIDE DEF call
<1>8. [Contract!Next]_<<clock, call>>
  BY <1>1, <1>2, <1>3, <1>4, <1>5, <1>6, <1>7 DEF Next, Contract!Next, call
<1> QED BY <1>8 DEF call

\* The cache implements ReadContract.
THEOREM ImplementsReadContract == Spec => ImplementsContract
<1>1. Init => Contract!Init
  <2> SUFFICES ASSUME Init PROVE Contract!Init
    OBVIOUS
  <2>1. \A r \in Requests : CallOf(r) = Contract!Call("none", Nil, 0, Nil, 0, FALSE)
    BY DEF Init, CallOf, Answered, Contract!Call
  <2> QED BY <2>1 DEF Init, Contract!Init
<1>2. IInv /\ IInv' /\ [Next]_vars =>
        [Contract!Next]_<<clock, [r \in Requests |-> CallOf(r)]>>
  BY ContractStep
<1> QED BY <1>1, <1>2, Inductive, PTL DEF Spec, ImplementsContract, Contract!Spec

=============================================================================

--------------------------- MODULE LogFanoutProofs --------------------------
(* Theorems about LogFanout, for any finite set of workloads and any SemCap, *)
(* and about LogSearchSerial, for any list of workloads.                     *)
EXTENDS LogFanout, Sequences, Functions, FiniteSetTheorems, TLAPS

-----------------------------------------------------------------------------
(* Counting goroutines.                                                    *)

\* Sets of goroutines are finite, whatever state they are picked by.
LEMMA GoroutinesFinite ==
  ASSUME NEW S \in SUBSET Workloads
  PROVE  IsFiniteSet(S) /\ Cardinality(S) \in 0..Cardinality(Workloads)
<1>1. IsFiniteSet(Workloads)
  BY FanoutAssumption
<1>2. IsFiniteSet(S) /\ Cardinality(S) <= Cardinality(Workloads)
  BY <1>1, FS_Subset
<1>3. Cardinality(S) \in Nat /\ Cardinality(Workloads) \in Nat
  BY <1>1, <1>2, FS_CardinalityType
<1> QED BY <1>2, <1>3

\* One goroutine more or less.
LEMMA OneMore ==
  ASSUME NEW S \in SUBSET Workloads, NEW w \in Workloads \ S
  PROVE  Cardinality(S \cup {w}) = Cardinality(S) + 1
BY GoroutinesFinite, FS_AddElement

LEMMA OneLess ==
  ASSUME NEW S \in SUBSET Workloads, NEW w \in S
  PROVE  Cardinality(S \ {w}) = Cardinality(S) - 1
BY GoroutinesFinite, FS_RemoveElement

\* A part of the goroutines that leaves one out is smaller than all of them.
LEMMA SomeoneMissing ==
  ASSUME NEW S \in SUBSET Workloads, NEW w \in Workloads \ S
  PROVE  Cardinality(S) < Cardinality(Workloads)
<1>1. S \cup {w} \in SUBSET Workloads
  OBVIOUS
<1>2. Cardinality(S \cup {w}) = Cardinality(S) + 1
  BY OneMore
<1>3. Cardinality(S \cup {w}) \in 0..Cardinality(Workloads)
  BY <1>1, GoroutinesFinite
<1>4. Cardinality(S) \in Nat /\ Cardinality(Workloads) \in Nat
  <2>1. Cardinality(S) \in 0..Cardinality(Workloads)
    BY GoroutinesFinite
  <2>2. Cardinality(Workloads) \in Nat
    BY FanoutAssumption, FS_CardinalityType
  <2> QED BY <2>1, <2>2
<1> QED BY <1>2, <1>3, <1>4

-----------------------------------------------------------------------------
(* The inductive invariant.                                                *)

LEMMA InvInit == Init => IInv
<1> SUFFICES ASSUME Init PROVE IInv
  OBVIOUS
<1>1. Holding = {} /\ Busy = {}
  BY DEF Init, Holding, Busy
<1>2. Cardinality({}) = 0
  BY FS_EmptySet
<1>3. Cardinality(Workloads) \in Nat
  BY FanoutAssumption, FS_CardinalityType
<1>4. Counted
  BY <1>1, <1>2 DEF Init, Counted
<1>5. TypeOK
  <2>1. /\ worker \in [Workloads -> {"none", "started", "reading", "sending",
                                     "returning", "released", "done"}]
        /\ logs \in [Workloads -> {"pending", "read", "failed"}]
    BY DEF Init
  <2>2. 0 \in 0..SemCap /\ 0 \in 0..Cardinality(Workloads)
    BY <1>3, FanoutAssumption
  <2> QED BY <2>1, <2>2 DEF Init, TypeOK
<1> QED BY <1>4, <1>5 DEF Init, IInv, Delivered, Staged, ClosedAfterLastSend

\* A step that starts, moves or ends nobody: only the handler and its channel.
LEMMA HandlerInv ==
  ASSUME IInv, Shortcut \/ ListWorkloads \/ Close \/ Collect \/ WriteReply
  PROVE  IInv'
<1> USE DEF IInv
<1>1. Holding' = Holding /\ Busy' = Busy /\ sem' = sem /\ wg' = wg
        /\ worker' = worker /\ logs' = logs
  BY DEF Holding, Busy, Shortcut, ListWorkloads, Close, Collect, WriteReply
<1>2. Counted'
  BY <1>1 DEF Counted
<1>3. TypeOK'
  BY <1>1 DEF TypeOK, Shortcut, ListWorkloads, Close, Collect, WriteReply
<1>4. Delivered'
  BY <1>1 DEF Delivered, Shortcut, ListWorkloads, Close, Collect, WriteReply
<1>5. Staged' /\ ClosedAfterLastSend'
  <2>1. CASE Close
    <3>1. Cardinality(Busy) = 0
      BY <2>1 DEF Close, Counted
    <3>2. Busy = {}
      <4>1. Busy \in SUBSET Workloads
        BY DEF Busy
      <4> QED BY <3>1, <4>1, GoroutinesFinite, FS_EmptySet
    <3>3. \A w \in Workloads : worker[w] = "done"
      BY <2>1, <3>2 DEF Busy, Close
    <3> QED BY <1>1, <2>1, <3>3 DEF Close, Staged, ClosedAfterLastSend
  <2>2. CASE Shortcut \/ ListWorkloads \/ Collect \/ WriteReply
    BY <1>1, <2>2 DEF Staged, ClosedAfterLastSend, TypeOK, Shortcut, ListWorkloads,
                      Collect, WriteReply
  <2> QED BY <2>1, <2>2
<1> QED BY <1>2, <1>3, <1>4, <1>5

\* A goroutine is started, and counted, while the channel is open.
LEMMA SpawnInv ==
  ASSUME IInv, NEW w \in Workloads, Spawn(w)
  PROVE  IInv'
<1> USE DEF IInv
<1>1. w \in Workloads \ Busy /\ Busy \in SUBSET Workloads
  BY DEF Spawn, Busy
<1>2. Busy' = Busy \cup {w} /\ Holding' = Holding
  BY DEF Spawn, Busy, Holding, TypeOK
<1>3. Cardinality(Busy \cup {w}) = Cardinality(Busy) + 1
  BY <1>1, OneMore
<1>4. wg' \in 0..Cardinality(Workloads)
  <2>1. Busy \cup {w} \in SUBSET Workloads
    BY <1>1
  <2>2. Cardinality(Busy \cup {w}) \in 0..Cardinality(Workloads)
    BY <2>1, GoroutinesFinite
  <2> QED BY <1>3, <2>2 DEF Spawn, Counted
<1>5. Counted'
  BY <1>2, <1>3 DEF Spawn, Counted
<1>6. TypeOK'
  BY <1>4 DEF Spawn, TypeOK
<1>7. Delivered'
  BY DEF Spawn, Delivered, TypeOK
<1>8. ~closed
  BY DEF Spawn, Staged
<1> QED BY <1>5, <1>6, <1>7, <1>8 DEF Spawn, Staged, ClosedAfterLastSend

\* While a goroutine is between "started" and "released" the handler waits.
LEMMA HandlerWaits ==
  ASSUME IInv, NEW w \in Workloads, worker[w] \notin {"none", "done"}
  PROVE  handler = "spawning" /\ ~closed
BY DEF IInv, TypeOK, Staged, ClosedAfterLastSend

\* The steps of one goroutine.
LEMMA WorkInv ==
  ASSUME IInv, NEW w \in Workloads, Work(w)
  PROVE  IInv'
<1> USE DEF IInv
<1>1. worker[w] \notin {"none", "done"}
  BY DEF Work, Acquire, ReadLogs, Send, Release, Done
<1>2. handler = "spawning" /\ ~closed
  BY <1>1, HandlerWaits
<1>3. handler' = handler /\ closed' = closed /\ all' = all
  BY DEF Work, Acquire, ReadLogs, Send, Release, Done
<1>4. Staged' /\ ClosedAfterLastSend'
  BY <1>2, <1>3 DEF Staged, ClosedAfterLastSend
<1>5. Delivered'
  BY DEF Work, Acquire, ReadLogs, Send, Release, Done, Delivered, TypeOK
<1>6. Holding \in SUBSET Workloads /\ Busy \in SUBSET Workloads
  BY DEF Holding, Busy
<1>7. Counted' /\ TypeOK'
  <2>1. CASE Acquire(w)
    <3>1. w \in Workloads \ Holding /\ Holding' = Holding \cup {w} /\ Busy' = Busy
      BY <2>1 DEF Acquire, Holding, Busy, TypeOK
    <3>2. Cardinality(Holding') = Cardinality(Holding) + 1
      BY <1>6, <3>1, OneMore
    <3> QED BY <2>1, <3>1, <3>2, FanoutAssumption DEF Acquire, Counted, TypeOK
  <2>2. CASE ReadLogs(w) \/ Send(w)
    <3>1. Holding' = Holding /\ Busy' = Busy
      BY <2>2 DEF ReadLogs, Send, Holding, Busy, TypeOK
    <3> QED BY <2>2, <3>1 DEF ReadLogs, Send, Counted, TypeOK
  <2>3. CASE Release(w)
    <3>1. w \in Holding /\ Holding' = Holding \ {w} /\ Busy' = Busy
      BY <2>3 DEF Release, Holding, Busy, TypeOK
    <3>2. Cardinality(Holding') = Cardinality(Holding) - 1
      BY <1>6, <3>1, OneLess
    <3>3. Cardinality(Holding') \in 0..Cardinality(Workloads)
      <4>1. Holding' \in SUBSET Workloads
        BY <1>6, <3>1
      <4> QED BY <4>1, GoroutinesFinite
    <3> QED BY <2>3, <3>1, <3>2, <3>3, FanoutAssumption DEF Release, Counted, TypeOK
  <2>4. CASE Done(w)
    <3>1. w \in Busy /\ Busy' = Busy \ {w} /\ Holding' = Holding
      BY <2>4 DEF Done, Holding, Busy, TypeOK
    <3>2. Cardinality(Busy') = Cardinality(Busy) - 1
      BY <1>6, <3>1, OneLess
    <3>3. Cardinality(Busy') \in 0..Cardinality(Workloads)
      <4>1. Busy' \in SUBSET Workloads
        BY <1>6, <3>1
      <4> QED BY <4>1, GoroutinesFinite
    <3> QED BY <2>4, <3>1, <3>2, <3>3 DEF Done, Counted, TypeOK
  <2> QED BY <2>1, <2>2, <2>3, <2>4 DEF Work
<1> QED BY <1>4, <1>5, <1>7

\* Channels, wait group and goroutines agree at every step of a call of
\* handleGlobalLogSearch or handleRequestChain.
THEOREM Inductive == Spec => []IInv
<1>1. IInv /\ [Next]_vars => IInv'
  <2> SUFFICES ASSUME IInv, [Next]_vars PROVE IInv'
    OBVIOUS
  <2>1. CASE Handle
    BY <2>1, HandlerInv, SpawnInv DEF Handle
  <2>2. ASSUME NEW w \in Workloads, Work(w) PROVE IInv'
    BY <2>2, WorkInv
  <2>3. CASE UNCHANGED vars
    BY <2>3 DEF vars, IInv, TypeOK, Counted, Delivered, Staged, ClosedAfterLastSend,
                Holding, Busy
  <2> QED BY <2>1, <2>2, <2>3 DEF Next, Finished
<1> QED BY <1>1, InvInit, PTL DEF Spec

\* A call never reads more workloads at a time than sem has places.
THEOREM FetchesStayBounded == Spec => []FetchesBounded
<1>1. IInv => FetchesBounded
  BY FanoutAssumption DEF IInv, TypeOK, Counted, FetchesBounded
<1> QED BY <1>1, Inductive, PTL

\* No goroutine ever sends on the closed channel results.
THEOREM NeverSendsOnClosed == Spec => []ClosedAfterLastSend
<1>1. IInv => ClosedAfterLastSend
  BY DEF IInv
<1> QED BY <1>1, Inductive, PTL

\* The channel made with one place per workload never makes a goroutine wait,
\* although nobody receives before all have finished.
THEOREM SendsNeverWait == Spec => []RoomToSend
<1>1. IInv => RoomToSend
  <2> SUFFICES ASSUME IInv, NEW w \in Workloads, worker[w] = "sending"
               PROVE  Cardinality(results) < ResultsCap
    BY DEF RoomToSend
  <2>1. results \in SUBSET Workloads /\ w \in Workloads \ results
    BY DEF IInv, TypeOK, Delivered
  <2> QED BY <2>1, SomeoneMissing DEF ResultsCap
<1> QED BY <1>1, Inductive, PTL

-----------------------------------------------------------------------------
(* The fan-out answers what a search promises (its liveness is checked by  *)
(* TLC only).                                                              *)

\* Every step of a call is a step of LogSearch or changes nothing of it: one reply,
\* after everybody, with all that was read.
THEOREM KeepsSearchPromise == Spec => Search!Spec
<1>1. Init => Search!Init
  BY DEF Init, Search!Init
<1>2. IInv /\ IInv' /\ [Next]_vars => [Search!Next]_(Search!vars)
  <2> SUFFICES ASSUME IInv, IInv', [Next]_vars PROVE [Search!Next]_(Search!vars)
    OBVIOUS
  <2> USE DEF Search!vars
  <2>1. CASE Shortcut \/ ListWorkloads
    <3>1. all = {} /\ \A w \in Workloads : logs[w] = "pending"
      BY <2>1 DEF IInv, Staged, Delivered, Shortcut, ListWorkloads
    <3>2. CASE handler' = "spawning"
      BY <2>1, <3>2 DEF Shortcut, ListWorkloads
    <3>3. CASE handler' \in {"replied", "failed"}
      <4>1. Search!ReplyAtOnce
        BY <2>1, <3>1, <3>3 DEF Shortcut, ListWorkloads, Search!ReplyAtOnce
      <4> QED BY <4>1 DEF Search!Next
    <3> QED BY <2>1, <3>2, <3>3 DEF Shortcut, ListWorkloads
  <2>2. CASE Close \/ Collect \/ \E w \in Workloads : Spawn(w)
    BY <2>2 DEF Close, Collect, Spawn
  <2>3. CASE WriteReply
    <3>1. all = {w \in Workloads : logs[w] = "read"}
      BY <2>3 DEF IInv, TypeOK, Delivered, ClosedAfterLastSend, WriteReply
    <3>2. \A w \in Workloads : logs[w] # "pending"
      BY <2>3 DEF IInv, Delivered, ClosedAfterLastSend, WriteReply
    <3>3. Search!Reply
      BY <2>3, <3>1, <3>2 DEF WriteReply, Search!Reply
    <3> QED BY <3>3 DEF Search!Next
  <2>4. ASSUME NEW w \in Workloads, ReadLogs(w) PROVE Search!Next
    <3>1. handler = "spawning" /\ handler' = "spawning"
      BY <2>4, HandlerWaits DEF ReadLogs
    <3>2. Search!Resolve(w)
      BY <2>4, <3>1 DEF ReadLogs, Search!Resolve, IInv, Delivered
    <3> QED BY <3>2 DEF Search!Next
  <2>5. ASSUME NEW w \in Workloads, Acquire(w) \/ Send(w) \/ Release(w) \/ Done(w)
        PROVE  UNCHANGED Search!vars
    BY <2>5 DEF Acquire, Send, Release, Done
  <2>6. CASE UNCHANGED vars
    BY <2>6 DEF vars
  <2> QED BY <2>1, <2>2, <2>3, <2>4, <2>5, <2>6
          DEF Next, Handle, Work, Finished
<1> QED BY <1>1, <1>2, Inductive, PTL DEF Spec, Search!Spec

-----------------------------------------------------------------------------
(* The serial search of the gRPC method keeps the same promise.              *)

CONSTANT List
VARIABLES place, at, outcomes, matches

Serial == INSTANCE LogSearchSerial WITH
  status <- place, i <- at, logs <- outcomes, all <- matches

\* The promise for the workloads of the list.
SerialSearch == INSTANCE LogSearch WITH
  Workloads <- Range(List), outcome <- outcomes, status <- place,
  found <- IF place = "replied" THEN matches ELSE {}

\* What the loop has passed is read or failed, what it has not is pending.
SerialInv ==
  /\ at \in 0..(Len(List) + 1)
  /\ place \in {"searching", "replied", "failed"}
  /\ outcomes \in [Range(List) -> {"pending", "read", "failed"}]
  /\ \A k \in 1..Len(List) : outcomes[List[k]] = "pending" <=> at <= k
  /\ matches = {w \in Range(List) : outcomes[w] = "read"}

LEMMA SerialInductive ==
  ASSUME List \in Seq(Range(List)), IsInjective(List)
  PROVE  Serial!Spec => []SerialInv
<1> USE DEF SerialInv
<1>1. Len(List) \in Nat /\ DOMAIN List = 1..Len(List)
  OBVIOUS
<1>2. \A w \in Range(List) : \E k \in 1..Len(List) : w = List[k]
  BY <1>1 DEF Range
<1>3. \A k \in 1..Len(List) : List[k] \in Range(List)
  BY <1>1 DEF Range
<1>4. \A j, k \in 1..Len(List) : List[j] = List[k] => j = k
  BY <1>1 DEF IsInjective
<1>5. Serial!Init => SerialInv
  <2> SUFFICES ASSUME Serial!Init PROVE SerialInv
    OBVIOUS
  <2>1. place = "searching" /\ at = 0 /\ matches = {}
    BY DEF Serial!Init
  <2>2. at \in 0..(Len(List) + 1)
    BY <1>1, <2>1
  <2>3. outcomes = [w \in Range(List) |-> "pending"]
    BY DEF Serial!Init, Serial!Range, Range
  <2>4. \A k \in 1..Len(List) : outcomes[List[k]] = "pending" /\ at <= k
    BY <1>1, <1>3, <2>1, <2>3
  <2>5. matches = {w \in Range(List) : outcomes[w] = "read"}
    BY <2>1, <2>3
  <2> QED
    BY <2>1, <2>2, <2>3, <2>4, <2>5
\* One workload of the list is read, or cannot be.
<1>6. ASSUME SerialInv, NEW o \in {"read", "failed"}, at \in 1..Len(List),
             outcomes' = [outcomes EXCEPT ![List[at]] = o], at' = at + 1, place' = place,
             matches' = IF o = "read" THEN matches \cup {List[at]} ELSE matches
      PROVE  SerialInv'
  <2>1. /\ List[at] \in Range(List)
        /\ outcomes'[List[at]] = o
        /\ \A w \in Range(List) : w # List[at] => outcomes'[w] = outcomes[w]
    BY <1>3, <1>6
  <2>2. outcomes' \in [Range(List) -> {"pending", "read", "failed"}]
    BY <1>6
  <2>3. ASSUME NEW k \in 1..Len(List)
        PROVE  outcomes'[List[k]] = "pending" <=> at' <= k
    <3>1. CASE k = at
      BY <1>1, <1>6, <2>1, <3>1
    <3>2. CASE k # at
      <4>1. outcomes'[List[k]] = outcomes[List[k]]
        BY <1>3, <1>4, <1>6, <2>1, <3>2
      <4>2. at' <= k <=> at <= k
        BY <1>1, <1>6, <3>2
      <4> QED
        BY <1>6, <4>1, <4>2
    <3> QED
      BY <3>1, <3>2
  <2>4. outcomes[List[at]] = "pending"
    BY <1>1, <1>6
  <2>5. \A w \in Range(List) : w \in matches' <=> outcomes'[w] = "read"
    BY <1>6, <2>1, <2>4
  <2>6. matches' = {w \in Range(List) : outcomes'[w] = "read"}
    BY <1>6, <2>1, <2>5
  <2>7. at' \in 0..(Len(List) + 1)
    BY <1>1, <1>6
  <2> QED
    BY <1>6, <2>2, <2>3, <2>6, <2>7
<1>7. ASSUME SerialInv, [Serial!Next]_(Serial!vars) PROVE SerialInv'
  <2>1. CASE Serial!Shortcut \/ Serial!ListFails \/ Serial!SendReply
    BY <1>7, <2>1 DEF Serial!Shortcut, Serial!ListFails, Serial!SendReply
  <2>2. CASE Serial!ListWorkloads
    BY <1>1, <1>7, <2>2 DEF Serial!ListWorkloads
  <2>3. CASE Serial!ReadNext
    BY <1>6, <1>7, <2>3 DEF Serial!ReadNext
  <2>4. CASE Serial!SkipNext
    BY <1>6, <1>7, <2>4 DEF Serial!SkipNext
  <2>5. CASE UNCHANGED <<place, at, outcomes, matches>>
    BY <1>7, <2>5
  <2> QED
    BY <1>7, <2>1, <2>2, <2>3, <2>4, <2>5 DEF Serial!Next, Serial!vars, Serial!Finished
<1> QED
  BY <1>5, <1>7, PTL DEF Serial!Spec

\* Every step of the serial search is a step of the promise or changes nothing it speaks
\* of, whichever workloads of a list without repetitions fail: SearchLogsGlobal of grpc.go
\* answers like handleGlobalLogSearch of handlers.go.
THEOREM SerialKeepsSearchPromise ==
  ASSUME List \in Seq(Range(List)), IsInjective(List)
  PROVE  Serial!Spec => SerialSearch!Spec
<1>1. Len(List) \in Nat /\ \A w \in Range(List) : \E k \in 1..Len(List) : w = List[k]
  BY DEF Range
<1>2. \A k \in 1..Len(List) : List[k] \in Range(List)
  BY DEF Range
<1>3. ASSUME Serial!Init PROVE SerialSearch!Init
  <2>1. place = "searching" /\ matches = {}
    BY <1>3 DEF Serial!Init
  <2>2. outcomes = [w \in Range(List) |-> "pending"]
    BY <1>3 DEF Serial!Init, Serial!Range, Range
  <2> QED
    BY <2>1, <2>2 DEF SerialSearch!Init
<1>4. ASSUME SerialInv, [Serial!Next]_(Serial!vars)
      PROVE  [SerialSearch!Next]_(SerialSearch!vars)
  <2> USE DEF SerialSearch!vars
  <2>1. CASE Serial!Shortcut \/ Serial!ListFails
    <3>1. \A w \in Range(List) : outcomes[w] = "pending"
      BY <1>1, <1>4, <2>1 DEF SerialInv, Serial!Shortcut, Serial!ListFails
    <3>2. matches = {} /\ matches' = {}
      BY <1>4, <2>1, <3>1 DEF SerialInv, Serial!Shortcut, Serial!ListFails
    <3>3. SerialSearch!ReplyAtOnce
      BY <2>1, <3>1, <3>2 DEF Serial!Shortcut, Serial!ListFails, SerialSearch!ReplyAtOnce
    <3> QED
      BY <3>3 DEF SerialSearch!Next
  <2>2. CASE Serial!ReadNext \/ Serial!SkipNext
    <3>1. at \in 1..Len(List) /\ List[at] \in Range(List) /\ outcomes[List[at]] = "pending"
      BY <1>1, <1>2, <1>4, <2>2 DEF SerialInv, Serial!ReadNext, Serial!SkipNext
    <3>2. SerialSearch!Resolve(List[at])
      BY <2>2, <3>1 DEF Serial!ReadNext, Serial!SkipNext, SerialSearch!Resolve
    <3> QED
      BY <3>1, <3>2 DEF SerialSearch!Next
  <2>3. CASE Serial!SendReply
    <3>1. \A w \in Range(List) : outcomes[w] # "pending"
      BY <1>1, <1>4, <2>3 DEF SerialInv, Serial!SendReply
    <3>2. SerialSearch!Reply
      BY <1>4, <2>3, <3>1 DEF SerialInv, Serial!SendReply, SerialSearch!Reply
    <3> QED
      BY <3>2 DEF SerialSearch!Next
  <2>4. CASE Serial!ListWorkloads \/ UNCHANGED <<place, at, outcomes, matches>>
    BY <2>4 DEF Serial!ListWorkloads
  <2> QED
    BY <1>4, <2>1, <2>2, <2>3, <2>4 DEF Serial!Next, Serial!vars, Serial!Finished
<1> QED
  BY <1>3, <1>4, SerialInductive, PTL DEF Serial!Spec, SerialSearch!Spec

=============================================================================

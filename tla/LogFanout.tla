----------------------------- MODULE LogFanout ------------------------------
(***************************************************************************)
(* One call of handleGlobalLogSearch or handleRequestChain                 *)
(* (backend/internal/server/handlers.go): the workloads are listed, a      *)
(* goroutine per workload takes one of the slots of the channel sem, reads *)
(* the workload's logs, sends what matched on the buffered channel results,*)
(* gives the slot back and tells the wait group; the handler waits for all *)
(* of them, closes results, collects what is in it, sorts and replies.     *)
(*                                                                         *)
(* A channel is modelled by what it holds.  Every goroutine sends at most  *)
(* once and the handler sorts what it received, so results is a set.       *)
(***************************************************************************)
EXTENDS Integers, FiniteSets

CONSTANTS
  Workloads,   \* the workloads listWorkloadsCached returns
  SemCap,      \* capacity of sem: 5 in both handlers
  Endpoint     \* "search" (handleGlobalLogSearch) or "chain" (handleRequestChain)

ASSUME FanoutAssumption ==
  /\ IsFiniteSet(Workloads)
  /\ SemCap \in Nat \ {0}
  /\ Endpoint \in {"search", "chain"}

VARIABLES
  handler,     \* where the handler stands
  worker,      \* where each goroutine stands
  logs,        \* what getLogsCached returned to each goroutine
  sem,         \* tokens in the channel sem
  wg,          \* counter of the wait group
  results,     \* workloads whose matches are in the channel results
  closed,      \* close(results) was called
  all          \* workloads whose matches the handler has collected

vars == <<handler, worker, logs, sem, wg, results, closed, all>>

\* Mutant of ResultsCap: as many places as slots.
ResultsCapOfSlots == SemCap

\* make(chan result, len(workloads))
ResultsCap == Cardinality(Workloads)

Init ==
  /\ handler = "start"
  /\ worker = [w \in Workloads |-> "none"]
  /\ logs = [w \in Workloads |-> "pending"]
  /\ sem = 0
  /\ wg = 0
  /\ results = {}
  /\ closed = FALSE
  /\ all = {}

-----------------------------------------------------------------------------
(* The handler.                                                            *)

\* No namespace, or nothing to search for: an empty reply, except that a
\* request chain without a namespace is an error.
Shortcut ==
  /\ handler = "start"
  /\ \/ handler' = "replied"
     \/ Endpoint = "chain" /\ handler' = "failed"
  /\ UNCHANGED <<worker, logs, sem, wg, results, closed, all>>

ListWorkloads ==
  /\ handler = "start"
  /\ handler' \in {"spawning", "failed"}
  /\ UNCHANGED <<worker, logs, sem, wg, results, closed, all>>

\* wg.Add(1) and the go statement: goroutines spawned earlier already run.
Spawn(w) ==
  /\ handler = "spawning"
  /\ worker[w] = "none"
  /\ wg' = wg + 1
  /\ worker' = [worker EXCEPT ![w] = "started"]
  /\ UNCHANGED <<handler, logs, sem, results, closed, all>>

\* Mutant of Close: nobody waits.
CloseEarly ==
  /\ handler = "spawning"
  /\ \A w \in Workloads : worker[w] # "none"
  /\ closed' = TRUE
  /\ handler' = "collecting"
  /\ UNCHANGED <<worker, logs, sem, wg, results, all>>

\* wg.Wait() returns, close(results).
Close ==
  /\ handler = "spawning"
  /\ \A w \in Workloads : worker[w] # "none"
  /\ wg = 0
  /\ closed' = TRUE
  /\ handler' = "collecting"
  /\ UNCHANGED <<worker, logs, sem, wg, results, all>>

Collect ==
  /\ handler = "collecting"
  /\ \E w \in results :
       /\ results' = results \ {w}
       /\ all' = all \cup {w}
  /\ UNCHANGED <<handler, worker, logs, sem, wg, closed>>

\* Mutant of WriteReply: the reply is written without draining the channel.
WriteReplyEarly ==
  /\ handler = "collecting"
  /\ handler' = "replied"
  /\ UNCHANGED <<worker, logs, sem, wg, results, closed, all>>

\* results is closed and empty: sort, writeJSON.
WriteReply ==
  /\ handler = "collecting"
  /\ closed /\ results = {}
  /\ handler' = "replied"
  /\ UNCHANGED <<worker, logs, sem, wg, results, closed, all>>

-----------------------------------------------------------------------------
(* A goroutine.                                                            *)

\* Mutant of Acquire: the send on sem never blocks.
AcquireUnbounded(w) ==
  /\ worker[w] = "started"
  /\ sem' = sem + 1
  /\ worker' = [worker EXCEPT ![w] = "reading"]
  /\ UNCHANGED <<handler, logs, wg, results, closed, all>>

Acquire(w) ==
  /\ worker[w] = "started"
  /\ sem < SemCap
  /\ sem' = sem + 1
  /\ worker' = [worker EXCEPT ![w] = "reading"]
  /\ UNCHANGED <<handler, logs, wg, results, closed, all>>

\* Mutant of ReadLogs: the slot is not given back after an error.
ReadLogsLeakingSlot(w) ==
  /\ worker[w] = "reading"
  /\ \/ /\ logs' = [logs EXCEPT ![w] = "read"]
        /\ worker' = [worker EXCEPT ![w] = "sending"]
     \/ /\ logs' = [logs EXCEPT ![w] = "failed"]
        /\ worker' = [worker EXCEPT ![w] = "released"]
  /\ UNCHANGED <<handler, sem, wg, results, closed, all>>

\* getLogsCached returns; after an error the goroutine returns without sending.
ReadLogs(w) ==
  /\ worker[w] = "reading"
  /\ \/ /\ logs' = [logs EXCEPT ![w] = "read"]
        /\ worker' = [worker EXCEPT ![w] = "sending"]
     \/ /\ logs' = [logs EXCEPT ![w] = "failed"]
        /\ worker' = [worker EXCEPT ![w] = "returning"]
  /\ UNCHANGED <<handler, sem, wg, results, closed, all>>

\* A send on a closed channel would panic: no step is defined for it.
Send(w) ==
  /\ worker[w] = "sending"
  /\ ~closed
  /\ Cardinality(results) < ResultsCap
  /\ results' = results \cup {w}
  /\ worker' = [worker EXCEPT ![w] = "returning"]
  /\ UNCHANGED <<handler, logs, sem, wg, closed, all>>

\* The deferred functions, last one first: the slot, then wg.Done().
Release(w) ==
  /\ worker[w] = "returning"
  /\ sem' = sem - 1
  /\ worker' = [worker EXCEPT ![w] = "released"]
  /\ UNCHANGED <<handler, logs, wg, results, closed, all>>

Done(w) ==
  /\ worker[w] = "released"
  /\ wg' = wg - 1
  /\ worker' = [worker EXCEPT ![w] = "done"]
  /\ UNCHANGED <<handler, logs, sem, results, closed, all>>

-----------------------------------------------------------------------------
Handle == Shortcut \/ ListWorkloads \/ (\E w \in Workloads : Spawn(w))
            \/ Close \/ Collect \/ WriteReply

Work(w) == Acquire(w) \/ ReadLogs(w) \/ Send(w) \/ Release(w) \/ Done(w)

\* The handler has returned, and so has every goroutine it started.
Finished ==
  /\ handler \in {"replied", "failed"}
  /\ UNCHANGED vars

Next == Handle \/ (\E w \in Workloads : Work(w)) \/ Finished

Spec == Init /\ [][Next]_vars

\* The Go scheduler runs every goroutine that can run, and a read of the
\* cluster returns or is ended with the request's context.
FairSpec ==
  Spec /\ WF_vars(Handle) /\ \A w \in Workloads : WF_vars(Work(w))

-----------------------------------------------------------------------------
(* Properties.                                                             *)

TypeOK ==
  /\ handler \in {"start", "spawning", "collecting", "replied", "failed"}
  /\ worker \in [Workloads -> {"none", "started", "reading", "sending",
                               "returning", "released", "done"}]
  /\ logs \in [Workloads -> {"pending", "read", "failed"}]
  /\ sem \in 0..SemCap
  /\ wg \in 0..Cardinality(Workloads)
  /\ results \subseteq Workloads
  /\ closed \in BOOLEAN
  /\ all \subseteq Workloads

\* The goroutines between taking a slot and giving it back, and those the wait
\* group still waits for.
Holding == {w \in Workloads : worker[w] \in {"reading", "sending", "returning"}}
Busy == {w \in Workloads : worker[w] \notin {"none", "done"}}

\* At most SemCap workloads of a call are being read at a time, from the moment
\* a slot is taken to the moment it is given back on every path out.
FetchesBounded == Cardinality(Holding) <= SemCap

\* The channel is closed only when no goroutine can send on it any more (a send
\* on a closed channel panics and takes the server down).
ClosedAfterLastSend ==
  closed => \A w \in Workloads : worker[w] = "done"

\* The handler collects only after waiting for everybody, so a send must never
\* wait for room: whoever has something to send finds room for it.
RoomToSend ==
  \A w \in Workloads : worker[w] = "sending" => Cardinality(results) < ResultsCap

\* The channel and the wait group count the goroutines.
Counted ==
  /\ sem = Cardinality(Holding)
  /\ wg = Cardinality(Busy)

\* A goroutine has read its logs or failed to when it has left the read, and its
\* matches are in the channel or with the handler once it has sent them.
Delivered ==
  \A w \in Workloads :
    /\ logs[w] = "pending" <=> worker[w] \in {"none", "started", "reading"}
    /\ worker[w] = "sending" => logs[w] = "read"
    /\ w \in results \cup all
         <=> logs[w] = "read" /\ worker[w] \in {"returning", "released", "done"}

\* The handler spawns, closes, collects and replies, in this order, or it starts
\* nobody.
Staged ==
  /\ closed => handler \in {"collecting", "replied"}
  /\ handler = "collecting" => closed
  /\ ~closed => all = {}
  /\ handler = "replied" /\ closed => results = {}
  /\ handler \in {"start", "failed"} \/ (handler = "replied" /\ ~closed)
       => \A w \in Workloads : worker[w] = "none"

\* The inductive invariant of the call: channels, wait group and goroutines agree
\* at every step of handleGlobalLogSearch and handleRequestChain.
IInv == TypeOK /\ Counted /\ Delivered /\ Staged /\ ClosedAfterLastSend

\* By refinement: the search is answered in the end, once, and with everything
\* that was read.
Search == INSTANCE LogSearch WITH
  outcome <- logs,
  status <- IF handler \in {"replied", "failed"} THEN handler ELSE "searching",
  found <- IF handler = "replied" THEN all ELSE {}

ImplementsSearch == Search!FairSpec

=============================================================================

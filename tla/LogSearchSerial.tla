-------------------------- MODULE LogSearchSerial ---------------------------
(***************************************************************************)
(* The gRPC method SearchLogsGlobal (backend/internal/server/grpc.go): the *)
(* same search as handleGlobalLogSearch, one workload after the other.     *)
(***************************************************************************)
EXTENDS Integers, Sequences, Functions

CONSTANT List     \* the workloads listWorkloadsCached returns, in its order

ASSUME ListAssumption ==
  /\ List \in Seq(Range(List))
  /\ IsInjective(List)

VARIABLES
  status,   \* "searching", "replied" or "failed"
  i,        \* index of the workload being read, 0 before the listing
  logs,     \* what getLogsCached returned for each workload
  all       \* the workloads whose matches are collected

vars == <<status, i, logs, all>>

Init ==
  /\ status = "searching"
  /\ i = 0
  /\ logs = [w \in Range(List) |-> "pending"]
  /\ all = {}

\* An empty reply when the namespace or the term is missing.
Shortcut ==
  /\ status = "searching" /\ i = 0
  /\ status' = "replied"
  /\ UNCHANGED <<i, logs, all>>

ListFails ==
  /\ status = "searching" /\ i = 0
  /\ status' = "failed"
  /\ UNCHANGED <<i, logs, all>>

ListWorkloads ==
  /\ status = "searching" /\ i = 0
  /\ i' = 1
  /\ UNCHANGED <<status, logs, all>>

ReadNext ==
  /\ status = "searching" /\ i \in 1..Len(List)
  /\ logs' = [logs EXCEPT ![List[i]] = "read"]
  /\ all' = all \cup {List[i]}
  /\ i' = i + 1
  /\ UNCHANGED status

\* Mutant of SkipNext: the loop ends at the first error.
SkipRest ==
  /\ status = "searching" /\ i \in 1..Len(List)
  /\ logs' = [logs EXCEPT ![List[i]] = "failed"]
  /\ i' = Len(List) + 1
  /\ UNCHANGED <<status, all>>

\* if err != nil { continue }
SkipNext ==
  /\ status = "searching" /\ i \in 1..Len(List)
  /\ logs' = [logs EXCEPT ![List[i]] = "failed"]
  /\ i' = i + 1
  /\ UNCHANGED <<status, all>>

SendReply ==
  /\ status = "searching" /\ i = Len(List) + 1
  /\ status' = "replied"
  /\ UNCHANGED <<i, logs, all>>

Finished ==
  /\ status # "searching"
  /\ UNCHANGED vars

Next == Shortcut \/ ListFails \/ ListWorkloads \/ ReadNext \/ SkipNext \/ SendReply
          \/ Finished

Spec == Init /\ [][Next]_vars

\* One goroutine, whose reads of the cluster return or end with the call.
FairSpec == Spec /\ WF_vars(Next)

\* "The same monitor capabilities are exposed through gRPC" (README.md): the
\* serial search keeps the promise the concurrent one keeps, whichever
\* workloads fail.
Search == INSTANCE LogSearch WITH
  Workloads <- Range(List),
  outcome <- logs,
  found <- IF status = "replied" THEN all ELSE {}

ImplementsSearch == Search!FairSpec

=============================================================================

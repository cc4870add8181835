----------------------------- MODULE LogSearch ------------------------------
(***************************************************************************)
(* What a search over every workload of a namespace promises: each         *)
(* workload's logs are read, or fail to be, once; the reply comes after    *)
(* all of them and holds what was read from those that did not fail.       *)
(*                                                                         *)
(* The HTTP endpoints do it with a goroutine per workload (LogFanout), the *)
(* gRPC method one workload after the other (LogSearchSerial).             *)
(***************************************************************************)
CONSTANT Workloads     \* the workloads of the namespace

VARIABLES
  outcome,    \* [Workloads -> {"pending", "read", "failed"}]
  status,     \* "searching", "replied" or "failed"
  found       \* the workloads whose logs the reply is made of

vars == <<outcome, status, found>>

Init ==
  /\ outcome = [w \in Workloads |-> "pending"]
  /\ status = "searching"
  /\ found = {}

\* A request without a namespace or a term is answered at once, and one whose
\* workloads cannot be listed fails; neither reads a log.
ReplyAtOnce ==
  /\ status = "searching"
  /\ \A w \in Workloads : outcome[w] = "pending"
  /\ status' \in {"replied", "failed"}
  /\ UNCHANGED <<outcome, found>>

Resolve(w) ==
  /\ status = "searching"
  /\ outcome[w] = "pending"
  /\ \E o \in {"read", "failed"} : outcome' = [outcome EXCEPT ![w] = o]
  /\ UNCHANGED <<status, found>>

Reply ==
  /\ status = "searching"
  /\ \A w \in Workloads : outcome[w] # "pending"
  /\ status' = "replied"
  /\ found' = {w \in Workloads : outcome[w] = "read"}
  /\ UNCHANGED outcome

Next == ReplyAtOnce \/ Reply \/ \E w \in Workloads : Resolve(w)

Spec == Init /\ [][Next]_vars

\* A search is answered in the end.
FairSpec == Spec /\ WF_vars(Next)

=============================================================================

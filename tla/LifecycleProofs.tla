-------------------------- MODULE LifecycleProofs ---------------------------
(* Theorems about Lifecycle, for any sets of requests. *)
EXTENDS Lifecycle, TLAPS

\* Breaking requests off leaves none of them open and opens no other.
LEMMA CutCloses ==
  ASSUME TypeOK, NEW R \in SUBSET Requests, request' = Cut(R)
  PROVE  /\ request' \in [Requests -> {"new", "open", "answered", "cut"}]
         /\ Open(HttpRequests)' \subseteq Open(HttpRequests) \ R
         /\ Open(GrpcCalls)' \subseteq Open(GrpcCalls) \ R
         /\ Open(R) = {} => request' = request
BY DEF TypeOK, Cut, Open, Requests

LEMMA InitIInv == Init => IInv
BY DEF Init, IInv, TypeOK, Staged, Quiet, Drained, GracefulUntilTimeout, Open, Requests,
       Ended

LEMMA StepIInv == IInv /\ [Next]_vars => IInv'
<1> SUFFICES ASSUME IInv, [Next]_vars PROVE IInv'
  OBVIOUS
<1> USE DEF IInv, TypeOK, Staged, Quiet, Drained, GracefulUntilTimeout, Ended
<1>1. CASE BindGRPC
  BY <1>1 DEF BindGRPC, Open
<1>2. CASE StartHTTP
  BY <1>2 DEF StartHTTP, Open
<1>3. CASE Notify
  BY <1>3 DEF Notify, Open
<1>4. CASE Fatal
  <2>1. request' \in [Requests -> {"new", "open", "answered", "cut"}]
    BY <1>4, CutCloses DEF Fatal
  <2>2. Open(GrpcCalls)' \subseteq Open(GrpcCalls)
    BY <1>4, CutCloses DEF Fatal
  <2>3. Open(HttpRequests)' \subseteq Open(HttpRequests)
    BY <1>4, CutCloses DEF Fatal
  <2> QED BY <1>4, <2>1, <2>2, <2>3 DEF Fatal
<1>5. CASE TakeSignal
  BY <1>5 DEF TakeSignal, Open
<1>6. CASE HttpDrained
  BY <1>6 DEF HttpDrained, StopGRPC, Open
<1>7. CASE HttpGivesUp
  BY <1>7 DEF HttpGivesUp, StopGRPC, Open
<1>8. CASE SeeStopped
  BY <1>8 DEF SeeStopped, Open
<1>9. CASE ForceStop
  <2>1. request' \in [Requests -> {"new", "open", "answered", "cut"}]
    BY <1>9, CutCloses DEF ForceStop, Requests
  <2>2. Open(GrpcCalls)' \subseteq Open(GrpcCalls)
    BY <1>9, CutCloses DEF ForceStop, Requests
  <2> QED BY <1>9, <2>1, <2>2 DEF ForceStop
<1>10. CASE Exit
  <2>1. request' \in [Requests -> {"new", "open", "answered", "cut"}]
    BY <1>10, CutCloses DEF Exit
  <2>2. Open(GrpcCalls)' \subseteq Open(GrpcCalls)
    BY <1>10, CutCloses DEF Exit
  <2>3. ctx = "done" \/ request' = request
    BY <1>10, CutCloses DEF Exit, Open, Requests
  <2>4. Open(HttpRequests)' \subseteq Open(HttpRequests)
    BY <1>10, CutCloses DEF Exit
  <2> QED BY <1>10, <2>1, <2>2, <2>3, <2>4 DEF Exit
<1>11. CASE ServeGRPC
  BY <1>11 DEF ServeGRPC, Running, Open
<1>12. CASE ServeHTTP
  BY <1>12 DEF ServeHTTP, Running, Open
<1>13. CASE BeginGracefulStop
  BY <1>13 DEF BeginGracefulStop, Running, Open
<1>14. CASE EndGracefulStop
  BY <1>14 DEF EndGracefulStop, Running, Open
<1>15. CASE HttpFails
  BY <1>15 DEF HttpFails, Running, Open
<1>16. CASE Signal
  <2>1. CASE main \in {"start", "bound", "started"}
    <3>1. request' \in [Requests -> {"new", "open", "answered", "cut"}]
      BY <1>16, <2>1, CutCloses DEF Signal
    <3>2. Open(GrpcCalls)' \subseteq Open(GrpcCalls)
      BY <1>16, <2>1, CutCloses DEF Signal
    <3>3. Open(HttpRequests)' \subseteq Open(HttpRequests)
      BY <1>16, <2>1, CutCloses DEF Signal
    <3> QED BY <1>16, <2>1, <3>1, <3>2, <3>3 DEF Signal, Running
  <2>2. CASE main \notin {"start", "bound", "started"}
    BY <1>16, <2>2 DEF Signal, Running, Open
  <2> QED BY <2>1, <2>2
<1>17. CASE TimeUp
  BY <1>17 DEF TimeUp, Running, Open
<1>18. CASE \E r \in Requests : Arrive(r)
  <2> PICK r \in Requests : Arrive(r)
    BY <1>18
  <2>1. r \in HttpRequests => http = "serving"
    BY RequestsAssumption DEF Arrive
  <2>2. r \in GrpcCalls => grpc \in {"serving", "draining"}
    BY RequestsAssumption DEF Arrive
  <2> QED BY <2>1, <2>2 DEF Arrive, Running, Open, Requests
<1>19. CASE \E r \in Requests : Finish(r)
  <2> PICK r \in Requests : Finish(r)
    BY <1>19
  <2> QED BY DEF Finish, Running, Open, Requests
<1>20. CASE UNCHANGED vars
  BY <1>20 DEF vars, Open
<1> QED BY <1>1, <1>2, <1>3, <1>4, <1>5, <1>6, <1>7, <1>8, <1>9, <1>10, <1>11,
           <1>12, <1>13, <1>14, <1>15, <1>16, <1>17, <1>18, <1>19, <1>20
     DEF Next, Main, Others

\* The stages of the shutdown hand on what they know of the requests.
THEOREM Inductive == Spec => []IInv
<1>1. Init => IInv
  BY InitIInv
<1>2. IInv /\ [Next]_vars => IInv'
  BY StepIInv
<1> QED BY <1>1, <1>2, PTL DEF Spec

\* server.go, Run: no request is broken off before the timeout, however many there
\* are and whichever server they came to.
THEOREM ShutdownIsGraceful == Spec => []GracefulUntilTimeout
<1>1. IInv => GracefulUntilTimeout
  BY DEF IInv
<1> QED BY Inductive, <1>1, PTL

=============================================================================

----------------------------- MODULE Lifecycle ------------------------------
(***************************************************************************)
(* The life of the server process: Run (backend/internal/server/server.go) *)
(* with newGRPCServer and serveGRPC (grpc.go).  One timeout is shared by   *)
(* http.Server.Shutdown and the stop of gRPC.                              *)
(*                                                                         *)
(* The main goroutine, the goroutines that serve and the one that calls    *)
(* GracefulStop take their steps in any order; the timeout may pass at any *)
(* moment once it runs.  A request is a call of a handler, open from the   *)
(* moment its connection is accepted; one that streams may never end.      *)
(***************************************************************************)
CONSTANTS HttpRequests, GrpcCalls

ASSUME RequestsAssumption == HttpRequests \cap GrpcCalls = {}

VARIABLES
  main,      \* where Run stands, or how the process ended
  http,      \* the HTTP server
  grpc,      \* the gRPC server; "nil" if its port could not be had
  errs,      \* an error is in the channel errs
  shutdown,  \* a signal is in the channel shutdown
  ctx,       \* the timeout of the shutdown
  stopped,   \* the goroutine that calls GracefulStop
  request    \* what became of each request

vars == <<main, http, grpc, errs, shutdown, ctx, stopped, request>>

Requests == HttpRequests \cup GrpcCalls
Ended == {"exited", "fatal", "killed"}
Running == main \notin Ended

\* Requests that are being handled.
Open(R) == {r \in R : request[r] = "open"}

\* What becomes of the requests when those of R are broken off.
Cut(R) == [r \in Requests |-> IF r \in Open(R) THEN "cut" ELSE request[r]]

Init ==
  /\ main = "start"
  /\ http = "off"
  /\ grpc = "nil"
  /\ errs = FALSE
  /\ shutdown = FALSE
  /\ ctx = "none"
  /\ stopped = "none"
  /\ request = [r \in Requests |-> "new"]

-----------------------------------------------------------------------------
(* The main goroutine.                                                     *)

\* Mutant of BindGRPC: Run returns when gRPC has no port.
BindGRPCOrReturn ==
  /\ main = "start"
  /\ \/ main' = "bound" /\ grpc' = "listening"
     \/ main' = "exited" /\ grpc' = "nil"
  /\ UNCHANGED <<http, errs, shutdown, ctx, stopped, request>>

\* newGRPCServer: without its port there is no gRPC server, only a line in the log.
BindGRPC ==
  /\ main = "start"
  /\ main' = "bound"
  /\ grpc' \in {"nil", "listening"}
  /\ UNCHANGED <<http, errs, shutdown, ctx, stopped, request>>

StartHTTP ==
  /\ main = "bound"
  /\ main' = "started"
  /\ http' = "starting"
  /\ UNCHANGED <<grpc, errs, shutdown, ctx, stopped, request>>

\* signal.Notify
Notify ==
  /\ main = "started"
  /\ main' = "waiting"
  /\ UNCHANGED <<http, grpc, errs, shutdown, ctx, stopped, request>>

\* log.Fatal: the process ends at once, with the requests of gRPC too.
Fatal ==
  /\ main = "waiting" /\ errs
  /\ main' = "fatal"
  /\ request' = Cut(Requests)
  /\ UNCHANGED <<http, grpc, errs, shutdown, ctx, stopped>>

\* The timeout starts, and Shutdown closes the listener of HTTP.
TakeSignal ==
  /\ main = "waiting" /\ shutdown
  /\ main' = "draining"
  /\ shutdown' = FALSE
  /\ ctx' = "running"
  /\ http' = "closed"
  /\ UNCHANGED <<grpc, errs, stopped, request>>

\* What comes after Shutdown: the goroutine that stops gRPC, if there is gRPC.
StopGRPC ==
  /\ main' = IF grpc = "nil" THEN "leaving" ELSE "stopping"
  /\ stopped' = IF grpc = "nil" THEN stopped ELSE "started"
  /\ UNCHANGED <<http, grpc, errs, shutdown, ctx, request>>

\* Mutant of HttpDrained: Close in the place of Shutdown.
HttpDrainedAtOnce == main = "draining" /\ StopGRPC

\* Shutdown returns because no request is left.
HttpDrained ==
  /\ main = "draining"
  /\ Open(HttpRequests) = {}
  /\ StopGRPC

\* Mutant of HttpGivesUp: Shutdown is given a context that never ends.
HttpGivesUpNever == main = "draining" /\ ctx = "never" /\ StopGRPC

\* Shutdown returns because the time is up; the requests go on.
HttpGivesUp ==
  /\ main = "draining"
  /\ ctx = "done"
  /\ StopGRPC

\* case <-stopped
SeeStopped ==
  /\ main = "stopping" /\ stopped = "done"
  /\ main' = "leaving"
  /\ UNCHANGED <<http, grpc, errs, shutdown, ctx, stopped, request>>

\* case <-ctx.Done(): gRPC's Stop breaks off its calls.
ForceStop ==
  /\ main = "stopping" /\ ctx = "done"
  /\ main' = "leaving"
  /\ grpc' = "closed"
  /\ request' = Cut(GrpcCalls)
  /\ UNCHANGED <<http, errs, shutdown, ctx, stopped>>

\* Run returns, and so does main: what is still open is broken off.
Exit ==
  /\ main = "leaving"
  /\ main' = "exited"
  /\ request' = Cut(Requests)
  /\ UNCHANGED <<http, grpc, errs, shutdown, ctx, stopped>>

-----------------------------------------------------------------------------
(* The other goroutines.                                                   *)

\* serveGRPC; Serve returns at once when the server is being stopped.
ServeGRPC ==
  /\ Running /\ grpc = "listening"
  /\ grpc' = "serving"
  /\ UNCHANGED <<main, http, errs, shutdown, ctx, stopped, request>>

\* ListenAndServe has the port.
ServeHTTP ==
  /\ Running /\ http = "starting"
  /\ http' = "serving"
  /\ UNCHANGED <<main, grpc, errs, shutdown, ctx, stopped, request>>

\* ListenAndServe has no port, or can no longer accept.
HttpFails ==
  /\ Running /\ http \in {"starting", "serving"}
  /\ http' = "failed"
  /\ errs' = TRUE
  /\ UNCHANGED <<main, grpc, shutdown, ctx, stopped, request>>

\* GracefulStop: no new connections.
BeginGracefulStop ==
  /\ Running /\ stopped = "started"
  /\ stopped' = "draining"
  /\ grpc' = IF grpc = "serving" THEN "draining" ELSE "closed"
  /\ UNCHANGED <<main, http, errs, shutdown, ctx, request>>

\* GracefulStop returns when no call is left; close(stopped).
EndGracefulStop ==
  /\ Running /\ stopped = "draining"
  /\ Open(GrpcCalls) = {}
  /\ stopped' = "done"
  /\ grpc' = "closed"
  /\ UNCHANGED <<main, http, errs, shutdown, ctx, request>>

-----------------------------------------------------------------------------
(* The environment.                                                        *)

\* SIGINT or SIGTERM: before Notify it kills the process; later it is put into
\* the channel, if there is room.
Signal ==
  /\ Running
  /\ IF main \in {"start", "bound", "started"}
       THEN /\ main' = "killed"
            /\ request' = Cut(Requests)
            /\ UNCHANGED shutdown
       ELSE /\ shutdown' = TRUE
            /\ UNCHANGED <<main, request>>
  /\ UNCHANGED <<http, grpc, errs, ctx, stopped>>

\* Ten seconds have passed.
TimeUp ==
  /\ Running /\ ctx = "running"
  /\ ctx' = "done"
  /\ UNCHANGED <<main, http, grpc, errs, shutdown, stopped, request>>

\* A client of gRPC that does not know yet of the stop may still call.
Arrive(r) ==
  /\ Running /\ request[r] = "new"
  /\ \/ r \in HttpRequests /\ http = "serving"
     \/ r \in GrpcCalls /\ grpc \in {"serving", "draining"}
  /\ request' = [request EXCEPT ![r] = "open"]
  /\ UNCHANGED <<main, http, grpc, errs, shutdown, ctx, stopped>>

Finish(r) ==
  /\ Running /\ request[r] = "open"
  /\ request' = [request EXCEPT ![r] = "answered"]
  /\ UNCHANGED <<main, http, grpc, errs, shutdown, ctx, stopped>>

-----------------------------------------------------------------------------
Main ==
  \/ BindGRPC \/ StartHTTP \/ Notify \/ Fatal \/ TakeSignal
  \/ HttpDrained \/ HttpGivesUp \/ SeeStopped \/ ForceStop \/ Exit

Others == ServeGRPC \/ ServeHTTP \/ BeginGracefulStop \/ EndGracefulStop

Next ==
  \/ Main \/ Others \/ HttpFails \/ Signal \/ TimeUp
  \/ \E r \in Requests : Arrive(r) \/ Finish(r)

Spec == Init /\ [][Next]_vars

\* The goroutines run and the timeout passes.  No request need end, and nobody
\* need send a signal.
FairSpec ==
  /\ Spec
  /\ WF_vars(Main) /\ WF_vars(TimeUp)
  /\ WF_vars(ServeGRPC) /\ WF_vars(ServeHTTP)
  /\ WF_vars(BeginGracefulStop) /\ WF_vars(EndGracefulStop)

-----------------------------------------------------------------------------
(* Properties.                                                             *)

\* Types, and that a gRPC server that is nil is never stopped.
TypeOK ==
  /\ main \in {"start", "bound", "started", "waiting", "draining", "stopping",
               "leaving"} \cup Ended
  /\ http \in {"off", "starting", "serving", "failed", "closed"}
  /\ grpc \in {"nil", "listening", "serving", "draining", "closed"}
  /\ errs \in BOOLEAN /\ shutdown \in BOOLEAN
  /\ ctx \in {"none", "running", "done"}
  /\ stopped \in {"none", "started", "draining", "done"}
  /\ grpc = "nil" => stopped = "none" /\ main # "stopping"
  /\ request \in [Requests -> {"new", "open", "answered", "cut"}]

\* README.md:212, graceful shutdown: no request of either server is broken off
\* before the timeout, unless HTTP could not be served or the signal came before
\* the process listened for it.
GracefulUntilTimeout ==
  (\E r \in Requests : request[r] = "cut") => ctx = "done" \/ main \in {"fatal", "killed"}

\* Before the shutdown there is no timeout, and at the start no gRPC server.
Staged ==
  /\ main = "start" => grpc = "nil"
  /\ main \in {"start", "bound", "started", "waiting"} => ctx = "none"

\* HTTP takes no request any more once its listener is closed, gRPC none without a
\* server or after its stop.
Quiet ==
  /\ main \in {"start", "bound", "started", "waiting", "fatal", "killed"}
       \/ http = "closed"
  /\ grpc \in {"nil", "listening"} => Open(GrpcCalls) = {}

\* Each stage of the shutdown was reached with the time up or with its requests done.
Drained ==
  ctx = "done" \/
    /\ main \in {"stopping", "leaving"} => Open(HttpRequests) = {}
    /\ main = "leaving" => Open(GrpcCalls) = {} /\ grpc \in {"nil", "closed"}
    /\ stopped = "done" => Open(GrpcCalls) = {} /\ grpc = "closed"

\* The inductive invariant of the proofs: what is broken off at the end was let go
\* on by an earlier stage.
IInv == TypeOK /\ Staged /\ Quiet /\ Drained /\ GracefulUntilTimeout

\* Once a signal is in the channel the process ends, within the timeout that both
\* servers share: even if no request ever does, and though gRPC goes on taking
\* calls while HTTP drains.
SignalEndsProcess == shutdown ~> ~Running

\* A gRPC port that cannot be had never keeps HTTP from being served.
HttpWithoutGrpc ==
  (main # "start" /\ grpc = "nil")
    ~> (http \in {"serving", "failed", "closed"} \/ main = "killed")

=============================================================================

------------------------------ MODULE LogPanel ------------------------------
(***************************************************************************)
(* The logs of the selected workload in the browser: the log part of       *)
(* useMonitorData (frontend/src/hooks/use-monitor-data.ts), fetchLogs and  *)
(* the timer that calls it, together with the handler that answers it,     *)
(* handleLogStream (backend/internal/server/handlers.go).                  *)
(*                                                                         *)
(* JavaScript runs one task at a time and then the continuations of the    *)
(* promises the task settled.  A task is one action; the continuation of   *)
(* an aborted request is an action of its own, AbortSeen, and no task      *)
(* starts before it.  What the user does is bounded by MaxEvents.          *)
(***************************************************************************)
EXTENDS Naturals, Sequences

CONSTANTS
  Workloads,   \* what can be selected
  Windows,     \* contexts and time ranges: the other dependencies of the effect
  Lines,       \* records [pod, hit]: whose line it is, and if the term is in it
  MaxEvents,   \* bound on what the user does, and so on the requests
  Nil

View == [workload : Workloads \cup {Nil}, window : Windows, search : BOOLEAN]

ASSUME PanelAssumption ==
  /\ Nil \notin Workloads \cup View
  /\ \A l \in Lines : DOMAIN l = {"pod", "hit"} /\ l.hit \in BOOLEAN
  /\ MaxEvents \in Nat

VARIABLES
  view,        \* what is selected: [workload, window, search]
  timer,       \* Nil, or the view the waiting timer was set for
  requests,    \* the requests so far; logsAbortRef is that of the last one
  logs,        \* the lines in the state, each with the number of its request
  loading,     \* loadingLogs
  mounted,     \* the page is open
  events       \* what the user has done so far

vars == <<view, timer, requests, logs, loading, mounted, events>>

Pods == {l.pod : l \in Lines}

\* The lines of the pods that pass a search (or all, without one).
Matching(pods, search) == {l \in Lines : l.pod \in pods /\ (search => l.hit)}

last == Len(requests)
InFlight(r) == requests[r].stage \in {"reading", "streaming"}

\* No continuation of an aborted request is waiting to run.
TaskMayStart == \A r \in 1..last : requests[r].stage # "aborted"

Init ==
  /\ view \in [workload : {Nil}, window : Windows, search : {FALSE}]
  /\ timer = view
  /\ requests = <<>>
  /\ logs = {}
  /\ loading = FALSE
  /\ mounted = TRUE
  /\ events = 0

-----------------------------------------------------------------------------
(* The user, and the effects that run at once.                             *)

\* A dependency of the effect changes: the timer is cleared and set anew.
Choose(w, p) ==
  /\ mounted /\ events < MaxEvents
  /\ <<w, p>> # <<view.workload, view.window>>
  /\ view' = [view EXCEPT !.workload = w, !.window = p]
  /\ timer' = view'
  /\ events' = events + 1
  /\ UNCHANGED <<requests, logs, loading, mounted>>

\* The search is not a dependency of the effect.
TypeSearch ==
  /\ mounted /\ events < MaxEvents
  /\ view' = [view EXCEPT !.search = ~view.search]
  /\ events' = events + 1
  /\ UNCHANGED <<timer, requests, logs, loading, mounted>>

NewRequest(v) ==
  [view |-> v, stage |-> "reading", answered |-> {}, ok |-> {}, unsent |-> {},
   replaced |-> last > 0 /\ InFlight(last)]

\* abort() does nothing to a request that is over.
Aborted ==
  [r \in 1..last |-> IF InFlight(r) THEN [requests[r] EXCEPT !.stage = "aborted"]
                                    ELSE requests[r]]

\* Mutant of fetchLogs: the request that is replaced is not aborted.
fetchLogsNoAbort(v) ==
  /\ requests' = Append(requests, NewRequest(v))
  /\ loading' = TRUE
  /\ logs' = {}

fetchLogs(v) ==
  /\ requests' = Append(Aborted, NewRequest(v))
  /\ loading' = TRUE
  /\ logs' = {}

\* The button, which is disabled while loading.
Refresh ==
  /\ mounted /\ events < MaxEvents
  /\ ~loading /\ view.workload # Nil
  /\ fetchLogs(view)
  /\ events' = events + 1
  /\ UNCHANGED <<view, timer, mounted>>

\* The timer calls the fetchLogs of the render that set it, with the search of then.
TimerFires ==
  /\ timer # Nil
  /\ timer' = Nil
  /\ IF timer.workload # Nil
       THEN fetchLogs(timer)
       ELSE logs' = {} /\ UNCHANGED <<requests, loading>>
  /\ UNCHANGED <<view, mounted, events>>

\* Mutant of Unmount: the request is left alone.
UnmountNoAbort ==
  /\ mounted
  /\ mounted' = FALSE
  /\ timer' = Nil
  /\ UNCHANGED <<view, requests, logs, loading, events>>

\* Both cleanups: the timer and the last request.
Unmount ==
  /\ mounted
  /\ mounted' = FALSE
  /\ timer' = Nil
  /\ requests' = Aborted
  /\ UNCHANGED <<view, logs, loading, events>>

-----------------------------------------------------------------------------
(* The server: handleLogStream reads every pod, then writes the lines.     *)

\* A pod's log is read, or cannot be and counts as empty.
PodAnswers(r) ==
  /\ requests[r].stage = "reading"
  /\ \E p \in Pods \ requests[r].answered, got \in BOOLEAN :
       requests' = [requests EXCEPT ![r].answered = @ \cup {p},
                                    ![r].ok = IF got THEN @ \cup {p} ELSE @]
  /\ UNCHANGED <<view, timer, logs, loading, mounted, events>>

\* Mutant of Respond: it waits for every pod to be readable.
RespondIfAllRead(r) ==
  /\ requests[r].stage = "reading"
  /\ requests[r].ok = Pods
  /\ requests' = [requests EXCEPT ![r].stage = "streaming",
                    ![r].unsent = Matching(requests[r].ok, requests[r].view.search)]
  /\ UNCHANGED <<view, timer, logs, loading, mounted, events>>

Respond(r) ==
  /\ requests[r].stage = "reading"
  /\ requests[r].answered = Pods
  /\ requests' = [requests EXCEPT ![r].stage = "streaming",
                    ![r].unsent = Matching(requests[r].ok, requests[r].view.search)]
  /\ UNCHANGED <<view, timer, logs, loading, mounted, events>>

-----------------------------------------------------------------------------
(* The rest of fetchLogs.                                                  *)

\* reader.read() returns lines, which are appended.
Chunk(r) ==
  /\ requests[r].stage = "streaming"
  /\ \E l \in requests[r].unsent :
       /\ requests' = [requests EXCEPT ![r].unsent = @ \ {l}]
       /\ logs' = logs \cup {[request |-> r, line |-> l]}
  /\ UNCHANGED <<view, timer, loading, mounted, events>>

\* Mutant of StreamEnds: the reader stops at the first pause.
StreamEndsEarly(r) ==
  /\ requests[r].stage = "streaming"
  /\ requests' = [requests EXCEPT ![r].stage = "done"]
  /\ loading' = FALSE
  /\ UNCHANGED <<view, timer, logs, mounted, events>>

\* reader.read() is done: the lines are sorted, the flag is cleared.
StreamEnds(r) ==
  /\ requests[r].stage = "streaming"
  /\ requests[r].unsent = {}
  /\ requests' = [requests EXCEPT ![r].stage = "done"]
  /\ loading' = FALSE
  /\ UNCHANGED <<view, timer, logs, mounted, events>>

\* Mutant of Fails: the flag is cleared at the end of the try block only.
FailsLoading(r) ==
  /\ InFlight(r)
  /\ requests' = [requests EXCEPT ![r].stage = "failed"]
  /\ UNCHANGED <<view, timer, logs, loading, mounted, events>>

\* The dates cannot be converted, the server answers with an error, or the
\* connection breaks.
Fails(r) ==
  /\ InFlight(r)
  /\ requests' = [requests EXCEPT ![r].stage = "failed"]
  /\ loading' = FALSE
  /\ UNCHANGED <<view, timer, logs, mounted, events>>

\* AbortError: return, then the finally block, after the new call set the flag.
AbortSeen(r) ==
  /\ requests[r].stage = "aborted"
  /\ requests' = [requests EXCEPT ![r].stage = "dropped"]
  /\ loading' = FALSE
  /\ UNCHANGED <<view, timer, logs, mounted, events>>

-----------------------------------------------------------------------------
User ==
  \/ \E w \in Workloads \cup {Nil}, p \in Windows : Choose(w, p)
  \/ TypeSearch \/ Refresh \/ Unmount

Arrives == \E r \in 1..last : Respond(r) \/ Chunk(r) \/ StreamEnds(r)

Answers == \E r \in 1..last : PodAnswers(r)

Next ==
  \/ \E r \in 1..last : AbortSeen(r)
  \/ TaskMayStart /\ (User \/ TimerFires \/ Arrives \/ Answers
                        \/ \E r \in 1..last : Fails(r))

Spec == Init /\ [][Next]_vars

\* Timers fire and what the server writes arrives.  A pod need not answer.
FairSpec ==
  /\ Spec
  /\ WF_vars(\E r \in 1..last : AbortSeen(r))
  /\ WF_vars(TaskMayStart /\ TimerFires)
  /\ WF_vars(TaskMayStart /\ Arrives)

\* Every pod's log is read in the end.
AnsweringSpec == FairSpec /\ WF_vars(TaskMayStart /\ Answers)

-----------------------------------------------------------------------------
(* Properties.                                                             *)

\* The page is open on a workload whose logs have been asked for.
Settled == mounted /\ timer = Nil /\ view.workload # Nil

\* The lines in the state come from one request, the last one, however requests, ends
\* and aborts interleave; and once the timer has run, that request was for the selected
\* workload, context and range.
ShownIsLastAsked ==
  \A entry \in logs :
    /\ entry.request = last
    /\ Settled =>
         LET asked == requests[entry.request].view
         IN  <<asked.workload, asked.window>> = <<view.workload, view.window>>

\* The page shows it is loading only while the last request is in flight: no
\* failure, abort or end leaves the flag set, which would disable Refresh for good.
\* And while a request is in flight the page says so, unless that request replaced
\* one in flight, whose finally block cleared the flag.
LoadingTellsTheTruth ==
  /\ mounted /\ loading => last > 0 /\ InFlight(last)
  /\ last > 0 /\ InFlight(last) /\ ~loading => requests[last].replaced

\* When the last request is done, the user sees all matching lines of the pods that
\* could be read, provided the search was not widened since it was sent.
CompleteWhenDone ==
  Settled /\ requests[last].stage = "done" /\ (requests[last].view.search => view.search)
    => {entry.line : entry \in {e \in logs : view.search => e.line.hit}}
         = Matching(requests[last].ok, view.search)

\* A closed page has no timer and no request.
UnmountCleansUp ==
  ~mounted => timer = Nil /\ \A r \in 1..last : ~InFlight(r)

\* When the user stops, the panel comes to rest with the last request over, and it
\* is the request for what is selected.
ComesToRest ==
  <>[](/\ timer = Nil /\ ~(mounted /\ loading)
       /\ \A r \in 1..last : ~InFlight(r)
       /\ mounted /\ view.workload # Nil
            => <<requests[last].view.workload, requests[last].view.window>>
                 = <<view.workload, view.window>>)

\* use-monitor-data.ts:259, "Flush every chunk so logs appear as each pod responds."
\* What a pod has answered appears unless the request ends first.
AppearsAsPodsRespond ==
  \A l \in Lines :
    (last > 0 /\ InFlight(last) /\ l \in Matching(requests[last].ok, TRUE))
      ~> (last > 0 /\ (~InFlight(last) \/ [request |-> last, line |-> l] \in logs))

=============================================================================

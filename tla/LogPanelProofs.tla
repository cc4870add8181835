--------------------------- MODULE LogPanelProofs ---------------------------
(* Theorems about LogPanel, for any workloads, windows and lines and any     *)
(* number of things the user does.                                           *)
EXTENDS LogPanel, SequenceTheorems, TLAPS

Stages == {"reading", "streaming", "done", "failed", "aborted", "dropped"}

Request ==
  [view : View, stage : Stages, answered : SUBSET Pods, ok : SUBSET Pods,
   unsent : SUBSET Lines, replaced : BOOLEAN]

TypeOK ==
  /\ view \in View /\ timer \in View \cup {Nil}
  /\ requests \in Seq(Request)
  /\ logs \subseteq [request : Nat, line : Lines]
  /\ loading \in BOOLEAN /\ mounted \in BOOLEAN
  /\ events \in 0..MaxEvents

\* A request that another replaced is over, or about to notice that it is; and a
\* request that is about to notice was the last one, or the one the last replaced.
OnlyLast ==
  \A r \in 1..last :
    /\ InFlight(r) => r = last
    /\ requests[r].stage = "aborted" => r = last \/ requests[last].replaced

LogsOfLast == \A entry \in logs : entry.request = last

Same(v, w) == v.workload = w.workload /\ v.window = w.window

\* What the timer will ask for is what is selected, and once it has run it was asked.
Asked ==
  /\ timer # Nil => Same(timer, view)
  /\ Settled => last > 0 /\ Same(requests[last].view, view)

Received == {entry.line : entry \in logs}

\* The lines received and those on their way are those that match.
Collected(r) ==
  LET all == Matching(requests[r].ok, requests[r].view.search) IN
  /\ requests[r].stage = "reading" => logs = {}
  /\ requests[r].stage = "streaming" => Received \cup requests[r].unsent = all
  /\ requests[r].stage = "done" => Received = all

IInv ==
  /\ TypeOK
  /\ OnlyLast /\ LogsOfLast /\ Asked
  /\ Settled => Collected(last)
  /\ LoadingTellsTheTruth
  /\ UnmountCleansUp

-----------------------------------------------------------------------------
(* The sequence of requests.                                               *)

LEMMA RequestsTyped ==
  ASSUME TypeOK
  PROVE  last \in Nat /\ \A r \in 1..last : requests[r] \in Request
BY LenProperties DEF TypeOK, last

\* A step that replaces one request by q.
LEMMA OneChanges ==
  ASSUME TypeOK, NEW r \in 1..last, NEW q \in Request,
         requests' = [requests EXCEPT ![r] = q]
  PROVE  /\ requests' \in Seq(Request) /\ last' = last
         /\ \A s \in 1..last : requests'[s] = IF s = r THEN q ELSE requests[s]
BY ExceptSeq DEF TypeOK, last

\* Requests that are in flight are aborted, all others are left alone.
LEMMA AbortedTyped ==
  ASSUME TypeOK
  PROVE  /\ Aborted \in Seq(Request) /\ Len(Aborted) = last
         /\ \A r \in 1..last :
              /\ Aborted[r].view = requests[r].view
              /\ Aborted[r].replaced = requests[r].replaced
              /\ InFlight(r) => Aborted[r].stage = "aborted"
              /\ ~InFlight(r) => Aborted[r] = requests[r]
<1>1. last \in Nat /\ \A r \in 1..last : requests[r] \in Request
  BY RequestsTyped
<1>2. \A r \in 1..last : [requests[r] EXCEPT !.stage = "aborted"] \in Request
  BY <1>1 DEF Request, Stages
<1>3. Aborted \in [1..last -> Request]
  BY <1>1, <1>2 DEF Aborted
<1>4. Aborted \in Seq(Request)
  BY <1>1, <1>3, SeqDef
<1>5. Len(Aborted) = last
  BY <1>1, <1>3, <1>4, LenProperties
<1>6. ASSUME NEW r \in 1..last
      PROVE  /\ Aborted[r].view = requests[r].view
             /\ Aborted[r].replaced = requests[r].replaced
             /\ InFlight(r) => Aborted[r].stage = "aborted"
             /\ ~InFlight(r) => Aborted[r] = requests[r]
  BY <1>1 DEF Aborted, Request
<1> QED
  BY <1>4, <1>5, <1>6

\* A new request comes after those it aborts.
LEMMA AppendTyped ==
  ASSUME TypeOK, NEW v \in View, requests' = Append(Aborted, NewRequest(v))
  PROVE  /\ requests' \in Seq(Request) /\ last' = last + 1
         /\ \A r \in 1..last : requests'[r] = Aborted[r]
         /\ requests'[last'] = NewRequest(v)
<1>1. NewRequest(v) \in Request
  <2>1. (last > 0 /\ InFlight(last)) \in BOOLEAN
    OBVIOUS
  <2> QED
    BY <2>1 DEF NewRequest, Request, Stages
<1> QED
  BY <1>1, AbortedTyped, AppendProperties DEF last

-----------------------------------------------------------------------------
(* Steps.                                                                  *)

LEMMA InitInv == Init => IInv
<1> SUFFICES ASSUME Init PROVE IInv
  OBVIOUS
<1>1. last = 0 /\ requests \in Seq(Request)
  BY EmptySeq DEF Init, last
<1>2. view \in View /\ timer = view
  BY DEF Init, View
<1>3. TypeOK
  <2>1. events \in 0..MaxEvents /\ logs = {}
    BY PanelAssumption DEF Init
  <2>2. loading \in BOOLEAN /\ mounted \in BOOLEAN
    BY DEF Init
  <2> QED
    BY <1>1, <1>2, <2>1, <2>2 DEF TypeOK
<1>4. timer # Nil
  BY <1>2, PanelAssumption
<1>5. ~Settled
  BY <1>4 DEF Settled
<1> QED
  BY <1>1, <1>2, <1>3, <1>5
  DEF IInv, Init, OnlyLast, LogsOfLast, Asked, Same, LoadingTellsTheTruth, UnmountCleansUp

\* Choosing and typing leave the requests alone; a timer that is set asks for what is
\* selected.
LEMMA InputKeeps ==
  ASSUME IInv, view' \in View, timer' \in View \cup {Nil}, events' \in 0..MaxEvents,
         mounted,
         timer' # Nil => Same(timer', view'),
         timer' = Nil => timer = Nil /\ Same(view, view'),
         UNCHANGED <<requests, logs, loading, mounted>>
  PROVE  IInv'
<1>1. TypeOK'
  BY DEF IInv, TypeOK
<1>2. OnlyLast' /\ LogsOfLast' /\ LoadingTellsTheTruth'
  BY DEF IInv, OnlyLast, LogsOfLast, LoadingTellsTheTruth, InFlight, last
<1>3. Settled' => Settled
  BY DEF Settled, Same
<1>4. (Settled => Collected(last))'
  BY <1>3 DEF IInv, Collected, Received, last
<1>6. Asked'
  <2>1. requests' = requests /\ last' = last
    BY DEF last
  <2>2. Settled' => last > 0 /\ Same(requests[last].view, view) /\ Same(view, view')
    BY <1>3 DEF IInv, Asked, Settled
  <2>3. Settled' => last' > 0 /\ Same(requests'[last'].view, view')
    BY <2>1, <2>2 DEF Same
  <2> QED
    BY <2>3 DEF Asked
<1>5. UnmountCleansUp'
  BY DEF UnmountCleansUp
<1> QED
  BY <1>1, <1>2, <1>4, <1>5, <1>6 DEF IInv

\* A request for what is selected.
LEMMA FetchKeeps ==
  ASSUME IInv, TaskMayStart, mounted, NEW v \in View, Same(v, view), fetchLogs(v),
         timer' \in {timer, Nil}, events' \in 0..MaxEvents, UNCHANGED <<view, mounted>>
  PROVE  IInv'
<1>1. last \in Nat /\ \A r \in 1..last : requests[r] \in Request
  BY RequestsTyped DEF IInv
<1>2. /\ requests' \in Seq(Request) /\ last' = last + 1
      /\ \A r \in 1..last : requests'[r] = Aborted[r]
      /\ requests'[last'] = NewRequest(v)
  BY AppendTyped DEF IInv, fetchLogs
<1>3. /\ requests'[last'].view = v /\ requests'[last'].stage = "reading"
      /\ requests'[last'].replaced = (last > 0 /\ InFlight(last))
  BY <1>2 DEF NewRequest
<1>4. logs' = {} /\ loading' = TRUE
  BY DEF fetchLogs
<1>5. TypeOK'
  BY <1>2, <1>4 DEF IInv, TypeOK
<1>6. ASSUME NEW r \in 1..last'
      PROVE  /\ InFlight(r)' => r = last'
             /\ requests'[r].stage = "aborted" => r = last' \/ requests'[last'].replaced
  <2>1. CASE r = last'
    BY <2>1
  <2>2. CASE r \in 1..last /\ InFlight(r)
    <3>1. requests'[r].stage = "aborted" /\ r = last
      BY <1>2, <2>2, AbortedTyped DEF IInv, OnlyLast
    <3>2. last > 0
      BY <1>1, <2>2
    <3> QED
      BY <1>3, <2>2, <3>1, <3>2 DEF InFlight
  <2>3. CASE r \in 1..last /\ ~InFlight(r)
    <3>1. requests'[r] = requests[r]
      BY <1>2, <2>3, AbortedTyped DEF IInv
    <3> QED
      BY <2>3, <3>1 DEF InFlight, TaskMayStart
  <2> QED
    BY <1>1, <1>2, <2>1, <2>2, <2>3
<1>7. OnlyLast'
  BY <1>6 DEF OnlyLast
<1>8. LogsOfLast' /\ Collected(last)'
  BY <1>3, <1>4 DEF LogsOfLast, Collected
<1>9. last' > 0 /\ InFlight(last)'
  BY <1>1, <1>2, <1>3 DEF InFlight
<1>10. Asked'
  BY <1>3, <1>9 DEF IInv, Asked, Same
<1>11. LoadingTellsTheTruth' /\ UnmountCleansUp'
  BY <1>4, <1>9 DEF LoadingTellsTheTruth, UnmountCleansUp
<1> QED
  BY <1>5, <1>7, <1>8, <1>10, <1>11 DEF IInv

\* A step of one request, which stays what it was for.
LEMMA OneStepKeeps ==
  ASSUME IInv, NEW r \in 1..last, NEW q \in Request,
         requests' = [requests EXCEPT ![r] = q],
         q.view = requests[r].view, q.replaced = requests[r].replaced,
         q.stage \in {"reading", "streaming"} => InFlight(r),
         q.stage # "aborted",
         \A entry \in logs' : entry \in logs \/ entry \in [request : {last}, line : Lines],
         loading' \in BOOLEAN,
         loading' => loading /\ (r = last => q.stage \in {"reading", "streaming"}),
         InFlight(last)' /\ ~loading' => ~loading \/ requests[last].replaced,
         Settled => Collected(last)',
         UNCHANGED <<view, timer, mounted, events>>
  PROVE  IInv'
<1>1. last \in Nat /\ \A s \in 1..last : requests[s] \in Request
  BY RequestsTyped DEF IInv
<1>2. /\ requests' \in Seq(Request) /\ last' = last
      /\ \A s \in 1..last : requests'[s] = IF s = r THEN q ELSE requests[s]
  BY OneChanges DEF IInv
<1>3. last > 0 /\ last \in 1..last
  BY <1>1
<1>4. \A s \in 1..last : requests'[s].view = requests[s].view
                         /\ requests'[s].replaced = requests[s].replaced
  BY <1>2
<1>5. \A s \in 1..last : InFlight(s)' => InFlight(s)
  BY <1>2 DEF InFlight
<1>6. TypeOK'
  BY <1>1, <1>2 DEF IInv, TypeOK
<1>7. OnlyLast'
  BY <1>2, <1>3, <1>4, <1>5 DEF IInv, OnlyLast
<1>8. LogsOfLast'
  BY <1>2 DEF IInv, LogsOfLast
<1>9. Settled' => Settled
  BY DEF Settled
<1>10. Asked'
  BY <1>2, <1>3, <1>4, <1>9 DEF IInv, Asked, Same
<1>11. LoadingTellsTheTruth'
  <2>1. mounted' /\ loading' => InFlight(last)'
    <3>1. CASE r = last
      BY <1>2, <1>3, <3>1 DEF InFlight
    <3>2. CASE r # last
      BY <1>2, <1>3, <3>2 DEF IInv, LoadingTellsTheTruth, InFlight
    <3> QED
      BY <3>1, <3>2
  <2> QED
    BY <1>2, <1>3, <1>4, <1>5, <2>1 DEF IInv, LoadingTellsTheTruth
<1>12. UnmountCleansUp'
  BY <1>2, <1>5 DEF IInv, UnmountCleansUp
<1> QED
  BY <1>6, <1>7, <1>8, <1>9, <1>10, <1>11, <1>12 DEF IInv

-----------------------------------------------------------------------------
(* Actions.                                                                *)

LEMMA UserKeeps ==
  ASSUME IInv, TaskMayStart, User
  PROVE  IInv'
<1>1. /\ view \in View /\ timer \in View \cup {Nil} /\ events \in 0..MaxEvents
      /\ MaxEvents \in Nat
  BY PanelAssumption DEF IInv, TypeOK
<1>2. ASSUME NEW w \in Workloads \cup {Nil}, NEW p \in Windows, Choose(w, p) PROVE IInv'
  <2>1. view' \in View /\ timer' = view' /\ timer' # Nil
    BY <1>1, <1>2, PanelAssumption DEF Choose, View
  <2>2. events' \in 0..MaxEvents
    BY <1>1, <1>2 DEF Choose
  <2> QED
    BY <1>2, <2>1, <2>2, InputKeeps DEF Choose, Same
<1>3. ASSUME TypeSearch PROVE IInv'
  <2>1. view' \in View /\ Same(view, view')
    BY <1>1, <1>3 DEF TypeSearch, View, Same
  <2>2. events' \in 0..MaxEvents
    BY <1>1, <1>3 DEF TypeSearch
  <2>3. timer # Nil => Same(timer, view')
    BY <2>1 DEF IInv, Asked, Same
  <2> QED
    BY <1>1, <1>3, <2>1, <2>2, <2>3, InputKeeps DEF TypeSearch
<1>4. ASSUME Refresh PROVE IInv'
  <2>1. events' \in 0..MaxEvents
    BY <1>1, <1>4 DEF Refresh
  <2> QED
    BY <1>1, <1>4, <2>1, FetchKeeps DEF Refresh, Same
<1>5. ASSUME Unmount PROVE IInv'
  <2>1. requests' \in Seq(Request) /\ last' = last
    BY <1>5, AbortedTyped DEF Unmount, IInv, last
  <2>2. last \in Nat /\ \A r \in 1..last :
          /\ requests'[r].replaced = requests[r].replaced
          /\ ~InFlight(r)'
          /\ requests'[r].stage = "aborted" => r = last \/ requests[r].stage = "aborted"
    BY <1>5, <2>1, AbortedTyped, RequestsTyped DEF Unmount, IInv, InFlight, OnlyLast
  <2>3. TypeOK'
    BY <1>5, <2>1 DEF Unmount, IInv, TypeOK
  <2>4. OnlyLast' /\ LogsOfLast'
    BY <1>5, <2>1, <2>2 DEF Unmount, IInv, OnlyLast, LogsOfLast
  <2>5. ~mounted' /\ timer' = Nil
    BY <1>5 DEF Unmount
  <2>6. ~Settled' /\ Asked'
    BY <2>5 DEF Settled, Asked
  <2>7. UnmountCleansUp' /\ LoadingTellsTheTruth'
    <3>1. last' > 0 => ~InFlight(last)'
      BY <2>1, <2>2
    <3> QED
      BY <2>1, <2>2, <2>5, <3>1 DEF UnmountCleansUp, LoadingTellsTheTruth
  <2> QED
    BY <2>3, <2>4, <2>6, <2>7 DEF IInv
<1> QED
  BY <1>2, <1>3, <1>4, <1>5 DEF User

LEMMA TimerKeeps ==
  ASSUME IInv, TaskMayStart, TimerFires
  PROVE  IInv'
<1>1. /\ mounted /\ timer \in View /\ Same(timer, view) /\ timer' = Nil
      /\ events' \in 0..MaxEvents
  BY DEF TimerFires, IInv, TypeOK, UnmountCleansUp, Asked
<1>2. CASE timer.workload # Nil
  BY <1>1, <1>2, FetchKeeps DEF TimerFires
<1>3. CASE timer.workload = Nil
  <2>1. logs' = {} /\ UNCHANGED <<requests, loading, view, mounted, events>>
    BY <1>3 DEF TimerFires
  <2>2. ~Settled'
    BY <1>1, <1>3, <2>1 DEF Settled, Same
  <2>3. TypeOK'
    BY <1>1, <2>1 DEF IInv, TypeOK
  <2>4. OnlyLast' /\ LogsOfLast' /\ LoadingTellsTheTruth'
    BY <2>1 DEF IInv, OnlyLast, LogsOfLast, LoadingTellsTheTruth, InFlight, last
  <2>5. UnmountCleansUp' /\ Asked'
    BY <1>1, <2>1, <2>2 DEF UnmountCleansUp, Asked
  <2> QED
    BY <2>2, <2>3, <2>4, <2>5 DEF IInv
<1> QED
  BY <1>2, <1>3

LEMMA ServerKeeps ==
  ASSUME IInv, NEW r \in 1..last, PodAnswers(r) \/ Respond(r)
  PROVE  IInv'
<1>1. last \in Nat /\ requests[r] \in Request /\ requests[r].stage = "reading"
  BY RequestsTyped DEF IInv, PodAnswers, Respond
<1>2. r = last /\ UNCHANGED <<view, timer, logs, loading, mounted, events>>
  BY <1>1 DEF IInv, OnlyLast, InFlight, PodAnswers, Respond
<1>3. PICK q \in Request :
        /\ requests' = [requests EXCEPT ![r] = q]
        /\ q.view = requests[r].view /\ q.replaced = requests[r].replaced
        /\ \/ q.stage = "reading"
           \/ q.stage = "streaming" /\ q.unsent = Matching(q.ok, q.view.search)
  <2>1. CASE PodAnswers(r)
    <3>1. PICK p \in Pods, got \in BOOLEAN :
            requests' = [requests EXCEPT ![r].answered = @ \cup {p},
                                         ![r].ok = IF got THEN @ \cup {p} ELSE @]
      BY <2>1 DEF PodAnswers
    <3> DEFINE o == IF got THEN requests[r].ok \cup {p} ELSE requests[r].ok
               q == [requests[r] EXCEPT !.answered = @ \cup {p}, !.ok = o]
    <3>2. q \in Request /\ q.view = requests[r].view /\ q.replaced = requests[r].replaced
          /\ q.stage = "reading"
      BY <1>1 DEF Request
    <3>3. requests' = [requests EXCEPT ![r] = q]
      BY <3>1
    <3> QED
      BY <3>2, <3>3
  <2>2. CASE Respond(r)
    <3> DEFINE all == Matching(requests[r].ok, requests[r].view.search)
               q == [requests[r] EXCEPT !.stage = "streaming", !.unsent = all]
    <3>1. all \in SUBSET Lines
      BY DEF Matching
    <3>2. q \in Request /\ q.view = requests[r].view /\ q.replaced = requests[r].replaced
          /\ q.stage = "streaming" /\ q.ok = requests[r].ok /\ q.unsent = all
      BY <1>1, <3>1 DEF Request, Stages
    <3>3. requests' = [requests EXCEPT ![r] = q]
      BY <2>2 DEF Respond
    <3> QED
      BY <3>2, <3>3
  <2> QED
    BY <2>1, <2>2
<1>4. last' = last /\ requests'[r] = q
  BY <1>3, OneChanges DEF IInv
<1>5. Settled => Collected(last)'
  BY <1>1, <1>2, <1>3, <1>4 DEF IInv, Collected, Received
<1>6. InFlight(r) /\ InFlight(r)'
  BY <1>1, <1>3, <1>4 DEF InFlight
<1>7. InFlight(last)' /\ ~loading' => ~loading
  BY <1>2
<1> QED
  BY <1>1, <1>2, <1>3, <1>5, <1>6, <1>7, OneStepKeeps DEF IInv, TypeOK

LEMMA ChunkKeeps ==
  ASSUME IInv, NEW r \in 1..last, Chunk(r)
  PROVE  IInv'
<1>1. last \in Nat /\ requests[r] \in Request /\ requests[r].stage = "streaming"
  BY RequestsTyped DEF IInv, Chunk
<1>2. r = last
  BY <1>1 DEF IInv, OnlyLast, InFlight, Chunk
<1>3. PICK l \in requests[r].unsent :
        /\ requests' = [requests EXCEPT ![r].unsent = @ \ {l}]
        /\ logs' = logs \cup {[request |-> r, line |-> l]}
  BY DEF Chunk
<1> DEFINE q == [requests[r] EXCEPT !.unsent = @ \ {l}]
<1>4. /\ q \in Request /\ q.view = requests[r].view /\ q.replaced = requests[r].replaced
      /\ q.stage = "streaming" /\ q.ok = requests[r].ok
      /\ q.unsent = requests[r].unsent \ {l}
      /\ l \in Lines
  BY <1>1 DEF Request
<1>5. requests' = [requests EXCEPT ![r] = q]
  BY <1>3
<1> HIDE DEF q
<1>6. last' = last /\ \A s \in 1..last : requests'[s] = IF s = r THEN q ELSE requests[s]
  BY <1>4, <1>5, OneChanges DEF IInv
<1>7. Received' = Received \cup {l}
  <2> DEFINE new == [request |-> r, line |-> l]
  <2>1. new.line = l /\ logs' = logs \cup {new}
    BY <1>3
  <2> HIDE DEF new
  <2>2. Received' = {entry.line : entry \in logs'}
    BY DEF Received
  <2> QED
    BY <2>1, <2>2 DEF Received
<1>8. Settled => Collected(last)'
  BY <1>1, <1>2, <1>3, <1>4, <1>6, <1>7 DEF IInv, Collected
<1>9. \A entry \in logs' : entry \in logs \/ entry \in [request : {last}, line : Lines]
  BY <1>2, <1>3, <1>4
<1>10. InFlight(r) /\ UNCHANGED <<view, timer, mounted, events, loading>>
  BY <1>1 DEF InFlight, Chunk
<1>11. loading' \in BOOLEAN /\ (InFlight(last)' /\ ~loading' => ~loading)
  BY <1>10 DEF IInv, TypeOK
<1> QED
  BY <1>4, <1>5, <1>8, <1>9, <1>10, <1>11, OneStepKeeps

\* The end of a request, whichever: the flag is cleared.
LEMMA EndKeeps ==
  ASSUME IInv, NEW r \in 1..last, StreamEnds(r) \/ Fails(r) \/ AbortSeen(r)
  PROVE  IInv'
<1>1. last \in Nat /\ requests[r] \in Request
  BY RequestsTyped DEF IInv
<1>2. PICK over \in {"done", "failed", "dropped"} :
        /\ requests' = [requests EXCEPT ![r].stage = over]
        /\ over = "done" => requests[r].stage = "streaming" /\ requests[r].unsent = {}
        /\ over # "dropped" => InFlight(r)
        /\ over = "dropped" => requests[r].stage = "aborted"
  BY DEF StreamEnds, Fails, AbortSeen, InFlight
<1> DEFINE q == [requests[r] EXCEPT !.stage = over]
<1>3. /\ q \in Request /\ q.view = requests[r].view /\ q.replaced = requests[r].replaced
      /\ q.stage = over /\ q.ok = requests[r].ok
  BY <1>1 DEF Request, Stages
<1>4. requests' = [requests EXCEPT ![r] = q]
  BY <1>2
<1> HIDE DEF q
<1>5. last' = last /\ \A s \in 1..last : requests'[s] = IF s = r THEN q ELSE requests[s]
  BY <1>3, <1>4, OneChanges DEF IInv
<1>6. loading' = FALSE /\ UNCHANGED <<view, timer, mounted, events, logs>>
  BY DEF StreamEnds, Fails, AbortSeen
<1>7. last \in 1..last
  BY <1>1
<1>8. Settled => Collected(last)'
  <2>1. CASE r = last
    BY <1>2, <1>3, <1>5, <1>6, <1>7, <2>1 DEF IInv, Collected, Received
  <2>2. CASE r # last
    BY <1>5, <1>6, <1>7, <2>2 DEF IInv, Collected, Received
  <2> QED
    BY <2>1, <2>2
<1>9. InFlight(last)' => ~loading \/ requests[last].replaced
  <2> SUFFICES ASSUME InFlight(last)' PROVE ~loading \/ requests[last].replaced
    OBVIOUS
  <2>1. r # last
    BY <1>2, <1>3, <1>5, <1>7 DEF InFlight
  <2>2. requests[r].stage = "aborted"
    BY <1>2, <2>1 DEF IInv, OnlyLast
  <2> QED
    BY <2>1, <2>2 DEF IInv, OnlyLast
<1> QED
  BY <1>3, <1>4, <1>6, <1>8, <1>9, OneStepKeeps

LEMMA NextInv == IInv /\ [Next]_vars => IInv'
<1> SUFFICES ASSUME IInv, [Next]_vars PROVE IInv'
  OBVIOUS
<1>1. CASE \E r \in 1..last : AbortSeen(r) \/ Fails(r) \/ StreamEnds(r)
  BY <1>1, EndKeeps
<1>2. CASE TaskMayStart /\ User
  BY <1>2, UserKeeps
<1>3. CASE TaskMayStart /\ TimerFires
  BY <1>3, TimerKeeps
<1>4. CASE \E r \in 1..last : PodAnswers(r) \/ Respond(r)
  BY <1>4, ServerKeeps
<1>5. CASE \E r \in 1..last : Chunk(r)
  BY <1>5, ChunkKeeps
<1>6. CASE UNCHANGED vars
  <2>1. UNCHANGED <<view, timer, requests, logs, loading, mounted, events>>
    BY <1>6 DEF vars
  <2>2. last' = last /\ (Settled' <=> Settled) /\ Received' = Received
    BY <2>1 DEF last, Settled, Received
  <2> QED
    BY <2>1, <2>2
    DEF IInv, TypeOK, OnlyLast, InFlight, LogsOfLast, Asked, Same, Collected,
        LoadingTellsTheTruth, UnmountCleansUp
<1> QED
  BY <1>1, <1>2, <1>3, <1>4, <1>5, <1>6 DEF Next, Arrives, Answers

-----------------------------------------------------------------------------
(* Theorems.                                                               *)

\* At every step the requests, the timer, the flag and the lines of the panel agree
\* (fetchLogs and its effects in use-monitor-data.ts).
THEOREM Inductive == Spec => []IInv
BY InitInv, NextInv, PTL DEF Spec

\* However requests, aborts and ends interleave, the lines come from the last request,
\* which, once the timer has run, was for what is selected.
THEOREM LinesAreOfTheLastRequest == Spec => []ShownIsLastAsked
<1>1. IInv => ShownIsLastAsked
  BY DEF IInv, LogsOfLast, Asked, Same, ShownIsLastAsked
<1> QED
  BY Inductive, <1>1, PTL

\* The flag never sticks, and is clear while a request is in flight only if that
\* request replaced another (the finally block of fetchLogs).
THEOREM LoadingIsTrue == Spec => []LoadingTellsTheTruth
<1>1. IInv => LoadingTellsTheTruth
  BY DEF IInv
<1> QED
  BY Inductive, <1>1, PTL

\* What is shown of a request that is done is every matching line of the pods that
\* could be read, for any lines and pods (handleLogStream and the reader of fetchLogs).
THEOREM DoneIsComplete == Spec => []CompleteWhenDone
<1>1. ASSUME IInv, Settled, requests[last].stage = "done",
             requests[last].view.search => view.search
      PROVE  {entry.line : entry \in {e \in logs : view.search => e.line.hit}}
               = Matching(requests[last].ok, view.search)
  <2>1. Received = Matching(requests[last].ok, requests[last].view.search)
    BY <1>1 DEF IInv, Collected
  <2>2. {entry.line : entry \in {e \in logs : view.search => e.line.hit}}
          = {l \in Received : view.search => l.hit}
    BY DEF Received
  <2> QED
    BY <1>1, <2>1, <2>2 DEF Matching
<1>2. IInv => CompleteWhenDone
  BY <1>1 DEF CompleteWhenDone
<1> QED
  BY Inductive, <1>2, PTL

\* A page that was closed has no timer left and no request in flight (the cleanups of
\* the two effects).
THEOREM ClosedPageIsQuiet == Spec => []UnmountCleansUp
<1>1. IInv => UnmountCleansUp
  BY DEF IInv
<1> QED
  BY Inductive, <1>1, PTL

=============================================================================

---------------------------- MODULE LiveLogStream ---------------------------
(***************************************************************************)
(* One live log stream: streamLiveLogs and streamPodLogs                   *)
(* (backend/internal/server/logs.go), called by the gRPC method StreamLogs.*)
(*                                                                         *)
(* The handler lists the pods of the workload once, starts a goroutine per *)
(* pod that has a running container, and one more that closes the channel  *)
(* entries when all of those are done.  It then forwards what arrives on   *)
(* entries to the client until the channel is closed, a send fails or the  *)
(* context of the call is cancelled.                                       *)
(*                                                                         *)
(* A log line is abstracted to what the code asks of it: whether it matches*)
(* the search and whether its timestamp is after the end of the window.    *)
(***************************************************************************)
EXTENDS Integers, Sequences, FiniteSets

CONSTANTS
  Running,     \* the listed pods with a running container; others are skipped
  Log,         \* [Running -> Seq(Line)]: what each pod writes
  ChanCap,     \* capacity of entries: 256
  Nil

Line == [matches: BOOLEAN, late: BOOLEAN]

ASSUME StreamAssumption ==
  /\ IsFiniteSet(Running)
  /\ \A p \in Running : Log[p] \in Seq(Line)
  /\ ChanCap \in Nat \ {0}
  /\ Nil \notin Running \X Nat

VARIABLES
  handler,     \* where streamLiveLogs stands
  result,      \* how it returned: "ended", "cancelled", "send failed", "failed"
  ctx,         \* "live" or "cancelled"
  streamer,    \* where each pod's goroutine stands
  read,        \* how many lines each goroutine has scanned
  entries,     \* the channel: a sequence of <<pod, line number>>
  closed,      \* close(entries) was called
  wg,          \* counter of the wait group
  hand,        \* the entry the handler has received and not sent yet
  sent         \* [Running -> Seq(Nat)]: the lines the client got, by pod

vars == <<handler, result, ctx, streamer, read, entries, closed, wg, hand, sent>>

Init ==
  /\ handler = "listing"
  /\ result = "none"
  /\ ctx = "live"
  /\ streamer = [p \in Running |-> "none"]
  /\ read = [p \in Running |-> 0]
  /\ entries = <<>>
  /\ closed = FALSE
  /\ wg = 0
  /\ hand = Nil
  /\ sent = [p \in Running |-> <<>>]

-----------------------------------------------------------------------------
(* The handler.                                                            *)

Return(how) == handler' = "returned" /\ result' = how

\* A missing parameter, a workload that cannot be read, or the list of pods.
ListFails ==
  /\ handler = "listing"
  /\ Return("failed")
  /\ UNCHANGED <<ctx, streamer, read, entries, closed, wg, hand, sent>>

ListPods ==
  /\ handler = "listing"
  /\ handler' = "spawning"
  /\ UNCHANGED <<result, ctx, streamer, read, entries, closed, wg, hand, sent>>

Spawn(p) ==
  /\ handler = "spawning"
  /\ streamer[p] = "none"
  /\ wg' = wg + 1
  /\ streamer' = [streamer EXCEPT ![p] = "opening"]
  /\ UNCHANGED <<handler, result, ctx, read, entries, closed, hand, sent>>

\* The loop over the pods is over and the closing goroutine is started.
EnterLoop ==
  /\ handler = "spawning"
  /\ \A p \in Running : streamer[p] # "none"
  /\ handler' = "selecting"
  /\ UNCHANGED <<result, ctx, streamer, read, entries, closed, wg, hand, sent>>

\* The select of the loop: a cancelled context, an entry, or the end.  Go picks
\* any case that is ready.
SeeCancel ==
  /\ handler = "selecting" /\ ctx = "cancelled"
  /\ Return("cancelled")
  /\ UNCHANGED <<ctx, streamer, read, entries, closed, wg, hand, sent>>

Receive ==
  /\ handler = "selecting" /\ entries # <<>>
  /\ hand' = Head(entries)
  /\ entries' = Tail(entries)
  /\ handler' = "sending"
  /\ UNCHANGED <<result, ctx, streamer, read, closed, wg, sent>>

\* Mutant of SeeClosed: the end is noticed before what the channel still holds.
SeeClosedEarly ==
  /\ handler = "selecting" /\ closed
  /\ Return("ended")
  /\ UNCHANGED <<ctx, streamer, read, entries, closed, wg, hand, sent>>

SeeClosed ==
  /\ handler = "selecting" /\ entries = <<>> /\ closed
  /\ Return("ended")
  /\ UNCHANGED <<ctx, streamer, read, entries, closed, wg, hand, sent>>

SendOk ==
  /\ handler = "sending"
  /\ sent' = [sent EXCEPT ![hand[1]] = Append(@, hand[2])]
  /\ hand' = Nil
  /\ handler' = "selecting"
  /\ UNCHANGED <<result, ctx, streamer, read, entries, closed, wg>>

SendFails ==
  /\ handler = "sending"
  /\ Return("send failed")
  /\ hand' = Nil
  /\ UNCHANGED <<ctx, streamer, read, entries, closed, wg, sent>>

-----------------------------------------------------------------------------
(* The goroutine of a pod.  Leaving it calls wg.Done().                    *)

Leave(p) ==
  /\ streamer' = [streamer EXCEPT ![p] = "done"]
  /\ wg' = wg - 1

\* Mutant of OpenFails: the wait group is not told.
OpenFailsUncounted(p) ==
  /\ streamer[p] = "opening"
  /\ streamer' = [streamer EXCEPT ![p] = "done"]
  /\ UNCHANGED <<handler, result, ctx, read, entries, closed, wg, hand, sent>>

\* GetLogs(...).Stream fails: the goroutine returns and says nothing.
OpenFails(p) ==
  /\ streamer[p] = "opening"
  /\ Leave(p)
  /\ UNCHANGED <<handler, result, ctx, read, entries, closed, hand, sent>>

Open(p) ==
  /\ streamer[p] = "opening"
  /\ streamer' = [streamer EXCEPT ![p] = "reading"]
  /\ UNCHANGED <<handler, result, ctx, read, entries, closed, wg, hand, sent>>

\* One turn of the scan.  The search is asked first: only a line that matches
\* can end the stream by being after the end.
Scan(p) ==
  /\ streamer[p] = "reading"
  /\ read[p] < Len(Log[p])
  /\ read' = [read EXCEPT ![p] = @ + 1]
  /\ LET line == Log[p][read[p] + 1] IN
       \/ ~line.matches /\ UNCHANGED <<streamer, wg>>
       \/ line.matches /\ line.late /\ Leave(p)
       \/ /\ line.matches /\ ~line.late
          /\ streamer' = [streamer EXCEPT ![p] = "offering"]
          /\ UNCHANGED wg
  /\ UNCHANGED <<handler, result, ctx, entries, closed, hand, sent>>

\* The scan returns false: the container stopped, the byte limit is reached,
\* the connection is lost, or the context is cancelled.
StreamEnds(p) ==
  /\ streamer[p] = "reading"
  /\ Leave(p)
  /\ UNCHANGED <<handler, result, ctx, read, entries, closed, hand, sent>>

\* Mutant of Offer: a select with a default case, which drops the entry when the
\* channel is full.
OfferOrDrop(p) ==
  /\ streamer[p] = "offering" /\ ~closed
  /\ entries' = IF Len(entries) < ChanCap THEN Append(entries, <<p, read[p]>>) ELSE entries
  /\ streamer' = [streamer EXCEPT ![p] = "reading"]
  /\ UNCHANGED <<handler, result, ctx, read, closed, wg, hand, sent>>

\* The select of the goroutine: the entry is taken by the channel, or (GiveUp)
\* the context is cancelled and the entry dropped.
Offer(p) ==
  /\ streamer[p] = "offering"
  /\ ~closed /\ Len(entries) < ChanCap
  /\ entries' = Append(entries, <<p, read[p]>>)
  /\ streamer' = [streamer EXCEPT ![p] = "reading"]
  /\ UNCHANGED <<handler, result, ctx, read, closed, wg, hand, sent>>

\* Mutant of GiveUp: a plain send, which the context does not interrupt.
GiveUpNever(p) == FALSE

GiveUp(p) ==
  /\ streamer[p] = "offering" /\ ctx = "cancelled"
  /\ Leave(p)
  /\ UNCHANGED <<handler, result, ctx, read, entries, closed, hand, sent>>

-----------------------------------------------------------------------------
(* The closing goroutine, and the client.                                  *)

\* Mutant of CloseEntries: nobody waits.
CloseEntriesAtOnce ==
  /\ handler \in {"selecting", "sending", "returned"} /\ result # "failed"
  /\ ~closed
  /\ closed' = TRUE
  /\ UNCHANGED <<handler, result, ctx, streamer, read, entries, wg, hand, sent>>

CloseEntries ==
  /\ handler \in {"selecting", "sending", "returned"} /\ result # "failed"
  /\ wg = 0 /\ ~closed
  /\ closed' = TRUE
  /\ UNCHANGED <<handler, result, ctx, streamer, read, entries, wg, hand, sent>>

\* The client goes away, or gRPC cancels the context of a call that returned.
Cancel ==
  /\ ctx = "live"
  /\ ctx' = "cancelled"
  /\ UNCHANGED <<handler, result, streamer, read, entries, closed, wg, hand, sent>>

Handle ==
  \/ ListFails \/ ListPods \/ (\E p \in Running : Spawn(p)) \/ EnterLoop
  \/ SeeCancel \/ Receive \/ SeeClosed \/ SendOk \/ SendFails

Stream(p) == OpenFails(p) \/ Open(p) \/ Scan(p) \/ StreamEnds(p) \/ Offer(p) \/ GiveUp(p)

AllOver == handler = "returned" /\ (result # "failed" => closed) /\ ctx = "cancelled"

Next ==
  \/ Handle
  \/ \E p \in Running : Stream(p)
  \/ CloseEntries
  \/ Cancel
  \/ AllOver /\ UNCHANGED vars

Spec == Init /\ [][Next]_vars

\* Goroutines that can run do.  A quiet pod may keep its goroutine in the scan
\* for ever, unless the context is cancelled: Kubernetes then ends the read.
\* A send returns, since gRPC fails it when the client is gone, and gRPC
\* cancels the context of a call that has returned.
FairSpec ==
  /\ Spec
  /\ WF_vars(Handle)
  /\ WF_vars(CloseEntries)
  /\ WF_vars(Cancel /\ handler = "returned")
  /\ \A p \in Running :
       /\ WF_vars(OpenFails(p) \/ Open(p) \/ Offer(p) \/ GiveUp(p))
       /\ WF_vars(StreamEnds(p) /\ ctx = "cancelled")

-----------------------------------------------------------------------------
(* Properties.                                                             *)

\* Nothing is read past the end of a log.
ReadOK == read \in [Running -> Nat] /\ \A p \in Running : read[p] <= Len(Log[p])

TypeOK ==
  /\ handler \in {"listing", "spawning", "selecting", "sending", "returned"}
  /\ result \in {"none", "ended", "cancelled", "send failed", "failed"}
  /\ ctx \in {"live", "cancelled"}
  /\ streamer \in [Running -> {"none", "opening", "reading", "offering", "done"}]
  /\ ReadOK
  /\ entries \in Seq(Running \X Nat) /\ Len(entries) <= ChanCap
  /\ closed \in BOOLEAN
  /\ wg \in 0..Cardinality(Running)
  /\ hand \in (Running \X Nat) \cup {Nil}
  /\ sent \in [Running -> Seq(Nat)]

\* The lines of p that were scanned and are to be delivered.
Selected(p) == {n \in 1..read[p] : Log[p][n].matches /\ ~Log[p][n].late}

\* Where those lines are: offered by the goroutine, in the channel, with the handler,
\* or with the client.
Offered(p) == {n \in {read[p]} : streamer[p] = "offering"}
Queued(p) == {entries[i][2] : i \in {j \in DOMAIN entries : entries[j][1] = p}}
Held(p) == {entry[2] : entry \in {e \in {hand} \ {Nil} : e[1] = p}}
Sent(p) == {sent[p][i] : i \in DOMAIN sent[p]}

Passed(p) == Sent(p) \cup Held(p) \cup Queued(p)

Before(S, T) == \A m \in S, n \in T : m < n

\* The lines of p on this way follow one another as in its log, each once.
InOrder(p) ==
  /\ \A i, j \in DOMAIN sent[p] : i < j => sent[p][i] < sent[p][j]
  /\ \A i, j \in DOMAIN entries :
       i < j /\ entries[i][1] = p /\ entries[j][1] = p => entries[i][2] < entries[j][2]
  /\ Before(Sent(p), Held(p)) /\ Before(Sent(p) \cup Held(p), Queued(p))
  /\ Before(Passed(p), Offered(p))

\* A goroutine that was stopped in its send.
GaveUp(p) == streamer[p] = "done" /\ ctx = "cancelled"

\* Between the scan of a pod and its client no line is lost, repeated or
\* overtaken by a later one of the same pod, however the goroutines, the
\* handler and a cancellation interleave; a goroutine that is stopped in its
\* send drops that one line, the last it read.
PodOrderKept ==
  result \in {"none", "ended", "cancelled"} =>
    \A p \in Running :
      /\ InOrder(p)
      /\ \/ Passed(p) \cup Offered(p) = Selected(p)
         \/ GaveUp(p) /\ Passed(p) \cup {read[p]} = Selected(p)

\* The channel is closed once, after the last goroutine that sends on it: none
\* can panic on a closed channel.
ClosedAfterStreamers ==
  closed => \A p \in Running : streamer[p] = "done"

\* The goroutines that have not left, which the wait group counts.
Working == {p \in Running : streamer[p] \in {"opening", "reading", "offering"}}

Counted == wg = Cardinality(Working)

\* What the handler's place says: goroutines are started between the list and the
\* loop, and the closing one comes after all others.
Staged ==
  /\ (result = "none") <=> (handler # "returned")
  /\ handler = "listing" \/ result = "failed" => \A p \in Running : streamer[p] = "none"
  /\ handler \in {"selecting", "sending", "returned"} /\ result # "failed" =>
       \A p \in Running : streamer[p] # "none"
  /\ handler = "sending" => hand # Nil
  /\ closed => handler \in {"selecting", "sending", "returned"} /\ result # "failed"

\* The inductive invariant: the channel stays within its bound and the wait group
\* agrees with the goroutines, so the channel is closed after the last of them.
IInv == TypeOK /\ Counted /\ Staged /\ ClosedAfterStreamers

\* A stream that ends by itself has delivered every line it read: the end of
\* the channel is never taken for the end of its content.
EndedMeansDelivered ==
  result = "ended" =>
    \A p \in Running :
      /\ InOrder(p)
      /\ \/ Sent(p) = Selected(p)
         \/ GaveUp(p) /\ Sent(p) \cup {read[p]} = Selected(p)

\* Once the client is gone, or the call has returned and gRPC has cancelled its
\* context, the call ends and leaves no goroutine behind: not one blocked on a
\* full channel nobody reads, not the closing one.
CancelCleansUp ==
  (ctx = "cancelled") ~>
    /\ handler = "returned"
    /\ result # "failed" => closed /\ \A p \in Running : streamer[p] = "done"

\* When the last pod's stream is over, even one that could not be opened, the
\* call returns by itself: the client is not left waiting.
EndsWithPods ==
  (\A p \in Running : streamer[p] = "done") ~> (handler = "returned")

=============================================================================

------------------------- MODULE LiveLogStreamProofs ------------------------
(* Theorems about LiveLogStream, for any pods, any logs and any capacity of  *)
(* the channel.                                                              *)
EXTENDS LiveLogStream, FiniteSetTheorems, TLAPS

-----------------------------------------------------------------------------
(* Counting goroutines.                                                    *)

\* Sets of goroutines are finite, whatever state they are picked by.
LEMMA StreamersFinite ==
  ASSUME NEW S \in SUBSET Running
  PROVE  IsFiniteSet(S) /\ Cardinality(S) \in 0..Cardinality(Running)
<1>1. IsFiniteSet(Running)
  BY StreamAssumption
<1>2. IsFiniteSet(S) /\ Cardinality(S) <= Cardinality(Running)
  BY <1>1, FS_Subset
<1>3. Cardinality(S) \in Nat /\ Cardinality(Running) \in Nat
  BY <1>1, <1>2, FS_CardinalityType
<1> QED BY <1>2, <1>3

LEMMA WorkingFinite ==
  /\ Working \in SUBSET Running
  /\ Cardinality(Working) \in 0..Cardinality(Running)
<1>1. Working \in SUBSET Running
  BY DEF Working
<1> QED BY <1>1, StreamersFinite

\* One goroutine more, one less.
LEMMA OneMoreWorks ==
  ASSUME NEW p \in Running \ Working
  PROVE  /\ Cardinality(Working \cup {p}) = Cardinality(Working) + 1
         /\ Cardinality(Working \cup {p}) \in 0..Cardinality(Running)
<1>1. Working \cup {p} \in SUBSET Running
  BY WorkingFinite
<1>2. IsFiniteSet(Working)
  BY WorkingFinite, StreamersFinite
<1> QED BY <1>1, <1>2, StreamersFinite, FS_AddElement

LEMMA OneLessWorks ==
  ASSUME NEW p \in Working
  PROVE  /\ Cardinality(Working \ {p}) = Cardinality(Working) - 1
         /\ Cardinality(Working \ {p}) \in 0..Cardinality(Running)
<1>1. Working \ {p} \in SUBSET Running
  BY WorkingFinite
<1>2. IsFiniteSet(Working)
  BY WorkingFinite, StreamersFinite
<1> QED BY <1>1, <1>2, StreamersFinite, FS_RemoveElement

-----------------------------------------------------------------------------
(* The inductive invariant.                                                *)

LEMMA InvInit == Init => IInv
<1> SUFFICES ASSUME Init PROVE IInv
  OBVIOUS
<1>1. Working = {}
  BY DEF Init, Working
<1>2. Cardinality({}) = 0
  BY FS_EmptySet
<1>3. Cardinality(Running) \in Nat
  BY StreamAssumption, FS_CardinalityType
<1>4. TypeOK
  <2>1. /\ streamer \in [Running -> {"none", "opening", "reading", "offering", "done"}]
        /\ sent \in [Running -> Seq(Nat)]
    BY DEF Init
  <2>2. ReadOK
    BY StreamAssumption DEF Init, ReadOK
  <2>3. entries \in Seq(Running \X Nat) /\ Len(entries) <= ChanCap
    BY StreamAssumption DEF Init
  <2>4. wg \in 0..Cardinality(Running)
    BY <1>3 DEF Init
  <2>5. /\ handler = "listing" /\ result = "none" /\ ctx = "live" /\ closed = FALSE
        /\ hand = Nil
    BY DEF Init
  <2> QED BY <2>1, <2>2, <2>3, <2>4, <2>5 DEF TypeOK
<1> QED BY <1>1, <1>2, <1>4 DEF Init, IInv, Counted, Staged, ClosedAfterStreamers

\* A step of the handler or of the client leaves the goroutines and their count.
LEMMA HandlerInv ==
  ASSUME IInv,
         ListFails \/ ListPods \/ EnterLoop \/ SeeCancel \/ Receive \/ SeeClosed
           \/ SendOk \/ SendFails \/ Cancel
  PROVE  IInv'
<1> USE DEF IInv
<1>1. /\ UNCHANGED <<streamer, read, wg, closed>>
      /\ Working' = Working /\ (ReadOK' <=> ReadOK)
  BY DEF Working, ReadOK, ListFails, ListPods, EnterLoop, SeeCancel, Receive, SeeClosed, SendOk,
         SendFails, Cancel, Return
<1>2. entries' \in Seq(Running \X Nat) /\ Len(entries') <= ChanCap
        /\ hand' \in (Running \X Nat) \cup {Nil} /\ sent' \in [Running -> Seq(Nat)]
  <2>1. CASE Receive
    <3>1. entries \in Seq(Running \X Nat) /\ entries # <<>> /\ Len(entries) <= ChanCap
      BY <2>1 DEF Receive, TypeOK
    <3>2. entries' = Tail(entries) /\ hand' = Head(entries) /\ sent' = sent
      BY <2>1 DEF Receive
    <3>3. /\ Head(entries) \in Running \X Nat
          /\ Tail(entries) \in Seq(Running \X Nat) /\ Len(Tail(entries)) <= ChanCap
      BY <3>1, StreamAssumption
    <3>4. sent \in [Running -> Seq(Nat)]
      BY DEF TypeOK
    <3> QED BY <3>2, <3>3, <3>4
  <2>2. CASE SendOk
    <3>1. hand \in Running \X Nat
      BY <2>2 DEF SendOk, TypeOK, ReadOK, Staged
    <3>2. sent' \in [Running -> Seq(Nat)]
      <4>1. hand[1] \in Running /\ hand[2] \in Nat
        BY <3>1
      <4>2. sent \in [Running -> Seq(Nat)]
        BY DEF TypeOK
      <4>3. Append(sent[hand[1]], hand[2]) \in Seq(Nat)
        BY <4>1, <4>2
      <4>4. sent' = [sent EXCEPT ![hand[1]] = Append(sent[hand[1]], hand[2])]
        BY <2>2 DEF SendOk
      <4> QED BY <4>1, <4>2, <4>3, <4>4
    <3>3. hand' = Nil /\ entries' = entries
      BY <2>2 DEF SendOk
    <3>4. entries \in Seq(Running \X Nat) /\ Len(entries) <= ChanCap
      BY DEF TypeOK
    <3> QED BY <3>2, <3>3, <3>4
  <2>3. CASE ListFails \/ ListPods \/ EnterLoop \/ SeeCancel \/ SeeClosed \/ SendFails \/ Cancel
    <3>1. /\ entries' = entries /\ sent' = sent
          /\ hand' = hand \/ hand' = Nil
      BY <2>3 DEF ListFails, ListPods, EnterLoop, SeeCancel, SeeClosed, SendFails, Cancel
    <3>2. /\ entries \in Seq(Running \X Nat) /\ Len(entries) <= ChanCap
          /\ hand \in (Running \X Nat) \cup {Nil} /\ sent \in [Running -> Seq(Nat)]
      BY DEF TypeOK
    <3> QED BY <3>1, <3>2
  <2> QED BY <2>1, <2>2, <2>3
<1>3. TypeOK'
  BY <1>1, <1>2 DEF TypeOK, ReadOK, ListFails, ListPods, EnterLoop, SeeCancel, Receive, SeeClosed,
                    SendOk, SendFails, Cancel, Return
<1>4. Staged'
  <2>1. CASE Receive
    <3>1. entries \in Seq(Running \X Nat) /\ entries # <<>>
      BY <2>1 DEF Receive, TypeOK
    <3>2. Head(entries) \in Running \X Nat
      BY <3>1
    <3>3. hand' # Nil
      BY <2>1, <3>2, StreamAssumption DEF Receive
    <3> QED BY <1>1, <2>1, <3>3 DEF Staged, Receive
  <2>2. CASE ListFails \/ ListPods \/ EnterLoop \/ SeeCancel \/ SeeClosed \/ SendOk
               \/ SendFails \/ Cancel
    BY <1>1, <2>2 DEF Staged, ListFails, ListPods, EnterLoop, SeeCancel, SeeClosed, SendOk,
                      SendFails, Cancel, Return
  <2> QED BY <2>1, <2>2
<1> QED BY <1>1, <1>3, <1>4 DEF Counted, ClosedAfterStreamers

\* A goroutine is started, and counted, while the channel is open.
LEMMA SpawnInv ==
  ASSUME IInv, NEW p \in Running, Spawn(p)
  PROVE  IInv'
<1> USE DEF IInv
<1>1. p \in Running \ Working /\ Working' = Working \cup {p}
  BY DEF Spawn, Working, TypeOK, ReadOK
<1>2. Counted' /\ wg' \in 0..Cardinality(Running)
  BY <1>1, OneMoreWorks DEF Counted, Spawn
<1>3. streamer' \in [Running -> {"none", "opening", "reading", "offering", "done"}]
  BY DEF Spawn, TypeOK, ReadOK
<1>4. TypeOK'
  BY <1>2, <1>3 DEF TypeOK, ReadOK, Spawn
<1> QED BY <1>2, <1>4 DEF Spawn, Staged, ClosedAfterStreamers

\* A goroutine leaves, and is no longer counted.
LEMMA LeaveInv ==
  ASSUME IInv, NEW p \in Running, streamer[p] \in {"opening", "reading", "offering"},
         Leave(p), UNCHANGED <<handler, result, entries, closed, hand, sent, ctx>>,
         ReadOK'
  PROVE  IInv'
<1> USE DEF IInv
<1>1. p \in Working /\ Working' = Working \ {p}
  BY DEF Leave, Working, TypeOK, ReadOK
<1>2. Counted' /\ wg' \in 0..Cardinality(Running)
  BY <1>1, OneLessWorks DEF Counted, Leave
<1>3. /\ streamer' \in [Running -> {"none", "opening", "reading", "offering", "done"}]
      /\ \A q \in Running : q # p => streamer'[q] = streamer[q]
      /\ streamer'[p] = "done"
  BY DEF Leave, TypeOK, ReadOK
<1>4. TypeOK'
  BY <1>2, <1>3 DEF TypeOK, ReadOK
<1> QED BY <1>2, <1>3, <1>4 DEF Staged, ClosedAfterStreamers

\* A goroutine goes on: it stays counted, and the channel, if it took an entry, is open.
LEMMA StayInv ==
  ASSUME IInv, NEW p \in Running, streamer[p] \in {"opening", "reading", "offering"},
         NEW place \in {"opening", "reading", "offering"},
         streamer' = [streamer EXCEPT ![p] = place],
         UNCHANGED <<handler, result, ctx, closed, wg, hand, sent>>,
         ReadOK',
         entries' \in Seq(Running \X Nat), Len(entries') <= ChanCap
  PROVE  IInv'
<1> USE DEF IInv
<1>1. /\ streamer' \in [Running -> {"none", "opening", "reading", "offering", "done"}]
      /\ \A q \in Running : q # p => streamer'[q] = streamer[q]
      /\ streamer'[p] \in {"opening", "reading", "offering"}
  BY DEF TypeOK, ReadOK
<1>2. Working' = Working
  BY <1>1 DEF Working
<1>3. TypeOK'
  BY <1>1 DEF TypeOK, ReadOK
<1>4. ~closed
  BY DEF ClosedAfterStreamers
<1> QED BY <1>1, <1>2, <1>3, <1>4 DEF Counted, Staged, ClosedAfterStreamers

LEMMA StreamInv ==
  ASSUME IInv, NEW p \in Running, Stream(p)
  PROVE  IInv'
<1>1. /\ ReadOK
      /\ read' = read => ReadOK'
      /\ \A q \in Running : Len(Log[q]) \in Nat
  <2>1. ReadOK
    BY DEF IInv, TypeOK
  <2>2. \A q \in Running : Len(Log[q]) \in Nat
    BY StreamAssumption
  <2> QED BY <2>1, <2>2 DEF ReadOK
<1>2. entries \in Seq(Running \X Nat) /\ Len(entries) <= ChanCap
  BY DEF IInv, TypeOK, ReadOK
<1>3. CASE OpenFails(p) \/ StreamEnds(p) \/ GiveUp(p)
  BY <1>1, <1>3, LeaveInv DEF OpenFails, StreamEnds, GiveUp
<1>4. CASE Open(p)
  BY <1>1, <1>2, <1>4, StayInv DEF Open
<1>5. CASE Scan(p)
  <2>1. ReadOK'
    <3>1. /\ read' \in [Running -> Nat]
          /\ \A q \in Running : read'[q] = IF q = p THEN read[p] + 1 ELSE read[q]
      BY <1>1, <1>5 DEF Scan, ReadOK
    <3> QED BY <1>1, <1>5, <3>1 DEF Scan, ReadOK
  <2>2. CASE UNCHANGED <<streamer, wg>>
    <3>1. Working' = Working
      BY <2>2 DEF Working
    <3> QED BY <1>5, <2>1, <2>2, <3>1
            DEF Scan, IInv, TypeOK, ReadOK, Counted, Staged, ClosedAfterStreamers
  <2>3. CASE Leave(p)
    BY <1>5, <2>1, <2>3, LeaveInv DEF Scan
  <2>4. CASE streamer' = [streamer EXCEPT ![p] = "offering"] /\ UNCHANGED wg
    BY <1>2, <1>5, <2>1, <2>4, StayInv DEF Scan
  <2> QED BY <1>5, <2>2, <2>3, <2>4 DEF Scan
<1>6. CASE Offer(p)
  <2>1. <<p, read[p]>> \in Running \X Nat
    BY <1>1 DEF ReadOK
  <2>2. entries' \in Seq(Running \X Nat) /\ Len(entries') <= ChanCap
    BY <1>2, <1>6, <2>1, StreamAssumption DEF Offer
  <2> QED BY <1>1, <1>6, <2>2, StayInv DEF Offer
<1> QED BY <1>3, <1>4, <1>5, <1>6 DEF Stream

\* The channel is closed: nobody is counted, so every goroutine has left.
LEMMA CloseInv ==
  ASSUME IInv, CloseEntries
  PROVE  IInv'
<1> USE DEF IInv
<1>1. Working = {}
  <2>1. Cardinality(Working) = 0 /\ IsFiniteSet(Working)
    BY WorkingFinite, StreamersFinite DEF CloseEntries, Counted
  <2> QED BY <2>1, FS_EmptySet
<1>2. \A p \in Running : streamer[p] = "done"
  BY <1>1 DEF Working, CloseEntries, Staged, TypeOK, ReadOK
<1>3. Working' = Working
  BY DEF Working, CloseEntries
<1> QED BY <1>2, <1>3 DEF CloseEntries, TypeOK, ReadOK, Counted, Staged, ClosedAfterStreamers

LEMMA InvNext == IInv /\ [Next]_vars => IInv'
<1> SUFFICES ASSUME IInv, [Next]_vars PROVE IInv'
  OBVIOUS
<1>1. CASE Handle
  BY <1>1, HandlerInv, SpawnInv DEF Handle
<1>2. CASE \E p \in Running : Stream(p)
  BY <1>2, StreamInv
<1>3. CASE CloseEntries
  BY <1>3, CloseInv
<1>4. CASE Cancel
  BY <1>4, HandlerInv
<1>5. CASE UNCHANGED vars
  <2>1. Working' = Working
    BY <1>5 DEF Working, vars
  <2> QED BY <1>5, <2>1 DEF vars, IInv, TypeOK, ReadOK, Counted, Staged, ClosedAfterStreamers
<1> QED BY <1>1, <1>2, <1>3, <1>4, <1>5 DEF Next

-----------------------------------------------------------------------------
(* The way of the lines.                                                   *)

\* The handler holds a line only until it is sent, and ends by itself only when nothing
\* is left to send.
HandlerDone ==
  /\ hand # Nil => handler = "sending"
  /\ result = "ended" => closed /\ entries = <<>>

WayInv == IInv /\ HandlerDone /\ PodOrderKept

\* What the handler may have returned with while its lines are accounted for.
Accounted == result \in {"none", "ended", "cancelled"}

\* The way of the lines of one pod.
Way(p) ==
  /\ InOrder(p)
  /\ \/ Passed(p) \cup Offered(p) = Selected(p)
     \/ GaveUp(p) /\ Passed(p) \cup {read[p]} = Selected(p)

LEMMA PassedTyped ==
  ASSUME IInv, NEW p \in Running
  PROVE  /\ read[p] \in Nat /\ Log[p] \in Seq(Line)
         /\ sent[p] \in Seq(Nat) /\ entries \in Seq(Running \X Nat)
         /\ Sent(p) \subseteq Nat /\ Held(p) \subseteq Nat /\ Queued(p) \subseteq Nat
         /\ Offered(p) \subseteq Nat
<1>1. /\ read[p] \in Nat /\ Log[p] \in Seq(Line)
      /\ sent[p] \in Seq(Nat) /\ entries \in Seq(Running \X Nat)
      /\ hand \in (Running \X Nat) \cup {Nil}
  BY StreamAssumption DEF IInv, TypeOK, ReadOK
<1>2. Sent(p) \subseteq Nat
  BY <1>1 DEF Sent
<1>3. Held(p) \subseteq Nat
  BY <1>1 DEF Held
<1>4. Queued(p) \subseteq Nat
  <2>1. \A i \in DOMAIN entries : entries[i] \in Running \X Nat
    BY <1>1
  <2> QED
    BY <2>1 DEF Queued
<1>5. Offered(p) \subseteq Nat
  BY <1>1 DEF Offered
<1> QED
  BY <1>1, <1>2, <1>3, <1>4, <1>5

\* A step that moves no line of p and reads none.
LEMMA WayStays ==
  ASSUME IInv, NEW p \in Running, Way(p),
         sent'[p] = sent[p], Held(p)' = Held(p), entries' = entries,
         read'[p] = read[p], streamer'[p] = streamer[p],
         ctx = "cancelled" => ctx' = "cancelled"
  PROVE  Way(p)'
<1>1. /\ Sent(p)' = Sent(p) /\ Queued(p)' = Queued(p) /\ Offered(p)' = Offered(p)
      /\ Selected(p)' = Selected(p)
  BY DEF Sent, Queued, Offered, Selected
<1>2. Passed(p)' = Passed(p)
  BY <1>1 DEF Passed
<1>3. InOrder(p)'
  BY <1>1, <1>2 DEF Way, InOrder, Before
<1>4. GaveUp(p) => GaveUp(p)'
  BY DEF GaveUp
<1> QED
  BY <1>1, <1>2, <1>3, <1>4 DEF Way

\* The handler takes the line that has waited longest.
LEMMA ReceiveKeepsWay ==
  ASSUME IInv, hand = Nil, Receive, NEW p \in Running, Way(p)
  PROVE  Way(p)'
<1>1. /\ entries \in Seq(Running \X Nat) /\ entries # <<>>
      /\ UNCHANGED <<sent, read, streamer, ctx>>
  BY DEF Receive, IInv, TypeOK
<1>2. /\ Len(entries) \in Nat /\ Len(entries) >= 1
      /\ DOMAIN entries = 1..Len(entries)
      /\ hand' = entries[1] /\ entries[1] \in Running \X Nat
      /\ DOMAIN entries' = 1..(Len(entries) - 1)
      /\ \A i \in 1..(Len(entries) - 1) : entries'[i] = entries[i + 1]
  BY <1>1 DEF Receive
<1>3. hand' # Nil
  BY <1>2, StreamAssumption
<1>4. Held(p) = {} /\ Held(p)' = {n \in {entries[1][2]} : entries[1][1] = p}
  BY <1>2, <1>3 DEF Held
<1>5. \A n : n \in Queued(p)' <=>
        \E i \in 2..Len(entries) : entries[i][1] = p /\ entries[i][2] = n
  <2>1. ASSUME NEW n, n \in Queued(p)'
        PROVE  \E i \in 2..Len(entries) : entries[i][1] = p /\ entries[i][2] = n
    <3>1. PICK i \in 1..(Len(entries) - 1) : entries'[i][1] = p /\ entries'[i][2] = n
      BY <1>2, <2>1 DEF Queued
    <3> QED
      BY <1>2, <3>1
  <2>2. ASSUME NEW n, NEW i \in 2..Len(entries), entries[i][1] = p, entries[i][2] = n
        PROVE  n \in Queued(p)'
    <3>1. i - 1 \in 1..(Len(entries) - 1) /\ entries'[i - 1] = entries[i]
      BY <1>2
    <3> QED
      BY <1>2, <2>2, <3>1 DEF Queued
  <2> QED
    BY <2>1, <2>2
<1>6. \A n : n \in Queued(p) <=>
        \E i \in 1..Len(entries) : entries[i][1] = p /\ entries[i][2] = n
  BY <1>2 DEF Queued
<1>7. Queued(p) = Held(p)' \cup Queued(p)'
  BY <1>2, <1>4, <1>5, <1>6
<1>8. Passed(p)' = Passed(p) /\ Sent(p)' = Sent(p) /\ Offered(p)' = Offered(p)
      /\ Selected(p)' = Selected(p)
  BY <1>1, <1>4, <1>7 DEF Passed, Sent, Offered, Selected
<1>9. \A i, j \in 1..Len(entries) :
        i < j /\ entries[i][1] = p /\ entries[j][1] = p => entries[i][2] < entries[j][2]
  BY <1>2 DEF Way, InOrder
<1>10. Before(Held(p)', Queued(p)')
  BY <1>2, <1>4, <1>5, <1>9 DEF Before
<1>11. \A i, j \in DOMAIN entries' :
         i < j /\ entries'[i][1] = p /\ entries'[j][1] = p => entries'[i][2] < entries'[j][2]
  BY <1>2, <1>9
<1>12. Before(Sent(p), Held(p)' \cup Queued(p)') /\ Before(Passed(p), Offered(p))
  BY <1>7 DEF Way, InOrder, Before
<1>13. InOrder(p)'
  BY <1>1, <1>8, <1>10, <1>11, <1>12 DEF Way, InOrder, Before
<1> QED
  BY <1>1, <1>8, <1>13 DEF Way, GaveUp

\* The client gets the line the handler holds.
LEMMA SendKeepsWay ==
  ASSUME IInv, SendOk, NEW p \in Running, Way(p)
  PROVE  Way(p)'
<1>1. /\ hand \in Running \X Nat /\ hand # Nil /\ hand' = Nil
      /\ sent' = [sent EXCEPT ![hand[1]] = Append(sent[hand[1]], hand[2])]
      /\ sent \in [Running -> Seq(Nat)]
      /\ UNCHANGED <<entries, read, streamer, ctx>>
  BY DEF SendOk, IInv, TypeOK, Staged
<1>2. Held(p)' = {}
  BY <1>1 DEF Held
<1>3. CASE hand[1] # p
  <2>1. Held(p) = {} /\ sent'[p] = sent[p]
    BY <1>1, <1>3 DEF Held
  <2> QED
    BY <1>1, <1>2, <2>1, WayStays
<1>4. CASE hand[1] = p
  <2>1. /\ sent[p] \in Seq(Nat) /\ sent'[p] = Append(sent[p], hand[2])
        /\ hand[2] \in Nat /\ Held(p) = {hand[2]}
    BY <1>1, <1>4 DEF Held
  <2>2. /\ Len(sent[p]) \in Nat /\ DOMAIN sent[p] = 1..Len(sent[p])
        /\ DOMAIN sent'[p] = 1..(Len(sent[p]) + 1)
        /\ \A i \in 1..Len(sent[p]) : sent'[p][i] = sent[p][i]
        /\ sent'[p][Len(sent[p]) + 1] = hand[2]
    BY <2>1
  <2>3. \A i \in 1..(Len(sent[p]) + 1) : i \in 1..Len(sent[p]) \/ i = Len(sent[p]) + 1
    BY <2>2
  <2>4. Sent(p)' = Sent(p) \cup {hand[2]}
    <3>1. \A n : n \in Sent(p) <=> \E i \in 1..Len(sent[p]) : sent[p][i] = n
      BY <2>2 DEF Sent
    <3>2. \A n : n \in Sent(p)' <=> \E i \in 1..(Len(sent[p]) + 1) : sent'[p][i] = n
      BY <2>2 DEF Sent
    <3>3. \A n \in Sent(p)' : n \in Sent(p) \/ n = hand[2]
      BY <2>2, <2>3, <3>1, <3>2
    <3>4. \A n \in Sent(p) : n \in Sent(p)'
      <4>1. \A i \in 1..Len(sent[p]) : i \in 1..(Len(sent[p]) + 1)
        BY <2>2
      <4> QED
        BY <2>2, <3>1, <3>2, <4>1
    <3>5. hand[2] \in Sent(p)'
      <4>1. Len(sent[p]) + 1 \in 1..(Len(sent[p]) + 1)
        BY <2>2
      <4> QED
        BY <2>2, <3>2, <4>1
    <3> QED
      BY <3>3, <3>4, <3>5
  <2>5. Passed(p)' = Passed(p)
    BY <1>1, <1>2, <2>1, <2>4 DEF Passed, Queued
  <2>6. \A i \in DOMAIN sent[p] : sent[p][i] < hand[2]
    BY <2>1 DEF Way, InOrder, Before, Sent
  <2>7. \A i, j \in DOMAIN sent'[p] : i < j => sent'[p][i] < sent'[p][j]
    <3>1. \A i, j \in 1..Len(sent[p]) : i < j => sent[p][i] < sent[p][j]
      BY <2>2 DEF Way, InOrder
    <3> QED
      BY <2>2, <2>3, <2>6, <3>1
  <2>8. /\ Queued(p)' = Queued(p) /\ Offered(p)' = Offered(p)
        /\ Selected(p)' = Selected(p)
    BY <1>1 DEF Queued, Offered, Selected
  <2>9. InOrder(p)'
    BY <1>1, <1>2, <2>1, <2>4, <2>5, <2>7, <2>8 DEF Way, InOrder, Before
  <2> QED
    BY <1>1, <2>5, <2>8, <2>9 DEF Way, GaveUp
<1> QED
  BY <1>3, <1>4

LEMMA HandlerWay ==
  ASSUME WayInv, IInv',
         ListFails \/ ListPods \/ EnterLoop \/ SeeCancel \/ Receive \/ SeeClosed
           \/ SendOk \/ SendFails \/ Cancel \/ CloseEntries \/ \E q \in Running : Spawn(q)
  PROVE  WayInv'
<1>1. Accounted' => Accounted
  BY DEF Accounted, ListFails, ListPods, EnterLoop, SeeCancel, Receive, SeeClosed, SendOk,
         SendFails, Cancel, CloseEntries, Spawn, Return, WayInv, IInv, Staged
<1>2. HandlerDone'
  BY DEF HandlerDone, ListFails, ListPods, EnterLoop, SeeCancel, Receive, SeeClosed, SendOk,
         SendFails, Cancel, CloseEntries, Spawn, Return, WayInv, IInv, Staged
<1>3. ASSUME NEW p \in Running, Accounted' PROVE Way(p)'
  <2>1. Way(p)
    BY <1>1, <1>3 DEF Accounted, WayInv, PodOrderKept, Way
  <2>2. CASE Receive
    BY <2>1, <2>2, ReceiveKeepsWay DEF WayInv, HandlerDone, Receive
  <2>3. CASE SendOk
    BY <2>1, <2>3, SendKeepsWay DEF WayInv
  <2>4. CASE SendFails \/ ListFails
    BY <1>3, <2>4 DEF SendFails, ListFails, Return, Accounted
  <2>5. CASE ListPods \/ EnterLoop \/ SeeCancel \/ SeeClosed \/ Cancel \/ CloseEntries
    <3>1. UNCHANGED <<sent, hand, entries, read, streamer>>
          /\ (ctx = "cancelled" => ctx' = "cancelled")
      BY <2>5 DEF ListPods, EnterLoop, SeeCancel, SeeClosed, Cancel, CloseEntries
    <3>2. Held(p)' = Held(p)
      BY <3>1 DEF Held
    <3> QED
      BY <2>1, <3>1, <3>2, WayStays DEF WayInv
  <2>6. ASSUME NEW q \in Running, Spawn(q) PROVE Way(p)'
    <3>1. /\ streamer[q] = "none" /\ streamer' = [streamer EXCEPT ![q] = "opening"]
          /\ streamer \in [Running -> {"none", "opening", "reading", "offering", "done"}]
          /\ UNCHANGED <<sent, hand, entries, read, ctx>>
      BY <2>6 DEF Spawn, WayInv, IInv, TypeOK
    <3>2. Held(p)' = Held(p) /\ Sent(p)' = Sent(p) /\ Queued(p)' = Queued(p)
          /\ Selected(p)' = Selected(p)
      BY <3>1 DEF Held, Sent, Queued, Selected
    <3>3. Offered(p)' = Offered(p) /\ (GaveUp(p)' <=> GaveUp(p))
      BY <3>1 DEF Offered, GaveUp
    <3>4. Passed(p)' = Passed(p)
      BY <3>2 DEF Passed
    <3> QED
      BY <2>1, <3>1, <3>2, <3>3, <3>4 DEF Way, InOrder, Before
  <2> QED
    BY <2>2, <2>3, <2>4, <2>5, <2>6
<1> QED
  BY <1>2, <1>3 DEF WayInv, PodOrderKept, Accounted, Way

\* A step of the goroutine of p leaves the lines of the others where they are.
LEMMA OthersKeepWay ==
  ASSUME IInv, NEW p \in Running, NEW q \in Running \ {p}, Stream(p), Way(q)
  PROVE  Way(q)'
<1>1. /\ UNCHANGED <<sent, hand, ctx>>
      /\ read'[q] = read[q] /\ streamer'[q] = streamer[q]
      /\ entries' = entries \/ entries' = Append(entries, <<p, read[p]>>)
  BY DEF Stream, OpenFails, Open, Scan, StreamEnds, Offer, GiveUp, Leave, IInv, TypeOK, ReadOK
<1>2. Held(q)' = Held(q)
  BY <1>1 DEF Held
<1>3. CASE entries' = entries
  BY <1>1, <1>2, <1>3, WayStays
<1>4. CASE entries' = Append(entries, <<p, read[p]>>)
  <2>1. /\ entries \in Seq(Running \X Nat) /\ Len(entries) \in Nat
        /\ DOMAIN entries = 1..Len(entries) /\ DOMAIN entries' = 1..(Len(entries) + 1)
        /\ \A i \in 1..Len(entries) : entries'[i] = entries[i]
        /\ entries'[Len(entries) + 1] = <<p, read[p]>>
    BY <1>4, PassedTyped
  <2>2. \A i \in DOMAIN entries' :
          entries'[i][1] = q => i \in DOMAIN entries /\ entries'[i] = entries[i]
    BY <2>1
  <2>3. Queued(q)' = Queued(q)
    BY <2>1, <2>2 DEF Queued
  <2>4. /\ Sent(q)' = Sent(q) /\ Offered(q)' = Offered(q) /\ Selected(q)' = Selected(q)
        /\ (GaveUp(q)' <=> GaveUp(q))
    BY <1>1 DEF Sent, Offered, Selected, GaveUp
  <2>5. Passed(q)' = Passed(q)
    BY <1>2, <2>3, <2>4 DEF Passed
  <2>6. InOrder(q)'
    BY <1>1, <1>2, <2>2, <2>3, <2>4, <2>5 DEF Way, InOrder, Before
  <2> QED
    BY <1>1, <2>4, <2>5, <2>6 DEF Way
<1> QED
  BY <1>1, <1>3, <1>4

\* A goroutine scans a line: it offers it if it is selected.
LEMMA ScanKeepsWay ==
  ASSUME IInv, NEW p \in Running, Scan(p), Way(p)
  PROVE  Way(p)'
<1>1. /\ streamer[p] = "reading" /\ read'[p] = read[p] + 1 /\ read[p] < Len(Log[p])
      /\ UNCHANGED <<sent, hand, entries, ctx>>
  BY DEF Scan, IInv, TypeOK, ReadOK
<1>2. /\ Held(p)' = Held(p) /\ Sent(p)' = Sent(p) /\ Queued(p)' = Queued(p)
      /\ Offered(p) = {} /\ ~GaveUp(p)
  BY <1>1 DEF Held, Sent, Queued, Offered, GaveUp
<1>3. Passed(p)' = Passed(p) /\ Passed(p) = Selected(p)
  BY <1>2 DEF Passed, Way
<1>4. read[p] \in Nat
  BY PassedTyped
<1>5. \A n \in Passed(p) : n \in 1..read[p]
  BY <1>3 DEF Selected
<1> DEFINE line == Log[p][read[p] + 1]
           chosen == line.matches /\ ~line.late
<1>6. Selected(p)' = Selected(p) \cup {n \in {read[p] + 1} : chosen}
  <2>1. \A n : n \in 1..(read[p] + 1) <=> n \in 1..read[p] \/ n = read[p] + 1
    BY <1>4
  <2> QED
    BY <1>1, <2>1 DEF Selected
<1>7. Offered(p)' = {n \in {read[p] + 1} : chosen}
  <2>1. streamer'[p] = "offering" <=> chosen
    BY <1>1 DEF Scan, Leave, IInv, TypeOK
  <2> QED
    BY <1>1, <2>1 DEF Offered
<1> HIDE DEF line, chosen
<1>8. Before(Passed(p)', Offered(p)')
  BY <1>3, <1>4, <1>5, <1>7 DEF Before
<1>9. InOrder(p)'
  BY <1>1, <1>2, <1>8 DEF Way, InOrder, Before
<1> QED
  BY <1>3, <1>6, <1>7, <1>9 DEF Way

\* The channel takes the line a goroutine offers, after all it holds.
LEMMA OfferKeepsWay ==
  ASSUME IInv, NEW p \in Running, Offer(p), Way(p)
  PROVE  Way(p)'
<1>1. /\ streamer[p] = "offering" /\ streamer'[p] = "reading"
      /\ entries' = Append(entries, <<p, read[p]>>)
      /\ UNCHANGED <<sent, hand, read, ctx>>
  BY DEF Offer, IInv, TypeOK
<1>2. /\ Held(p)' = Held(p) /\ Sent(p)' = Sent(p) /\ Selected(p)' = Selected(p)
      /\ Offered(p) = {read[p]} /\ Offered(p)' = {} /\ ~GaveUp(p)
  BY <1>1 DEF Held, Sent, Selected, Offered, GaveUp
<1>3. /\ entries \in Seq(Running \X Nat) /\ Len(entries) \in Nat
      /\ DOMAIN entries = 1..Len(entries) /\ DOMAIN entries' = 1..(Len(entries) + 1)
      /\ \A i \in 1..Len(entries) : entries'[i] = entries[i]
      /\ entries'[Len(entries) + 1] = <<p, read[p]>>
  BY <1>1, PassedTyped
<1>4. \A i \in DOMAIN entries' : i \in DOMAIN entries \/ i = Len(entries) + 1
  BY <1>3
<1>5. Queued(p)' = Queued(p) \cup {read[p]}
  <2>1. \A n : n \in Queued(p) <=>
          \E i \in 1..Len(entries) : entries[i][1] = p /\ entries[i][2] = n
    BY <1>3 DEF Queued
  <2>2. \A n : n \in Queued(p)' <=>
          \E i \in 1..(Len(entries) + 1) : entries'[i][1] = p /\ entries'[i][2] = n
    BY <1>3 DEF Queued
  <2>3. Len(entries) + 1 \in 1..(Len(entries) + 1)
        /\ <<p, read[p]>>[1] = p /\ <<p, read[p]>>[2] = read[p]
    BY <1>3
  <2>4. \A n \in Queued(p)' : n \in Queued(p) \/ n = read[p]
    BY <1>3, <1>4, <2>1, <2>2, <2>3
  <2>5. \A n \in Queued(p) : n \in Queued(p)'
    <3>1. \A i \in 1..Len(entries) : i \in 1..(Len(entries) + 1)
      BY <1>3
    <3> QED
      BY <1>3, <2>1, <2>2, <3>1
  <2>6. read[p] \in Queued(p)'
    BY <1>3, <2>2, <2>3
  <2> QED
    BY <2>4, <2>5, <2>6
<1>6. Passed(p)' = Passed(p) \cup {read[p]}
  BY <1>2, <1>5 DEF Passed
<1>7. \A n \in Passed(p) : n < read[p]
  BY <1>2 DEF Way, InOrder, Before
<1>8. \A i \in DOMAIN entries : entries[i][1] = p => entries[i][2] < read[p]
  BY <1>7 DEF Passed, Queued
<1>9. \A i, j \in DOMAIN entries' :
        i < j /\ entries'[i][1] = p /\ entries'[j][1] = p => entries'[i][2] < entries'[j][2]
  <2>1. \A i, j \in 1..Len(entries) :
          i < j /\ entries[i][1] = p /\ entries[j][1] = p => entries[i][2] < entries[j][2]
    BY <1>3 DEF Way, InOrder
  <2>2. <<p, read[p]>>[2] = read[p]
    OBVIOUS
  <2> QED
    BY <1>3, <1>4, <1>8, <2>1, <2>2
<1>10. InOrder(p)'
  BY <1>1, <1>2, <1>5, <1>7, <1>9 DEF Way, InOrder, Before, Passed
<1> QED
  BY <1>2, <1>6, <1>10 DEF Way

LEMMA StreamWay ==
  ASSUME WayInv, IInv', NEW p \in Running, Stream(p)
  PROVE  WayInv'
<1>1. UNCHANGED <<handler, result, hand, closed, ctx, sent>> /\ streamer[p] # "done"
  BY DEF Stream, OpenFails, Open, Scan, StreamEnds, Offer, GiveUp
<1>2. HandlerDone'
  BY <1>1 DEF HandlerDone, WayInv, IInv, ClosedAfterStreamers
<1>3. ASSUME Way(p) PROVE Way(p)'
  <2>1. CASE Scan(p)
    BY <1>3, <2>1, ScanKeepsWay DEF WayInv
  <2>2. CASE Offer(p)
    BY <1>3, <2>2, OfferKeepsWay DEF WayInv
  <2>3. CASE OpenFails(p) \/ Open(p) \/ StreamEnds(p) \/ GiveUp(p)
    <3>1. /\ UNCHANGED <<sent, hand, entries, read>> /\ streamer'[p] # "offering"
          /\ streamer[p] = "offering" => streamer'[p] = "done" /\ ctx = "cancelled"
      BY <2>3 DEF OpenFails, Open, StreamEnds, GiveUp, Leave, WayInv, IInv, TypeOK
    <3>2. /\ Held(p)' = Held(p) /\ Sent(p)' = Sent(p) /\ Queued(p)' = Queued(p)
          /\ Selected(p)' = Selected(p) /\ Offered(p)' = {}
      BY <3>1 DEF Held, Sent, Queued, Selected, Offered
    <3>3. Passed(p)' = Passed(p) /\ ~GaveUp(p)
      BY <1>1, <3>2 DEF Passed, GaveUp
    <3>4. InOrder(p)'
      BY <1>3, <3>1, <3>2, <3>3 DEF Way, InOrder, Before
    <3>5. CASE streamer[p] = "offering"
      <4>1. GaveUp(p)' /\ Passed(p)' \cup {read'[p]} = Selected(p)'
        BY <1>1, <1>3, <3>1, <3>2, <3>3, <3>5 DEF Way, GaveUp, Offered
      <4> QED
        BY <3>4, <4>1 DEF Way
    <3>6. CASE streamer[p] # "offering"
      <4>1. Offered(p) = {}
        BY <3>6 DEF Offered
      <4> QED
        BY <1>3, <3>2, <3>3, <3>4, <4>1 DEF Way
    <3> QED
      BY <3>5, <3>6
  <2> QED
    BY <2>1, <2>2, <2>3 DEF Stream
<1>4. \A q \in Running : Way(q) => Way(q)'
  BY <1>3, OthersKeepWay DEF WayInv
<1>5. PodOrderKept'
  BY <1>1, <1>4 DEF WayInv, PodOrderKept, Way
<1> QED
  BY <1>2, <1>5 DEF WayInv

LEMMA WayInit == Init => WayInv
<1> SUFFICES ASSUME Init PROVE WayInv
  OBVIOUS
<1>1. ASSUME NEW p \in Running PROVE Way(p)
  <2>1. /\ Sent(p) = {} /\ Held(p) = {} /\ Queued(p) = {} /\ Offered(p) = {}
        /\ Selected(p) = {}
    BY DEF Init, Sent, Held, Queued, Offered, Selected
  <2>2. sent[p] = <<>> /\ entries = <<>>
    BY DEF Init
  <2> QED
    BY <2>1, <2>2 DEF Way, InOrder, Before, Passed
<1> QED
  BY <1>1, InvInit DEF WayInv, PodOrderKept, Way, HandlerDone, Init

LEMMA WayNext == WayInv /\ [Next]_vars => WayInv'
<1> SUFFICES ASSUME WayInv, [Next]_vars PROVE WayInv'
  OBVIOUS
<1>1. IInv'
  BY InvNext DEF WayInv
<1>2. CASE Handle
  BY <1>1, <1>2, HandlerWay DEF Handle
<1>3. CASE \E p \in Running : Stream(p)
  BY <1>1, <1>3, StreamWay
<1>4. CASE CloseEntries \/ Cancel
  BY <1>1, <1>4, HandlerWay
<1>5. CASE UNCHANGED vars
  <2>1. UNCHANGED <<handler, result, ctx, streamer, read, entries, closed, wg, hand, sent>>
    BY <1>5 DEF vars
  <2>2. \A p \in Running : Held(p)' = Held(p)
    BY <2>1 DEF Held
  <2>3. \A p \in Running : Way(p) => Way(p)'
    BY <2>1, <2>2, WayStays DEF WayInv
  <2>4. HandlerDone' /\ PodOrderKept'
    BY <2>1, <2>3 DEF WayInv, HandlerDone, PodOrderKept, Way
  <2> QED
    BY <1>1, <2>4 DEF WayInv
<1> QED
  BY <1>2, <1>3, <1>4, <1>5 DEF Next

-----------------------------------------------------------------------------

\* The wait group, the channel and the goroutines of a live stream (logs.go,
\* streamLiveLogs) agree at every step.
THEOREM Inductive == Spec => []IInv
BY InvInit, InvNext, PTL DEF Spec

\* No goroutine is left when the channel is closed, so none sends on a closed channel
\* and brings the server down.
THEOREM ClosesAfterTheLast == Spec => []ClosedAfterStreamers
<1>1. IInv => ClosedAfterStreamers
  BY DEF IInv
<1> QED BY Inductive, <1>1, PTL

\* Between the scan of a pod and its client no line is lost, repeated or overtaken by a
\* later one of the same pod (streamPodLogs and the loop of streamLiveLogs), for any
\* logs and any capacity of the channel; a cancellation loses at most the last line read.
THEOREM LinesKeepTheirOrder == Spec => []PodOrderKept
<1>1. WayInv => PodOrderKept
  BY DEF WayInv
<1> QED
  BY WayInit, WayNext, <1>1, PTL DEF Spec

\* A stream that ends by itself has delivered every line it read.
THEOREM EndDelivers == Spec => []EndedMeansDelivered
<1>1. WayInv => EndedMeansDelivered
  <2> SUFFICES ASSUME WayInv, result = "ended", NEW p \in Running
               PROVE  /\ InOrder(p)
                      /\ \/ Sent(p) = Selected(p)
                         \/ GaveUp(p) /\ Sent(p) \cup {read[p]} = Selected(p)
    BY DEF EndedMeansDelivered
  <2>1. entries = <<>> /\ hand = Nil /\ streamer[p] = "done"
    BY DEF WayInv, HandlerDone, IInv, Staged, ClosedAfterStreamers
  <2>2. Queued(p) = {} /\ Held(p) = {} /\ Offered(p) = {}
    BY <2>1 DEF Queued, Held, Offered
  <2>3. Passed(p) = Sent(p)
    BY <2>2 DEF Passed
  <2> QED
    BY <2>2, <2>3 DEF WayInv, PodOrderKept
<1> QED
  BY WayInit, WayNext, <1>1, PTL DEF Spec

=============================================================================

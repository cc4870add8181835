---------------------------- MODULE ReadContract ----------------------------
(***************************************************************************)
(* What the cached read functions promise their callers, with no cache in  *)
(* sight: a call asks for a query and gets, at some later moment, either a *)
(* refusal or an answer.  The answer was read from the cluster at a moment *)
(* that is not too old, for a query that reads the same thing, and is whole*)
(* where the query's kind promises whole answers.                          *)
(*                                                                         *)
(* ApiCache implements this specification (ApiCache!Contract).             *)
(***************************************************************************)
EXTENDS Integers

CONSTANTS
  Requests,       \* calls
  Queries,        \* what a call may ask for
  MaxAge,         \* [Queries -> Nat]: how old an answer may be, at most
  AnsweredBy,     \* [Queries -> SUBSET Queries]: whose reads answer a query
  Whole,          \* the queries that are never answered in part
  Reliable,       \* the queries that are never refused
  MaxTime,
  Nil

VARIABLES
  clock,
  call   \* [Requests -> what the caller can see of the call]

\* A call that waits, or was refused, has no answer.
Call(status, q, asked, ofQuery, readAt, whole) ==
  [status |-> status, query |-> q, asked |-> asked,
   of |-> ofQuery, readAt |-> readAt, whole |-> whole]

Init ==
  /\ clock = 0
  /\ call = [r \in Requests |-> Call("none", Nil, 0, Nil, 0, FALSE)]

Tick ==
  /\ clock < MaxTime
  /\ clock' = clock + 1
  /\ UNCHANGED call

Ask(r, q) ==
  /\ call[r].status # "waiting"
  /\ call' = [call EXCEPT ![r] = Call("waiting", q, clock, Nil, 0, FALSE)]
  /\ UNCHANGED clock

\* The answer is younger than MaxAge when the call begins: a read that ended
\* before it, or one made for the call itself.
AnswerWith(r, p, t, whole) ==
  /\ t + MaxAge[call[r].query] > call[r].asked
  /\ call[r].query \in Whole => whole
  /\ call' = [call EXCEPT ![r] = Call("answered", @.query, @.asked, p, t, whole)]
  /\ UNCHANGED clock

Answer(r) ==
  /\ call[r].status = "waiting"
  /\ \E p \in AnsweredBy[call[r].query], t \in 0..clock, whole \in BOOLEAN :
       AnswerWith(r, p, t, whole)

Refuse(r) ==
  /\ call[r].status = "waiting"
  /\ call[r].query \notin Reliable
  /\ call' = [call EXCEPT ![r] = Call("refused", @.query, @.asked, Nil, 0, FALSE)]
  /\ UNCHANGED clock

Next ==
  \/ Tick
  \/ \E r \in Requests :
       \/ \E q \in Queries : Ask(r, q)
       \/ Answer(r)
       \/ Refuse(r)

Spec == Init /\ [][Next]_<<clock, call>>

=============================================================================

----------------------------- MODULE MCApiCache -----------------------------
(* Instances of ApiCache for TLC: sets of queries. *)
EXTENDS ApiCache, TLC

CONSTANTS w1, c1, s1, e1, bad, term

Absent == [api |-> "context", target |-> Nil, ctx |-> Nil, since |-> 0,
           start |-> Nil, end |-> Nil, search |-> Nil]

Logs(w) == [Absent EXCEPT !.api = "logs", !.target = w]

\* More distinct results than the log cache holds, for one workload: a range whose end
\* parses, one whose end does not, and the first in another context, with a search
\* term and with minutes over the maximum, which a range leaves out.
CrowdingQueries ==
  { [Logs(w1) EXCEPT !.start = s1, !.end = e1],
    [Logs(w1) EXCEPT !.start = s1, !.end = bad],
    [Logs(w1) EXCEPT !.start = s1, !.end = e1, !.ctx = c1, !.search = term,
                     !.since = MaxSince + 1] }

\* One query of each kind that can be answered whole, in part or not at all.
ContractQueries ==
  { Absent, [Absent EXCEPT !.api = "namespaces", !.ctx = c1],
    [Logs(w1) EXCEPT !.search = term] }

\* Ranges that have an end and no start.
EndOnlyQueries ==
  { [Logs(w1) EXCEPT !.end = e1, !.since = m] : m \in {DefaultSince, MaxSince} }

\* Calls are interchangeable: only safety is checked.
RequestSymmetry == Permutations(Requests)

=============================================================================

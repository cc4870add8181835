----------------------------- MODULE MCLogPanel -----------------------------
(* Instances of LogPanel for TLC. *)
EXTENDS LogPanel

\* Two pods; the line of one matches the search.
TwoPods == {[pod |-> "a", hit |-> TRUE], [pod |-> "b", hit |-> FALSE]}

=============================================================================

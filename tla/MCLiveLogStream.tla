-------------------------- MODULE MCLiveLogStream ---------------------------
(* An instance of LiveLogStream for TLC: two pods whose lines more than fill *)
(* the channel, one of them with lines that do not match and a late one.     *)
EXTENDS LiveLogStream

CONSTANTS p1, p2

Plain == [matches |-> TRUE, late |-> FALSE]
Other == [matches |-> FALSE, late |-> FALSE]
Late  == [matches |-> TRUE, late |-> TRUE]

TwoPodLog ==
  [p \in {p1, p2} |-> IF p = p1 THEN <<Plain, Other, Plain, Late, Plain>>
                                ELSE <<Plain, Plain, Plain>>]

=============================================================================

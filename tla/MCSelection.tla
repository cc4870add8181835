---------------------------- MODULE MCSelection -----------------------------
(* An instance of Selection for TLC. *)
EXTENDS Selection

CONSTANTS a, b, n, preferred

\* The current context has the preferred namespace, not first; without a context
\* there is another one; the namespaces of the second context cannot be seen.
ThreeLists ==
  [c \in Contexts \cup {Unset} |->
     CASE c = a -> <<n, preferred>> [] c = Unset -> <<n>> [] c = b -> <<>>]

=============================================================================

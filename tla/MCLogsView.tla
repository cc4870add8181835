----------------------------- MODULE MCLogsView -----------------------------
(* An instance of LogsView for TLC. *)
EXTENDS LogsView

CONSTANTS word, key, value

\* A word, a field, and a URL, which is no field.
Word == [key |-> Blank, value |-> word]
Field == [key |-> key, value |-> value]
Url == [key |-> word, value |-> Blank]

\* Two JSON lines of two levels, one with the level under a second name, and a plain
\* line of another pod.  The row keys of the JSON lines differ by their place alone.
ThreeEntries ==
  { [rank |-> 1, source |-> "p", json |-> TRUE, levels |-> <<"crit">>,
     says |-> {Word}, fields |-> {}],
    [rank |-> 2, source |-> "q", json |-> FALSE, levels |-> <<"error">>,
     says |-> {Word, Url}, fields |-> {Field}],
    [rank |-> 3, source |-> "p", json |-> TRUE, levels |-> <<Blank, "warn">>,
     says |-> {}, fields |-> {Field}] }

SomeQueries == { {}, {Word}, {Url, Field} }

SomeBoxes ==
  { [key |-> Blank, value |-> Blank], [key |-> key, value |-> Blank], Field }

=============================================================================

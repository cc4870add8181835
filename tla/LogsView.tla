------------------------------ MODULE LogsView ------------------------------
(***************************************************************************)
(* The log lines on the screen: LogsTab (frontend/src/components/          *)
(* logs-tab.tsx), the log detail of InspectorPanel (inspector-panel.tsx)   *)
(* and the counts of WorkloadDetails (workload-details.tsx), fed by the    *)
(* derived values of useMonitorData (hooks/use-monitor-data.ts) and        *)
(* utils/monitor.ts.  One number, selectedLogIndex (page.tsx), is shared   *)
(* by the list, which shows filteredLogs, and the inspector, which has     *)
(* parsedLogs.  LogPanel models the requests the lines come from.          *)
(*                                                                         *)
(* A line is told apart by what the filters ask of it.  Indexes count from *)
(* 1, and 0 is null.  What the user does is bounded by MaxEvents.          *)
(***************************************************************************)
EXTENDS Lists, FiniteSets

CONSTANTS
  Entries,   \* the lines a server may send, as records of Entry
  Queries,   \* what is typed into the search: sets of tokens
  Boxes,     \* what is typed into the two inputs of the field filter
  All,       \* "__all__"
  Blank,     \* an empty string, a missing key, or a value that is a URL's //
  MaxEvents

\* rank is the place in the order of sortLogs, levels the values of the keys
\* detectLogLevel tries, says the words and fields the values of the line.
Entry(e) ==
  /\ DOMAIN e = {"rank", "source", "json", "levels", "says", "fields"}
  /\ e.rank \in Nat /\ e.json \in BOOLEAN

ASSUME ViewAssumption ==
  /\ \A e \in Entries : Entry(e)
  /\ \A d, e \in Entries : d.rank = e.rank => d = e
  /\ {} \in Queries
  /\ [key |-> Blank, value |-> Blank] \in Boxes
  /\ MaxEvents \in Nat

VARIABLES
  logs,         \* the lines in the state
  streaming,    \* the request of these lines is still open
  search,       \* the search input
  box,          \* [key, value]: the inputs of the field filter
  selectedTags,
  selected,     \* selectedLogIndex
  expanded,     \* expandedLogRows: the row keys that are true
  meant,        \* history: the lines that were clicked, and unfolded under their key
  moved,        \* history: whether the rows of a mark have changed since
  events        \* what the user has done so far

vars == <<logs, streaming, search, box, selectedTags, selected, expanded,
          meant, moved, events>>

inputs == <<search, box, selectedTags>>
marks == <<selected, expanded, meant>>

-----------------------------------------------------------------------------
(* What is derived from the state on every render.                         *)

\* key:value is a field, unless its value is empty or starts with //.
IsField(token) == Blank \notin {token.key, token.value}

parseLogSearchQuery(query) ==
  [text |-> {t \in query : ~IsField(t)}, fields |-> {t \in query : IsField(t)}]

\* The first of the keys level, logLevel, log_level, severity, lvl that has a value.
detectLogLevel(e) ==
  LET given == SelectSeq(e.levels, LAMBDA v : v # Blank)
  IN  IF given = <<>> THEN Blank ELSE given[1]

\* Only a line that is a JSON object has a level.
level(e) == IF e.json THEN detectLogLevel(e) ELSE Blank

\* The lines that contain the text of the search, parsed; newer lines of the state
\* come after older ones until the stream has ended.
parsedLogs ==
  Filter(logs, [i \in DOMAIN logs |->
                  parseLogSearchQuery(search).text \subseteq logs[i].says])

TagsOf(e) ==
  {t \in {"json"} : e.json} \cup {IF level(e) = Blank THEN "other" ELSE level(e)}

allTags == UNION {TagsOf(parsedLogs[i]) : i \in DOMAIN parsedLogs}

fieldFilters ==
  parseLogSearchQuery(search).fields \cup {b \in {box} : Blank \notin {b.key, b.value}}

\* A field is found by its name, whatever its case, or by its dotted path.
matchesFieldFilters(e, filters) ==
  filters = {} \/ (e.json /\ filters \subseteq e.fields)

\* Mutant of activeSelectedTags: tags that no line has any more still count.
activeSelectedTagsStale == selectedTags

\* Tags that no line has any more are left out, but stay in the state.
activeSelectedTags ==
  IF All \in selectedTags \/ selectedTags \cap allTags = {}
    THEN {All} ELSE selectedTags \cap allTags

filteredLogs ==
  LET lines == parsedLogs
      tags == activeSelectedTags
      filters == fieldFilters
  IN  Filter(lines, [i \in DOMAIN lines |->
        /\ All \in tags \/ TagsOf(lines[i]) \cap tags # {}
        /\ matchesFieldFilters(lines[i], filters)])

rowKey(i) == <<filteredLogs[i].source, i>>

\* The rows of the list.
Rows ==
  LET shown == filteredLogs IN
  [i \in DOMAIN shown |->
     [entry |-> shown[i],
      isSelected |-> selected = i,
      isExpanded |-> rowKey(i) \in expanded /\ shown[i].json]]

\* Mutant of selectedLog: nothing protects against an index that is off by one.
selectedLogShifted ==
  {parsedLogs[i] : i \in {selected + 1} \cap DOMAIN parsedLogs}

\* The line of the inspector, if there is one.
selectedLog == {parsedLogs[i] : i \in {selected} \cap DOMAIN parsedLogs}

levelVariant(l) ==
  CASE l \in {"error", "err", "fatal", "crit"} -> "error"
    [] l \in {"warn", "warning"} -> "warn"
    [] l = "info" -> "info"
    [] OTHER -> "default"

\* What the inspector says: a hint, or a line with its chips and payload.
LogDetailTab ==
  {[entry |-> e, payload |-> IF e.json THEN "JSON payload" ELSE "Raw line",
    variant |-> IF level(e) = Blank THEN "none" ELSE levelVariant(level(e))] :
     e \in selectedLog}

-----------------------------------------------------------------------------
(* Actions.                                                                *)

Init ==
  /\ logs = <<>>
  /\ streaming = FALSE
  /\ search = {}
  /\ box = [key |-> Blank, value |-> Blank]
  /\ selectedTags = {All}
  /\ selected = 0
  /\ expanded = {}
  /\ meant = [selected |-> {}, expanded |-> {}]
  /\ moved = [m \in {"selected", "expanded"} |-> FALSE]
  /\ events = 0

Acts == events < MaxEvents /\ events' = events + 1

\* The rows of both lists are what they were, but for new ones at the end.
Grown(before, after) ==
  Len(before) <= Len(after) /\ SubSeq(after, 1, Len(before)) = before

ListsChange ==
  LET grown == Grown(parsedLogs, parsedLogs') /\ Grown(filteredLogs, filteredLogs')
  IN  moved' = [m \in DOMAIN moved |-> moved[m] \/ ~grown]

\* fetchLogs, for a Refresh or another workload; the index is not reset.
StartFetch ==
  /\ Acts
  /\ logs' = <<>>
  /\ streaming' = TRUE
  /\ UNCHANGED <<inputs, marks>>
  /\ ListsChange

\* A chunk is flushed: its lines are appended.
Arrive(e) ==
  /\ streaming
  /\ \A i \in DOMAIN logs : logs[i] # e
  /\ logs' = Append(logs, e)
  /\ UNCHANGED <<streaming, inputs, marks, events>>
  /\ ListsChange

\* The stream has ended: newest first.
sortLogs ==
  /\ streaming
  /\ streaming' = FALSE
  /\ logs' \in {sorted \in [DOMAIN logs -> Entries] :
       /\ \A i \in DOMAIN logs : \E j \in DOMAIN logs : sorted[i] = logs[j]
       /\ \A i, j \in DOMAIN logs : i < j => sorted[i].rank < sorted[j].rank}
  /\ UNCHANGED <<inputs, marks, events>>
  /\ ListsChange

setSearch(query) ==
  /\ Acts
  /\ search' = query
  /\ UNCHANGED <<logs, streaming, box, selectedTags, marks>>
  /\ ListsChange

\* The two inputs, and the button that clears both.
setField(b) ==
  /\ Acts
  /\ box' = b
  /\ UNCHANGED <<logs, streaming, search, selectedTags, marks>>
  /\ ListsChange

\* Mutant of Toggled: the last tag is taken away.
ToggledToNone(tag) ==
  LET others == selectedTags \ {All}
  IN  IF tag \in others THEN others \ {tag} ELSE others \cup {tag}

\* Mutant of Toggled: All stays among the tags.
ToggledBesideAll(tag) ==
  IF tag \in selectedTags
    THEN IF selectedTags = {tag} THEN {All} ELSE selectedTags \ {tag}
    ELSE IF Cardinality(selectedTags \cup {tag}) = Cardinality(allTags)
           THEN {All} ELSE selectedTags \cup {tag}

\* A tag is taken away or added; none of them, and as many as there are, is All.
Toggled(tag) ==
  LET others == selectedTags \ {All} IN
  IF tag \in others
    THEN IF others = {tag} THEN {All} ELSE others \ {tag}
    ELSE IF Cardinality(others \cup {tag}) = Cardinality(allTags)
           THEN {All} ELSE others \cup {tag}

\* The pills are there as long as there are lines.
toggleTag(tag) ==
  /\ Acts
  /\ parsedLogs # <<>> /\ tag \in allTags \cup {All}
  /\ selectedTags' = IF tag = All THEN {All} ELSE Toggled(tag)
  /\ UNCHANGED <<logs, streaming, search, box, marks>>
  /\ ListsChange

\* A click on a row selects it, or unselects it.
ClickRow(i) ==
  /\ Acts
  /\ i \in DOMAIN filteredLogs
  /\ selected' = IF Rows[i].isSelected THEN 0 ELSE i
  /\ meant' = [meant EXCEPT !.selected =
                 IF Rows[i].isSelected THEN {} ELSE {filteredLogs[i]}]
  /\ moved' = [moved EXCEPT !.selected =
                 ~Grown(SubSeq(filteredLogs, 1, i), parsedLogs)]
  /\ UNCHANGED <<logs, streaming, inputs, expanded>>

\* The button of a JSON row that shows or hides its formatted payload.
ToggleExpanded(i) ==
  LET mark == <<rowKey(i), filteredLogs[i]>> IN
  /\ Acts
  /\ i \in DOMAIN filteredLogs /\ filteredLogs[i].json
  /\ IF rowKey(i) \in expanded
       THEN /\ expanded' = expanded \ {rowKey(i)}
            /\ meant' = [meant EXCEPT !.expanded = {m \in @ : m[1] # rowKey(i)}]
       ELSE /\ expanded' = expanded \cup {rowKey(i)}
            /\ meant' = [meant EXCEPT !.expanded = @ \cup {mark}]
  /\ moved' = [moved EXCEPT !.expanded = @ /\ expanded' # {}]
  /\ UNCHANGED <<logs, streaming, inputs, selected>>

User ==
  \/ StartFetch
  \/ \E query \in Queries \ {search} : setSearch(query)
  \/ \E b \in Boxes \ {box} : setField(b)
  \/ \E tag \in allTags \cup {All} : toggleTag(tag)
  \/ \E i \in DOMAIN filteredLogs : ClickRow(i) \/ ToggleExpanded(i)

Next == User \/ (\E e \in Entries : Arrive(e)) \/ sortLogs

Spec == Init /\ [][Next]_vars

-----------------------------------------------------------------------------
(* Properties.                                                             *)

\* The selected tags are All, alone, or some tags, and never none, whatever was
\* toggled and whatever tags came and went with the lines: none would empty the
\* list and light up no pill.
TagsWellFormed ==
  selectedTags # {} /\ (All \in selectedTags => selectedTags = {All})

TypeOK ==
  /\ logs \in Seq(Entries)
  /\ \A i, j \in DOMAIN logs : logs[i] = logs[j] => i = j
  /\ streaming \in BOOLEAN
  /\ search \in Queries /\ box \in Boxes
  /\ TagsWellFormed
  /\ selected \in Nat
  /\ \A key \in expanded : \E m \in meant.expanded : m[1] = key
  /\ moved \in [{"selected", "expanded"} -> BOOLEAN]
  /\ events \in 0..MaxEvents

\* Tags alone never empty the list, even those no line has any more after a refresh
\* or another search: whoever sees "No logs or no matches" has filtered by a field.
TagsNeverHideAll ==
  parsedLogs # <<>> /\ fieldFilters = {} => filteredLogs # <<>>

\* While lines only arrive at the end, and no filter hid a line above the row, the
\* inspector shows the line that was clicked, and the payloads that are open are
\* those the user opened.  (Sorting, filters, searches and refreshes move the marks
\* to other lines: the index and the row keys stay.)
MarksStayOnLines ==
  /\ ~moved.selected => {d.entry : d \in LogDetailTab} = meant.selected
  /\ ~moved.expanded =>
       \A i \in DOMAIN Rows : Rows[i].isExpanded =>
         <<rowKey(i), Rows[i].entry>> \in meant.expanded

\* The tags that are lit up, and what they are after a click on one more.
Lit == activeSelectedTags \ {All}
Flip(tag) == IF tag \in Lit THEN Lit \ {tag} ELSE Lit \cup {tag}

\* A click on a pill turns that tag on or off and no other, and lights up All instead
\* of none or of all of them, unless the state remembers a tag no line has any more
\* (which is counted, so that a click on one of two tags may light up All).
TogglesOneTag ==
  [][\A tag \in allTags \ {All} :
       toggleTag(tag) /\ selectedTags \subseteq allTags \cup {All} =>
         Lit' = IF Flip(tag) = allTags THEN {} ELSE Flip(tag)]_vars

=============================================================================

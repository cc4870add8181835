--------------------------- MODULE LogsViewProofs ---------------------------
(* Theorems about LogsView, for any lines, searches and fields and any       *)
(* number of things the user does.                                           *)
EXTENDS LogsView, FiniteSetTheorems, TLAPS

-----------------------------------------------------------------------------
(* Induction.  The theorems of the library take the formula proved as an     *)
(* operator; this one takes the set of the numbers for which it holds.       *)

\* A set that holds 0 and the successor of each of its numbers holds them all: if n is
\* missing, adding 1 maps the numbers of the set up to n one to one into those but 0.
LEMMA Induction ==
  ASSUME NEW S, 0 \in S, \A n \in Nat : n \in S => n + 1 \in S
  PROVE  Nat \subseteq S
<1>1. ASSUME NEW n \in Nat, n \notin S PROVE FALSE
  <2> DEFINE T == {m \in 0..n : m \in S}
             f == [m \in T |-> m + 1]
  <2>1. T \in SUBSET Nat /\ 0 \in T /\ \A m \in T : m <= n /\ m + 1 # 0
    BY <1>1
  <2>2. \A m \in T : m + 1 \in T
    <3> SUFFICES ASSUME NEW m \in 0..n, m \in S PROVE m + 1 \in 0..n /\ m + 1 \in S
      OBVIOUS
    <3>1. m # n
      BY <1>1
    <3> QED
      BY <3>1
  <2>3. f \in [T -> T \ {0}] /\ \A x, y \in T : f[x] = f[y] => x = y
    BY <2>1, <2>2
  <2> HIDE DEF f, T
  <2>4. IsFiniteSet(T)
    BY <2>1, <1>1, FS_BoundedSetOfNaturals
  <2>5. IsFiniteSet(T \ {0}) /\ Cardinality(T \ {0}) = Cardinality(T) - 1
    BY <2>1, <2>4, FS_RemoveElement
  <2>6. Cardinality(T) \in Nat
    BY <2>4, FS_CardinalityType
  <2>7. Cardinality(T \ {0}) < Cardinality(T)
    BY <2>5, <2>6
  <2> QED
    BY <2>3, <2>4, <2>5, <2>7, FS_PigeonHole
<1> QED
  BY <1>1

-----------------------------------------------------------------------------
(* Filter.                                                                 *)

\* f[i] is what is kept of the first i of the n elements of s, those at the places
\* that pass.
IsKept(s, passes, n, f) ==
  f = [i \in 0..n |->
         IF i = 0 THEN <<>>
         ELSE IF passes[i] THEN Append(f[i - 1], s[i]) ELSE f[i - 1]]

\* The recursion has a solution.
LEMMA KeptExists ==
  ASSUME NEW s, NEW passes, NEW n \in Nat
  PROVE  \E f : IsKept(s, passes, n, f)
<1> DEFINE D == {m \in Nat : \E f : IsKept(s, passes, m, f)}
<1>1. 0 \in D
  <2> DEFINE f == [i \in 0..0 |-> <<>>]
  <2>1. IsKept(s, passes, 0, f)
    BY DEF IsKept
  <2> QED
    BY <2>1
<1>2. ASSUME NEW m \in Nat, m \in D PROVE m + 1 \in D
  <2>1. PICK f : IsKept(s, passes, m, f)
    BY <1>2
  <2> DEFINE g == [i \in 0..(m + 1) |-> IF i <= m THEN f[i]
                     ELSE IF passes[m + 1] THEN Append(f[m], s[m + 1]) ELSE f[m]]
             h == [i \in 0..(m + 1) |-> IF i = 0 THEN <<>>
                     ELSE IF passes[i] THEN Append(g[i - 1], s[i]) ELSE g[i - 1]]
  <2>2. \A i \in 0..m : f[i] = IF i = 0 THEN <<>>
                     ELSE IF passes[i] THEN Append(f[i - 1], s[i]) ELSE f[i - 1]
    BY <2>1 DEF IsKept
  <2>3. ASSUME NEW i \in 0..(m + 1) PROVE g[i] = h[i]
    <3>1. CASE i = 0
      BY <2>2, <3>1
    <3>2. CASE i \in 1..m
      <4>1. /\ i - 1 \in 0..m /\ i - 1 \in 0..(m + 1) /\ i # 0 /\ i <= m /\ i - 1 <= m
            /\ i \in 0..m
        BY <3>2
      <4>2. g[i] = f[i] /\ g[i - 1] = f[i - 1]
        BY <4>1
      <4> HIDE DEF g
      <4> QED
        BY <2>2, <4>1, <4>2
    <3>3. CASE i = m + 1
      <4>1. i # 0 /\ i - 1 = m /\ ~(i <= m) /\ m \in 0..(m + 1)
        BY <3>3
      <4>2. g[m] = f[m] /\ g[i] = IF passes[m + 1] THEN Append(f[m], s[m + 1]) ELSE f[m]
        BY <3>3, <4>1
      <4> HIDE DEF g
      <4> QED
        BY <3>3, <4>1, <4>2
    <3> QED
      BY <3>1, <3>2, <3>3
  <2>4. g = h
    BY <2>3
  <2>5. IsKept(s, passes, m + 1, g)
    BY <2>4 DEF IsKept
  <2> QED
    BY <2>5
<1> HIDE DEF D
<1>3. Nat \subseteq D
  BY <1>1, <1>2, Induction
<1> QED
  BY <1>3 DEF D

\* What is kept is a sequence of elements of s that pass, and each of those is kept.
LEMMA KeptFacts ==
  ASSUME NEW A, NEW s \in Seq(A), NEW passes, NEW f, IsKept(s, passes, Len(s), f)
  PROVE  /\ f[Len(s)] \in Seq(A)
         /\ \A j \in DOMAIN f[Len(s)] :
              \E i \in DOMAIN s : passes[i] /\ f[Len(s)][j] = s[i]
         /\ \A i \in DOMAIN s : passes[i] => \E j \in DOMAIN f[Len(s)] : f[Len(s)][j] = s[i]
<1> DEFINE n == Len(s)
           Good(m) ==
             /\ f[m] \in Seq(A)
             /\ \A j \in DOMAIN f[m] : \E i \in 1..m : passes[i] /\ f[m][j] = s[i]
             /\ \A i \in 1..m : passes[i] => \E j \in DOMAIN f[m] : f[m][j] = s[i]
           D == {m \in Nat : m <= n => Good(m)}
<1>1. n \in Nat /\ DOMAIN s = 1..n /\ \A i \in 1..n : s[i] \in A
  OBVIOUS
<1>2. \A i \in 0..n : f[i] = IF i = 0 THEN <<>>
                     ELSE IF passes[i] THEN Append(f[i - 1], s[i]) ELSE f[i - 1]
  BY DEF IsKept
<1>3. 0 \in D
  <2>1. f[0] = <<>>
    BY <1>1, <1>2
  <2>2. DOMAIN f[0] = {} /\ f[0] \in Seq(A) /\ 1..0 = {}
    BY <2>1
  <2> QED
    BY <2>2
<1>4. ASSUME NEW m \in Nat, m \in D PROVE m + 1 \in D
  <2> SUFFICES ASSUME m + 1 <= n PROVE Good(m + 1)
    OBVIOUS
  <2>1. Good(m) /\ m + 1 \in 1..n /\ m + 1 # 0 /\ (m + 1) - 1 = m /\ s[m + 1] \in A
    BY <1>1, <1>4
  <2>2. f[m + 1] = IF passes[m + 1] THEN Append(f[m], s[m + 1]) ELSE f[m]
    BY <1>1, <1>2, <2>1
  <2>3. \A i \in 1..(m + 1) : i \in 1..m \/ i = m + 1
    OBVIOUS
  <2>4. \A i \in 1..m : i \in 1..(m + 1)
    OBVIOUS
  <2>5. m + 1 \in 1..(m + 1)
    OBVIOUS
  <2>6. CASE passes[m + 1]
    <3> DEFINE k == f[m]
    <3>1. k \in Seq(A) /\ Len(k) \in Nat /\ DOMAIN k = 1..Len(k)
      BY <2>1
    <3>2. f[m + 1] = Append(k, s[m + 1])
      BY <2>2, <2>6
    <3>3. /\ f[m + 1] \in Seq(A) /\ DOMAIN f[m + 1] = 1..(Len(k) + 1)
          /\ \A j \in 1..Len(k) : f[m + 1][j] = k[j]
          /\ f[m + 1][Len(k) + 1] = s[m + 1]
      BY <2>1, <3>1, <3>2
    <3>4. \A j \in 1..(Len(k) + 1) : j \in 1..Len(k) \/ j = Len(k) + 1
      BY <3>1
    <3>5. Len(k) + 1 \in 1..(Len(k) + 1) /\ \A j \in 1..Len(k) : j \in 1..(Len(k) + 1)
      BY <3>1
    <3>6. ASSUME NEW j \in DOMAIN f[m + 1]
          PROVE  \E i \in 1..(m + 1) : passes[i] /\ f[m + 1][j] = s[i]
      BY <2>1, <2>4, <2>5, <2>6, <3>1, <3>3, <3>4
    <3>7. ASSUME NEW i \in 1..(m + 1), passes[i]
          PROVE  \E j \in DOMAIN f[m + 1] : f[m + 1][j] = s[i]
      BY <2>1, <2>3, <3>1, <3>3, <3>5, <3>7
    <3> QED
      BY <3>3, <3>6, <3>7
  <2>7. CASE ~passes[m + 1]
    BY <2>1, <2>2, <2>3, <2>4, <2>7
  <2> QED
    BY <2>6, <2>7
<1>5. n \in D
  <2> HIDE DEF D
  <2> QED
    BY <1>1, <1>3, <1>4, Induction
<1>6. Good(n)
  BY <1>1, <1>5
<1> QED
  BY <1>1, <1>6, Zenon

LEMMA FilterFacts ==
  ASSUME NEW A, NEW s \in Seq(A), NEW passes
  PROVE  /\ Filter(s, passes) \in Seq(A)
         /\ \A i \in DOMAIN s : passes[i] => \E j \in DOMAIN Filter(s, passes) : Filter(s, passes)[j] = s[i]
<1> DEFINE k == CHOOSE f : IsKept(s, passes, Len(s), f)
<1>1. IsKept(s, passes, Len(s), k)
  <2>1. Len(s) \in Nat
    OBVIOUS
  <2> QED
    BY <2>1, KeptExists
<1>2. Filter(s, passes) = k[Len(s)]
  BY DEF Filter, IsKept
<1> HIDE DEF k
<1> QED
  BY <1>1, <1>2, KeptFacts

LEMMA ParsedFacts ==
  ASSUME logs \in Seq(Entries)
  PROVE  parsedLogs \in Seq(Entries)
BY FilterFacts DEF parsedLogs

\* A line the tags and the fields let through.
Chosen(e) ==
  /\ All \in activeSelectedTags \/ TagsOf(e) \cap activeSelectedTags # {}
  /\ matchesFieldFilters(e, fieldFilters)

LEMMA FilteredIs ==
  filteredLogs = Filter(parsedLogs, [i \in DOMAIN parsedLogs |-> Chosen(parsedLogs[i])])
BY DEF filteredLogs, Chosen

LEMMA FilteredFacts ==
  ASSUME logs \in Seq(Entries)
  PROVE  /\ filteredLogs \in Seq(Entries)
         /\ \A i \in DOMAIN parsedLogs :
              Chosen(parsedLogs[i]) =>
                \E j \in DOMAIN filteredLogs : filteredLogs[j] = parsedLogs[i]
<1> DEFINE passes == [i \in DOMAIN parsedLogs |-> Chosen(parsedLogs[i])]
<1>1. \A i \in DOMAIN parsedLogs : passes[i] = Chosen(parsedLogs[i])
  OBVIOUS
<1>2. filteredLogs = Filter(parsedLogs, passes)
  BY FilteredIs
<1> HIDE DEF passes
<1>3. /\ Filter(parsedLogs, passes) \in Seq(Entries)
      /\ \A i \in DOMAIN parsedLogs : passes[i] =>
           \E j \in DOMAIN Filter(parsedLogs, passes) :
             Filter(parsedLogs, passes)[j] = parsedLogs[i]
  BY ParsedFacts, FilterFacts
<1> QED
  BY <1>1, <1>2, <1>3

-----------------------------------------------------------------------------
(* What is derived depends on the state it is derived from alone.            *)

LEMMA ParsedKept ==
  ASSUME logs' = logs, search' = search
  PROVE  parsedLogs' = parsedLogs /\ allTags' = allTags
BY DEF parsedLogs, allTags

LEMMA FilteredKept ==
  ASSUME logs' = logs, search' = search, box' = box, selectedTags' = selectedTags
  PROVE  parsedLogs' = parsedLogs /\ filteredLogs' = filteredLogs
<1>1. parsedLogs' = parsedLogs /\ allTags' = allTags
  BY ParsedKept
<1>2. activeSelectedTags' = activeSelectedTags
  BY <1>1 DEF activeSelectedTags
<1>3. fieldFilters' = fieldFilters
  BY DEF fieldFilters
<1> QED
  BY <1>1, <1>2, <1>3 DEF filteredLogs

\* A list that has grown shows what it showed where it showed it.
LEMMA GrownKeeps ==
  ASSUME NEW A, NEW s \in Seq(A), NEW t \in Seq(A), Grown(s, t)
  PROVE  \A i \in DOMAIN s : i \in DOMAIN t /\ t[i] = s[i]
<1>1. Len(s) \in Nat /\ Len(t) \in Nat /\ DOMAIN s = 1..Len(s) /\ DOMAIN t = 1..Len(t)
  OBVIOUS
<1>2. Len(s) <= Len(t) /\ SubSeq(t, 1, Len(s)) = s
  BY DEF Grown
<1>3. \A i \in 1..Len(s) : SubSeq(t, 1, Len(s))[i] = t[i]
  BY <1>1, <1>2
<1> QED
  BY <1>1, <1>2, <1>3

-----------------------------------------------------------------------------
(* Tags alone never empty the list.                                        *)

LEMMA SomeLineIsShown ==
  ASSUME logs \in Seq(Entries)
  PROVE  TagsNeverHideAll
<1> SUFFICES ASSUME parsedLogs # <<>>, fieldFilters = {}
             PROVE  filteredLogs # <<>>
  BY DEF TagsNeverHideAll
<1>1. parsedLogs \in Seq(Entries)
  BY ParsedFacts
<1>2. 1 \in DOMAIN parsedLogs /\ \A i \in DOMAIN parsedLogs : parsedLogs[i] \in Entries
  BY <1>1
<1>3. \E i \in DOMAIN parsedLogs :
        All \in activeSelectedTags \/ TagsOf(parsedLogs[i]) \cap activeSelectedTags # {}
  <2>1. CASE All \in selectedTags \/ selectedTags \cap allTags = {}
    BY <1>2, <2>1 DEF activeSelectedTags
  <2>2. CASE ~(All \in selectedTags \/ selectedTags \cap allTags = {})
    <3>1. PICK t : t \in selectedTags /\ t \in allTags
      BY <2>2
    <3>2. PICK i \in DOMAIN parsedLogs : t \in TagsOf(parsedLogs[i])
      BY <3>1 DEF allTags
    <3> QED
      BY <2>2, <3>1, <3>2 DEF activeSelectedTags
  <2> QED
    BY <2>1, <2>2
<1>4. \E i \in DOMAIN parsedLogs : Chosen(parsedLogs[i])
  BY <1>2, <1>3 DEF Chosen, matchesFieldFilters
<1>5. DOMAIN filteredLogs # {}
  BY <1>4, FilteredFacts
<1> QED
  BY <1>5

-----------------------------------------------------------------------------
(* The inductive invariant.                                                *)

\* As long as no row of a mark has moved, the selected index is that of the line that
\* was clicked, and a key that is open is that of a line the user opened.
SelectedFollows ==
  ~moved.selected =>
    \/ selected = 0 /\ meant.selected = {}
    \/ selected \in DOMAIN parsedLogs /\ meant.selected = {parsedLogs[selected]}

ExpandedFollows ==
  ~moved.expanded =>
    \A key \in expanded : \E i \in DOMAIN filteredLogs :
      key = rowKey(i) /\ <<key, filteredLogs[i]>> \in meant.expanded

IInv ==
  /\ TypeOK
  /\ DOMAIN meant = {"selected", "expanded"}
  /\ SelectedFollows
  /\ ExpandedFollows

LEMMA InitEstablishesIt == Init => IInv
<1> SUFFICES ASSUME Init PROVE IInv
  OBVIOUS
<1> USE DEF Init
<1>1. logs \in Seq(Entries) /\ DOMAIN logs = {}
  OBVIOUS
<1>2. moved \in [{"selected", "expanded"} -> BOOLEAN]
  OBVIOUS
<1>3. DOMAIN meant = {"selected", "expanded"} /\ meant.selected = {}
  OBVIOUS
<1>4. search \in Queries /\ box \in Boxes /\ events \in 0..MaxEvents /\ streaming \in BOOLEAN
  <2>1. search \in Queries /\ box \in Boxes
    BY ViewAssumption, Zenon
  <2>2. events = 0 /\ streaming = FALSE /\ MaxEvents \in Nat
    BY ViewAssumption, Zenon
  <2>3. events \in 0..MaxEvents
    BY <2>2
  <2> QED
    BY <2>1, <2>2, <2>3
<1>5. selected = 0 /\ expanded = {} /\ TagsWellFormed
  BY DEF TagsWellFormed
<1> HIDE DEF Init
<1>6. TypeOK
  BY <1>1, <1>2, <1>4, <1>5 DEF TypeOK
<1>7. SelectedFollows /\ ExpandedFollows
  BY <1>3, <1>5 DEF SelectedFollows, ExpandedFollows
<1> QED
  BY <1>3, <1>6, <1>7 DEF IInv

\* Lines that come, go or change places leave the marks to whoever is there, and say so.
LEMMA ListsAreTyped ==
  TypeOK => parsedLogs \in Seq(Entries) /\ filteredLogs \in Seq(Entries)
  BY ParsedFacts, FilteredFacts DEF TypeOK

LEMMA MarksOfMovedLines ==
  ASSUME IInv, TypeOK', UNCHANGED marks, ListsChange
  PROVE  SelectedFollows' /\ ExpandedFollows'
<1>1. /\ parsedLogs \in Seq(Entries) /\ filteredLogs \in Seq(Entries)
      /\ (parsedLogs \in Seq(Entries) /\ filteredLogs \in Seq(Entries))'
  BY ListsAreTyped, PTL DEF IInv
<1>2. ASSUME NEW m \in {"selected", "expanded"}, ~moved'[m]
      PROVE  /\ ~moved[m]
             /\ \A i \in DOMAIN parsedLogs :
                  i \in DOMAIN parsedLogs' /\ parsedLogs'[i] = parsedLogs[i]
             /\ \A i \in DOMAIN filteredLogs :
                  i \in DOMAIN filteredLogs' /\ filteredLogs'[i] = filteredLogs[i]
  <2>1. DOMAIN moved = {"selected", "expanded"}
    BY DEF IInv, TypeOK
  <2>2. ~moved[m] /\ Grown(parsedLogs, parsedLogs') /\ Grown(filteredLogs, filteredLogs')
    BY <1>2, <2>1 DEF ListsChange
  <2> QED
    BY <1>1, <2>2, GrownKeeps
<1>3. UNCHANGED <<selected, expanded, meant>>
  BY DEF marks
<1>4. SelectedFollows'
  <2> SUFFICES ASSUME ~moved'.selected
               PROVE  (\/ selected = 0 /\ meant.selected = {}
                       \/ selected \in DOMAIN parsedLogs
                          /\ meant.selected = {parsedLogs[selected]})'
    BY DEF SelectedFollows
  <2> QED
    BY <1>2, <1>3 DEF IInv, SelectedFollows
<1>5. ExpandedFollows'
  <2> SUFFICES ASSUME ~moved'.expanded, NEW key \in expanded'
               PROVE  (\E i \in DOMAIN filteredLogs :
                         key = rowKey(i) /\ <<key, filteredLogs[i]>> \in meant.expanded)'
    BY DEF ExpandedFollows
  <2>1. PICK i \in DOMAIN filteredLogs :
          key = rowKey(i) /\ <<key, filteredLogs[i]>> \in meant.expanded
    BY <1>2, <1>3 DEF IInv, ExpandedFollows
  <2>2. i \in DOMAIN filteredLogs' /\ filteredLogs'[i] = filteredLogs[i]
    BY <1>2
  <2>3. (key = rowKey(i))'
    BY <2>1, <2>2 DEF rowKey
  <2> QED
    BY <1>3, <2>1, <2>2, <2>3
<1> QED
  BY <1>4, <1>5

-----------------------------------------------------------------------------
(* The actions keep it.                                                    *)

LEMMA MovedStaysTyped ==
  ASSUME IInv, ListsChange
  PROVE  moved' \in [{"selected", "expanded"} -> BOOLEAN]
<1>1. DOMAIN moved = {"selected", "expanded"} /\ \A m \in DOMAIN moved : moved[m] \in BOOLEAN
  BY DEF IInv, TypeOK
<1> QED
  BY <1>1 DEF ListsChange, Grown

\* What changes the lists and no mark.
LEMMA ListsKeepIt ==
  ASSUME IInv, UNCHANGED marks, ListsChange,
         (logs \in Seq(Entries))', (\A i, j \in DOMAIN logs : logs[i] = logs[j] => i = j)',
         streaming' \in BOOLEAN, search' \in Queries, box' \in Boxes,
         TagsWellFormed', events' \in 0..MaxEvents
  PROVE  IInv'
<1>1. moved' \in [{"selected", "expanded"} -> BOOLEAN]
  BY MovedStaysTyped
<1>2. UNCHANGED <<selected, expanded, meant>>
  BY DEF marks
<1>3. TypeOK'
  BY <1>1, <1>2 DEF IInv, TypeOK
<1>4. SelectedFollows' /\ ExpandedFollows'
  BY <1>3, MarksOfMovedLines
<1> QED
  BY <1>2, <1>3, <1>4 DEF IInv

LEMMA ArriveKeepsIt ==
  ASSUME IInv, NEW e \in Entries, Arrive(e)
  PROVE  IInv'
<1>1. logs \in Seq(Entries) /\ \A i, j \in DOMAIN logs : logs[i] = logs[j] => i = j
  BY DEF IInv, TypeOK
<1>2. logs' = Append(logs, e) /\ \A i \in DOMAIN logs : logs[i] # e
  BY DEF Arrive
<1> DEFINE n == Len(logs)
<1>3. n \in Nat /\ DOMAIN logs = 1..n
  BY <1>1
<1>4. /\ logs' \in Seq(Entries) /\ DOMAIN logs' = 1..(n + 1) /\ logs'[n + 1] = e
      /\ \A i \in 1..n : logs'[i] = logs[i]
  BY <1>1, <1>2
<1>5. ASSUME NEW i \in DOMAIN logs', NEW j \in DOMAIN logs', logs'[i] = logs'[j]
      PROVE  i = j
  <2>1. (i \in 1..n \/ i = n + 1) /\ (j \in 1..n \/ j = n + 1)
    BY <1>3, <1>4
  <2> QED
    BY <1>1, <1>2, <1>3, <1>4, <1>5, <2>1
<1>6. UNCHANGED <<streaming, search, box, selectedTags, events>>
  BY DEF Arrive, inputs
<1>7. streaming' \in BOOLEAN /\ search' \in Queries /\ box' \in Boxes /\ events' \in 0..MaxEvents
  BY <1>6 DEF IInv, TypeOK
<1>8. TagsWellFormed'
  BY <1>6 DEF IInv, TypeOK, TagsWellFormed
<1>9. UNCHANGED marks /\ ListsChange
  BY DEF Arrive
<1> QED
  BY <1>4, <1>5, <1>7, <1>8, <1>9, ListsKeepIt

\* The order by rank is strict, so that a line that is put in two places would have
\* two ranks.
LEMMA SortKeepsIt ==
  ASSUME IInv, sortLogs
  PROVE  IInv'
<1>1. logs \in Seq(Entries)
  BY DEF IInv, TypeOK
<1>2. /\ logs' \in [DOMAIN logs -> Entries]
      /\ \A i, j \in DOMAIN logs : i < j => logs'[i].rank < logs'[j].rank
  BY DEF sortLogs
<1>3. logs' \in Seq(Entries) /\ DOMAIN logs' = DOMAIN logs /\ DOMAIN logs \subseteq Nat
  BY <1>1, <1>2
<1>4. ASSUME NEW i \in DOMAIN logs', NEW j \in DOMAIN logs', logs'[i] = logs'[j]
      PROVE  i = j
  <2>1. i \in Nat /\ j \in Nat /\ i \in DOMAIN logs /\ j \in DOMAIN logs
    BY <1>3
  <2>2. logs'[i].rank \in Nat
    BY <1>2, <2>1, ViewAssumption DEF Entry
  <2>3. ~(logs'[i].rank < logs'[j].rank) /\ ~(logs'[j].rank < logs'[i].rank)
    BY <1>4, <2>2
  <2>4. ~(i < j) /\ ~(j < i)
    BY <1>2, <2>1, <2>3
  <2> QED
    BY <2>1, <2>4
<1>5. streaming' = FALSE /\ UNCHANGED <<search, box, selectedTags, events>>
  BY DEF sortLogs, inputs
<1>6. streaming' \in BOOLEAN /\ search' \in Queries /\ box' \in Boxes /\ events' \in 0..MaxEvents
  BY <1>5 DEF IInv, TypeOK
<1>7. TagsWellFormed'
  BY <1>5 DEF IInv, TypeOK, TagsWellFormed
<1>8. UNCHANGED marks /\ ListsChange
  BY DEF sortLogs
<1> QED
  BY <1>3, <1>4, <1>6, <1>7, <1>8, ListsKeepIt

LEMMA OneMoreEvent ==
  ASSUME IInv, Acts
  PROVE  events' \in 0..MaxEvents
  BY ViewAssumption DEF IInv, TypeOK, Acts

LEMMA StartFetchKeepsIt ==
  ASSUME IInv, StartFetch
  PROVE  IInv'
<1>1. logs' = <<>> /\ streaming' = TRUE /\ UNCHANGED <<search, box, selectedTags>>
  BY DEF StartFetch, inputs
<1>2. logs' \in Seq(Entries) /\ DOMAIN logs' = {}
  BY <1>1
<1>3. streaming' \in BOOLEAN /\ search' \in Queries /\ box' \in Boxes
  BY <1>1 DEF IInv, TypeOK
<1>4. TagsWellFormed'
  BY <1>1 DEF IInv, TypeOK, TagsWellFormed
<1>5. UNCHANGED marks /\ ListsChange /\ Acts
  BY DEF StartFetch
<1> QED
  BY <1>2, <1>3, <1>4, <1>5, ListsKeepIt, OneMoreEvent

\* What is typed into the inputs.
LEMMA InputsKeepIt ==
  ASSUME IInv, Acts, ListsChange, UNCHANGED <<logs, streaming, marks>>,
         search' \in Queries, box' \in Boxes, TagsWellFormed'
  PROVE  IInv'
<1>1. UNCHANGED <<logs, streaming>> /\ UNCHANGED marks
  OBVIOUS
<1>2. /\ (logs \in Seq(Entries))' /\ streaming' \in BOOLEAN
      /\ (\A i, j \in DOMAIN logs : logs[i] = logs[j] => i = j)'
  BY <1>1 DEF IInv, TypeOK
<1> QED
  BY <1>1, <1>2, ListsKeepIt, OneMoreEvent

LEMMA SetSearchKeepsIt ==
  ASSUME IInv, NEW query \in Queries, setSearch(query)
  PROVE  IInv'
<1>1. /\ Acts /\ ListsChange /\ UNCHANGED <<logs, streaming, marks>>
      /\ search' = query /\ UNCHANGED <<box, selectedTags>>
  BY DEF setSearch
<1>2. search' \in Queries /\ box' \in Boxes /\ TagsWellFormed'
  BY <1>1 DEF IInv, TypeOK, TagsWellFormed
<1> QED
  BY <1>1, <1>2, InputsKeepIt

LEMMA SetFieldKeepsIt ==
  ASSUME IInv, NEW b \in Boxes, setField(b)
  PROVE  IInv'
<1>1. /\ Acts /\ ListsChange /\ UNCHANGED <<logs, streaming, marks>>
      /\ box' = b /\ UNCHANGED <<search, selectedTags>>
  BY DEF setField
<1>2. search' \in Queries /\ box' \in Boxes /\ TagsWellFormed'
  BY <1>1 DEF IInv, TypeOK, TagsWellFormed
<1> QED
  BY <1>1, <1>2, InputsKeepIt

LEMMA ToggleTagKeepsIt ==
  ASSUME IInv, NEW tag, toggleTag(tag)
  PROVE  IInv'
<1>1. /\ Acts /\ ListsChange /\ UNCHANGED <<logs, streaming, marks>>
      /\ selectedTags' = (IF tag = All THEN {All} ELSE Toggled(tag))
      /\ UNCHANGED <<search, box>>
  BY DEF toggleTag
<1>2. search' \in Queries /\ box' \in Boxes
  BY <1>1 DEF IInv, TypeOK
<1>3. TagsWellFormed'
  BY <1>1 DEF IInv, TypeOK, TagsWellFormed, Toggled
<1> QED
  BY <1>1, <1>2, <1>3, InputsKeepIt

\* The row that is clicked is the one the inspector shows if the lists agree up to it.
LEMMA ClickRowKeepsIt ==
  ASSUME IInv, NEW i, ClickRow(i)
  PROVE  IInv'
<1>1. parsedLogs \in Seq(Entries) /\ filteredLogs \in Seq(Entries)
  BY ListsAreTyped DEF IInv
<1>2. i \in DOMAIN filteredLogs /\ i \in Nat
  BY <1>1 DEF ClickRow
<1>3. /\ UNCHANGED <<logs, streaming, search, box, selectedTags, expanded>>
      /\ Acts
  BY DEF ClickRow, inputs
<1>4. parsedLogs' = parsedLogs /\ filteredLogs' = filteredLogs
  BY <1>3, FilteredKept
<1>5. Rows[i].isSelected = (selected = i)
  BY <1>2 DEF Rows
<1>6. selected' = (IF selected = i THEN 0 ELSE i)
  BY <1>5 DEF ClickRow
<1>7. /\ DOMAIN meant' = {"selected", "expanded"} /\ meant'.expanded = meant.expanded
      /\ meant'.selected = (IF selected = i THEN {} ELSE {filteredLogs[i]})
  BY <1>5 DEF ClickRow, IInv
<1> DEFINE upTo == SubSeq(filteredLogs, 1, i)
<1>8. /\ moved' \in [{"selected", "expanded"} -> BOOLEAN] /\ moved'.expanded = moved.expanded
      /\ moved'.selected = ~Grown(upTo, parsedLogs)
  BY DEF ClickRow, IInv, TypeOK, Grown
<1>9. TypeOK'
  <2>1. \A key \in expanded' : \E m \in meant'.expanded : m[1] = key
    BY <1>3, <1>7 DEF IInv, TypeOK
  <2>2. selected' \in Nat
    BY <1>2, <1>6
  <2>3. TagsWellFormed'
    BY <1>3 DEF IInv, TypeOK, TagsWellFormed
  <2>4. events' \in 0..MaxEvents
    BY <1>3, OneMoreEvent
  <2> QED
    BY <1>3, <1>8, <2>1, <2>2, <2>3, <2>4 DEF IInv, TypeOK
<1>10. SelectedFollows'
  <2> SUFFICES ASSUME ~moved'.selected, selected # i
               PROVE  (selected \in DOMAIN parsedLogs /\ meant.selected = {parsedLogs[selected]})'
    BY <1>6, <1>7 DEF SelectedFollows
  <2>1. upTo \in Seq(Entries) /\ DOMAIN upTo = 1..i /\ upTo[i] = filteredLogs[i] /\ i \in 1..i
    BY <1>1, <1>2
  <2>2. Grown(upTo, parsedLogs)
    BY <1>8
  <2> HIDE DEF upTo
  <2>3. i \in DOMAIN parsedLogs /\ parsedLogs[i] = upTo[i]
    BY <1>1, <2>1, <2>2, GrownKeeps
  <2> QED
    BY <1>4, <1>6, <1>7, <2>1, <2>3
<1>11. ExpandedFollows'
  <2> SUFFICES ASSUME ~moved'.expanded, NEW key \in expanded'
               PROVE  (\E j \in DOMAIN filteredLogs :
                         key = rowKey(j) /\ <<key, filteredLogs[j]>> \in meant.expanded)'
    BY DEF ExpandedFollows
  <2>1. PICK j \in DOMAIN filteredLogs :
          key = rowKey(j) /\ <<key, filteredLogs[j]>> \in meant.expanded
    BY <1>3, <1>8 DEF IInv, ExpandedFollows
  <2>2. (key = rowKey(j))'
    BY <1>4, <2>1 DEF rowKey
  <2> QED
    BY <1>4, <1>7, <2>1, <2>2
<1> QED
  BY <1>7, <1>9, <1>10, <1>11 DEF IInv

LEMMA ToggleExpandedKeepsIt ==
  ASSUME IInv, NEW i, ToggleExpanded(i)
  PROVE  IInv'
<1>1. i \in DOMAIN filteredLogs
  BY DEF ToggleExpanded
<1>2. /\ UNCHANGED <<logs, streaming, search, box, selectedTags, selected>>
      /\ Acts
  BY DEF ToggleExpanded, inputs
<1>3. parsedLogs' = parsedLogs /\ filteredLogs' = filteredLogs
  BY <1>2, FilteredKept
<1> DEFINE key == rowKey(i)
           mark == <<key, filteredLogs[i]>>
<1>4. DOMAIN meant' = {"selected", "expanded"} /\ meant'.selected = meant.selected
  BY DEF ToggleExpanded, IInv
<1>5. /\ moved' \in [{"selected", "expanded"} -> BOOLEAN] /\ moved'.selected = moved.selected
      /\ moved'.expanded = (moved.expanded /\ expanded' # {})
  BY DEF ToggleExpanded, IInv, TypeOK
\* Each key that is open still has its marks, and its row.
<1>6. \A k \in expanded' : \/ k = key /\ mark \in meant'.expanded
                           \/ /\ k \in expanded
                              /\ \A m \in meant.expanded : m[1] = k => m \in meant'.expanded
  <2>1. CASE key \in expanded
    <3>1. expanded' = expanded \ {key}
          /\ meant'.expanded = {m \in meant.expanded : m[1] # key}
      BY <2>1 DEF ToggleExpanded, IInv
    <3> QED
      BY <3>1
  <2>2. CASE key \notin expanded
    <3>1. expanded' = expanded \cup {key} /\ meant'.expanded = meant.expanded \cup {mark}
      BY <2>2 DEF ToggleExpanded, IInv
    <3> HIDE DEF key, mark
    <3> QED
      BY <3>1
  <2> QED
    BY <2>1, <2>2
<1>7. mark[1] = key
  OBVIOUS
<1> HIDE DEF mark
<1>8. TypeOK'
  <2>1. \A k \in expanded' : \E m \in meant'.expanded : m[1] = k
    <3> HIDE DEF key
    <3> QED
      BY <1>6, <1>7 DEF IInv, TypeOK
  <2>2. TagsWellFormed'
    BY <1>2 DEF IInv, TypeOK, TagsWellFormed
  <2>3. events' \in 0..MaxEvents
    BY <1>2, OneMoreEvent
  <2> QED
    BY <1>2, <1>5, <2>1, <2>2, <2>3 DEF IInv, TypeOK
<1>9. SelectedFollows'
  BY <1>2, <1>3, <1>4, <1>5 DEF IInv, SelectedFollows
<1>10. ExpandedFollows'
  <2> SUFFICES ASSUME ~moved'.expanded, NEW k \in expanded'
               PROVE  (\E j \in DOMAIN filteredLogs :
                         k = rowKey(j) /\ <<k, filteredLogs[j]>> \in meant.expanded)'
    BY DEF ExpandedFollows
  <2>1. ~moved.expanded
    BY <1>5 DEF IInv, TypeOK
  <2>2. \E j \in DOMAIN filteredLogs : k = rowKey(j) /\ <<k, filteredLogs[j]>> \in meant'.expanded
    <3>1. CASE k = key /\ mark \in meant'.expanded
      BY <1>1, <3>1 DEF mark
    <3>2. CASE k \in expanded /\ \A m \in meant.expanded : m[1] = k => m \in meant'.expanded
      <4>1. PICK j \in DOMAIN filteredLogs :
              k = rowKey(j) /\ <<k, filteredLogs[j]>> \in meant.expanded
        BY <2>1, <3>2 DEF IInv, ExpandedFollows
      <4>2. <<k, filteredLogs[j]>>[1] = k
        OBVIOUS
      <4> QED
        BY <3>2, <4>1, <4>2
    <3> QED
      BY <1>6, <3>1, <3>2
  <2>3. PICK j \in DOMAIN filteredLogs : k = rowKey(j) /\ <<k, filteredLogs[j]>> \in meant'.expanded
    BY <2>2
  <2>4. (k = rowKey(j))'
    BY <1>3, <2>3 DEF rowKey
  <2> QED
    BY <1>3, <2>3, <2>4
<1> QED
  BY <1>4, <1>8, <1>9, <1>10 DEF IInv

LEMMA StutterKeepsIt ==
  ASSUME IInv, UNCHANGED vars
  PROVE  IInv'
<1>1. UNCHANGED <<logs, streaming, search, box, selectedTags, selected, expanded, meant,
                  moved, events>>
  BY DEF vars
<1>2. parsedLogs' = parsedLogs /\ filteredLogs' = filteredLogs
  BY <1>1, FilteredKept
<1>3. TypeOK'
  BY <1>1 DEF IInv, TypeOK, TagsWellFormed
<1>4. SelectedFollows'
  BY <1>1, <1>2 DEF IInv, SelectedFollows
<1>5. \A i : rowKey(i)' = rowKey(i)
  BY <1>2 DEF rowKey
<1>6. ExpandedFollows'
  BY <1>1, <1>2, <1>5 DEF IInv, ExpandedFollows
<1> QED
  BY <1>1, <1>3, <1>4, <1>6 DEF IInv

LEMMA StepKeepsIt == IInv /\ [Next]_vars => IInv'
<1> SUFFICES ASSUME IInv, [Next]_vars PROVE IInv'
  OBVIOUS
<1>1. CASE StartFetch
  BY <1>1, StartFetchKeepsIt
<1>2. ASSUME NEW query \in Queries, setSearch(query) PROVE IInv'
  BY <1>2, SetSearchKeepsIt
<1>3. ASSUME NEW b \in Boxes, setField(b) PROVE IInv'
  BY <1>3, SetFieldKeepsIt
<1>4. ASSUME NEW tag, toggleTag(tag) PROVE IInv'
  BY <1>4, ToggleTagKeepsIt
<1>5. ASSUME NEW i, ClickRow(i) \/ ToggleExpanded(i) PROVE IInv'
  BY <1>5, ClickRowKeepsIt, ToggleExpandedKeepsIt
<1>6. ASSUME NEW e \in Entries, Arrive(e) PROVE IInv'
  BY <1>6, ArriveKeepsIt
<1>7. CASE sortLogs
  BY <1>7, SortKeepsIt
<1>8. CASE UNCHANGED vars
  BY <1>8, StutterKeepsIt
<1> QED
  BY <1>1, <1>2, <1>3, <1>4, <1>5, <1>6, <1>7, <1>8 DEF Next, User

\* The inductive invariant, for any lines, searches, fields and number of clicks.
THEOREM Inductive == Spec => []IInv
<1>1. Init => IInv
  BY InitEstablishesIt
<1>2. IInv /\ [Next]_vars => IInv'
  BY StepKeepsIt
<1> QED
  BY <1>1, <1>2, PTL DEF Spec

\* Every index, key, tag and line the view keeps is of its type, no line is there twice,
\* and the selected tags are never none and never All beside another (toggleTag in
\* logs-tab.tsx), whatever lines, searches and clicks come in whatever order.
THEOREM TypeCorrect == Spec => []TypeOK
<1>1. IInv => TypeOK
  BY DEF IInv
<1> QED
  BY <1>1, Inductive, PTL

\* The tags, stale ones included, never hide every line (activeSelectedTags in
\* logs-tab.tsx): only a field filter can.
THEOREM TagsLeaveALine == Spec => []TagsNeverHideAll
<1>1. IInv => TagsNeverHideAll
  BY SomeLineIsShown DEF IInv, TypeOK
<1> QED
  BY <1>1, Inductive, PTL

\* While lines only arrive, the inspector shows the line that was clicked in the list,
\* and the payloads that are open are those that were opened, although the marks are an
\* index (selectedLogIndex in page.tsx) and keys made of an index (logs-tab.tsx).
THEOREM MarksKeepTheirLines == Spec => []MarksStayOnLines
<1>1. ASSUME IInv PROVE MarksStayOnLines
  <2>1. parsedLogs \in Seq(Entries) /\ filteredLogs \in Seq(Entries)
    BY <1>1, ListsAreTyped DEF IInv
  <2>2. {d.entry : d \in LogDetailTab} = selectedLog
    <3> DEFINE detail(e) ==
          [entry |-> e, payload |-> IF e.json THEN "JSON payload" ELSE "Raw line",
           variant |-> IF level(e) = Blank THEN "none" ELSE levelVariant(level(e))]
    <3>1. \A e : detail(e).entry = e
      OBVIOUS
    <3>2. LogDetailTab = {detail(e) : e \in selectedLog}
      BY DEF LogDetailTab
    <3> HIDE DEF detail
    <3> QED
      BY <3>1, <3>2
  <2>3. ASSUME ~moved.selected PROVE selectedLog = meant.selected
    <3>1. CASE selected = 0 /\ meant.selected = {}
      BY <2>1, <3>1 DEF selectedLog
    <3>2. CASE selected \in DOMAIN parsedLogs /\ meant.selected = {parsedLogs[selected]}
      BY <3>2 DEF selectedLog
    <3> QED
      BY <1>1, <2>3, <3>1, <3>2 DEF IInv, SelectedFollows
  <2>4. ASSUME ~moved.expanded, NEW i \in DOMAIN Rows, Rows[i].isExpanded
        PROVE  <<rowKey(i), Rows[i].entry>> \in meant.expanded
    <3>1. i \in DOMAIN filteredLogs /\ rowKey(i) \in expanded /\ Rows[i].entry = filteredLogs[i]
      BY <2>4 DEF Rows
    <3>2. PICK j \in DOMAIN filteredLogs :
            rowKey(i) = rowKey(j) /\ <<rowKey(i), filteredLogs[j]>> \in meant.expanded
      BY <1>1, <2>4, <3>1 DEF IInv, ExpandedFollows
    <3>3. i = j
      BY <3>2 DEF rowKey
    <3> QED
      BY <3>1, <3>2, <3>3
  <2> QED
    BY <2>2, <2>3, <2>4 DEF MarksStayOnLines
<1> QED
  BY <1>1, Inductive, PTL

-----------------------------------------------------------------------------
(* A click on a tag.                                                       *)

LEMMA TagsAreFinite ==
  ASSUME logs \in Seq(Entries)
  PROVE  IsFiniteSet(allTags)
<1> DEFINE n == Len(parsedLogs)
           tagOf(i) == IF level(parsedLogs[i]) = Blank THEN "other" ELSE level(parsedLogs[i])
           T == {tagOf(i) : i \in 1..n}
           f == [i \in 1..n |-> tagOf(i)]
<1>1. n \in Nat /\ DOMAIN parsedLogs = 1..n
  BY ParsedFacts
<1>2. IsFiniteSet(1..n)
  BY <1>1, FS_Interval
<1>3. f \in Surjection(1..n, T)
  BY DEF Surjection
<1>4. IsFiniteSet(T \cup {"json"})
  <2> HIDE DEF f, T
  <2> QED
    BY <1>2, <1>3, FS_Surjection, FS_AddElement
<1>5. allTags \subseteq T \cup {"json"}
  BY <1>1 DEF allTags, TagsOf
<1> HIDE DEF T
<1> QED
  BY <1>4, <1>5, FS_Subset

\* Some tags are as many as all of them only if they are all of them.
LEMMA AsManyIsAll ==
  ASSUME logs \in Seq(Entries), NEW T \in SUBSET allTags
  PROVE  Cardinality(T) = Cardinality(allTags) <=> T = allTags
  BY TagsAreFinite, FS_Subset

LEMMA ToggleTurnsOneTag ==
  ASSUME TypeOK, NEW tag \in allTags \ {All}, toggleTag(tag),
         selectedTags \subseteq allTags \cup {All}
  PROVE  Lit' = IF Flip(tag) = allTags THEN {} ELSE Flip(tag)
<1>1. logs \in Seq(Entries) /\ TagsWellFormed
  BY DEF TypeOK
<1>2. allTags' = allTags
  BY ParsedKept DEF toggleTag
<1>3. selectedTags' = Toggled(tag)
  BY DEF toggleTag
<1> DEFINE others == selectedTags \ {All}
           lit(tags) == (IF All \in tags \/ tags \cap allTags = {}
                           THEN {All} ELSE tags \cap allTags) \ {All}
<1>4. Lit = lit(selectedTags) /\ Lit' = lit(selectedTags')
  BY <1>2 DEF Lit, activeSelectedTags
<1>5. lit({All}) = {}
  OBVIOUS
<1>6. ASSUME NEW T \in SUBSET allTags, T # {}, All \notin T
      PROVE  lit(T) = T
  BY <1>6
<1>7. others \subseteq allTags /\ All \notin others /\ Lit = others
  BY <1>1, <1>4 DEF TagsWellFormed
<1>8. Flip(tag) = IF tag \in others THEN others \ {tag} ELSE others \cup {tag}
  BY <1>7 DEF Flip
<1> HIDE DEF others, lit
<1>9. CASE tag \in others
  <2>1. others \ {tag} # allTags /\ {} # allTags
    OBVIOUS
  <2>2. CASE others = {tag}
    BY <1>3, <1>4, <1>5, <1>8, <1>9, <2>1, <2>2 DEF Toggled, others
  <2>3. CASE others # {tag}
    <3>1. selectedTags' = others \ {tag}
      BY <1>3, <1>9, <2>3 DEF Toggled, others
    <3>2. others \ {tag} # {}
      BY <1>9, <2>3
    <3> QED
      BY <1>4, <1>6, <1>7, <1>8, <1>9, <2>1, <3>1, <3>2
  <2> QED
    BY <2>2, <2>3
<1>10. CASE tag \notin others
  <2> DEFINE more == others \cup {tag}
  <2>1. more \in SUBSET allTags /\ more # {} /\ All \notin more
    BY <1>7
  <2>2. selectedTags' = IF Cardinality(more) = Cardinality(allTags) THEN {All} ELSE more
    BY <1>3, <1>10 DEF Toggled, others
  <2>3. selectedTags' = IF more = allTags THEN {All} ELSE more
    BY <1>1, <2>1, <2>2, AsManyIsAll
  <2> QED
    BY <1>4, <1>5, <1>6, <1>8, <1>10, <2>1, <2>3
<1> QED
  BY <1>9, <1>10

\* A click on a tag turns that tag on or off and no other (toggleTag in logs-tab.tsx),
\* however many tags the lines have: counting the tags tells whether they are all lit.
THEOREM ClickTurnsOneTag == Spec => TogglesOneTag
<1> DEFINE Step ==
      \A tag \in allTags \ {All} :
        toggleTag(tag) /\ selectedTags \subseteq allTags \cup {All} =>
          Lit' = IF Flip(tag) = allTags THEN {} ELSE Flip(tag)
<1>1. IInv => Step
  BY ToggleTurnsOneTag DEF IInv
<1>2. IInv => [Step]_vars
  BY <1>1
<1> HIDE DEF Step
<1>3. Spec => [][Step]_vars
  BY <1>2, Inductive, PTL
<1> QED
  BY <1>3 DEF TogglesOneTag, Step
=============================================================================

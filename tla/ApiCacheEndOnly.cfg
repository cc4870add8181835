SPECIFICATION Spec
CONSTANTS
  Requests = {r1, r2}
  Queries <- EndOnlyQueries
  Targets = {w1}
  Contexts = {c1}
  DefaultKey = "__default"
  Times = {s1, e1}
  BadTimes = {bad}
  Terms = {term}
  Nil = Nil
  ApiTTL = 1
  LogTTL = 1
  LogCacheMaxEntries = 2
  DefaultSince = 1
  MaxSince = 3
  MaxTime = 1
  w1 = w1
  c1 = c1
  s1 = s1
  e1 = e1
  bad = bad
  term = term
INVARIANTS AnswersEveryWindow

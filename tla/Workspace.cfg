SPECIFICATION Spec
CONSTANTS
  c1 = c1
  c2 = c2
  n1 = n1
  n2 = n2
  w1 = w1
  w2 = w2
  w3 = w3
  w4 = w4
  trace = trace
  corr = corr
  Contexts = {c1, c2}
  Names = {n1, n2}
  None = None
  Budgets <- MCBudgets
  Start = c1
  Preferred = n1
  NamespacesOf <- MCNamespacesOf
  WorkloadsOf <- MCWorkloadsOf
  Terms <- MCTerms
  Blank = Blank
  PerPage = 1
  MostNamespaces = 1
  MostWorkloads = 1
  ChainQueries = {trace, corr}
  BlankQuery = BlankQuery
  Modes = {"trace"}
  Minutes = {5}
  ItemsOf <- MCItemsOf
  MapOf <- MCMapOf
INVARIANTS EnterPicksAResult ChainShowsLastAsked ChainAddsUp MapSettles
PROPERTY PagingButtonsMove
CHECK_DEADLOCK FALSE

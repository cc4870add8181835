SPECIFICATION Spec
CONSTANTS
  a = a
  b = b
  n = n
  preferred = preferred
  Contexts = {a, b}
  Unset = Unset
  Current = a
  Names = {n, preferred}
  NamespacesOf <- ThreeLists
  Preferred = preferred
  Items = {i}
  MaxEvents = 2
  None = None
INVARIANTS
  TypeOK
  LastAskedIsSelected
  ShownIsSelectedAtRest
  SelectionNestsAtRest
  EffectsSettle
CHECK_DEADLOCK FALSE

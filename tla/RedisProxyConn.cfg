SPECIFICATION Spec
CONSTANTS
  c1 = c1
  c2 = c2
  i1 = i1
  i2 = i2
  v1 = v1
  Proxies = {c1, c2}
  Items = {i1, i2}
  Values = {v1}
  Increments <- Amounts
  ValueMaps <- Maps
  ItemLists <- Lists
  Width = 8
  MaxCalls = 3
  none = none
CHECK_DEADLOCK FALSE
INVARIANTS
  AnswersAreCurrent
  CountedAtMostOnce

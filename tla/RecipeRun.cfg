SPECIFICATION FairSpec
CONSTANTS
  c1 = c1
  c2 = c2
  d1 = d1
  d2 = d2
  i1 = i1
  i2 = i2
  Clients = {c1, c2}
  Deletes = {d1, d2}
  Inputs = {i1, i2}
  MaxEvents = 3
INVARIANTS
  RecipeJobSound
PROPERTIES
  SomeoneIsTold
CHECK_DEADLOCK FALSE

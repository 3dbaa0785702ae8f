\* Four nodes, three values, five nodes made since the last one was removed
\* by value.
CONSTANTS
  Nodes = {n1, n2, n3, n4}
  Null = Null
  Values = {1, 2, 3}
  NoCall = NoCall
  MaxLen = 5
SPECIFICATION Spec
INVARIANT WellLinked
PROPERTY ImplementsValueList
SYMMETRY Symmetry
CHECK_DEADLOCK FALSE

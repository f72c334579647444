SPECIFICATION Spec
CONSTANTS
  s1 = s1
  s2 = s2
  Session = {s1}
  Prop <- MCProp
  Value <- MCValue
  Name <- MCName
  Statement <- SharedSet
  Graph <- TwoEdges
  MaxStatements = 1
INVARIANT SharedSetsKept
CHECK_DEADLOCK FALSE

SPECIFICATION Spec
CONSTANTS
  s1 = s1
  s2 = s2
  Session = {s1}
  Prop <- MCProp
  Value <- MCValue
  Name <- MCName
  Statement <- StaleMerge
  Graph <- StaleGraph
  MaxStatements = 2
INVARIANT NoDanglingEdges
CHECK_DEADLOCK FALSE

SPECIFICATION Spec
CONSTANTS
  s1 = s1
  s2 = s2
  Session = {s1}
  Prop <- MCProp
  Value <- MCValue
  Name <- MCName
  Statement <- TwoCreates
  Graph <- OneEdge
  MaxStatements = 1
INVARIANT RefusesOnlyDeleted
CHECK_DEADLOCK FALSE

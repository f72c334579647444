SPECIFICATION Spec
CONSTANTS
  s1 = s1
  s2 = s2
  Session = {s1, s2}
  Prop <- MCProp
  Value <- MCValue
  Name <- MCName
  Statement <- MCStatement
  Graph <- TwoEdges
  MaxStatements = 2
SYMMETRY Symmetry
INVARIANT TypeOK
INVARIANT NoDanglingEdges
INVARIANT MergeOnce
INVARIANT SetsAreKept
PROPERTY NoLostUpdate
CHECK_DEADLOCK FALSE

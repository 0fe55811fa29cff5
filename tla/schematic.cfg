SPECIFICATION Spec
CONSTANTS
  Components <- MCComponents
  Terminals <- MCTerminals
  Relationships <- MCRelationships
  MaxRelationships = 4
  MaxComponents = 100
INVARIANTS NetsAreComponents CompleteIsWired NetsStayApart CompiledIsAccepted
CHECK_DEADLOCK FALSE

SPECIFICATION Spec
CONSTANTS
  Questions <- MCQuestions
  Library <- MCLibrary
  RootPath <- MCRootPath
  Pattern <- MCPattern
  Indices <- MCIndices
  MaxCompositionDepth = 32
  MaxDepth = 2
INVARIANTS ReportsAreExplained FoundSchemasApply CyclesClose WalksAgree
CHECK_DEADLOCK FALSE

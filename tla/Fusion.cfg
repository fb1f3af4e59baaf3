SPECIFICATION MCSpec
CONSTANTS
  GraphDefs <- MCGraphDefs
  PassDefs <- MCPassDefs
  Scripts <- MCScripts
  Passes = 2
  Endings <- MCEndings
  KeyOrder <- MCKeyOrder
  Registered = {"Mul"}
  NoAttr = noattr
  Graphs <- MCGraphs
  PatternDefs <- MCPatternDefs
  FusedType = "fused"
  MaxNodes = 7
  MaxRuns = 2
  Absent = absent
  DescNames = {"", "a", "b", "c"}
  DescTypes <- MCDescTypes
  Repeats <- MCRepeats
  NameLists <- MCNameLists
  MaxCalls = 5
INVARIANTS
    ScopesAreTypedRight
    MatchesAreOfTheGraph
    ErrorFreePatternIsAsAsked
CHECK_DEADLOCK FALSE

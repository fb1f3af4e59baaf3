SPECIFICATION MCSpec
CONSTANTS
  aa = aa
  bb = bb
  f = f
  x = x
  y = y
  s = s
  t = t
  Node = {aa, bb, f, x, y}
  Root = root
  Sub = {s, t}
  ParentNode <- MCParentNode
  Content <- MCContent
  InNum <- MCInNum
  OutNum <- MCOutNum
  Linked <- MCLinked
  NameOf <- MCNameOf
  Kept = {aa}
  Weightless = {bb}
  Producers <- MCProducers
  MaxRecursionDepth = 3
  MaxEdits = 2
  None = none
  m = m
  o2 = o2
  old = old
  other = other
  OpNames = {m, o2}
  OpIns <- MCOpIns
  OpOuts <- MCOpOuts
  Variables = {o2}
  ExistNames <- MCExist
  Foreign = {other}
  MaxSets = 3
  InputNames <- MCInputNames
  Slots <- MCSlots
  relu = relu
  relu1 = relu1
  add = add
  Cell = {relu, relu1, add}
  Parts = {1, 2}
  CellIns <- MCCellIns
  CellOuts <- MCCellOuts
  Contained <- Same
  MaxLinks = 3
INVARIANTS
    TuningRestores
    BuildsAndRemovals
PROPERTY CopiesAreFaithful
CHECK_DEADLOCK FALSE

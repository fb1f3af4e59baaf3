SPECIFICATION MCSpec
CONSTANTS
  d1 = d1
  d2 = d2
  d3 = d3
  e1 = e1
  e2 = e2
  e3 = e3
  OpData = {d1, d2, d3}
  OmTypeOf <- MCOmTypeOf
  OriTypes <- MCOriTypes
  ParserFns = {f1}
  NoFn = "null"
  MaxSetters = 1
  Types = {"", "a"}
  NoName = ""
  Makers = {f1, f2}
  NullMaker = null
  PassKinds = {k0}
  BadPassKind = k9
  Formats = {1, 257}
  Priorities <- MCPriorities
  NoPriority = 99
  MaxPassCalls = 3
  Execs = {e1, e2, e3}
  SessionOf <- MCSessionOf
  Threads = {t1, t2}
  Addrs = {a1, a2}
  Nodes = {1}
  Outputs = {0, 1}
  Values = {v, w}
  GlobalIds = {2}
  MaxSets = 2
  GraphKeys = {g1, g2}
  Passes = {p1}
  Times = {0, 1, 2}
  Wrap = 3
  MaxUpdates = 3
INVARIANT SharedStateIsExact
PROPERTIES
    OpRegistryPromise
    PassesAsRegistered
CHECK_DEADLOCK FALSE

SPECIFICATION MCSpec
CONSTANTS
  cst = cst
  var = var
  join = join
  split = split
  plug = plug
  Operator = {cst, var, join, split, plug}
  Parsed = {plug}
  Ir <- MCIr
  TypeOf <- MCTypeOf
  NameOf <- MCNameOf
  Wired = {cst, join, split}
  DataFormats = {"ND", "NHWC"}
  DataTypes = {"int"}
  Instances = {"g", "h"}
  MaxCreates = 3
  MaxLinks = 3
  f1 = f1
  f2 = f2
  c1 = c1
  c2 = c2
  vn = vn
  sw = sw
  op = op
  mm = mm
  prs = prs
  pw = pw
  d = d
  inner = inner
  en = en
  pc = pc
  d2 = d2
  inner2 = inner2
  pld = pld
  root = root
  g1 = g1
  g2 = g2
  t1 = t1
  t2 = t2
  NewConsts <- MCFresh
  Tensor = {t1, t2}
  NoTensor = NoTensor
  NoNode = NoNode
  NoGraph = NoGraph
  ParentNode <- MCParentNode
  ParentIndex <- MCParentIndex
  Outs <- MCOuts
  ParentOf <- MCParentOf
  Editable = {op, mm, prs, inner}
  MaxEdits = 2
INVARIANTS
    BuiltAsLinked
    ConstantsAgree
PROPERTIES
    OpDescPromise
    WeightsFitInputs
CHECK_DEADLOCK FALSE

CONSTANTS
    NoAttr = NoAttr
    MaxElementNum = 2
    MaxRuns = 2
    Formats = {"ND", "NHWC", "NC1HWC0"}
    MaxCalls = 2
    Holders = {a, b, c}
    TensorAttrs = {p}
    TensorDescs = {0, 1}
    NewDesc = 0
    Nil = Nil
    Gone = Gone
    TensorSteps = 5
    ByteStrings <- MCByteStrings
    raw = raw
    num = num
    AttrNames = {raw, num}
    BufferNames = {bytes}
    AttrValues <- MCAttrValues
    AttrLists <- MCAttrLists
    Int32Max = 1
    Missing = Missing
    BadItem = BadItem
    NoBytes = 0
    AttrSteps = 4
    Vars = {v, w}
    DimValues <- MCDimValues
    DescFormats = {"ND", "NCHW"}
    DescTypes = {"FLOAT", "STRANGE"}
    MapTypes = {"FLOAT", "UNDEFINED"}
    Int64Max = 15
    UInt32Max = 7
    NotSet = NotSet
    ShapeSteps = 2
SPECIFICATION MCSpec
SYMMETRY MCSymmetry
INVARIANTS
    FormatsSpread
    LookUpsAreClasses
    ShapesFitFormats
    DescriptionsAgree
PROPERTIES
    TensorsApart
    AttributesTyped
CHECK_DEADLOCK FALSE

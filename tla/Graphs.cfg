SPECIFICATION MCSpec
CONSTANTS
    a = a
    b = b
    x = x
    c = c
    d = d
    fresh = fresh
    Nodes = {a, b, x, c, d, fresh}
    InNum <- MCInNum
    OutNum <- MCOutNum
    Constants = {b}
    Edges <- MCEdges
    Calls = {"IsolateNode", "IsolateNodeOneIO", "BypassNode", "ReplaceNodeAnchors", "MoveInCtrlEdges",
             "MoveOutCtrlEdges", "CopyInDataEdges", "MoveOutputEdges", "InsertNodeAfter",
             "RemoveNode", "InsertTransNode"}
    NewNodes = {fresh}
    IoMaps <- MCIoMaps
    MaxCalls = 1
    r = r
    s = s
    t = t
    ta = ta
    tc = tc
    td = td
    None = None
    Graphs <- MCGraphSet
    TreeNodes <- MCTreeNodes
    Names <- MCNames
    Namings <- MCNamings
    Content <- MCContent
    Slots <- MCSlots
    DataNodes = {ta}
    OutIndexes = {0, 1}
    MaxSlots = 2
    MaxInputs = 1
    MaxSteps = 5
INVARIANT ContainersAgree
PROPERTIES
    IsolateKeepsOrder
    TakingOutKeepsData
    PuttingInKeepsLinks
    SubgraphsGoTogether
CHECK_DEADLOCK FALSE

SPECIFICATION MCSpec
CONSTANTS
    src = src
    par = par
    dat = dat
    mid = mid
    net = net
    mrg = mrg
    nxt = nxt
    enter = enter
    reader = reader
    con = con
    conNet = conNet
    tail = tail
    datNet = datNet
    last = last
    Node <- MCNode
    Graphs <- MCGraphs
    MaxIndex = 1
    NoNode = NoNode
    NoAnchor = NoAnchor
    NoIndex = NoIndex
    None = None
    Nodes <- MCNodes
    Walk <- MCWalk
    InNum <- MCInNum
    OutNum <- MCOutNum
    Links <- MCLinks
    Place <- MCPlace
    ParentIdx <- MCParentIdx
    Source = src
    Feeds <- MCFeeds
    Setups <- MCSetups
    MaxPasses = 3
INVARIANTS
    MapsAgree
    ClassesAreHeldTogether
    SymbolsAreComplete
    EndsAgree
    LoopIsSteady
PROPERTY PassesRepeat
CHECK_DEADLOCK FALSE

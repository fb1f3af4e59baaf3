SPECIFICATION FairSpec
CONSTANTS
    Nodes = {n1, n2}
    InNum <- SmallInNum
    OutNum <- SmallOutNum
    MaxLinks = 3
INVARIANT
    LinksAreMutual
PROPERTY UnlinkAllIsExact

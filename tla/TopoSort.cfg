SPECIFICATION FairSpec
CONSTANTS
    n1 = n1
    n2 = n2
    n3 = n3
    Nodes = {n1, n2, n3}
    Arrival <- MCArrival
    Type <- MCType
    NameOf <- MCNameOf
    InputsOrder <- MCInputsOrder
    AnchorNum = 1
    RunModes = {"unset", "predict", "train"}
    Modulus = 8
    MaxEdges = 2
INVARIANTS
    NodeListIntact
    ProducersFirst
    LoopIsReal
PROPERTIES
    OrderIsAsDocumented
    SortReturns

SPECIFICATION Spec
CONSTANTS
    n1 = n1
    n2 = n2
    n3 = n3
    Nodes = {n1, n2, n3}
    Arrival <- MCBackwards
    Type <- MCAllData
    NameOf <- MCNameInputs
    InputsOrder <- MCInputs123
    AnchorNum = 1
    RunModes = {"predict"}
    Modulus = 8
    MaxEdges = 0
INVARIANT
    InputsInUserOrder

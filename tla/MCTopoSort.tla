----------------------------- MODULE MCTopoSort -----------------------------
(* TopoSort on three nodes of one output data anchor. *)
EXTENDS TopoSort

CONSTANTS n1, n2, n3

(* One input, a merge, and the NextIteration that closes its loop *)
MCArrival == <<n3, n1, n2>>
MCType    == n1 :> "Data" @@ n2 :> "Other" @@ n3 :> "NextIteration"
MCNameOf  == n1 :> 2 @@ n2 :> 1 @@ n3 :> 3
MCInputsOrder == <<1, 2>>

(* Three inputs, whose order the user gives *)
MCAllData     == [n \in Nodes |-> "Data"]
MCBackwards   == <<n3, n2, n1>>
MCNameInputs  == n1 :> 1 @@ n2 :> 3 @@ n3 :> 2
MCInputs123   == <<1, 2, 3>>
=============================================================================

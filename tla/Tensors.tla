---------------------------- MODULE Tensors ----------------------------
(***************************************************************************)
(* Tensors and what they share: GeTensor (graph/ge_tensor.cc), the user's  *)
(* Tensor over it (graph/tensor.cc) and the attributes that hold tensors   *)
(* (graph/ge_attr_value.cc).                                               *)
(*                                                                         *)
(* Memory is a record.  A cell is a TensorDescriptor message, a block is   *)
(* the bytes behind an AlignedPtr or a message's string.  A GeTensor has   *)
(* def (tensor_def_: the attribute it stands for, or Nil), own (what       *)
(* __desc_ refers to), td (tensor_data_.tensor_descriptor_), block and len *)
(* (aligned_ptr_ and length_).  What nothing refers to any more may be     *)
(* allocated again.                                                        *)
(***************************************************************************)
EXTENDS Integers, Sequences, FiniteSets

CONSTANTS Holders,      \* variables that hold a tensor
          TensorAttrs,  \* attributes of the kind "tensor"
          TensorDescs,  \* descriptions
          ByteStrings,  \* data: sequences of bytes
          NewDesc,      \* the description of GeTensorDesc()
          TensorSteps,  \* bound on the operations of a behaviour
          Nil, Gone     \* no reference; freed memory

VARIABLES mem,      \* [heap, cells, blocks, defs], defs for the attributes that are there
          object,   \* [Holders -> object or 0]
          kin,      \* the family of each object and attribute: ghost
          touched,  \* the object or attribute of the last operation: ghost
          used      \* operations so far

tensorVars == <<mem, object, kin, touched, used>>

Objects == 1 .. Cardinality(Holders)
Cells == 1 .. 2 * Cardinality(Holders) + Cardinality(TensorAttrs) + 1
Blocks == 1 .. Cardinality(Holders) + Cardinality(TensorAttrs) + 1
Shorter(m, n) == IF m < n THEN m ELSE n
Smallest(S) == CHOOSE x \in S : \A y \in S : x <= y

ASSUME TensorsAssumption ==
    /\ IsFiniteSet(Holders) /\ IsFiniteSet(TensorAttrs)
    /\ Nil # Gone /\ {Nil, Gone} \cap (TensorAttrs \cup Nat) = {}
    /\ TensorAttrs \cap Nat = {}

\* what live objects and attributes refer to
Live(at) == {at[h] : h \in Holders} \ {0}
CellsUsed(m, at) == (UNION {{m.heap[o].own, m.heap[o].td} : o \in Live(at)})
                    \cup {m.defs[p].cell : p \in DOMAIN m.defs}
BlocksUsed(m, at) == {m.heap[o].block : o \in Live(at)}
                     \cup {m.defs[p].block : p \in DOMAIN m.defs}
NewCell(m, at) == Smallest(Cells \ CellsUsed(m, at))
NewBlock(m, at) == Smallest(Blocks \ BlocksUsed(m, at))

----------------------------------------------------------------------------
(* What a tensor shows. *)

DescCell(m, o) == IF m.heap[o].def # Nil THEN m.defs[m.heap[o].def].cell ELSE m.heap[o].td
GetTensorDesc(m, o) == m.cells[DescCell(m, o)]
GetData(m, o) ==
    LET t == m.heap[o]
    IN  IF t.len = 0 THEN << >>
        ELSE IF t.block = Nil \/ m.blocks[t.block] = Gone THEN Gone
        ELSE SubSeq(m.blocks[t.block], 1, Shorter(t.len, Len(m.blocks[t.block])))
Seen(m, o) == <<GetTensorDesc(m, o), GetData(m, o)>>

\* a tensor whose attribute was deleted is not to be used
Sound(m, o) == /\ m.heap[o].def # Gone
               /\ m.cells[m.heap[o].own] # Gone /\ m.cells[m.heap[o].td] # Gone
               /\ GetData(m, o) # Gone

----------------------------------------------------------------------------
(* The operations on memory. *)

\* __desc_ follows the attribute's message, or the descriptor of the data
DescReference(m, o) == [m EXCEPT !.heap[o].own = DescCell(m, o)]
SetTensorDesc(m, o, d) == LET n == DescReference(m, o) IN [n EXCEPT !.cells[n.heap[o].own] = d]

\* std::string::assign: in place when it fits, else where there is room;
\* the byte after the last is the terminator
Overlay(old, bytes) == IF Len(bytes) >= Len(old) THEN bytes
                       ELSE bytes \o <<0>> \o SubSeq(old, Len(bytes) + 2, Len(old))
StringIn(m, p, bytes) == [m EXCEPT !.blocks[m.defs[p].block] = Overlay(@, bytes), !.defs[p].len = Len(bytes)]
StringMoved(m, at, p, bytes) ==
    LET b == NewBlock(m, at)
    IN  [m EXCEPT !.blocks = [@ EXCEPT ![m.defs[p].block] = Gone, ![b] = bytes],
                  !.defs[p].block = b, !.defs[p].len = Len(bytes)]
SetString(m, at, p, bytes) ==
    {StringIn(m, p, bytes)} \cup
    (IF Len(bytes) > Len(m.blocks[m.defs[p].block]) THEN {StringMoved(m, at, p, bytes)} ELSE {})

\* the same address: nothing to do, not even the length
BuildAlignerPtrWithProtoData(m, o) ==
    LET t == m.heap[o]
        p == m.defs[t.def]
    IN  IF t.len # 0 /\ t.block = p.block THEN m
        ELSE [m EXCEPT !.heap[o].block = p.block, !.heap[o].len = p.len]

\* TensorData::SetData: bytes of the length held go where they are shared
MallocAlignedPtr(m, at, o, size) ==
    IF m.heap[o].len = size /\ m.heap[o].block # Nil THEN m
    ELSE LET b == NewBlock(m, at) IN [m EXCEPT !.heap[o].block = b, !.heap[o].len = size]
ClearTensorData(m, o) == [m EXCEPT !.heap[o].block = Nil, !.heap[o].len = 0]
SetTensorData(m, at, o, bytes) ==
    IF bytes = << >> THEN ClearTensorData(m, o)
    ELSE LET n == MallocAlignedPtr(m, at, o, Len(bytes))
         IN  [n EXCEPT !.blocks[n.heap[o].block] = Overlay(IF n = m THEN @ ELSE << >>, bytes)]

SetData(m, at, o, bytes) ==
    IF m.heap[o].def = Nil THEN {SetTensorData(m, at, o, bytes)}
    ELSE {BuildAlignerPtrWithProtoData(n, o) : n \in SetString(m, at, m.heap[o].def, bytes)}

ClearData(m, o) ==
    LET n == IF m.heap[o].def = Nil THEN m ELSE StringIn(m, m.heap[o].def, << >>)
    IN  ClearTensorData(n, o)

\* GeTensor(): one new cell for __desc_ and for the data
Constructed(m, at, o, d) ==
    LET c == NewCell(m, at)
    IN  [m EXCEPT !.cells[c] = d, !.heap[o] = [def |-> Nil, own |-> c, td |-> c, block |-> Nil, len |-> 0]]

\* GeTensor(const GeTensor &): the copy's own description is a new cell,
\* the data and their descriptor are shared
CopyConstruct(m, at, o, from) ==
    LET n == Constructed(m, at, o, m.cells[m.heap[from].own])
    IN  [n EXCEPT !.heap[o] = [m.heap[from] EXCEPT !.own = n.heap[o].own]]

\* operator=: the description is copied into whatever __desc_ refers to
AssignTo(m, o, from) ==
    IF o = from THEN m
    ELSE [m EXCEPT !.cells[m.heap[o].own] = m.cells[m.heap[from].own],
                   !.heap[o] = [m.heap[from] EXCEPT !.own = m.heap[o].own,
                                                    !.def = IF @ # Nil THEN @ ELSE m.heap[o].def]]

\* Clone(): the description of __desc_ as it is, the bytes in a block of its own
CloneByCopy(m, at, o, from) == CopyConstruct(m, at, o, from)
Clone(m, at, o, from) ==
    SetTensorData(Constructed(m, at, o, m.cells[m.heap[from].own]), at, o, GetData(m, from))

----------------------------------------------------------------------------
(* The actions: memory m, object o, the families that meet. *)

Spent == used < TensorSteps /\ used' = used + 1
\* h is given a new object; an object's other holders keep it
Rehold(h) == [object EXCEPT ![h] = 0]
Fresh(h) == Smallest(Objects \ Live(Rehold(h)))
FreshFamily == Smallest((1 .. Cardinality(Objects) + Cardinality(TensorAttrs) + 1)
                        \ {kin[x] : x \in Live(object) \cup TensorAttrs})
Joined(x, y) == [z \in DOMAIN kin |-> IF kin[z] = kin[x] THEN kin[y] ELSE kin[z]]
Usable(h) == object[h] # 0 /\ Sound(mem, object[h])

\* the memory of a behaviour in which h holds the new object o
Placed(h, o) == object' = [object EXCEPT ![h] = o] /\ touched' = o

NewTensor(h, d, bytes) ==
    /\ Spent
    /\ LET o == Fresh(h)
       IN  /\ Placed(h, o)
           /\ mem' = SetTensorData(Constructed(mem, Rehold(h), o, d), Rehold(h), o, bytes)
           /\ kin' = [kin EXCEPT ![o] = FreshFamily]

\* a Tensor, or a pointer to one, is copied: both are one object
ShareTensor(h, g) ==
    /\ Spent /\ h # g /\ Usable(g)
    /\ Placed(h, object[g]) /\ UNCHANGED <<mem, kin>>

\* AsGeTensor, AsGeTensorPtr
CopyTensor(h, g) ==
    /\ Spent /\ h # g /\ Usable(g)
    /\ LET o == Fresh(h)
       IN  /\ Placed(h, o)
           /\ mem' = CopyConstruct(mem, Rehold(h), o, object[g])
           /\ kin' = [kin EXCEPT ![o] = kin[object[g]]]

\* AsTensor: assigned to a new tensor
AsTensor(h, g) ==
    /\ Spent /\ h # g /\ Usable(g)
    /\ LET o == Fresh(h)
       IN  /\ Placed(h, o)
           /\ mem' = AssignTo(Constructed(mem, Rehold(h), o, NewDesc), o, object[g])
           /\ kin' = [kin EXCEPT ![o] = kin[object[g]]]

AssignTensor(h, g) ==
    /\ Spent /\ Usable(h) /\ Usable(g) /\ object[h] # object[g]
    /\ mem' = AssignTo(mem, object[h], object[g])
    /\ kin' = Joined(object[h], object[g]) /\ touched' = object[h] /\ UNCHANGED object

CloneTensor(h, g) ==
    /\ Spent /\ h # g /\ Usable(g)
    /\ LET o == Fresh(h)
       IN  /\ Placed(h, o)
           /\ mem' = Clone(mem, Rehold(h), o, object[g])
           /\ kin' = [kin EXCEPT ![o] = FreshFamily]

Describe(h, d) ==
    /\ Spent /\ Usable(h) /\ mem' = SetTensorDesc(mem, object[h], d)
    /\ touched' = object[h] /\ UNCHANGED <<object, kin>>

\* a read refreshes __desc_
ReadDesc(h) ==
    /\ Spent /\ Usable(h) /\ mem' = DescReference(mem, object[h])
    /\ touched' = object[h] /\ UNCHANGED <<object, kin>>

Fill(h, bytes) ==
    /\ Spent /\ Usable(h) /\ mem' \in SetData(mem, object, object[h], bytes)
    /\ touched' = object[h] /\ UNCHANGED <<object, kin>>

Empty(h) ==
    /\ Spent /\ Usable(h) /\ mem' = ClearData(mem, object[h])
    /\ touched' = object[h] /\ UNCHANGED <<object, kin>>

\* AttrUtils::SetTensor: the value goes into the attribute's message, which
\* is made when the attribute is not there
SetTensorAttr(p, h) ==
    /\ Spent /\ Usable(h) /\ mem.heap[object[h]].def # p
    /\ LET t == mem.heap[object[h]]
           d == IF t.def # Nil THEN mem.cells[mem.defs[t.def].cell] ELSE mem.cells[t.td]
           bytes == IF t.def # Nil THEN SubSeq(mem.blocks[mem.defs[t.def].block], 1, mem.defs[t.def].len)
                    ELSE GetData(mem, object[h])
           c == NewCell(mem, object)
           b == NewBlock(mem, object)
       IN  IF p \notin DOMAIN mem.defs
           THEN /\ mem' = [mem EXCEPT !.cells[c] = d, !.blocks[b] = bytes,
                                      !.defs = [q \in DOMAIN @ \cup {p} |->
                                         IF q = p THEN [cell |-> c, block |-> b, len |-> Len(bytes)] ELSE @[q]]]
                /\ kin' = [kin EXCEPT ![p] = FreshFamily]
           ELSE /\ \E n \in SetString(mem, object, p, bytes) : mem' = [n EXCEPT !.cells[n.defs[p].cell] = d]
                /\ UNCHANGED kin
    /\ touched' = p /\ UNCHANGED object

\* AttrUtils::GetTensor and MutableTensor: a tensor over the attribute's message
GetTensorAttr(h, p) ==
    /\ Spent /\ p \in DOMAIN mem.defs
    /\ LET o == Fresh(h)
           d == mem.defs[p]
       IN  /\ Placed(h, o)
           /\ mem' = [mem EXCEPT !.heap[o] = [def |-> p, own |-> d.cell, td |-> d.cell,
                                              block |-> d.block, len |-> d.len]]
           /\ kin' = [kin EXCEPT ![o] = kin[p]]

\* AttrHolder::DelAttr: the message goes, and with it what stands for it
DelTensorAttr(p) ==
    /\ Spent /\ p \in DOMAIN mem.defs
    /\ mem' = [mem EXCEPT !.cells[mem.defs[p].cell] = Gone, !.blocks[mem.defs[p].block] = Gone,
                          !.heap = [o \in Objects |-> IF @[o].def = p THEN [@[o] EXCEPT !.def = Gone] ELSE @[o]],
                          !.defs = [q \in DOMAIN @ \ {p} |-> @[q]]]
    /\ touched' = p /\ UNCHANGED <<object, kin>>

TensorsInit ==
    /\ mem = [heap |-> [o \in Objects |-> [def |-> Nil, own |-> 1, td |-> 1, block |-> Nil, len |-> 0]],
              cells |-> [c \in Cells |-> NewDesc], blocks |-> [b \in Blocks |-> << >>],
              defs |-> << >>]
    /\ object = [h \in Holders |-> 0]
    /\ kin = [x \in Objects \cup TensorAttrs |-> 1]
    /\ touched = 0 /\ used = 0

TensorsNext ==
    \/ \E h \in Holders, bytes \in ByteStrings : NewTensor(h, NewDesc, bytes)
    \/ \E h, g \in Holders : ShareTensor(h, g) \/ CopyTensor(h, g) \/ AsTensor(h, g)
                             \/ AssignTensor(h, g) \/ CloneTensor(h, g)
    \/ \E h \in Holders : ReadDesc(h) \/ Empty(h)
    \/ \E h \in Holders, d \in TensorDescs : Describe(h, d)
    \/ \E h \in Holders, bytes \in ByteStrings : Fill(h, bytes)
    \/ \E h \in Holders, p \in TensorAttrs : SetTensorAttr(p, h) \/ GetTensorAttr(h, p)
    \/ \E p \in TensorAttrs : DelTensorAttr(p)

TensorsSpec == TensorsInit /\ [][TensorsNext]_tensorVars

----------------------------------------------------------------------------
(* Tensors share their description and their bytes through copies,         *)
(* assignments and attributes, and only through them: a clone, or a tensor *)
(* set as an attribute, starts a family of its own, and whatever is done   *)
(* to a tensor or an attribute afterwards (a write in place, a string that *)
(* moves, an assignment through a stale __desc_, a deletion) shows in no   *)
(* tensor of another family.                                               *)
TensorsApart ==
    [][\A h \in Holders : (object[h] # 0 /\ object'[h] = object[h] /\ Sound(mem, object[h])
                             /\ kin[object[h]] # kin'[touched'] /\ kin[object[h]] = kin'[object[h]])
            => Sound(mem', object[h]) /\ Seen(mem', object[h]) = Seen(mem, object[h])]_tensorVars
=============================================================================

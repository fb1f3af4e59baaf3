---------------------------- MODULE Descriptions ----------------------------
(***************************************************************************)
(* Descriptions of tensors.  The user's Shape and TensorDesc               *)
(* (graph/tensor.cc) point to their values: a Shape that is copied is      *)
(* shared, a TensorDesc that is copied is not, but the shapes in it are,   *)
(* and one that was moved from has no value.  The internal GeShape and     *)
(* GeTensorDesc (graph/ge_tensor.cc) are values of one message, whose      *)
(* origin shape, origin format and ranges are attributes that may be       *)
(* missing.  TensorAdapter converts between the two.                       *)
(***************************************************************************)
EXTENDS Integers, Sequences, FiniteSets, Functions

CONSTANTS Vars,       \* variables that hold a TensorDesc
          DimValues,  \* dimensions; the unknown ones are -1 and -2
          DescFormats, DescTypes, \* formats and types
          MapTypes,   \* the types that kDataTypeMap has
          Int64Max,   \* the largest integer of 64 bits, the largest of 32 bits
          UInt32Max,  \*   without sign
          NotSet,     \* an attribute or field that is not there
          ShapeSteps  \* bound on the operations of a behaviour

VARIABLES shapes,  \* ShapeImpl of each shape: its dims
          desc,    \* [Vars -> TensorDescImpl or NoImpl]
          ge,      \* [Vars -> GeTensorDesc]
          moves    \* operations so far

descVars == <<shapes, desc, ge, moves>>

NoImpl == << >>
UnknownDim == -1
UnknownDimNum == -2
Reserved == "RESERVED"
Undefined == "UNDEFINED"
Int64Min == -Int64Max - 1
Dims == (Int64Min .. Int64Max) \cup {UnknownDim, UnknownDimNum}
Ranges == {<< >>} \cup {<<<<1, n>>>> : n \in DimValues}

ASSUME DescriptionsAssumption ==
    /\ IsFiniteSet(Vars)
    /\ Int64Max \in Nat \ {0} /\ UInt32Max \in Nat
    /\ DimValues \subseteq Int64Min .. Int64Max
    /\ NotSet \notin Seq(Dims) \cup Ranges \cup DescFormats \cup {"ND", Reserved}

----------------------------------------------------------------------------
(* Shapes. *)

ShapeImpl(dims) == IF UnknownDimNum \in Range(dims) THEN <<UnknownDimNum>> ELSE dims
GetDimNum(dims) == IF UnknownDimNum \in Range(dims) THEN 0 ELSE Len(dims)

Abs(n) == IF n < 0 THEN -n ELSE n
Quotient(n, d) == IF (n < 0) = (d < 0) THEN Abs(n) \div Abs(d) ELSE -(Abs(n) \div Abs(d))

\* four cases of signs, with divisions that do not overflow
FloorMulNotOverflow(a, b) ==
    CASE a > 0 /\ b > 0   -> a <= Int64Max \div b
      [] a > 0 /\ b <= 0  -> b >= -((-Int64Min) \div a) - 1
      [] a <= 0 /\ b > 0  -> a >= Quotient(Int64Min, b)
      [] a <= 0 /\ b <= 0 -> a = 0 \/ b >= Quotient(Int64Max, a)
Int64MulNotOverflow(a, b) ==
    CASE a > 0 /\ b > 0   -> a <= Int64Max \div b
      [] a > 0 /\ b <= 0  -> b >= Quotient(Int64Min, a)
      [] a <= 0 /\ b > 0  -> a >= Quotient(Int64Min, b)
      [] a <= 0 /\ b <= 0 -> a = 0 \/ b >= Quotient(Int64Max, a)

\* the product so far after each dimension; it stops at an unknown
\* dimension (-1) and at a product that does not fit (0)
UserSize(dims) ==
    LET product[i \in 0 .. Len(dims)] ==
            IF i = 0 THEN [at |-> 1, done |-> FALSE]
            ELSE LET p == product[i - 1]
                 IN  IF p.done THEN p
                     ELSE IF dims[i] \in {UnknownDim, UnknownDimNum} THEN [at |-> UnknownDim, done |-> TRUE]
                     ELSE IF ~Int64MulNotOverflow(p.at, dims[i]) THEN [at |-> 0, done |-> TRUE]
                     ELSE [p EXCEPT !.at = @ * dims[i]]
    IN  IF dims = << >> THEN 0 ELSE product[Len(dims)].at

\* GeShape multiplies without a check
Wrap(n) == ((n + Int64Max + 1) % (2 * (Int64Max + 1))) - Int64Max - 1
GeSize(dims) ==
    LET product[i \in 0 .. Len(dims)] ==
            IF i = 0 THEN 1 ELSE LET p == product[i - 1] IN Wrap(p * dims[i])
    IN  IF dims = << >> THEN 0
        ELSE IF Range(dims) \cap {UnknownDim, UnknownDimNum} # {} THEN UnknownDim
        ELSE product[Len(dims)]

\* Tensor::IsValid, in 64 bits without sign: an unknown size is the largest
\* number, whose product overflows, and is taken, unless elements have one byte
IsValid(size, bytes, length) ==
    LET u == IF size < 0 THEN size + 2 * (Int64Max + 1) ELSE size
    IN  \/ u = 0 /\ bytes = length
        \/ length # 0 /\ (2 * Int64Max + 1) \div length < u
        \/ u * length = bytes

----------------------------------------------------------------------------
(* GeTensorDesc. *)

DefaultGe == [dims |-> << >>, format |-> "ND", dtype |-> "FLOAT", name |-> "", size |-> 0, cnt |-> 0,
              oformat |-> "ND", odims |-> NotSet, odtype |-> NotSet, range |-> NotSet]
\* a type that the table does not have leaves the one before
SetDataType(d, t) == IF t \in MapTypes THEN [d EXCEPT !.dtype = t] ELSE d
GetOriginFormat(d) == IF d.oformat \in {NotSet, Reserved} THEN Reserved ELSE d.oformat
GetOriginShape(d) == IF d.odims = NotSet THEN << >> ELSE d.odims
SetOriginDataType(d, t) == [d EXCEPT !.odtype = IF t = Undefined THEN Reserved ELSE t]
GetShapeRange(d) == IF d.range = NotSet THEN << >> ELSE d.range
GeUpdate(d, dims, f, t) == SetDataType([d EXCEPT !.dims = dims, !.format = f], t)
GeSetDim(d, i, v) == IF i \in DOMAIN d.dims THEN [d EXCEPT !.dims[i] = v] ELSE d

----------------------------------------------------------------------------
(* TensorDesc: impl, whose two shapes are shared with every copy. *)

ShapeIds == 1 .. 2 * Cardinality(Vars) + 2
ShapesUsed == UNION {{desc[v].shape, desc[v].origin} : v \in {w \in Vars : desc[w] # NoImpl}}
FreeShapes == ShapeIds \ ShapesUsed
Least(S) == CHOOSE x \in S : \A y \in S : x <= y
One == Least(FreeShapes)
Other == Least(FreeShapes \ {One})

GetDims(v) == IF desc[v] = NoImpl THEN << >> ELSE shapes[desc[v].shape]
GetOriginDims(v) == IF desc[v] = NoImpl THEN << >> ELSE shapes[desc[v].origin]
GetField(v, f, none) == IF desc[v] = NoImpl THEN none ELSE desc[v][f]
Told(v) == [dims |-> GetDims(v), odims |-> GetOriginDims(v), format |-> GetField(v, "format", Reserved),
            oformat |-> GetField(v, "oformat", Reserved), dtype |-> GetField(v, "dtype", Undefined),
            range |-> GetField(v, "range", << >>), size |-> GetField(v, "size", 0),
            cnt |-> GetField(v, "cnt", 0), name |-> GetField(v, "name", "")]

\* the conversions: without a value, ranges cannot be read and the rest stays
TensorDesc2GeTensorDesc(t, known) ==
    LET d == [GeUpdate(DefaultGe, t.dims, t.format, t.dtype)
                EXCEPT !.odims = t.odims, !.oformat = t.oformat, !.name = t.name]
    IN  IF ~known THEN d
        ELSE [d EXCEPT !.range = t.range, !.size = t.size, !.cnt = t.cnt % (UInt32Max + 1)]
ConvertOriginLost(d) ==
    [dims |-> ShapeImpl(d.dims), odims |-> ShapeImpl(d.dims), format |-> d.format,
     oformat |-> GetOriginFormat(d), dtype |-> d.dtype, range |-> GetShapeRange(d),
     size |-> d.size, cnt |-> d.cnt, name |-> d.name]
GeTensorDesc2TensorDesc(d) ==
    [dims |-> ShapeImpl(d.dims), odims |-> ShapeImpl(GetOriginShape(d)), format |-> d.format,
     oformat |-> GetOriginFormat(d), dtype |-> d.dtype, range |-> GetShapeRange(d),
     size |-> d.size, cnt |-> d.cnt, name |-> d.name]

----------------------------------------------------------------------------
(* The actions. *)

Move == moves < ShapeSteps /\ moves' = moves + 1
\* a TensorDesc with two shapes of its own
Holding(v, t) ==
    /\ shapes' = [shapes EXCEPT ![One] = t.dims, ![Other] = t.odims]
    /\ desc' = [desc EXCEPT ![v] = [shape |-> One, origin |-> Other, format |-> t.format, oformat |-> t.oformat,
                    dtype |-> t.dtype, range |-> t.range, size |-> t.size, cnt |-> t.cnt, name |-> t.name]]

NewTensorDesc(v, dims, f, t) ==
    /\ Move
    /\ Holding(v, [dims |-> ShapeImpl(dims), odims |-> << >>, format |-> f, oformat |-> "ND", dtype |-> t,
                   range |-> << >>, size |-> 0, cnt |-> GetDimNum(ShapeImpl(dims)), name |-> ""])
    /\ UNCHANGED ge
CopyTensorDesc(v, w) ==
    /\ Move /\ v # w
    /\ IF desc[w] = NoImpl THEN Holding(v, [GeTensorDesc2TensorDesc(DefaultGe) EXCEPT !.odims = << >>])
       ELSE desc' = [desc EXCEPT ![v] = desc[w]] /\ UNCHANGED shapes
    /\ UNCHANGED ge
MoveTensorDesc(v, w) ==
    /\ Move /\ v # w
    /\ desc' = [desc EXCEPT ![v] = desc[w], ![w] = NoImpl] /\ UNCHANGED <<shapes, ge>>

\* Shape::SetDim, on a shape that GetShape has given: the impl of all copies
SetDim(v, i, n) ==
    /\ Move /\ desc[v] # NoImpl /\ i \in DOMAIN GetDims(v)
    /\ shapes' = [shapes EXCEPT ![desc[v].shape][i] = n] /\ UNCHANGED <<desc, ge>>
SetOriginShape(v, w) ==
    /\ Move /\ desc[v] # NoImpl /\ desc[w] # NoImpl
    /\ desc' = [desc EXCEPT ![v].origin = desc[w].shape] /\ UNCHANGED <<shapes, ge>>
SetUnknownDimNumShape(v) ==
    /\ Move /\ desc[v] # NoImpl
    /\ shapes' = [shapes EXCEPT ![One] = <<UnknownDimNum>>]
    /\ desc' = [desc EXCEPT ![v].shape = One] /\ UNCHANGED ge
SetShapeRange(v, r) ==
    /\ Move /\ desc[v] # NoImpl /\ desc' = [desc EXCEPT ![v].range = r] /\ UNCHANGED <<shapes, ge>>
SetFields(v, f, s) ==
    /\ Move /\ desc[v] # NoImpl
    /\ desc' = [desc EXCEPT ![v].oformat = f, ![v].size = s, ![v].cnt = s, ![v].name = "x"]
    /\ UNCHANGED <<shapes, ge>>

\* the conversions
ToGe(v) == /\ Move /\ ge' = [ge EXCEPT ![v] = TensorDesc2GeTensorDesc(Told(v), desc[v] # NoImpl)]
           /\ UNCHANGED <<shapes, desc>>
ToUser(v) == /\ Move /\ Holding(v, GeTensorDesc2TensorDesc(ge[v])) /\ UNCHANGED ge
\* what the internal side does to a description in between
ChangeGe(v, i, n, t) ==
    /\ Move /\ ge' = [ge EXCEPT ![v] = SetOriginDataType(SetDataType(GeSetDim(@, i, n), t), t)]
    /\ UNCHANGED <<shapes, desc>>

DescriptionsInit ==
    /\ shapes = [s \in ShapeIds |-> << >>] /\ desc = [v \in Vars |-> NoImpl]
    /\ ge = [v \in Vars |-> DefaultGe] /\ moves = 0
DescriptionsNext ==
    \/ \E v \in Vars, d, e \in DimValues, f \in DescFormats, t \in DescTypes : NewTensorDesc(v, <<d, e>>, f, t)
    \/ \E v, w \in Vars : CopyTensorDesc(v, w) \/ MoveTensorDesc(v, w) \/ SetOriginShape(v, w)
    \/ \E v \in Vars, n \in DimValues : SetDim(v, 1, n) \/ SetShapeRange(v, <<<<1, n>>>>)
    \/ \E v \in Vars, f \in DescFormats, s \in DimValues : SetFields(v, f, s)
    \/ \E v \in Vars : SetUnknownDimNumShape(v) \/ ToGe(v) \/ ToUser(v)
    \/ \E v \in Vars, i \in 1 .. 2, n \in DimValues, t \in DescTypes : ChangeGe(v, i, n, t)

DescriptionsSpec == DescriptionsInit /\ [][DescriptionsNext]_descVars

----------------------------------------------------------------------------
(* A description that goes through the internal form and back tells the    *)
(* user the same, whatever was done to it before, and also when it was     *)
(* moved from: the exceptions are a rank that SetDim made unknown, which   *)
(* comes back as {-2}, a count of dimensions, which comes back as a number *)
(* of 32 bits without sign, and a type that has no proto type.             *)
DescriptionsConvert ==
    \A v \in Vars :
        LET t == Told(v)
            u == GeTensorDesc2TensorDesc(TensorDesc2GeTensorDesc(t, desc[v] # NoImpl))
        IN  (t.dtype \in MapTypes)
            => u = [t EXCEPT !.dims = ShapeImpl(@), !.odims = ShapeImpl(@), !.cnt = @ % (UInt32Max + 1)]

(* Of two dimensions, Shape::GetShapeSize gives the exact product, or zero *)
(* where it does not fit: the test divides, with four combinations of      *)
(* signs, and rounds towards zero. GeShape, which multiplies and wraps,    *)
(* agrees where it fits. An unknown dimension gives minus one, unless the  *)
(* test comes first. Tensor::IsValid takes the bytes that a known size     *)
(* calls for and no others, one element for an empty shape.                *)
SizesAreExact ==
    \A s \in ShapeIds :
        LET d == shapes[s]
            exact == d[1] * d[2]
            unknown == Range(d) \cap {UnknownDim, UnknownDimNum} # {}
            size == UserSize(d)
        IN  /\ Len(d) = 2 =>
                 /\ unknown => size \in {UnknownDim, 0} /\ GeSize(d) = UnknownDim
                 /\ ~unknown /\ exact \in Int64Min .. Int64Max => size = exact /\ GeSize(d) = exact
                 /\ ~unknown /\ exact \notin Int64Min .. Int64Max => size = 0
            /\ size >= 0 => \A length \in {1, 2}, bytes \in 0 .. 2 :
                 IsValid(size, bytes, length) <=> (bytes = size * length \/ (size = 0 /\ bytes = length))

(* TensorDesc and GeTensorDesc convert into each other, and the numbers of  *)
(* elements and bytes computed from either are right or refused.            *)
DescriptionsAgree == DescriptionsConvert /\ SizesAreExact
=============================================================================
